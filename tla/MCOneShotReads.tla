--------------------------- MODULE MCOneShotReads ---------------------------
(* Two calls of getDocument at a time, for two documents or for the same one;  *)
(* or a single call.                                                           *)
EXTENDS OneShotReads

CONSTANTS first, second, alice, bob

MCReader == {first, second}
MCTarget == {alice, bob}
OneTarget == {alice}
OneReader == {first}
=============================================================================
