---------------------------- MODULE MCLocalStore ----------------------------
(* The instance of LocalStore that TLC checks. *)
EXTENDS LocalStore

CONSTANTS f, g

MCField == {f, g}
AnyMask == (SUBSET MCField) \ {{}}
=============================================================================
