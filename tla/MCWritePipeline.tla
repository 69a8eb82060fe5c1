-------------------------- MODULE MCWritePipeline ---------------------------
(* A device on which two accounts sign in; three writes and a pipeline of two *)
(* make the pipeline overflow and refill, be resent and be left at a switch.  *)
EXTENDS WritePipeline

CONSTANTS alice, bob

MCUser == {alice, bob}
=============================================================================
