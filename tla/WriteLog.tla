------------------------------ MODULE WriteLog ------------------------------
(***************************************************************************)
(* What the Firestore client promises the app about the writes it accepts: *)
(* the contract that WritePipeline (the client's write path) implements    *)
(* and on which ErrandMarket (the app) is built.                           *)
(*                                                                         *)
(* Every writer has a first-in first-out log of accepted writes.  The      *)
(* server applies them in that order; the head leaves the log when its     *)
(* acknowledgement arrives, or when the server rejects it.  If the         *)
(* connection is lost between the two, the applied but unacknowledged      *)
(* writes are sent, and applied, again.                                    *)
(***************************************************************************)
EXTENDS Naturals, Sequences

CONSTANTS
    Writer,     \* the signed-in accounts
    Write       \* the writes they may submit

VARIABLES
    pending,    \* pending[w]: accepted and not yet acknowledged, oldest first
    applied     \* applied[w]: how many of pending[w], from its head, the server
                \* has applied over the present connection

logVars == <<pending, applied>>

LogTypeOK ==
    /\ pending \in [Writer -> Seq(Write)]
    /\ applied \in [Writer -> Nat]

LogInit ==
    /\ pending = [w \in Writer |-> << >>]
    /\ applied = [w \in Writer |-> 0]

(* The app hands the client a write; it is durable from here on. *)
Submit(w, x) ==
    /\ pending' = [pending EXCEPT ![w] = Append(@, x)]
    /\ UNCHANGED applied

(* The write the server applies next, and the step that applies it. *)
HasNext(w) == applied[w] < Len(pending[w])

NextToApply(w) == pending[w][applied[w] + 1]

Apply(w) ==
    /\ HasNext(w)
    /\ applied' = [applied EXCEPT ![w] = @ + 1]
    /\ UNCHANGED pending

(* The client learns that the head was applied. *)
Acknowledge(w) ==
    /\ applied[w] > 0
    /\ pending' = [pending EXCEPT ![w] = Tail(@)]
    /\ applied' = [applied EXCEPT ![w] = @ - 1]

(* The server refuses the head for good. *)
Reject(w) ==
    /\ pending[w] # << >>
    /\ applied[w] = 0
    /\ pending' = [pending EXCEPT ![w] = Tail(@)]
    /\ UNCHANGED applied

(* The connection is lost: what was applied without an answer is due again. *)
Reconnect(w) ==
    /\ applied[w] > 0
    /\ applied' = [applied EXCEPT ![w] = 0]
    /\ UNCHANGED pending

LogNext ==
    \E w \in Writer :
        \/ \E x \in Write : Submit(w, x)
        \/ Apply(w)
        \/ Acknowledge(w)
        \/ Reject(w)
        \/ Reconnect(w)

LogSpec == LogInit /\ [][LogNext]_logVars
=============================================================================
