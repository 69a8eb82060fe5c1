-------------------------- MODULE MCConversations ---------------------------
(* Two users.  One starts conversations that the other reads and answers in    *)
(* the Messages tab (MCOneWay, MCReaders); or both come across each other's    *)
(* errands and may start one at the same time (MCMutual, MCNobody).            *)
EXTENDS Conversations

MCUser == {1, 2}
MCOneWay == [u \in MCUser |-> IF u = 1 THEN {2} ELSE {}]
MCMutual == [u \in MCUser |-> MCUser \ {u}]
MCReaders == {2}
MCNobody == {}
MCConvoId == {1, 2}
MCFirstBody == {"hello"}
MCNextBody == {"more"}
MCTwoAndOne == [u \in MCUser |-> IF u = 1 THEN 2 ELSE 1]
MCTwoEach == [u \in MCUser |-> 2]
=============================================================================
