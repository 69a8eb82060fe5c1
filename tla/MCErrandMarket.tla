--------------------------- MODULE MCErrandMarket ---------------------------
(* One errand for two accounts that are both client and employee: either may   *)
(* post it, both may accept it, also one's own.  Two errands for one client    *)
(* and one employee: ratings accumulate.                                       *)
EXTENDS ErrandMarket, TLC

CONSTANTS carol, emma, t1, t2

MCPair == {carol, emma}
MCEmma == {emma}
MCCarol == {carol}

MCOneTask == {t1}
MCTwoTasks == {t1, t2}
MCErrands == Permutations(MCTwoTasks)

MCOneStar == {10}
MCStars == {3, 14}
=============================================================================
