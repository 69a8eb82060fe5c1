----------------------- MODULE ErrandSettlementProofs -----------------------
(***************************************************************************)
(* Theorems about the settling of errands in ErrandMarket: who pays and    *)
(* rates, how often, and what becomes of the marks while logs are sent     *)
(* again and pages are out of date.                                        *)
(***************************************************************************)
EXTENDS ErrandMarketProofs

-----------------------------------------------------------------------------
(* The inductive invariant. *)

Posting(u, t) == Setting(u, t, "clientID")

(* The errand is u's: the server says so, or the posting is in u's log. *)
Owns(u, t) == (Exists(t) /\ documents[t].clientID = u) \/ Posting(u, t) # {}

(* A payment or rating mark. *)
IsMark(x) == x.doc \in Task /\ DOMAIN x.set \in {{"hasPaid"}, {"employeeRated"}}

(* By the k-th write of u's log the errand has an employee that no posting    *)
(* still clears: u's own acceptance goes before, or it is on the server and   *)
(* the posting is acknowledged.                                               *)
Assigned(u, t, k) ==
    \/ Posting(u, t) = {} /\ Exists(t) /\ documents[t].employeeID # NoOne
    \/ \E j \in Setting(u, t, "employeeID") :
          j < k /\ pending[u][j].set["employeeID"] # NoOne

AssignedOnPhone(u, t) == Assigned(u, t, Len(pending[u]) + 1)

(* A posting comes from its client, once, and before all else on the errand.  *)
PostingsComeFirst ==
    \A u \in User, t \in Task : \A i \in Posting(u, t) :
        /\ pending[u][i].set = NewErrand(u)
        /\ \A j \in DOMAIN pending[u] : pending[u][j].doc = t => i <= j

OneOwner == \A u, v \in User, t \in Task : Owns(u, t) /\ Owns(v, t) => u = v

MarksAreOwn ==
    \A u \in User, t \in Task : \A k \in DOMAIN pending[u] :
        pending[u][k].doc = t /\ IsMark(pending[u][k]) => Owns(u, t) /\ Assigned(u, t, k)

(* What the server holds of an errand after it applied the owner's writes:    *)
(* the last mark, and an employee once an acceptance of the owner is there.   *)
AppliedMarksShow ==
    \A u \in User, t \in Task, f \in {"hasPaid", "employeeRated"} :
        \A m \in Setting(u, t, f) :
            m <= applied[u] /\ (\A j \in Setting(u, t, f) : j <= applied[u] => j <= m)
                => documents[t][f] = pending[u][m].set[f]

AppliedAcceptsShow ==
    \A u \in User, t \in Task : Owns(u, t) =>
        \A j \in Setting(u, t, "employeeID") :
            j <= applied[u] /\ pending[u][j].set["employeeID"] # NoOne
                => documents[t].employeeID # NoOne

OwnerInv ==
    /\ PostingsComeFirst
    /\ OneOwner
    /\ MarksAreOwn
    /\ AppliedMarksShow
    /\ AppliedAcceptsShow
    /\ SettledErrandIsAssigned

(* The errands that can be paid or rated from a page.                         *)
SettleableOn(p) == IF p.name \in {"recent", "pay", "rate"} THEN ErrandsOn(p) ELSE {}

RowsOn(p) ==
    CASE p.name = "recent" -> p.rows
      [] p.name \in {"pay", "rate"} -> p.under
      [] OTHER -> {}

PagesAreOwn ==
    \A u \in User : \A t \in SettleableOn(page[u]) : Owns(u, t) /\ AssignedOnPhone(u, t)

(* Nothing on a page offers to rate an errand again.                          *)
RatedStaysRated ==
    /\ \A t \in Task : timesRated[t] > 0 =>
          \E u \in User : SettledOnPhone(u, t, "employeeRated")
    /\ \A u \in User : \A row \in RowsOn(page[u]) :
          ~row.employeeRated => timesRated[row.docID] = 0
    /\ \A u \in User : page[u].name = "rate" => timesRated[page[u].docID] = 0

SettlementInv == OwnerInv /\ PagesAreOwn /\ RatedOnce /\ RatedStaysRated

-----------------------------------------------------------------------------
(* Writes and what a phone makes of them. *)

LEMMA WriteKinds ==
  ASSUME NEW x \in Write, x.doc \in Task
  PROVE  /\ "clientID" \in DOMAIN x.set =>
              x.set \in Errand /\ {"employeeID", "hasPaid", "employeeRated"} \subseteq DOMAIN x.set
         /\ \A f \in {"hasPaid", "employeeRated"} :
              f \in DOMAIN x.set /\ "clientID" \notin DOMAIN x.set =>
                 IsMark(x) /\ x.set[f] = TRUE
         /\ "employeeID" \in DOMAIN x.set /\ "clientID" \notin DOMAIN x.set =>
              x.set["employeeID"] \in User /\ x.set["employeeID"] # NoOne
         /\ IsMark(x) => "clientID" \notin DOMAIN x.set /\ "employeeID" \notin DOMAIN x.set
<1>1. CASE x.set \in Errand
  BY <1>1 DEF Errand, IsMark
<1>2. CASE x.set \in [employeeID : User]
  BY <1>2, MarketAssumption DEF IsMark
<1>3. CASE x.set \in [hasPaid : {TRUE}]
  BY <1>3 DEF IsMark
<1>4. CASE x.set \in [employeeRated : {TRUE}]
  BY <1>4 DEF IsMark
<1> QED BY <1>1, <1>2, <1>3, <1>4, MarketAssumption DEF Write

LEMMA LogTypes ==
  ASSUME TypeOK, NEW u \in User
  PROVE  /\ pending[u] \in Seq(Write) /\ Len(pending[u]) \in Nat
         /\ DOMAIN pending[u] = 1..Len(pending[u])
         /\ \A i \in DOMAIN pending[u] : pending[u][i] \in Write
         /\ applied[u] \in Nat
BY LenProperties, ElementOfSeq DEF TypeOK

(* A write that sets a mark makes its author the owner. *)
LEMMA SettersOwn ==
  ASSUME TypeOK, OwnerInv, NEW u \in User, NEW t \in Task,
         NEW f \in {"hasPaid", "employeeRated"}, NEW m \in Setting(u, t, f)
  PROVE  Owns(u, t)
<1>1. /\ m \in DOMAIN pending[u] /\ pending[u][m].doc = t /\ f \in DOMAIN pending[u][m].set
      /\ pending[u][m] \in Write
  BY LogTypes DEF Setting
<1>2. CASE "clientID" \in DOMAIN pending[u][m].set
  BY <1>1, <1>2 DEF Setting, Posting, Owns
<1>3. CASE "clientID" \notin DOMAIN pending[u][m].set
  BY <1>1, <1>3, WriteKinds DEF OwnerInv, MarksAreOwn
<1> QED BY <1>2, <1>3

(* To see the phone's client of an errand is to own it. *)
LEMMA SeenClient ==
  IInv /\ OwnerInv =>
      \A u \in User, t \in Task :
         Owns(u, t) <=> LocallyExists(u, t) /\ LocalValue(u, t, "clientID") = u
<1> SUFFICES ASSUME IInv, OwnerInv, NEW u \in User, NEW t \in Task
             PROVE  Owns(u, t) <=> LocallyExists(u, t) /\ LocalValue(u, t, "clientID") = u
  OBVIOUS
<1>1. TypeOK /\ pending[u] \in Seq(Write)
  BY LogTypes DEF IInv
<1>2. CASE Posting(u, t) = {}
  BY <1>2 DEF Owns, Posting, LocallyExists, LocalValue
<1>3. CASE Posting(u, t) # {}
  <2>1. PICK i \in Posting(u, t) : LocalValue(u, t, "clientID") = pending[u][i].set["clientID"]
    BY <1>1, <1>3, LocalValueCases DEF Posting
  <2>2. pending[u][i].set = NewErrand(u)
    BY DEF OwnerInv, PostingsComeFirst
  <2> QED BY <1>3, <2>1, <2>2 DEF Owns, Posting, LocallyExists, NewErrand
<1> QED BY <1>2, <1>3

(* What a phone shows of a mark. *)
MarkSeen(u, t, f) ==
    \/ Setting(u, t, f) = {} /\ Exists(t) /\ documents[t][f] = TRUE
    \/ /\ Setting(u, t, f) # {}
       /\ \A m \in Setting(u, t, f) :
             (\A j \in Setting(u, t, f) : j <= m) => pending[u][m].set[f] = TRUE

SeenRight ==
    \A u \in User, t \in Task, f \in {"hasPaid", "employeeRated"} :
        SettledOnPhone(u, t, f) <=> Owns(u, t) /\ MarkSeen(u, t, f)

LEMMA MarkIsSeen == IInv /\ OwnerInv => SeenRight
<1> SUFFICES ASSUME IInv, OwnerInv, NEW u \in User, NEW t \in Task,
                    NEW f \in {"hasPaid", "employeeRated"}
             PROVE  SettledOnPhone(u, t, f) <=> Owns(u, t) /\ MarkSeen(u, t, f)
  BY DEF SeenRight
<1>1. TypeOK /\ pending[u] \in Seq(Write)
  BY LogTypes DEF IInv
<1>2. Owns(u, t) <=> LocallyExists(u, t) /\ LocalValue(u, t, "clientID") = u
  BY SeenClient
<1>3. LocallyExists(u, t) => LocalValue(u, t, f) \in BOOLEAN
  BY <1>1, LocalErrand
<1>4. CASE Setting(u, t, f) = {}
  <2>1. Posting(u, t) = {}
    <3> SUFFICES ASSUME NEW i \in Posting(u, t) PROVE FALSE
      OBVIOUS
    <3>1. i \in DOMAIN pending[u] /\ pending[u][i].doc = t /\ pending[u][i] \in Write
          /\ "clientID" \in DOMAIN pending[u][i].set
      BY <1>1, LogTypes DEF Posting, Setting
    <3>2. f \in DOMAIN pending[u][i].set
      BY <3>1, WriteKinds
    <3> QED BY <1>4, <3>1, <3>2 DEF Setting
  <2>2. LocallyExists(u, t) <=> Exists(t)
    BY <2>1 DEF LocallyExists, Posting
  <2>3. LocalValue(u, t, f) = documents[t][f]
    BY <1>4 DEF LocalValue
  <2> QED BY <1>2, <1>3, <1>4, <2>2, <2>3 DEF SettledOnPhone, MarkSeen
<1>5. CASE Setting(u, t, f) # {}
  <2>1. PICK i \in Setting(u, t, f) : /\ \A j \in Setting(u, t, f) : j <= i
                                     /\ LocalValue(u, t, f) = pending[u][i].set[f]
    BY <1>1, <1>5, LocalValueCases
  <2>2. \A m \in Setting(u, t, f) : (\A j \in Setting(u, t, f) : j <= m) => m = i
    BY <1>1, <2>1, LogTypes DEF Setting
  <2>3. MarkSeen(u, t, f) <=> pending[u][i].set[f] = TRUE
    BY <1>5, <2>1, <2>2 DEF MarkSeen
  <2> QED BY <1>2, <1>3, <2>1, <2>3 DEF SettledOnPhone
<1> QED BY <1>4, <1>5

LEMMA MarkIsSeenNext == (IInv /\ OwnerInv)' => SeenRight'
BY MarkIsSeen, PTL

-----------------------------------------------------------------------------
(* No step takes an errand, its employee or its marks from the phone of the    *)
(* client.                                                                     *)

KeepsErrands ==
    \A u \in User, t \in Task : Owns(u, t) =>
        /\ Owns(u, t)'
        /\ AssignedOnPhone(u, t) => AssignedOnPhone(u, t)'
        /\ \A f \in {"hasPaid", "employeeRated"} : MarkSeen(u, t, f) => MarkSeen(u, t, f)'

LEMMA ReconnectOwner ==
  ASSUME IInv, OwnerInv, NEW u \in User, ConnectionLost(u)
  PROVE  OwnerInv' /\ KeepsErrands
<1>1. /\ applied' = [applied EXCEPT ![u] = 0]
      /\ UNCHANGED <<documents, pending>>
  BY DEF ConnectionLost, Log!Reconnect
<1>2. \A v \in User : applied'[v] \in Nat /\ applied'[v] <= applied[v]
                      /\ (v = u => applied'[v] = 0) /\ (v # u => applied'[v] = applied[v])
  BY <1>1 DEF IInv, TypeOK
<1>3. /\ \A v, t, f : Setting(v, t, f)' = Setting(v, t, f)
      /\ \A t : Exists(t)' = Exists(t)
  BY <1>1 DEF Setting, Exists
<1>4. /\ \A v, t : Posting(v, t)' = Posting(v, t)
      /\ \A v, t : Owns(v, t)' = Owns(v, t)
      /\ \A v, t, k : Assigned(v, t, k)' = Assigned(v, t, k)
  BY <1>1, <1>3 DEF Posting, Owns, Assigned
<1>5. \A v \in User : \A t, f : \A j \in Setting(v, t, f) : j \in Nat /\ j > 0
  BY LogTypes DEF IInv, Setting
<1>6. PostingsComeFirst' /\ OneOwner' /\ MarksAreOwn'
  BY <1>1, <1>4 DEF OwnerInv, PostingsComeFirst, OneOwner, MarksAreOwn
<1>7. AppliedMarksShow'
  BY <1>1, <1>2, <1>3, <1>5 DEF OwnerInv, AppliedMarksShow
<1>8. AppliedAcceptsShow'
  BY <1>1, <1>2, <1>3, <1>4, <1>5 DEF OwnerInv, AppliedAcceptsShow
<1>9. SettledErrandIsAssigned'
  BY <1>1, <1>3 DEF OwnerInv, SettledErrandIsAssigned, Settled
<1>10. KeepsErrands
  BY <1>1, <1>3, <1>4 DEF KeepsErrands, AssignedOnPhone, MarkSeen
<1> QED BY <1>6, <1>7, <1>8, <1>9, <1>10 DEF OwnerInv

LEMMA SameLogsOwner ==
  ASSUME OwnerInv, UNCHANGED <<documents, pending, applied>>
  PROVE  OwnerInv' /\ KeepsErrands
<1>1. /\ \A v, t, f : Setting(v, t, f)' = Setting(v, t, f)
      /\ \A t : Exists(t)' = Exists(t)
  BY DEF Setting, Exists
<1>2. /\ \A v, t : Posting(v, t)' = Posting(v, t)
      /\ \A v, t : Owns(v, t)' = Owns(v, t)
      /\ \A v, t, k : Assigned(v, t, k)' = Assigned(v, t, k)
  BY <1>1 DEF Posting, Owns, Assigned
<1>3. PostingsComeFirst' /\ OneOwner' /\ MarksAreOwn'
  BY <1>2 DEF OwnerInv, PostingsComeFirst, OneOwner, MarksAreOwn
<1>4. AppliedMarksShow'
  BY <1>1 DEF OwnerInv, AppliedMarksShow
<1>5. AppliedAcceptsShow'
  BY <1>1, <1>2 DEF OwnerInv, AppliedAcceptsShow
<1>6. SettledErrandIsAssigned'
  BY <1>1 DEF OwnerInv, SettledErrandIsAssigned, Settled
<1>7. KeepsErrands
  BY <1>1, <1>2 DEF KeepsErrands, AssignedOnPhone, MarkSeen
<1> QED BY <1>3, <1>4, <1>5, <1>6, <1>7 DEF OwnerInv

(* What appending writes xs to the log of u does to the positions.            *)
LEMMA AppendedSetting ==
  ASSUME TypeOK, NEW u \in User, NEW xs \in Seq(Write),
         pending' = [pending EXCEPT ![u] = @ \o xs]
  PROVE  /\ \A v \in User \ {u} : \A t, f :
               pending'[v] = pending[v] /\ Setting(v, t, f)' = Setting(v, t, f)
         /\ \A i \in 1..Len(pending[u]) : i \in DOMAIN pending'[u] /\ pending'[u][i] = pending[u][i]
         /\ \A i \in DOMAIN pending'[u] : i \in Nat /\ i > 0 /\
               (i > Len(pending[u]) => \E k \in 1..Len(xs) :
                   i = Len(pending[u]) + k /\ pending'[u][i] = xs[k])
         /\ \A t, f : Setting(u, t, f)  = {i \in Setting(u, t, f)' : i <= Len(pending[u])}
         /\ \A t, f : \A i \in Setting(u, t, f)' : i > Len(pending[u]) =>
               \E k \in 1..Len(xs) : /\ i = Len(pending[u]) + k /\ pending'[u][i] = xs[k]
                                     /\ xs[k].doc = t /\ f \in DOMAIN xs[k].set
<1>1. /\ pending[u] \in Seq(Write) /\ Len(pending[u]) \in Nat
      /\ DOMAIN pending[u] = 1..Len(pending[u]) /\ Len(xs) \in Nat
  BY LogTypes, LenProperties
<1>2. pending'[u] = pending[u] \o xs /\ \A v \in User \ {u} : pending'[v] = pending[v]
  BY DEF TypeOK
<1>3. /\ pending'[u] \in Seq(Write)
      /\ Len(pending'[u]) = Len(pending[u]) + Len(xs)
      /\ DOMAIN pending'[u] = 1..Len(pending'[u])
      /\ \A i \in 1..Len(pending[u]) : pending'[u][i] = pending[u][i]
      /\ \A i \in 1..Len(pending'[u]) : i > Len(pending[u]) => pending'[u][i] = xs[i - Len(pending[u])]
  BY <1>1, <1>2, ConcatProperties, LenProperties
<1>4. \A v \in User \ {u} : \A t, f :
         pending'[v] = pending[v] /\ Setting(v, t, f)' = Setting(v, t, f)
  BY <1>2 DEF Setting
<1>5. \A i \in 1..Len(pending[u]) : i \in DOMAIN pending'[u] /\ pending'[u][i] = pending[u][i]
  BY <1>1, <1>3
<1>6. ASSUME NEW i \in DOMAIN pending'[u], i > Len(pending[u])
      PROVE  \E k \in 1..Len(xs) : i = Len(pending[u]) + k /\ pending'[u][i] = xs[k]
  <2>1. i - Len(pending[u]) \in 1..Len(xs) /\ i = Len(pending[u]) + (i - Len(pending[u]))
    BY <1>1, <1>3, <1>6
  <2> QED BY <1>3, <1>6, <2>1
<1>7. \A t, f : Setting(u, t, f)  = {i \in Setting(u, t, f)' : i <= Len(pending[u])}
  BY <1>1, <1>3, <1>5 DEF Setting
<1>8. \A t, f : \A i \in Setting(u, t, f)' : /\ i \in DOMAIN pending'[u] /\ pending'[u][i].doc = t
                                            /\ f \in DOMAIN pending'[u][i].set
  BY DEF Setting
<1>9. ASSUME NEW t, NEW f, NEW i \in Setting(u, t, f)', i > Len(pending[u])
      PROVE  \E k \in 1..Len(xs) : /\ i = Len(pending[u]) + k /\ pending'[u][i] = xs[k]
                                   /\ xs[k].doc = t /\ f \in DOMAIN xs[k].set
  <2>1. i \in DOMAIN pending'[u] /\ pending'[u][i].doc = t /\ f \in DOMAIN pending'[u][i].set
    BY <1>8
  <2>2. PICK k \in 1..Len(xs) : i = Len(pending[u]) + k /\ pending'[u][i] = xs[k]
    BY <1>6, <1>9, <2>1
  <2> QED BY <2>1, <2>2
<1>10. \A i \in DOMAIN pending'[u] : i \in Nat /\ i > 0
  BY <1>1, <1>3
<1> QED BY <1>4, <1>5, <1>6, <1>7, <1>9, <1>10

(* The client's own writes, no posting among them: a mark only for an errand   *)
(* that is the client's and has an employee.                                   *)
LEMMA SubmitOwner ==
  ASSUME IInv, OwnerInv, NEW u \in User, NEW xs \in Seq(Write),
         pending' = [pending EXCEPT ![u] = @ \o xs], UNCHANGED <<documents, applied>>,
         \A k \in 1..Len(xs) :
            /\ "clientID" \notin DOMAIN xs[k].set
            /\ IsMark(xs[k]) => Owns(u, xs[k].doc) /\ AssignedOnPhone(u, xs[k].doc)
  PROVE  OwnerInv' /\ KeepsErrands
<1> DEFINE n == Len(pending[u])
<1>1. /\ \A v \in User : DOMAIN pending[v] = 1..Len(pending[v]) /\ Len(pending[v]) \in Nat
                         /\ applied[v] \in Nat /\ applied[v] <= Len(pending[v])
      /\ n \in Nat /\ TypeOK
  BY LogTypes DEF IInv, WritesFindTheirErrand
<1>2. /\ \A v \in User \ {u} : \A t, f :
            pending'[v] = pending[v] /\ Setting(v, t, f)' = Setting(v, t, f)
      /\ \A i \in 1..n : i \in DOMAIN pending'[u] /\ pending'[u][i] = pending[u][i]
      /\ \A i \in DOMAIN pending'[u] : i \in Nat /\ i > 0 /\
            (i > n => \E k \in 1..Len(xs) : i = n + k /\ pending'[u][i] = xs[k])
      /\ \A t, f : Setting(u, t, f)  = {i \in Setting(u, t, f)' : i <= n}
      /\ \A t, f : \A i \in Setting(u, t, f)' : i > n =>
            \E k \in 1..Len(xs) : /\ i = n + k /\ pending'[u][i] = xs[k]
                                  /\ xs[k].doc = t /\ f \in DOMAIN xs[k].set
  BY <1>1, AppendedSetting
<1>3. \A v \in User : \A t, f : \A j \in Setting(v, t, f)' :
         j \in DOMAIN pending'[v] /\ j \in Nat /\ j > 0
  BY <1>1, <1>2 DEF Setting
<1>4. \A t : Exists(t)' = Exists(t)
  BY DEF Exists
<1> HIDE DEF n
<1>5. ASSUME NEW v \in User, NEW t
      PROVE  Posting(v, t)' = Posting(v, t)
  <2>1. CASE v # u
    BY <1>2, <2>1 DEF Posting
  <2>2. CASE v = u
    <3>1. \A i \in Setting(u, t, "clientID")' : ~(i > n)
      BY <1>2
    <3>2. \A i \in Setting(u, t, "clientID")' : i <= n
      BY <1>1, <1>3, <3>1
    <3>3. Setting(u, t, "clientID") = {i \in Setting(u, t, "clientID")' : i <= n}
      BY <1>2
    <3>4. Setting(u, t, "clientID")' = Setting(u, t, "clientID")
      BY <3>2, <3>3
    <3> QED BY <2>2, <3>4 DEF Posting
  <2> QED BY <2>1, <2>2
<1>6. \A v \in User : \A t : Owns(v, t)' = Owns(v, t)
  BY <1>4, <1>5 DEF Owns
<1>7. \A v \in User : \A t, f : \A j \in Setting(v, t, f) :
         /\ j \in Setting(v, t, f)' /\ pending'[v][j] = pending[v][j]
         /\ j \in DOMAIN pending[v] /\ j \in Nat /\ j > 0 /\ (v = u => j <= n)
  <2>1. \A v \in User : \A t, f : \A j \in Setting(v, t, f) : j \in DOMAIN pending[v]
    BY DEF Setting
  <2> QED BY <1>1, <1>2, <2>1 DEF n
<1>8. ASSUME NEW v \in User, NEW t, NEW k \in Nat, NEW m \in Nat, k <= m, Assigned(v, t, k)
      PROVE  Assigned(v, t, m)'
  <2>1. CASE Posting(v, t) = {} /\ Exists(t) /\ documents[t].employeeID # NoOne
    BY <1>4, <1>5, <2>1 DEF Assigned
  <2>2. CASE \E j \in Setting(v, t, "employeeID") :
                j < k /\ pending[v][j].set["employeeID"] # NoOne
    <3>1. PICK j \in Setting(v, t, "employeeID") :
             j < k /\ pending[v][j].set["employeeID"] # NoOne
      BY <2>2
    <3>2. j \in Setting(v, t, "employeeID")' /\ pending'[v][j] = pending[v][j] /\ j < m
      BY <1>7, <1>8, <3>1
    <3> QED BY <3>1, <3>2 DEF Assigned
  <2> QED BY <1>8, <2>1, <2>2 DEF Assigned
<1>9. PostingsComeFirst'
  <2> SUFFICES ASSUME NEW v \in User, NEW t \in Task, NEW i \in Posting(v, t)'
               PROVE  /\ pending'[v][i].set = NewErrand(v)
                      /\ \A j \in DOMAIN pending'[v] : pending'[v][j].doc = t => i <= j
    BY DEF PostingsComeFirst
  <2>1. /\ i \in Posting(v, t) /\ pending[v][i].set = NewErrand(v)
        /\ \A j \in DOMAIN pending[v] : pending[v][j].doc = t => i <= j
    BY <1>5 DEF OwnerInv, PostingsComeFirst
  <2>2. pending'[v][i] = pending[v][i] /\ i \in Nat /\ (v = u => i <= n)
    BY <1>7, <2>1 DEF Posting
  <2>3. CASE v # u
    BY <1>2, <2>1, <2>2, <2>3
  <2>4. ASSUME v = u, NEW j \in DOMAIN pending'[u], pending'[u][j].doc = t
        PROVE  i <= j
    <3>1. j \in Nat /\ j > 0
      BY <1>2, <2>4
    <3>2. CASE j <= n
      BY <1>1, <1>2, <2>1, <2>4, <3>1, <3>2 DEF n
    <3>3. CASE j > n
      BY <1>1, <2>2, <2>4, <3>1, <3>3
    <3> QED BY <1>1, <3>1, <3>2, <3>3
  <2> QED BY <2>1, <2>2, <2>3, <2>4
<1>10. OneOwner'
  BY <1>6 DEF OwnerInv, OneOwner
<1>11. MarksAreOwn'
  <2> SUFFICES ASSUME NEW v \in User, NEW t \in Task, NEW k \in DOMAIN pending'[v],
                      pending'[v][k].doc = t, IsMark(pending'[v][k])
               PROVE  Owns(v, t)' /\ Assigned(v, t, k)'
    BY DEF MarksAreOwn, IsMark
  <2>1. ASSUME k \in DOMAIN pending[v], pending'[v][k] = pending[v][k]
        PROVE  Owns(v, t)' /\ Assigned(v, t, k)'
    <3>1. Owns(v, t) /\ Assigned(v, t, k) /\ k \in Nat
      BY <1>1, <2>1 DEF OwnerInv, MarksAreOwn
    <3> QED BY <1>6, <1>8, <3>1
  <2>2. CASE v # u
    BY <1>2, <2>1, <2>2
  <2>3. CASE v = u /\ k <= n
    <3>1. k \in 1..n
      BY <1>1, <1>2, <2>3
    <3> QED BY <1>1, <1>2, <2>1, <2>3, <3>1 DEF n
  <2>4. CASE v = u /\ k > n
    <3>1. PICK l \in 1..Len(xs) : k = n + l /\ pending'[u][k] = xs[l]
      BY <1>2, <2>4
    <3>2. Owns(u, t) /\ Assigned(u, t, n + 1)
      BY <2>4, <3>1 DEF AssignedOnPhone, n
    <3>3. n + 1 \in Nat /\ k \in Nat /\ n + 1 <= k
      BY <1>1, <1>2, <2>4, <3>1
    <3> QED BY <1>6, <1>8, <2>4, <3>2, <3>3
  <2>5. v = u => k <= n \/ k > n
    BY <1>1, <1>2
  <2> QED BY <2>2, <2>3, <2>4, <2>5
<1>12. \A v \in User : \A t, f : \A j \in Setting(v, t, f)' :
          j <= applied[v] => j \in Setting(v, t, f) /\ pending'[v][j] = pending[v][j]
  <2>1. applied[u] <= n
    BY <1>1 DEF n
  <2>2. \A t, f : \A j \in Setting(u, t, f)' : j <= applied[u] => j <= n
    BY <1>1, <1>3, <2>1
  <2> QED BY <1>2, <1>7, <2>2
<1>13. AppliedMarksShow'
  BY <1>7, <1>12 DEF OwnerInv, AppliedMarksShow
<1>14. AppliedAcceptsShow'
  BY <1>6, <1>12 DEF OwnerInv, AppliedAcceptsShow
<1>15. SettledErrandIsAssigned'
  BY <1>4 DEF OwnerInv, SettledErrandIsAssigned, Settled
<1>16. ASSUME NEW v \in User, NEW t \in Task, AssignedOnPhone(v, t)
       PROVE  AssignedOnPhone(v, t)'
  <2>1. CASE v # u
    <3>1. Assigned(v, t, Len(pending[v]) + 1) /\ Len(pending[v]) + 1 \in Nat
      BY <1>1, <1>16, <2>1 DEF AssignedOnPhone
    <3>2. Len(pending'[v]) + 1 \in Nat /\ Len(pending[v]) + 1 <= Len(pending'[v]) + 1
      BY <1>1, <1>2, <2>1, <3>1
    <3>3. \A m \in Nat : Len(pending[v]) + 1 <= m => Assigned(v, t, m)'
      BY <1>8, <3>1
    <3>4. Assigned(v, t, Len(pending[v]) + 1)'
      BY <3>1, <3>3
    <3>5. \A m : m = Len(pending'[v]) + 1 => (Assigned(v, t, m)' <=> AssignedOnPhone(v, t)')
      BY DEF AssignedOnPhone, Assigned
    <3> QED BY <3>2, <3>3, <3>5
  <2>2. CASE v = u
    <3>1. Len(pending'[u]) \in Nat /\ n <= Len(pending'[u])
      BY <1>1, ConcatProperties, LenProperties DEF n, TypeOK
    <3>2. Assigned(u, t, n + 1)
      BY <1>16, <2>2 DEF AssignedOnPhone, n
    <3>3. \A m \in Nat : n + 1 <= m => Assigned(u, t, m)'
      BY <1>1, <1>8, <3>2
    <3>4. Len(pending'[u]) + 1 \in Nat /\ n + 1 <= Len(pending'[u]) + 1
      BY <1>1, <3>1
    <3>5. \A m : m = Len(pending'[u]) + 1 => (Assigned(u, t, m)' <=> AssignedOnPhone(u, t)')
      BY DEF AssignedOnPhone, Assigned
    <3> QED BY <2>2, <3>3, <3>4, <3>5
  <2> QED BY <2>1, <2>2
<1>17. ASSUME NEW v \in User, NEW t \in Task, NEW f \in {"hasPaid", "employeeRated"},
              MarkSeen(v, t, f)
       PROVE  MarkSeen(v, t, f)'
  <2>1. CASE v # u
    BY <1>2, <1>4, <1>17, <2>1 DEF MarkSeen
  <2>2. CASE v = u /\ Setting(u, t, f)' = {}
    BY <1>4, <1>7, <1>17, <2>2 DEF MarkSeen
  <2>3. ASSUME v = u, NEW m \in Setting(u, t, f)', \A j \in Setting(u, t, f)' : j <= m
        PROVE  pending'[u][m].set[f] = TRUE
    <3>0. Setting(u, t, f) = {i \in Setting(u, t, f)' : i <= n}
      BY <1>2
    <3>3. m \in Nat /\ n \in Nat /\ m > 0
      BY <1>1, <1>3, <2>3
    <3>1. CASE m > n
      <4>0. m \in DOMAIN pending'[u] /\ pending'[u][m].doc = t /\ f \in DOMAIN pending'[u][m].set
        BY <2>3 DEF Setting
      <4>1. PICK k \in 1..Len(xs) : m = n + k /\ pending'[u][m] = xs[k]
        BY <1>2, <3>1, <4>0
      <4>2. xs[k] \in Write /\ "clientID" \notin DOMAIN xs[k].set
        BY LenProperties, ElementOfSeq
      <4> QED BY <4>0, <4>1, <4>2, WriteKinds
    <3>2. CASE m <= n
      <4>1. m \in Setting(u, t, f) /\ pending'[u][m] = pending[u][m]
        BY <1>2, <1>3, <2>3, <3>0, <3>2, <3>3
      <4>2. \A j \in Setting(u, t, f) : j <= m
        BY <2>3, <3>0
      <4> QED BY <1>17, <2>3, <4>1, <4>2 DEF MarkSeen
    <3>4. m > n \/ m <= n
      BY <3>3
    <3> QED BY <3>1, <3>2, <3>4, Zenon
  <2> QED BY <2>1, <2>2, <2>3 DEF MarkSeen
<1>18. KeepsErrands
  BY <1>6, <1>16, <1>17 DEF KeepsErrands
<1> QED BY <1>9, <1>10, <1>11, <1>13, <1>14, <1>15, <1>18 DEF OwnerInv

(* A posting: nothing is known of the errand before. *)
LEMMA PostOwner ==
  ASSUME IInv, OwnerInv, NEW u \in User, NEW p \in Task, PostTask(u, p)
  PROVE  OwnerInv' /\ KeepsErrands
<1> DEFINE n == Len(pending[u])
           x == PostWrite(p, u)
<1>1. /\ ~Exists(p) /\ \A v \in User : Posting(v, p) = {}
      /\ pending' = [pending EXCEPT ![u] = Append(@, x)]
      /\ UNCHANGED <<documents, applied>>
  BY DEF PostTask, Log!Submit, Posting
<1>2. /\ \A v \in User : DOMAIN pending[v] = 1..Len(pending[v]) /\ Len(pending[v]) \in Nat
                         /\ applied[v] \in Nat /\ applied[v] <= Len(pending[v])
      /\ n \in Nat /\ TypeOK /\ pending[u] \in Seq(Write)
  BY LogTypes DEF IInv, WritesFindTheirErrand
<1>3. /\ x \in Write /\ x.doc = p /\ x.set = NewErrand(u)
      /\ DOMAIN x.set = {"clientID", "employeeID", "isCompleted", "hasPaid", "employeeRated"}
      /\ x.set["employeeID"] = NoOne /\ ~IsMark(x)
  <2>1. x \in Write /\ x.doc = p /\ x.set = NewErrand(u)
    BY PostWriteType DEF PostWrite
  <2>2. DOMAIN x.set = {"clientID", "employeeID", "isCompleted", "hasPaid", "employeeRated"}
        /\ x.set["employeeID"] = NoOne
    BY <2>1 DEF NewErrand
  <2> QED BY <2>1, <2>2, WriteKinds
<1>4. \A v \in User : \A i \in DOMAIN pending[v] : pending[v][i].doc # p
  <2> SUFFICES ASSUME NEW v \in User, NEW i \in DOMAIN pending[v], pending[v][i].doc = p
               PROVE  FALSE
    OBVIOUS
  <2>1. \E j \in Setting(v, p, "clientID") : j <= i
    BY <1>1 DEF IInv, WritesFindTheirErrand
  <2> QED BY <1>1, <2>1 DEF Posting
<1> HIDE DEF x
<1>5. pending' = [pending EXCEPT ![u] = @ \o <<x>>] /\ <<x>> \in Seq(Write)
      /\ \A k \in 1..Len(<<x>>) : k = 1 /\ <<x>>[k] = x
  <2>1. <<x>> \in Seq(Write) /\ Len(<<x>>) = 1 /\ <<x>>[1] = x
        /\ Append(pending[u], x) = pending[u] \o <<x>>
    BY <1>2, <1>3, OneWrite
  <2>2. \A k \in 1..Len(<<x>>) : k = 1 /\ <<x>>[k] = x
    BY <2>1
  <2>3. pending' = [pending EXCEPT ![u] = @ \o <<x>>]
    BY <1>1, <2>1
  <2> QED BY <2>1, <2>2, <2>3
<1> DEFINE xs == <<x>>
<1> HIDE DEF xs
<1>6. /\ \A v \in User \ {u} : \A t, f :
            pending'[v] = pending[v] /\ Setting(v, t, f)' = Setting(v, t, f)
      /\ \A i \in 1..n : i \in DOMAIN pending'[u] /\ pending'[u][i] = pending[u][i]
      /\ \A i \in DOMAIN pending'[u] : i \in Nat /\ i > 0 /\
            (i > n => i = n + 1 /\ pending'[u][i] = x)
  <2>1. pending' = [pending EXCEPT ![u] = @ \o xs] /\ xs \in Seq(Write)
        /\ \A k \in 1..Len(xs) : k = 1 /\ xs[k] = x
    BY <1>5 DEF xs
  <2>2. /\ \A v \in User \ {u} : \A t, f :
              pending'[v] = pending[v] /\ Setting(v, t, f)' = Setting(v, t, f)
        /\ \A i \in 1..n : i \in DOMAIN pending'[u] /\ pending'[u][i] = pending[u][i]
        /\ \A i \in DOMAIN pending'[u] : i \in Nat /\ i > 0 /\
              (i > n => \E k \in 1..Len(xs) : i = n + k /\ pending'[u][i] = xs[k])
    BY <1>2, <2>1, AppendedSetting
  <2> QED BY <2>1, <2>2
<1> HIDE DEF n
<1>7. \A v \in User : \A i \in DOMAIN pending'[v] :
         \/ i \in DOMAIN pending[v] /\ pending'[v][i] = pending[v][i]
         \/ v = u /\ i = n + 1 /\ pending'[v][i] = x
  <2> SUFFICES ASSUME NEW i \in DOMAIN pending'[u], ~(i > n)
               PROVE  i \in DOMAIN pending[u] /\ pending'[u][i] = pending[u][i]
    BY <1>6
  <2>1. i \in 1..n
    BY <1>2, <1>6
  <2> QED BY <1>2, <1>6, <2>1 DEF n
<1>8. \A v \in User : \A i \in DOMAIN pending[v] : i \in DOMAIN pending'[v]
         /\ pending'[v][i] = pending[v][i] /\ i \in Nat /\ i > 0 /\ (v = u => i <= n)
  BY <1>2, <1>6 DEF n
<1>9. ASSUME NEW v \in User, NEW t, t # p, NEW f
      PROVE  Setting(v, t, f)' = Setting(v, t, f)
  BY <1>3, <1>7, <1>8, <1>9 DEF Setting
<1>10. \A v \in User : \A f : Setting(v, p, f) = {}
  BY <1>4 DEF Setting
<1>11. ASSUME NEW v \in User, NEW f, NEW i \in Setting(v, p, f)'
       PROVE  v = u /\ i = n + 1 /\ pending'[v][i] = x
  BY <1>4, <1>7 DEF Setting
<1>12. \A t : Exists(t)' = Exists(t)
  BY <1>1 DEF Exists
<1>13. \A v \in User : \A t : t # p => Owns(v, t)' = Owns(v, t) /\ Posting(v, t)' = Posting(v, t)
  BY <1>1, <1>9, <1>12 DEF Owns, Posting
<1>14. \A v \in User : ~Owns(v, p) /\ (Owns(v, p)' => v = u)
  BY <1>1, <1>11, <1>12 DEF Owns, Posting
<1>15. PostingsComeFirst'
  <2> SUFFICES ASSUME NEW v \in User, NEW t \in Task, NEW i \in Posting(v, t)'
               PROVE  /\ pending'[v][i].set = NewErrand(v)
                      /\ \A j \in DOMAIN pending'[v] : pending'[v][j].doc = t => i <= j
    BY DEF PostingsComeFirst
  <2>1. CASE t # p
    <3>1. i \in Posting(v, t) /\ i \in DOMAIN pending[v]
      BY <1>13, <2>1 DEF Posting, Setting
    <3>2. pending'[v][i].set = NewErrand(v)
      BY <1>8, <3>1 DEF OwnerInv, PostingsComeFirst
    <3>3. ASSUME NEW j \in DOMAIN pending'[v], pending'[v][j].doc = t
          PROVE  i <= j
      <4>1. j \in DOMAIN pending[v] /\ pending[v][j].doc = t
        BY <1>3, <1>7, <2>1, <3>3
      <4> QED BY <3>1, <4>1 DEF OwnerInv, PostingsComeFirst
    <3> QED BY <3>2, <3>3
  <2>2. CASE t = p
    <3>1. v = u /\ i = n + 1 /\ pending'[v][i] = x
      BY <1>11, <2>2 DEF Posting
    <3>2. ASSUME NEW j \in DOMAIN pending'[v], pending'[v][j].doc = t
          PROVE  j = i
      BY <1>4, <1>7, <2>2, <3>1, <3>2
    <3>3. n + 1 <= n + 1
      BY <1>2
    <3> QED BY <1>3, <3>1, <3>2, <3>3
  <2> QED BY <2>1, <2>2
<1>16. OneOwner'
  BY <1>13, <1>14 DEF OwnerInv, OneOwner
<1>17. \A v \in User : \A t, k : t # p => (Assigned(v, t, k)' <=> Assigned(v, t, k))
  <2> SUFFICES ASSUME NEW v \in User, NEW t, NEW k, t # p
               PROVE  Assigned(v, t, k)' <=> Assigned(v, t, k)
    OBVIOUS
  <2>1. Setting(v, t, "employeeID")' = Setting(v, t, "employeeID")
    BY <1>9
  <2>2. \A j \in Setting(v, t, "employeeID") : pending'[v][j] = pending[v][j]
    BY <1>8 DEF Setting
  <2> QED BY <1>1, <1>12, <1>13, <2>1, <2>2 DEF Assigned
<1>18. MarksAreOwn'
  <2> SUFFICES ASSUME NEW v \in User, NEW t \in Task, NEW k \in DOMAIN pending'[v],
                      pending'[v][k].doc = t, IsMark(pending'[v][k])
               PROVE  Owns(v, t)' /\ Assigned(v, t, k)'
    BY DEF MarksAreOwn, IsMark
  <2>1. k \in DOMAIN pending[v] /\ pending'[v][k] = pending[v][k] /\ t # p
    BY <1>3, <1>4, <1>7
  <2>2. Owns(v, t) /\ Assigned(v, t, k)
    BY <2>1 DEF OwnerInv, MarksAreOwn
  <2> QED BY <1>13, <1>17, <2>1, <2>2
<1>19. \A v \in User : \A t, f : \A j \in Setting(v, t, f)' :
          j <= applied[v] => t # p /\ j \in Setting(v, t, f)
  <2> SUFFICES ASSUME NEW v \in User, NEW t, NEW f, NEW j \in Setting(v, t, f)', j <= applied[v]
               PROVE  t # p
    BY <1>9
  <2>1. CASE t = p
    <3>1. v = u /\ j = n + 1
      BY <1>11, <2>1
    <3>2. applied[u] <= n /\ applied[u] \in Nat /\ n \in Nat
      BY <1>2 DEF n
    <3>3. ~(n + 1 <= applied[u])
      BY <3>2
    <3> QED BY <1>19, <3>1, <3>3
  <2> QED BY <2>1
<1>20. \A v \in User : \A t, f : \A j \in Setting(v, t, f) : pending'[v][j] = pending[v][j]
  BY <1>8 DEF Setting
<1>21. AppliedMarksShow'
  <2> SUFFICES ASSUME NEW v \in User, NEW t \in Task, NEW f \in {"hasPaid", "employeeRated"},
                      NEW m \in Setting(v, t, f)', m <= applied[v],
                      \A j \in Setting(v, t, f)' : j <= applied[v] => j <= m
               PROVE  documents[t][f] = pending'[v][m].set[f]
    BY <1>1 DEF AppliedMarksShow
  <2>1. t # p /\ m \in Setting(v, t, f)
    BY <1>19
  <2>2. Setting(v, t, f)' = Setting(v, t, f)
    BY <1>9, <2>1
  <2>3. \A j \in Setting(v, t, f) : j <= applied[v] => j <= m
    BY <2>2
  <2>4. documents[t][f] = pending[v][m].set[f]
    BY <2>1, <2>3 DEF OwnerInv, AppliedMarksShow
  <2> QED BY <1>20, <2>1, <2>4
<1>22. AppliedAcceptsShow'
  <2> SUFFICES ASSUME NEW v \in User, NEW t \in Task, Owns(v, t)',
                      NEW j \in Setting(v, t, "employeeID")', j <= applied[v],
                      pending'[v][j].set["employeeID"] # NoOne
               PROVE  documents[t].employeeID # NoOne
    BY <1>1 DEF AppliedAcceptsShow
  <2>1. t # p /\ j \in Setting(v, t, "employeeID")
    BY <1>19
  <2>2. Owns(v, t) /\ pending[v][j].set["employeeID"] # NoOne
    BY <1>13, <1>20, <2>1
  <2> QED BY <2>1, <2>2 DEF OwnerInv, AppliedAcceptsShow
<1>23. SettledErrandIsAssigned'
  BY <1>1, <1>12 DEF OwnerInv, SettledErrandIsAssigned, Settled
<1>24. KeepsErrands
  <2> SUFFICES ASSUME NEW v \in User, NEW t \in Task, Owns(v, t)
               PROVE  /\ Owns(v, t)'
                      /\ AssignedOnPhone(v, t) => AssignedOnPhone(v, t)'
                      /\ \A f \in {"hasPaid", "employeeRated"} :
                            MarkSeen(v, t, f) => MarkSeen(v, t, f)'
    BY DEF KeepsErrands
  <2>1. t # p
    BY <1>14
  <2>2. Owns(v, t)'
    BY <1>13, <2>1
  <2>3. ASSUME AssignedOnPhone(v, t)
        PROVE  AssignedOnPhone(v, t)'
    <3>1. CASE Posting(v, t) = {} /\ Exists(t) /\ documents[t].employeeID # NoOne
      BY <1>1, <1>12, <1>13, <2>1, <3>1 DEF AssignedOnPhone, Assigned
    <3>2. CASE \E j \in Setting(v, t, "employeeID") :
                  j < Len(pending[v]) + 1 /\ pending[v][j].set["employeeID"] # NoOne
      <4>1. PICK j \in Setting(v, t, "employeeID") : pending[v][j].set["employeeID"] # NoOne
        BY <3>2
      <4>2. j \in Setting(v, t, "employeeID")' /\ pending'[v][j] = pending[v][j]
        BY <1>9, <1>20, <2>1
      <4>3. j \in DOMAIN pending'[v]
        BY <4>2 DEF Setting
      <4>4. j < Len(pending'[v]) + 1
        <5>1. pending'[v] \in Seq(Write)
          BY <1>1, <1>2, <1>3, AppendProperties DEF TypeOK
        <5>2. j \in 1..Len(pending'[v]) /\ Len(pending'[v]) \in Nat
          BY <4>3, <5>1, LenProperties
        <5> QED BY <5>2
      <4> QED BY <4>1, <4>2, <4>4 DEF AssignedOnPhone, Assigned
    <3> QED BY <2>3, <3>1, <3>2 DEF AssignedOnPhone, Assigned
  <2>4. ASSUME NEW f \in {"hasPaid", "employeeRated"}, MarkSeen(v, t, f)
        PROVE  MarkSeen(v, t, f)'
    <3>1. Setting(v, t, f)' = Setting(v, t, f)
      BY <1>9, <2>1
    <3>2. \A m \in Setting(v, t, f) : pending'[v][m] = pending[v][m]
      BY <1>20
    <3>3. CASE Setting(v, t, f) = {}
      BY <1>1, <1>12, <2>4, <3>1, <3>3 DEF MarkSeen
    <3>4. CASE Setting(v, t, f) # {}
      BY <2>4, <3>1, <3>2, <3>4 DEF MarkSeen
    <3> QED BY <3>3, <3>4
  <2> QED BY <2>2, <2>3, <2>4
<1> QED BY <1>15, <1>16, <1>18, <1>21, <1>22, <1>23, <1>24 DEF OwnerInv

(* The head of the log leaves it: the server has it. *)
LEMMA AcknowledgeOwner ==
  ASSUME IInv, OwnerInv, NEW u \in User, Acknowledged(u)
  PROVE  OwnerInv' /\ KeepsErrands
<1> DEFINE n == Len(pending[u])
<1>1. /\ applied[u] > 0
      /\ pending' = [pending EXCEPT ![u] = Tail(@)]
      /\ applied' = [applied EXCEPT ![u] = @ - 1]
      /\ UNCHANGED documents
  BY DEF Acknowledged, Log!Acknowledge
<1>2. /\ \A v \in User : pending[v] \in Seq(Write) /\ DOMAIN pending[v] = 1..Len(pending[v])
                         /\ Len(pending[v]) \in Nat /\ applied[v] \in Nat
                         /\ applied[v] <= Len(pending[v])
      /\ TypeOK /\ n \in Nat /\ n >= 1
  <2>1. \A v \in User : pending[v] \in Seq(Write) /\ DOMAIN pending[v] = 1..Len(pending[v])
                         /\ Len(pending[v]) \in Nat /\ applied[v] \in Nat
                         /\ applied[v] <= Len(pending[v])
    BY LogTypes DEF IInv, WritesFindTheirErrand
  <2>2. n \in Nat /\ n >= 1
    BY <1>1, <2>1
  <2> QED BY <2>1, <2>2 DEF IInv
<1>3. /\ \A v \in User \ {u} : pending'[v] = pending[v] /\ applied'[v] = applied[v]
      /\ pending'[u] = Tail(pending[u])
      /\ applied'[u] = applied[u] - 1
  BY <1>1, <1>2 DEF TypeOK
<1>4. /\ Len(pending'[u]) = n - 1
      /\ DOMAIN pending'[u] = 1..(n - 1)
      /\ \A k \in 1..(n - 1) : pending'[u][k] = pending[u][k + 1]
  <2>1. pending[u] # << >>
    BY <1>2, EmptySeq
  <2> QED BY <1>2, <1>3, <2>1, HeadTailProperties, LenProperties
<1> HIDE DEF n
<1>5. \A k \in DOMAIN pending'[u] : /\ k + 1 \in DOMAIN pending[u]
                                   /\ pending'[u][k] = pending[u][k + 1] /\ k \in Nat
  BY <1>2, <1>4 DEF n
<1>6. \A k \in DOMAIN pending[u] : k \in Nat /\ k > 0 /\ (k # 1 =>
         /\ k - 1 \in DOMAIN pending'[u] /\ pending'[u][k - 1] = pending[u][k])
  <2> SUFFICES ASSUME NEW k \in DOMAIN pending[u]
               PROVE  k \in Nat /\ k > 0 /\ (k # 1 =>
                        /\ k - 1 \in DOMAIN pending'[u] /\ pending'[u][k - 1] = pending[u][k])
    OBVIOUS
  <2>1. k \in 1..n /\ n \in Nat
    BY <1>2 DEF n
  <2>2. k # 1 => k - 1 \in 1..(n - 1) /\ (k - 1) + 1 = k
    BY <2>1
  <2> QED BY <1>4, <2>1, <2>2
<1>7. /\ \A v \in User \ {u} : \A t, f : Setting(v, t, f)' = Setting(v, t, f)
      /\ \A t, f : \A k \in Setting(u, t, f)' :
            k + 1 \in Setting(u, t, f) /\ pending'[u][k] = pending[u][k + 1] /\ k \in Nat
      /\ \A t, f : \A k \in Setting(u, t, f) : k \in Nat /\ k > 0 /\ (k # 1 =>
            k - 1 \in Setting(u, t, f)' /\ pending'[u][k - 1] = pending[u][k])
  <2>1. \A v \in User \ {u} : \A t, f : Setting(v, t, f)' = Setting(v, t, f)
    BY <1>3 DEF Setting
  <2>2. \A t, f : \A k \in Setting(u, t, f)' :
            k + 1 \in Setting(u, t, f) /\ pending'[u][k] = pending[u][k + 1] /\ k \in Nat
    BY <1>5 DEF Setting
  <2>3. \A t, f : \A k \in Setting(u, t, f) : k \in Nat /\ k > 0 /\ (k # 1 =>
            k - 1 \in Setting(u, t, f)' /\ pending'[u][k - 1] = pending[u][k])
    BY <1>6 DEF Setting
  <2> QED BY <2>1, <2>2, <2>3
<1>8. \A t : Exists(t)' = Exists(t)
  BY <1>1 DEF Exists
<1>9. 1 \in DOMAIN pending[u] /\ \A t \in Task : pending[u][1].doc = t => Exists(t)
  <2>1. 1 \in DOMAIN pending[u] /\ ~(1 > applied[u])
    BY <1>1, <1>2 DEF n
  <2> QED BY <2>1 DEF IInv, WritesFindTheirErrand
<1>10. \A t, f : 1 \in Setting(u, t, f) => pending[u][1].doc = t
  BY DEF Setting
(* Ownership and assignments. *)
<1>11. ASSUME NEW v \in User, NEW t \in Task
       PROVE  Owns(v, t)' <=> Owns(v, t)
  <2>1. CASE v # u
    BY <1>1, <1>7, <1>8, <2>1 DEF Owns, Posting
  <2>2. Owns(u, t)' => Owns(u, t)
    BY <1>1, <1>7, <1>8 DEF Owns, Posting
  <2>3. ASSUME NEW i \in Posting(u, t)
        PROVE  Owns(u, t)'
    <3>1. CASE i # 1
      BY <1>7, <2>3, <3>1 DEF Owns, Posting
    <3>2. CASE i = 1
      <4>1. Exists(t)
        BY <1>9, <1>10, <2>3, <3>2 DEF Posting
      <4>2. documents[t].clientID \in User
        BY <1>2, <4>1 DEF TypeOK, Exists, Errand
      <4>3. Owns(u, t) /\ Owns(documents[t].clientID, t)
        BY <2>3, <4>1 DEF Owns
      <4>4. documents[t].clientID = u
        BY <4>2, <4>3 DEF OwnerInv, OneOwner
      <4> QED BY <1>1, <1>8, <4>1, <4>4 DEF Owns
    <3> QED BY <3>1, <3>2
  <2>4. Exists(t) /\ documents[t].clientID = u => Owns(u, t)'
    BY <1>1, <1>8 DEF Owns
  <2>5. Owns(u, t) => Owns(u, t)'
    BY <2>3, <2>4 DEF Owns
  <2> QED BY <2>1, <2>2, <2>5
<1>12. \A t : \A k \in Posting(u, t)' : k + 1 \in Posting(u, t)
                                       /\ pending'[u][k] = pending[u][k + 1] /\ k \in Nat
  BY <1>7 DEF Posting
<1>13. ASSUME NEW t \in Task, NEW k \in Nat, Owns(u, t), Assigned(u, t, k + 1)
       PROVE  Assigned(u, t, k)'
  <2>1. CASE Posting(u, t) = {} /\ Exists(t) /\ documents[t].employeeID # NoOne
    BY <1>1, <1>8, <1>12, <2>1 DEF Assigned
  <2>2. ASSUME NEW j \in Setting(u, t, "employeeID"), j < k + 1,
               pending[u][j].set["employeeID"] # NoOne, j # 1
        PROVE  Assigned(u, t, k)'
    <3>1. j - 1 \in Setting(u, t, "employeeID")' /\ pending'[u][j - 1] = pending[u][j]
          /\ j \in Nat
      BY <1>7, <2>2
    <3>2. j - 1 < k
      BY <2>2, <3>1
    <3> QED BY <2>2, <3>1, <3>2 DEF Assigned
  <2>3. ASSUME 1 \in Setting(u, t, "employeeID"), pending[u][1].set["employeeID"] # NoOne
        PROVE  Assigned(u, t, k)'
    <3>1. pending[u][1].doc = t /\ Exists(t)
      BY <1>9, <1>10, <2>3
    <3>2. 1 <= applied[u]
      BY <1>1, <1>2
    <3>3. documents[t].employeeID # NoOne
      BY <1>13, <2>3, <3>2 DEF OwnerInv, AppliedAcceptsShow
    <3>4. ASSUME NEW i \in Posting(u, t)' PROVE FALSE
      <4>1. i + 1 \in Posting(u, t) /\ i \in Nat
        BY <1>12
      <4>2. i + 1 <= 1
        BY <1>9, <3>1, <4>1 DEF OwnerInv, PostingsComeFirst
      <4>3. i = 0
        BY <4>1, <4>2
      <4>4. i \in DOMAIN pending'[u]
        BY <3>4 DEF Posting, Setting
      <4>5. i \in 1..(n - 1)
        BY <1>4, <4>4
      <4> QED BY <1>2, <4>3, <4>5
    <3> QED BY <1>1, <1>8, <3>1, <3>3, <3>4 DEF Assigned
  <2> QED BY <1>13, <2>1, <2>2, <2>3 DEF Assigned
<1>14. ASSUME NEW v \in User \ {u}, NEW t, NEW k
       PROVE  Assigned(v, t, k)' <=> Assigned(v, t, k)
  <2>1. Setting(v, t, "clientID")' = Setting(v, t, "clientID")
        /\ Setting(v, t, "employeeID")' = Setting(v, t, "employeeID")
    BY <1>7
  <2> QED BY <1>1, <1>3, <1>8, <2>1 DEF Assigned, Posting
(* The invariant. *)
<1>15. PostingsComeFirst'
  <2> SUFFICES ASSUME NEW v \in User, NEW t \in Task, NEW i \in Posting(v, t)'
               PROVE  /\ pending'[v][i].set = NewErrand(v)
                      /\ \A j \in DOMAIN pending'[v] : pending'[v][j].doc = t => i <= j
    BY DEF PostingsComeFirst
  <2>1. CASE v # u
    BY <1>3, <1>7, <2>1 DEF OwnerInv, PostingsComeFirst, Posting
  <2>2. CASE v = u
    <3>1. i + 1 \in Posting(u, t) /\ pending'[u][i] = pending[u][i + 1] /\ i \in Nat
      BY <1>12, <2>2
    <3>2. /\ pending[u][i + 1].set = NewErrand(u)
          /\ \A j \in DOMAIN pending[u] : pending[u][j].doc = t => i + 1 <= j
      BY <3>1 DEF OwnerInv, PostingsComeFirst
    <3>3. ASSUME NEW j \in DOMAIN pending'[u], pending'[u][j].doc = t
          PROVE  i <= j
      <4>1. j + 1 \in DOMAIN pending[u] /\ pending[u][j + 1].doc = t /\ j \in Nat
        BY <1>5, <3>3
      <4>2. i + 1 <= j + 1
        BY <3>2, <4>1
      <4> QED BY <3>1, <4>1, <4>2
    <3> QED BY <2>2, <3>1, <3>2, <3>3
  <2> QED BY <2>1, <2>2
<1>16. OneOwner'
  BY <1>11 DEF OwnerInv, OneOwner
<1>17. MarksAreOwn'
  <2> SUFFICES ASSUME NEW v \in User, NEW t \in Task, NEW k \in DOMAIN pending'[v],
                      pending'[v][k].doc = t, IsMark(pending'[v][k])
               PROVE  Owns(v, t)' /\ Assigned(v, t, k)'
    BY DEF MarksAreOwn, IsMark
  <2>1. CASE v # u
    <3>1. k \in DOMAIN pending[v] /\ pending'[v][k] = pending[v][k] /\ v \in User \ {u}
      BY <1>3, <2>1
    <3>2. Owns(v, t) /\ Assigned(v, t, k)
      BY <3>1 DEF OwnerInv, MarksAreOwn
    <3> QED BY <1>11, <1>14, <3>1, <3>2
  <2>2. CASE v = u
    <3>1. k + 1 \in DOMAIN pending[u] /\ pending'[u][k] = pending[u][k + 1] /\ k \in Nat
      BY <1>5, <2>2
    <3>2. Owns(u, t) /\ Assigned(u, t, k + 1)
      BY <2>2, <3>1 DEF OwnerInv, MarksAreOwn
    <3> QED BY <1>11, <1>13, <2>2, <3>1, <3>2
  <2> QED BY <2>1, <2>2
<1>18. AppliedMarksShow'
  <2> SUFFICES ASSUME NEW v \in User, NEW t \in Task, NEW f \in {"hasPaid", "employeeRated"},
                      NEW m \in Setting(v, t, f)', m <= applied'[v],
                      \A j \in Setting(v, t, f)' : j <= applied'[v] => j <= m
               PROVE  documents[t][f] = pending'[v][m].set[f]
    BY <1>1 DEF AppliedMarksShow
  <2>1. CASE v # u
    <3>1. Setting(v, t, f)' = Setting(v, t, f) /\ applied'[v] = applied[v]
          /\ pending'[v] = pending[v]
      BY <1>3, <1>7, <2>1
    <3>2. \A j \in Setting(v, t, f) : j <= applied[v] => j <= m
      BY <3>1
    <3> QED BY <3>1, <3>2 DEF OwnerInv, AppliedMarksShow
  <2>2. CASE v = u
    <3>1. m + 1 \in Setting(u, t, f) /\ pending'[u][m] = pending[u][m + 1] /\ m \in Nat
      BY <1>7, <2>2
    <3>2. m + 1 <= applied[u]
      BY <1>2, <1>3, <2>2, <3>1
    <3>3. ASSUME NEW j \in Setting(u, t, f), j <= applied[u]
          PROVE  j <= m + 1
      <4>1. j \in Nat /\ (j # 1 => j - 1 \in Setting(u, t, f)')
        BY <1>7
      <4>2. j - 1 <= applied'[u]
        BY <1>2, <1>3, <3>3, <4>1
      <4>3. j # 1 => j - 1 <= m
        BY <2>2, <4>1, <4>2
      <4> QED BY <3>1, <4>1, <4>3
    <3>4. documents[t][f] = pending[u][m + 1].set[f]
      BY <3>1, <3>2, <3>3 DEF OwnerInv, AppliedMarksShow
    <3> QED BY <2>2, <3>1, <3>4
  <2> QED BY <2>1, <2>2
<1>19. AppliedAcceptsShow'
  <2> SUFFICES ASSUME NEW v \in User, NEW t \in Task, Owns(v, t)',
                      NEW j \in Setting(v, t, "employeeID")', j <= applied'[v],
                      pending'[v][j].set["employeeID"] # NoOne
               PROVE  documents[t].employeeID # NoOne
    BY <1>1 DEF AppliedAcceptsShow
  <2>1. Owns(v, t)
    BY <1>11
  <2>2. CASE v # u
    <3>1. j \in Setting(v, t, "employeeID") /\ applied'[v] = applied[v] /\ pending'[v] = pending[v]
      BY <1>3, <1>7, <2>2
    <3> QED BY <2>1, <3>1 DEF OwnerInv, AppliedAcceptsShow
  <2>3. CASE v = u
    <3>1. j + 1 \in Setting(u, t, "employeeID") /\ pending'[u][j] = pending[u][j + 1] /\ j \in Nat
      BY <1>7, <2>3
    <3>2. j + 1 <= applied[u]
      BY <1>2, <1>3, <2>3, <3>1
    <3> QED BY <2>1, <2>3, <3>1, <3>2 DEF OwnerInv, AppliedAcceptsShow
  <2> QED BY <2>2, <2>3
<1>20. SettledErrandIsAssigned'
  BY <1>1, <1>8 DEF OwnerInv, SettledErrandIsAssigned, Settled
<1>21. ASSUME NEW v \in User, NEW t \in Task, Owns(v, t), AssignedOnPhone(v, t)
       PROVE  AssignedOnPhone(v, t)'
  <2>1. \A k : k = Len(pending'[v]) + 1 => (Assigned(v, t, k)' <=> AssignedOnPhone(v, t)')
    BY DEF AssignedOnPhone, Assigned
  <2>2. CASE v # u
    <3>2. \A k : Assigned(v, t, k) => Assigned(v, t, k)'
      BY <1>14, <2>2
    <3>3. PICK k : k = Len(pending[v]) + 1
      OBVIOUS
    <3>4. Assigned(v, t, k)'
      BY <1>21, <3>2, <3>3 DEF AssignedOnPhone
    <3>5. k = Len(pending'[v]) + 1
      BY <1>3, <2>2, <3>3
    <3> QED BY <2>1, <3>4, <3>5
  <2>3. CASE v = u
    <3>1. n \in Nat /\ Assigned(u, t, n + 1)
      BY <1>2, <1>21, <2>3 DEF AssignedOnPhone, n
    <3>2. Len(pending'[u]) + 1 = n
      BY <1>2, <1>4
    <3>3. \A k \in Nat : Assigned(u, t, k + 1) => Assigned(u, t, k)'
      BY <1>13, <1>21, <2>3
    <3>4. PICK k \in Nat : k = n
      BY <3>1
    <3>5. Assigned(u, t, k)'
      BY <3>1, <3>3, <3>4
    <3> QED BY <2>1, <2>3, <3>2, <3>4, <3>5
  <2> QED BY <2>2, <2>3
<1>22. ASSUME NEW v \in User, NEW t \in Task, NEW f \in {"hasPaid", "employeeRated"},
              MarkSeen(v, t, f)
       PROVE  MarkSeen(v, t, f)'
  <2>1. CASE v # u
    BY <1>1, <1>3, <1>7, <1>8, <1>22, <2>1 DEF MarkSeen
  <2>2. CASE v = u /\ Setting(u, t, f) = {}
    <3>1. Setting(u, t, f)' = {}
      BY <1>7, <2>2
    <3> QED BY <1>1, <1>8, <1>22, <2>2, <3>1 DEF MarkSeen
  <2>3. CASE v = u /\ Setting(u, t, f) # {} /\ Setting(u, t, f)' = {}
    <3>1. 1 \in Setting(u, t, f) /\ \A j \in Setting(u, t, f) : j = 1
      BY <1>7, <2>3
    <3>2. \A j \in Setting(u, t, f) : j <= 1
      BY <3>1
    <3>3. pending[u][1].set[f] = TRUE
      BY <1>22, <2>3, <3>1, <3>2 DEF MarkSeen
    <3>4. 1 <= applied[u]
      BY <1>1, <1>2
    <3>5. documents[t][f] = pending[u][1].set[f]
      BY <3>1, <3>2, <3>4 DEF OwnerInv, AppliedMarksShow
    <3>6. Exists(t)
      BY <1>9, <1>10, <3>1
    <3> QED BY <1>1, <1>8, <2>3, <3>3, <3>5, <3>6 DEF MarkSeen
  <2>4. ASSUME v = u, NEW m \in Setting(u, t, f)', \A j \in Setting(u, t, f)' : j <= m
        PROVE  pending'[u][m].set[f] = TRUE
    <3>1. m + 1 \in Setting(u, t, f) /\ pending'[u][m] = pending[u][m + 1] /\ m \in Nat
      BY <1>7
    <3>2. ASSUME NEW j \in Setting(u, t, f)
          PROVE  j <= m + 1
      <4>1. j \in Nat /\ (j # 1 => j - 1 \in Setting(u, t, f)')
        BY <1>7
      <4>2. j # 1 => j - 1 <= m
        BY <2>4, <4>1
      <4> QED BY <3>1, <4>1, <4>2
    <3>3. MarkSeen(u, t, f)
      BY <1>22, <2>4
    <3> QED BY <3>1, <3>2, <3>3 DEF MarkSeen
  <2> QED BY <2>1, <2>2, <2>3, <2>4 DEF MarkSeen
<1>23. KeepsErrands
  BY <1>11, <1>21, <1>22 DEF KeepsErrands
<1> QED BY <1>15, <1>16, <1>17, <1>18, <1>19, <1>20, <1>23 DEF OwnerInv

(* What the server makes of the next write of u's log, errand by errand: a    *)
(* posting replaces what is there, another write finds the errand.            *)
LEMMA AppliedWrite ==
  ASSUME IInv, OwnerInv, NEW u \in User, ServerApplies(u)
  PROVE  LET i == applied[u] + 1
             x == pending[u][i]
         IN  /\ i \in DOMAIN pending[u] /\ x \in Write
             /\ UNCHANGED pending
             /\ applied' = [applied EXCEPT ![u] = i]
             /\ \A t \in Task : x.doc # t => documents'[t] = documents[t]
             /\ \A t \in Task : x.doc = t =>
                  \/ i \in Posting(u, t) /\ documents'[t] = NewErrand(u)
                  \/ /\ Exists(t) /\ Exists(t)' /\ "clientID" \notin DOMAIN x.set
                     /\ \A f \in {"clientID", "employeeID", "hasPaid", "employeeRated"} :
                           documents'[t][f] = IF f \in DOMAIN x.set THEN x.set[f]
                                              ELSE documents[t][f]
<1> DEFINE i == applied[u] + 1
           x == pending[u][i]
<1>1. /\ TypeOK /\ pending[u] \in Seq(Write) /\ DOMAIN pending[u] = 1..Len(pending[u])
      /\ Len(pending[u]) \in Nat /\ applied[u] \in Nat
  BY LogTypes DEF IInv
<1>2. /\ i \in DOMAIN pending[u]
      /\ UNCHANGED pending
      /\ applied' = [applied EXCEPT ![u] = i]
      /\ documents' = [documents EXCEPT ![x.doc] = Merged(@, x.set)]
  BY <1>1 DEF ServerApplies, Log!Apply, Log!HasNext, Log!NextToApply
<1>3. x \in Write
  BY <1>1, <1>2, ElementOfSeq
<1>4. IInv'
  BY NetworkIInv
<1> HIDE DEF x
<1>5. \A t \in Task : x.doc # t => documents'[t] = documents[t]
  BY <1>1, <1>2 DEF TypeOK
<1>6. ASSUME NEW t \in Task, x.doc = t
      PROVE  \/ i \in Posting(u, t) /\ documents'[t] = NewErrand(u)
             \/ /\ Exists(t) /\ Exists(t)' /\ "clientID" \notin DOMAIN x.set
                /\ \A f \in {"clientID", "employeeID", "hasPaid", "employeeRated"} :
                      documents'[t][f] = IF f \in DOMAIN x.set THEN x.set[f]
                                         ELSE documents[t][f]
  <2>1. documents'[t] = Merged(documents[t], x.set) /\ documents[t] \in Errand \cup {NoDocument}
    BY <1>1, <1>2, <1>6 DEF TypeOK
  <2>2. CASE "clientID" \in DOMAIN x.set
    <3>1. i \in Posting(u, t)
      BY <1>2, <1>6, <2>2 DEF Posting, Setting, x
    <3>2. x.set = NewErrand(u)
      BY <3>1 DEF OwnerInv, PostingsComeFirst, x
    <3>3. Merged(documents[t], NewErrand(u)) = NewErrand(u)
      <4>1. DOMAIN NewErrand(u) = {"clientID", "employeeID", "isCompleted", "hasPaid", "employeeRated"}
            /\ NewErrand(u) = [f \in DOMAIN NewErrand(u) |-> NewErrand(u)[f]]
        BY DEF NewErrand
      <4>2. DOMAIN documents[t] \subseteq DOMAIN NewErrand(u)
        <5>1. CASE documents[t] \in Errand
          BY <4>1, <5>1 DEF Errand
        <5>2. CASE documents[t] = NoDocument
          <6>1. DOMAIN documents[t] = 1..0
            BY <5>2 DEF NoDocument
          <6> QED BY <6>1
        <5> QED BY <2>1, <5>1, <5>2
      <4>3. DOMAIN documents[t] \cup DOMAIN NewErrand(u) = DOMAIN NewErrand(u)
        BY <4>2
      <4>4. Merged(documents[t], NewErrand(u)) = [f \in DOMAIN NewErrand(u) |-> NewErrand(u)[f]]
        BY <4>3 DEF Merged
      <4> QED BY <4>1, <4>4
    <3> QED BY <2>1, <3>1, <3>2, <3>3
  <2>3. CASE "clientID" \notin DOMAIN x.set
    <3>1. Exists(t)
      <4> SUFFICES ASSUME ~Exists(t) PROVE FALSE
        OBVIOUS
      <4>1. PICK j \in Setting(u, t, "clientID") : j <= i
        BY <1>2, <1>6 DEF IInv, WritesFindTheirErrand, x
      <4>2. j \in DOMAIN pending[u] /\ pending[u][j].doc = t
            /\ "clientID" \in DOMAIN pending[u][j].set
        BY DEF Setting
      <4>3. j > applied[u] /\ j \in Nat
        BY <1>1, <4>2 DEF IInv, WritesFindTheirErrand
      <4>4. j = i
        BY <1>1, <4>1, <4>3
      <4> QED BY <2>3, <4>2, <4>4 DEF x
    <3>2. documents[t] \in Errand
      BY <2>1, <3>1 DEF Exists
    <3>3. documents'[t] \in Errand
      BY <1>3, <1>6, <2>1, <3>2, MergedErrand
    <3>4. Exists(t)'
      BY <3>3, NoDocumentIsNoErrand DEF Exists
    <3>5. \A f \in {"clientID", "employeeID", "hasPaid", "employeeRated"} :
             documents'[t][f] = IF f \in DOMAIN x.set THEN x.set[f] ELSE documents[t][f]
      BY <2>1, <3>2 DEF Merged, Errand
    <3> QED BY <2>3, <3>1, <3>4, <3>5
  <2> QED BY <2>2, <2>3
<1> QED BY <1>2, <1>3, <1>5, <1>6 DEF x

LEMMA ApplyOwner ==
  ASSUME IInv, OwnerInv, NEW u \in User, ServerApplies(u)
  PROVE  OwnerInv' /\ KeepsErrands
<1> DEFINE i == applied[u] + 1
           x == pending[u][i]
           Replaced(t) == x.doc = t /\ i \in Posting(u, t) /\ documents'[t] = NewErrand(u)
           Updated(t) == /\ x.doc = t /\ Exists(t) /\ Exists(t)' /\ "clientID" \notin DOMAIN x.set
                         /\ \A f \in {"clientID", "employeeID", "hasPaid", "employeeRated"} :
                               documents'[t][f] = IF f \in DOMAIN x.set THEN x.set[f]
                                                  ELSE documents[t][f]
           Same(t) == x.doc # t /\ documents'[t] = documents[t]
<1>1. /\ i \in DOMAIN pending[u] /\ x \in Write
      /\ UNCHANGED pending
      /\ applied' = [applied EXCEPT ![u] = i]
  BY AppliedWrite
<1>2. \A t \in Task : Same(t) \/ Replaced(t) \/ Updated(t)
  BY AppliedWrite
<1>3. /\ \A v \in User : applied[v] \in Nat /\ applied'[v] \in Nat
                         /\ (v # u => applied'[v] = applied[v])
      /\ applied'[u] = i /\ i \in Nat /\ i > 0 /\ i = applied[u] + 1
  BY <1>1, LogTypes DEF IInv, TypeOK
<1>4. /\ \A v, t, f : Setting(v, t, f)' = Setting(v, t, f)
      /\ \A v, t : Posting(v, t)' = Posting(v, t)
  BY <1>1 DEF Setting, Posting
<1>5. \A v \in User : \A t, f : \A j \in Setting(v, t, f) :
         j \in Nat /\ j > 0 /\ j \in DOMAIN pending[v] /\ pending[v][j].doc = t
         /\ f \in DOMAIN pending[v][j].set
  BY LogTypes DEF IInv, Setting
<1>6. \A t, f : x.doc = t /\ f \in DOMAIN x.set => i \in Setting(u, t, f)
  BY <1>1 DEF Setting
<1>7. \A t \in Task : Same(t) => (Exists(t)' <=> Exists(t))
  BY DEF Exists
<1>8. /\ NewErrand(u).clientID = u /\ NewErrand(u).employeeID = NoOne
      /\ NewErrand(u).hasPaid = FALSE /\ NewErrand(u).employeeRated = FALSE
      /\ NewErrand(u) # NoDocument
  BY DEF NewErrand, NoDocument
<1>9. \A t \in Task : Replaced(t) =>
         /\ Exists(t)' /\ Owns(u, t) /\ i \in Setting(u, t, "employeeID")
         /\ x.set = NewErrand(u)
         /\ \A f \in {"clientID", "employeeID", "hasPaid", "employeeRated"} : f \in DOMAIN x.set
  <2> SUFFICES ASSUME NEW t \in Task, Replaced(t)
               PROVE  /\ Exists(t)' /\ Owns(u, t) /\ i \in Setting(u, t, "employeeID")
                      /\ x.set = NewErrand(u)
                      /\ \A f \in {"clientID", "employeeID", "hasPaid", "employeeRated"} :
                            f \in DOMAIN x.set
    OBVIOUS
  <2>1. Exists(t)' /\ Owns(u, t)
    BY <1>8 DEF Exists, Owns
  <2>2. x.set = NewErrand(u)
    BY DEF OwnerInv, PostingsComeFirst
  <2>3. \A f \in {"clientID", "employeeID", "hasPaid", "employeeRated"} : f \in DOMAIN x.set
    BY <2>2 DEF NewErrand
  <2> HIDE DEF x
  <2> QED BY <1>6, <2>1, <2>2, <2>3
<1>10. \A t \in Task : Updated(t) =>
          /\ documents'[t].clientID = documents[t].clientID
          /\ documents[t] \in Errand
          /\ "employeeID" \in DOMAIN x.set => x.set["employeeID"] # NoOne
          /\ \A f \in {"hasPaid", "employeeRated"} :
                f \in DOMAIN x.set => x.set[f] = TRUE /\ IsMark(x) /\ "employeeID" \notin DOMAIN x.set
  <2> SUFFICES ASSUME NEW t \in Task, Updated(t)
               PROVE  /\ documents'[t].clientID = documents[t].clientID
                      /\ documents[t] \in Errand
                      /\ "employeeID" \in DOMAIN x.set => x.set["employeeID"] # NoOne
                      /\ \A f \in {"hasPaid", "employeeRated"} : f \in DOMAIN x.set =>
                            x.set[f] = TRUE /\ IsMark(x) /\ "employeeID" \notin DOMAIN x.set
    OBVIOUS
  <2>1. documents[t] \in Errand /\ documents'[t].clientID = documents[t].clientID
    BY DEF Exists, IInv, TypeOK
  <2>2. x \in Write /\ x.doc \in Task /\ "clientID" \notin DOMAIN x.set
    BY <1>1
  <2> HIDE DEF x
  <2>3. "employeeID" \in DOMAIN x.set => x.set["employeeID"] # NoOne
    BY <2>2, WriteKinds
  <2>4. \A f \in {"hasPaid", "employeeRated"} : f \in DOMAIN x.set => x.set[f] = TRUE /\ IsMark(x)
    BY <2>2, WriteKinds
  <2>5. IsMark(x) => "employeeID" \notin DOMAIN x.set
    BY <2>2, WriteKinds
  <2> QED BY <2>1, <2>3, <2>4, <2>5
<1> HIDE DEF i, x, Same
<1>11. ASSUME NEW v \in User, NEW t \in Task
       PROVE  Owns(v, t)' <=> Owns(v, t)
  <2>1. CASE Same(t)
    BY <1>4, <1>7, <2>1 DEF Owns, Same
  <2>2. CASE Updated(t)
    BY <1>4, <1>10, <2>2 DEF Owns
  <2>3. CASE Replaced(t)
    <3>1. Owns(u, t) /\ Exists(t)' /\ documents'[t].clientID = u /\ Posting(u, t) # {}
      BY <1>8, <1>9, <2>3
    <3>2. Owns(v, t) => v = u
      BY <3>1 DEF OwnerInv, OneOwner
    <3>3. Owns(v, t)' => v = u
      BY <1>4, <3>1, <3>2 DEF Owns
    <3>4. Owns(u, t)'
      BY <3>1 DEF Owns
    <3> QED BY <3>1, <3>2, <3>3, <3>4
  <2> QED BY <1>2, <2>1, <2>2, <2>3
<1>12. ASSUME NEW v \in User, NEW t \in Task, NEW k, Owns(v, t), Assigned(v, t, k)
       PROVE  Assigned(v, t, k)'
  <2>1. CASE Posting(v, t) = {} /\ Exists(t) /\ documents[t].employeeID # NoOne
    <3>1. Exists(t)' /\ documents'[t].employeeID # NoOne
      <4>1. CASE Same(t)
        BY <1>7, <2>1, <4>1 DEF Same
      <4>2. CASE Updated(t)
        BY <1>10, <2>1, <4>2
      <4>3. CASE Replaced(t)
        <5>1. Owns(u, t) /\ Posting(u, t) # {}
          BY <1>9, <4>3
        <5>2. v = u
          BY <1>12, <5>1 DEF OwnerInv, OneOwner
        <5> QED BY <2>1, <5>1, <5>2
      <4> QED BY <1>2, <4>1, <4>2, <4>3
    <3> QED BY <1>4, <2>1, <3>1 DEF Assigned
  <2>2. CASE \E j \in Setting(v, t, "employeeID") :
                j < k /\ pending[v][j].set["employeeID"] # NoOne
    BY <1>1, <1>4, <2>2 DEF Assigned
  <2> QED BY <1>12, <2>1, <2>2 DEF Assigned
<1>13. PostingsComeFirst' /\ OneOwner'
  BY <1>1, <1>4, <1>11 DEF OwnerInv, PostingsComeFirst, OneOwner
<1>14. MarksAreOwn'
  BY <1>1, <1>11, <1>12 DEF OwnerInv, MarksAreOwn
<1>15. AppliedMarksShow'
  <2> SUFFICES ASSUME NEW v \in User, NEW t \in Task, NEW f \in {"hasPaid", "employeeRated"},
                      NEW m \in Setting(v, t, f), m <= applied'[v],
                      \A j \in Setting(v, t, f) : j <= applied'[v] => j <= m
               PROVE  documents'[t][f] = pending[v][m].set[f]
    BY <1>1, <1>4 DEF AppliedMarksShow
  <2>1. Owns(v, t) /\ m \in Nat
    BY <1>5, SettersOwn DEF IInv
  <2>2. CASE v = u /\ m = i
    <3>1. x.doc = t /\ f \in DOMAIN x.set
      BY <1>5, <2>2 DEF x
    <3>2. documents'[t][f] = x.set[f]
      BY <1>2, <1>9, <3>1 DEF Same
    <3> QED BY <2>2, <3>2 DEF x
  <2>3. CASE ~(v = u /\ m = i)
    <3>1. m <= applied[v]
      BY <1>3, <2>1, <2>3
    <3>2. \A j \in Setting(v, t, f) : j <= applied[v] => j <= m
      <4>1. applied[v] <= applied'[v] /\ applied[v] \in Nat /\ applied'[v] \in Nat
        BY <1>3
      <4>2. \A j \in Setting(v, t, f) : j \in Nat
        BY <1>5
      <4> QED BY <4>1, <4>2
    <3>3. documents[t][f] = pending[v][m].set[f]
      BY <3>1, <3>2 DEF OwnerInv, AppliedMarksShow
    <3>4. ASSUME x.doc = t, f \in DOMAIN x.set
          PROVE  FALSE
      <4>1. i \in Setting(u, t, f)
        BY <1>6, <3>4
      <4>2. v = u
        BY <2>1, <4>1, SettersOwn DEF IInv, OwnerInv, OneOwner
      <4>3. i <= m
        BY <1>3, <4>1, <4>2
      <4>4. m = i
        BY <1>3, <2>1, <4>2, <4>3
      <4> QED BY <2>3, <4>2, <4>4
    <3>5. documents'[t][f] = documents[t][f]
      <4>1. CASE Same(t)
        BY <4>1 DEF Same
      <4>2. CASE Updated(t)
        BY <3>4, <4>2
      <4>3. CASE Replaced(t)
        BY <1>9, <3>4, <4>3
      <4> QED BY <1>2, <4>1, <4>2, <4>3
    <3> QED BY <3>3, <3>5
  <2> QED BY <2>2, <2>3
<1>16. AppliedAcceptsShow'
  <2> SUFFICES ASSUME NEW v \in User, NEW t \in Task, Owns(v, t),
                      NEW j \in Setting(v, t, "employeeID"), j <= applied'[v],
                      pending[v][j].set["employeeID"] # NoOne
               PROVE  documents'[t].employeeID # NoOne
    BY <1>1, <1>4, <1>11 DEF AppliedAcceptsShow
  <2>1. CASE v = u /\ j = i
    <3>1. x.doc = t /\ "employeeID" \in DOMAIN x.set /\ x.set["employeeID"] # NoOne
      BY <1>5, <2>1 DEF x
    <3> QED BY <1>2, <1>8, <1>9, <3>1 DEF Same
  <2>2. CASE ~(v = u /\ j = i)
    <3>1. j <= applied[v] /\ j \in Nat
      BY <1>3, <1>5, <2>2
    <3>2. documents[t].employeeID # NoOne
      BY <3>1 DEF OwnerInv, AppliedAcceptsShow
    <3>3. CASE Same(t)
      BY <3>2, <3>3 DEF Same
    <3>4. CASE Updated(t)
      BY <1>10, <3>2, <3>4
    <3>5. CASE Replaced(t)
      <4>1. v = u
        BY <1>9, <3>5 DEF OwnerInv, OneOwner
      <4>2. i <= j
        BY <1>5, <3>5, <4>1 DEF OwnerInv, PostingsComeFirst
      <4> QED BY <1>3, <3>1, <4>1, <4>2
    <3> QED BY <1>2, <3>3, <3>4, <3>5
  <2> QED BY <2>1, <2>2
<1>17. SettledErrandIsAssigned'
  <2> SUFFICES ASSUME NEW t \in Task, Exists(t)', documents'[t].hasPaid \/ documents'[t].employeeRated
               PROVE  documents'[t].employeeID # NoOne
    BY DEF SettledErrandIsAssigned, Settled
  <2>1. CASE Same(t)
    BY <1>7, <2>1 DEF Same, OwnerInv, SettledErrandIsAssigned, Settled
  <2>2. CASE Replaced(t)
    BY <1>8, <2>2
  <2>3. ASSUME Updated(t), documents[t].employeeID # NoOne
        PROVE  documents'[t].employeeID # NoOne
    BY <1>10, <2>3
  <2>4. ASSUME Updated(t), documents[t].employeeID = NoOne
        PROVE  documents'[t].employeeID # NoOne
    <3>1. ~documents[t].hasPaid /\ ~documents[t].employeeRated
      BY <2>4 DEF OwnerInv, SettledErrandIsAssigned, Settled
    <3>2. PICK f \in {"hasPaid", "employeeRated"} : f \in DOMAIN x.set
      BY <2>4, <3>1
    <3>3. IsMark(x) /\ x.doc = t
      BY <1>10, <2>4, <3>2
    <3>4. Owns(u, t) /\ Assigned(u, t, i)
      BY <1>1, <3>3 DEF OwnerInv, MarksAreOwn, x
    <3>5. PICK j \in Setting(u, t, "employeeID") : j < i /\ pending[u][j].set["employeeID"] # NoOne
      BY <2>4, <3>4 DEF Assigned
    <3>6. j <= applied[u]
      BY <1>3, <1>5, <3>5
    <3>7. documents[t].employeeID # NoOne
      BY <3>4, <3>5, <3>6 DEF OwnerInv, AppliedAcceptsShow
    <3> QED BY <2>4, <3>7
  <2> QED BY <1>2, <2>1, <2>2, <2>3, <2>4
<1>18. ASSUME NEW v \in User, NEW t \in Task, Owns(v, t), AssignedOnPhone(v, t)
       PROVE  AssignedOnPhone(v, t)'
  <2>1. PICK k : k = Len(pending[v]) + 1
    OBVIOUS
  <2>2. Assigned(v, t, k)'
    BY <1>12, <1>18, <2>1 DEF AssignedOnPhone
  <2>3. \A l : l = Len(pending'[v]) + 1 => (Assigned(v, t, l)' <=> AssignedOnPhone(v, t)')
    BY DEF AssignedOnPhone, Assigned
  <2>4. k = Len(pending'[v]) + 1
    BY <1>1, <2>1
  <2> QED BY <2>2, <2>3, <2>4
<1>19. ASSUME NEW v \in User, NEW t \in Task, NEW f \in {"hasPaid", "employeeRated"},
              Owns(v, t), MarkSeen(v, t, f)
       PROVE  MarkSeen(v, t, f)'
  <2>1. CASE Setting(v, t, f) # {}
    BY <1>1, <1>4, <1>19, <2>1 DEF MarkSeen
  <2>2. CASE Setting(v, t, f) = {}
    <3>1. Exists(t) /\ documents[t][f] = TRUE
      BY <1>19, <2>2 DEF MarkSeen
    <3>2. CASE Same(t)
      BY <1>4, <1>7, <2>2, <3>1, <3>2 DEF MarkSeen, Same
    <3>3. CASE Updated(t)
      <4>1. documents'[t][f] = TRUE
        BY <1>10, <3>1, <3>3
      <4> QED BY <1>4, <2>2, <3>3, <4>1 DEF MarkSeen
    <3>4. CASE Replaced(t)
      <4>1. v = u /\ i \in Setting(u, t, f)
        BY <1>6, <1>9, <1>19, <3>4 DEF OwnerInv, OneOwner
      <4> QED BY <2>2, <4>1
    <3> QED BY <1>2, <3>2, <3>3, <3>4
  <2> QED BY <2>1, <2>2
<1>20. KeepsErrands
  BY <1>11, <1>18, <1>19 DEF KeepsErrands
<1> QED BY <1>13, <1>14, <1>15, <1>16, <1>17, <1>20 DEF OwnerInv

-----------------------------------------------------------------------------
(* Every step keeps OwnerInv and the client's errands.                         *)

LEMMA SettleablePages ==
  ASSUME NEW p \in Page
  PROVE  /\ SettleableOn(p) \subseteq Task
         /\ \A row \in RowsOn(p) : row \in Row /\ row.docID \in SettleableOn(p)
         /\ p.name \in {"pay", "rate"} => p.docID \in SettleableOn(p)
<1>1. SettleableOn(p) \subseteq Task
  BY PageErrands DEF SettleableOn
<1>2. \A row \in RowsOn(p) : row \in Row /\ row.docID \in SettleableOn(p)
  BY PageKinds DEF RowsOn, SettleableOn
<1>3. p.name \in {"pay", "rate"} => p.docID \in SettleableOn(p)
  BY PageKinds DEF SettleableOn
<1> QED BY <1>1, <1>2, <1>3

LEMMA OneWriteOwner ==
  ASSUME IInv, OwnerInv, NEW u \in User, NEW x \in Write, Log!Submit(u, x),
         UNCHANGED documents, "clientID" \notin DOMAIN x.set,
         IsMark(x) => Owns(u, x.doc) /\ AssignedOnPhone(u, x.doc)
  PROVE  OwnerInv' /\ KeepsErrands
<1> DEFINE xs == <<x>>
<1>1. pending[u] \in Seq(Write)
  BY LogTypes DEF IInv
<1>2. xs \in Seq(Write) /\ Len(xs) = 1 /\ xs[1] = x /\ Append(pending[u], x) = pending[u] \o xs
  BY <1>1, OneWrite
<1> HIDE DEF xs
<1>3. pending' = [pending EXCEPT ![u] = @ \o xs] /\ applied' = applied
  BY <1>2 DEF Log!Submit
<1>4. \A k \in 1..Len(xs) : xs[k] = x
  BY <1>2
<1>5. \A k \in 1..Len(xs) : /\ "clientID" \notin DOMAIN xs[k].set
                            /\ IsMark(xs[k]) => Owns(u, xs[k].doc) /\ AssignedOnPhone(u, xs[k].doc)
  BY <1>4
<1> QED BY <1>2, <1>3, <1>5, SubmitOwner

(* What completing a rating does.                                              *)
LEMMA CompletedRating ==
  ASSUME IInv, SettlementInv, NEW u \in User, NEW stars \in StarChoices, CompleteRating(u, stars),
         NEW t, t = page[u].docID
  PROVE  /\ t \in Task /\ Owns(u, t) /\ timesRated[t] = 0
         /\ OwnerInv' /\ KeepsErrands
         /\ MarkSeen(u, t, "employeeRated")'
         /\ page' = [page EXCEPT ![u] = RecentPage({}, FALSE)]
         /\ timesRated' = [timesRated EXCEPT ![t] = @ + 1]
<1> DEFINE p == page[u]
           rating == NewUserRating(p.currentRating, p.numOfRatings, stars)
           given == RatingWrite(p.employeeID, p.numOfRatings + 1, rating)
           xs == <<given, RatedWrite(t)>>
           n == Len(pending[u])
<1>1. /\ p.name = "rate"
      /\ pending' = [pending EXCEPT ![u] = @ \o xs]
      /\ page' = [page EXCEPT ![u] = RecentPage({}, FALSE)]
      /\ timesRated' = [timesRated EXCEPT ![t] = @ + 1]
      /\ UNCHANGED <<documents, applied>>
  BY DEF CompleteRating, On, Show
<1>2. /\ TypeOK /\ p \in Page /\ pending[u] \in Seq(Write) /\ n \in Nat
  BY LogTypes DEF IInv, TypeOK
<1>3. /\ t \in Task /\ p.employeeID \in User /\ p.numOfRatings \in Nat /\ p.currentRating \in Nat
      /\ t \in SettleableOn(p)
  BY <1>1, <1>2, PageKinds, SettleablePages
<1>4. Owns(u, t) /\ AssignedOnPhone(u, t) /\ timesRated[t] = 0
  BY <1>1, <1>3 DEF SettlementInv, PagesAreOwn, RatedStaysRated
<1>5. /\ given \in Write /\ given.doc \in User
      /\ DOMAIN given.set = {"num_ratings", "rating"}
  <2>1. rating \in Nat
    BY <1>3, MarketAssumption, NewUserRatingType
  <2>2. p.numOfRatings + 1 \in Nat
    BY <1>3
  <2> HIDE DEF rating
  <2>3. given \in Write /\ given.doc = p.employeeID
    BY <1>3, <2>1, <2>2, RatingWriteType
  <2>4. DOMAIN given.set = {"num_ratings", "rating"}
    BY DEF RatingWrite
  <2> QED BY <1>3, <2>3, <2>4
<1>6. /\ RatedWrite(t) \in Write /\ RatedWrite(t).doc = t
      /\ DOMAIN RatedWrite(t).set = {"employeeRated"} /\ RatedWrite(t).set["employeeRated"] = TRUE
  BY <1>3, MarkWriteTypes DEF RatedWrite
<1> HIDE DEF given
<1>7. xs \in Seq(Write) /\ Len(xs) = 2 /\ xs[1] = given /\ xs[2] = RatedWrite(t)
  BY <1>5, <1>6
<1>8. \A k \in 1..Len(xs) : xs[k] = given \/ xs[k] = RatedWrite(t)
  BY <1>7
<1> HIDE DEF xs
<1>9. /\ "clientID" \notin DOMAIN given.set /\ ~IsMark(given)
      /\ "clientID" \notin DOMAIN RatedWrite(t).set
  BY <1>5, <1>6, MarketAssumption DEF IsMark
<1>10. \A k \in 1..Len(xs) : /\ "clientID" \notin DOMAIN xs[k].set
                             /\ IsMark(xs[k]) => Owns(u, xs[k].doc) /\ AssignedOnPhone(u, xs[k].doc)
  BY <1>4, <1>6, <1>8, <1>9
<1>11. OwnerInv' /\ KeepsErrands
  BY <1>1, <1>7, <1>10, SubmitOwner DEF SettlementInv
<1>12. MarkSeen(u, t, "employeeRated")'
  <2>1. /\ pending'[u] = pending[u] \o xs /\ Len(pending'[u]) = n + 2
        /\ DOMAIN pending'[u] = 1..(n + 2)
    <3>1. pending'[u] = pending[u] \o xs
      BY <1>1, <1>2 DEF TypeOK
    <3>2. pending'[u] \in Seq(Write) /\ Len(pending'[u]) = n + 2
      <4>1. Len(pending[u] \o xs) = Len(pending[u]) + Len(xs) /\ pending[u] \o xs \in Seq(Write)
        BY <1>2, <1>7, ConcatProperties
      <4> QED BY <1>7, <3>1, <4>1
    <3> QED BY <3>1, <3>2, LenProperties
  <2>2. pending'[u][n + 2] = RatedWrite(t)
    <3>1. n + 2 \in 1..(Len(pending[u]) + Len(xs)) /\ ~(n + 2 <= Len(pending[u]))
          /\ (n + 2) - Len(pending[u]) = 2
      BY <1>2, <1>7
    <3> QED BY <1>2, <1>7, <2>1, <3>1, ConcatProperties
  <2>3. n + 2 \in Setting(u, t, "employeeRated")'
    <3>1. n + 2 \in DOMAIN pending'[u]
      BY <1>2, <2>1
    <3>2. pending'[u][n + 2].doc = t /\ "employeeRated" \in DOMAIN pending'[u][n + 2].set
      BY <1>6, <2>2
    <3>3. \A m \in DOMAIN pending'[u] :
             pending'[u][m].doc = t /\ "employeeRated" \in DOMAIN pending'[u][m].set
                => m \in Setting(u, t, "employeeRated")'
      BY DEF Setting
    <3> QED BY <3>1, <3>2, <3>3
  <2>4. ASSUME NEW m \in Setting(u, t, "employeeRated")',
               \A j \in Setting(u, t, "employeeRated")' : j <= m
        PROVE  pending'[u][m].set["employeeRated"] = TRUE
    <3>1. m \in DOMAIN pending'[u]
      BY DEF Setting
    <3>2. m \in 1..(n + 2) /\ n + 2 <= m
      BY <2>1, <2>3, <2>4, <3>1
    <3>3. m = n + 2
      BY <1>2, <3>2
    <3> QED BY <1>6, <2>2, <3>3
  <2> QED BY <2>3, <2>4 DEF MarkSeen
<1> QED BY <1>1, <1>3, <1>4, <1>11, <1>12

LEMMA OwnerNext ==
  ASSUME IInv, SettlementInv, [Next]_vars
  PROVE  OwnerInv' /\ KeepsErrands
<1> USE DEF SettlementInv
<1>1. CASE UNCHANGED vars
  BY <1>1, SameLogsOwner DEF vars, logVars
<1>2. ASSUME NEW u \in User, NEW p, Navigate(u, p)
      PROVE  OwnerInv' /\ KeepsErrands
  BY <1>2, SameLogsOwner DEF Navigate, logVars
<1>3. \A u \in User : page[u] \in Page
  BY DEF IInv, TypeOK
<1>4. ASSUME NEW u \in User, EmployeeStep(u)
      PROVE  OwnerInv' /\ KeepsErrands
  <2>1. CASE AcceptTask(u)
    <3> DEFINE x == AcceptWrite(page[u].docID, u)
    <3>1. x \in Write /\ Log!Submit(u, x) /\ UNCHANGED documents
      BY <1>3, <2>1, PageKinds, MarkWriteTypes DEF AcceptTask, On
    <3>2. DOMAIN x.set = {"employeeID"}
      BY DEF AcceptWrite
    <3>3. "clientID" \notin DOMAIN x.set /\ ~IsMark(x)
      BY <3>2 DEF IsMark
    <3> HIDE DEF x
    <3> QED BY <3>1, <3>3, OneWriteOwner
  <2>2. CASE OpenFeed(u) \/ FeedArrives(u) \/ CancelAccept(u) \/ LeaveFeed(u)
             \/ \E t \in Task : OpenTask(u, t)
    BY <1>2, <2>2 DEF OpenFeed, FeedArrives, CancelAccept, LeaveFeed, OpenTask
  <2> QED BY <1>4, <2>1, <2>2 DEF EmployeeStep
<1>5. ASSUME NEW u \in User, ClientStep(u)
      PROVE  OwnerInv' /\ KeepsErrands
  <2>1. ASSUME NEW t \in Task, PostTask(u, t)
        PROVE  OwnerInv' /\ KeepsErrands
    BY <2>1, PostOwner
  <2>2. CASE ConfirmPayment(u)
    <3> DEFINE t == page[u].docID
               x == PayWrite(t)
    <3>1. t \in Task /\ Owns(u, t) /\ AssignedOnPhone(u, t)
      BY <1>3, <2>2, PageKinds, SettleablePages DEF ConfirmPayment, On, PagesAreOwn
    <3>2. x \in Write /\ Log!Submit(u, x) /\ UNCHANGED documents /\ x.doc = t
      BY <2>2, <3>1, MarkWriteTypes DEF ConfirmPayment
    <3>3. DOMAIN x.set = {"hasPaid"}
      BY DEF PayWrite
    <3>4. "clientID" \notin DOMAIN x.set
      BY <3>3
    <3> HIDE DEF x
    <3> QED BY <3>1, <3>2, <3>4, OneWriteOwner
  <2>3. ASSUME NEW stars \in StarChoices, CompleteRating(u, stars)
        PROVE  OwnerInv' /\ KeepsErrands
    BY <2>3, CompletedRating
  <2>4. CASE OpenRecentTasks(u) \/ RecentTasksArrive(u) \/ LeaveRecentTasks(u)
             \/ PressPay(u) \/ PressRate(u) \/ BackToRecentTasks(u)
    BY <1>2, <2>4 DEF OpenRecentTasks, RecentTasksArrive, LeaveRecentTasks, PressPay,
                      PressRate, BackToRecentTasks
  <2>5. CASE RatingArrives(u)
    BY <1>2, <2>5 DEF RatingArrives
  <2> QED BY <1>5, <2>1, <2>2, <2>3, <2>4, <2>5 DEF ClientStep
<1>6. ASSUME NEW u \in User, NetworkStep(u)
      PROVE  OwnerInv' /\ KeepsErrands
  <2>1. CASE Relaunch(u)
    BY <1>2, <2>1 DEF Relaunch
  <2> QED BY <1>6, <2>1, ApplyOwner, AcknowledgeOwner, ReconnectOwner DEF NetworkStep
<1> QED BY <1>1, <1>4, <1>5, <1>6 DEF Next

-----------------------------------------------------------------------------
(* Every step keeps what pages show and what was rated.                        *)

(* An accepted errand of the client, as the phone sees it, is assigned.        *)
LEMMA SeenAssigned ==
  ASSUME IInv, NEW u \in User, NEW t \in Task, Owns(u, t),
         LocalValue(u, t, "employeeID") # NoOne
  PROVE  AssignedOnPhone(u, t)
<1>1. TypeOK /\ pending[u] \in Seq(Write) /\ DOMAIN pending[u] = 1..Len(pending[u])
      /\ Len(pending[u]) \in Nat
  BY LogTypes DEF IInv
<1>2. CASE Setting(u, t, "employeeID") = {}
  <2>1. ASSUME NEW i \in Posting(u, t) PROVE FALSE
    <3>1. i \in DOMAIN pending[u] /\ pending[u][i].doc = t /\ pending[u][i] \in Write
          /\ "clientID" \in DOMAIN pending[u][i].set
      BY <1>1, LogTypes DEF Posting, Setting
    <3>2. "employeeID" \in DOMAIN pending[u][i].set
      BY <3>1, WriteKinds
    <3> QED BY <1>2, <3>1, <3>2 DEF Setting
  <2>2. Exists(t)
    BY <2>1 DEF Owns
  <2>3. documents[t].employeeID # NoOne
    BY <1>2 DEF LocalValue
  <2> QED BY <2>1, <2>2, <2>3 DEF AssignedOnPhone, Assigned
<1>3. CASE Setting(u, t, "employeeID") # {}
  <2>1. PICK i \in Setting(u, t, "employeeID") :
           LocalValue(u, t, "employeeID") = pending[u][i].set["employeeID"]
    BY <1>1, <1>3, LocalValueCases
  <2>2. i < Len(pending[u]) + 1
    <3>1. i \in 1..Len(pending[u])
      BY <1>1 DEF Setting
    <3> QED BY <1>1, <3>1
  <2> QED BY <2>1, <2>2 DEF AssignedOnPhone, Assigned
<1> QED BY <1>2, <1>3

(* A step that shows another page and completes no rating.                     *)
LEMMA PageSettlement ==
  ASSUME IInv, SettlementInv, OwnerInv', SeenRight, SeenRight', KeepsErrands,
         NEW u \in User, NEW p, page' = [page EXCEPT ![u] = p], timesRated' = timesRated,
         SettleableOn(p) \subseteq Task,
         \A t \in SettleableOn(p) : Owns(u, t) /\ AssignedOnPhone(u, t),
         \A row \in RowsOn(p) : ~row.employeeRated => timesRated[row.docID] = 0,
         p.name = "rate" => timesRated[p.docID] = 0
  PROVE  SettlementInv'
<1>1. \A v \in User : page'[v] = IF v = u THEN p ELSE page[v]
  BY DEF IInv, TypeOK
<1>2. PagesAreOwn'
  <2> SUFFICES ASSUME NEW v \in User, NEW t \in SettleableOn(page'[v])
               PROVE  Owns(v, t)' /\ AssignedOnPhone(v, t)'
    BY DEF PagesAreOwn
  <2>1. t \in Task /\ Owns(v, t) /\ AssignedOnPhone(v, t)
    <3>1. CASE v = u
      BY <1>1, <3>1
    <3>2. CASE v # u
      <4>1. page'[v] = page[v] /\ page[v] \in Page
        BY <1>1, <3>2 DEF IInv, TypeOK
      <4> QED BY <4>1, SettleablePages DEF SettlementInv, PagesAreOwn
    <3> QED BY <3>1, <3>2
  <2> QED BY <2>1 DEF KeepsErrands
<1>3. RatedOnce'
  BY DEF SettlementInv, RatedOnce
<1>4. ASSUME NEW t \in Task, timesRated'[t] > 0
      PROVE  \E v \in User : SettledOnPhone(v, t, "employeeRated")'
  <2>1. PICK v \in User : SettledOnPhone(v, t, "employeeRated")
    BY <1>4 DEF SettlementInv, RatedStaysRated
  <2>2. Owns(v, t) /\ MarkSeen(v, t, "employeeRated")
    BY <2>1 DEF SeenRight
  <2>3. Owns(v, t)' /\ MarkSeen(v, t, "employeeRated")'
    BY <2>2 DEF KeepsErrands
  <2>4. SettledOnPhone(v, t, "employeeRated")'
    BY <2>3 DEF SeenRight
  <2> QED BY <2>4
<1>5. \A v \in User : \A row \in RowsOn(page'[v]) : ~row.employeeRated => timesRated[row.docID] = 0
  BY <1>1 DEF SettlementInv, RatedStaysRated
<1>6. \A v \in User : page'[v].name = "rate" => timesRated[page'[v].docID] = 0
  BY <1>1 DEF SettlementInv, RatedStaysRated
<1>7. RatedStaysRated'
  BY <1>4, <1>5, <1>6 DEF RatedStaysRated
<1> QED BY <1>2, <1>3, <1>7 DEF SettlementInv

(* What can be settled from each page.                                         *)
LEMMA NotSettleable ==
  /\ SettleableOn(HomePage) = {} /\ RowsOn(HomePage) = {} /\ HomePage.name # "rate"
  /\ \A T, b : /\ SettleableOn(FeedPage(T, b)) = {} /\ RowsOn(FeedPage(T, b)) = {}
               /\ FeedPage(T, b).name # "rate"
  /\ \A t : /\ SettleableOn(AcceptPage(t)) = {} /\ RowsOn(AcceptPage(t)) = {}
            /\ AcceptPage(t).name # "rate"
<1>1. SettleableOn(HomePage) = {} /\ RowsOn(HomePage) = {} /\ HomePage.name # "rate"
  BY DEF HomePage, SettleableOn, RowsOn
<1>2. ASSUME NEW T, NEW b
      PROVE  /\ SettleableOn(FeedPage(T, b)) = {} /\ RowsOn(FeedPage(T, b)) = {}
             /\ FeedPage(T, b).name # "rate"
  BY DEF FeedPage, SettleableOn, RowsOn
<1>3. ASSUME NEW t
      PROVE  /\ SettleableOn(AcceptPage(t)) = {} /\ RowsOn(AcceptPage(t)) = {}
             /\ AcceptPage(t).name # "rate"
  BY DEF AcceptPage, SettleableOn, RowsOn
<1> QED BY <1>1, <1>2, <1>3

LEMMA RecentSettleable ==
  ASSUME NEW R, NEW b
  PROVE  /\ SettleableOn(RecentPage(R, b)) = {row.docID : row \in R}
         /\ RowsOn(RecentPage(R, b)) = R /\ RecentPage(R, b).name # "rate"
BY DEF RecentPage, SettleableOn, ErrandsOn, RowsOn

LEMMA PaySettleable ==
  ASSUME NEW t, NEW R
  PROVE  /\ SettleableOn(PayPage(t, R)) = {t} \cup {row.docID : row \in R}
         /\ RowsOn(PayPage(t, R)) = R /\ PayPage(t, R).name # "rate"
BY DEF PayPage, SettleableOn, ErrandsOn, RowsOn

LEMMA StepSettlement ==
  ASSUME IInv, IInv', SettlementInv, SeenRight, SeenRight', [Next]_vars
  PROVE  SettlementInv'
<1> USE DEF On, Show, history
<1>1. OwnerInv' /\ KeepsErrands
  BY OwnerNext
<1>2. /\ TypeOK /\ \A u \in User : page[u] \in Page
      /\ OwnerInv /\ PagesAreOwn /\ RatedOnce /\ RatedStaysRated
  BY DEF IInv, TypeOK, SettlementInv
<1>3. ASSUME NEW u \in User, NEW p, page' = [page EXCEPT ![u] = p], timesRated' = timesRated,
             SettleableOn(p) \subseteq Task,
             \A t \in SettleableOn(p) : Owns(u, t) /\ AssignedOnPhone(u, t),
             \A row \in RowsOn(p) : ~row.employeeRated => timesRated[row.docID] = 0,
             p.name = "rate" => timesRated[p.docID] = 0
      PROVE  SettlementInv'
  BY <1>1, <1>3, PageSettlement
<1>4. ASSUME NEW u \in User, NEW p, page' = [page EXCEPT ![u] = p], timesRated' = timesRated,
             SettleableOn(p) = {}, RowsOn(p) = {}, p.name # "rate"
      PROVE  SettlementInv'
  BY <1>3, <1>4
<1>5. ASSUME NEW u \in User, NEW p, page' = [page EXCEPT ![u] = p], timesRated' = timesRated,
             SettleableOn(p) \subseteq SettleableOn(page[u]), RowsOn(p) \subseteq RowsOn(page[u]),
             p.name = "rate" => timesRated[p.docID] = 0
      PROVE  SettlementInv'
  <2>1. SettleableOn(page[u]) \subseteq Task
    BY <1>2, SettleablePages
  <2> QED BY <1>2, <1>3, <1>5, <2>1 DEF PagesAreOwn, RatedStaysRated
<1>6. ASSUME UNCHANGED <<page, timesRated>>, User # {}
      PROVE  SettlementInv'
  <2>1. PICK u \in User : TRUE
    BY <1>6
  <2>2. page' = [page EXCEPT ![u] = page[u]]
    BY <1>2, <1>6 DEF TypeOK
  <2> QED BY <1>2, <1>5, <1>6, <2>2 DEF RatedStaysRated
<1>7. CASE UNCHANGED vars
  <2>1. CASE User # {}
    BY <1>6, <1>7, <2>1 DEF vars
  <2>2. CASE User = {}
    BY <1>1, <1>2, <1>7, <2>2 DEF vars, SettlementInv, PagesAreOwn, RatedOnce, RatedStaysRated
  <2> QED BY <2>1, <2>2
<1>8. ASSUME NEW u \in User, EmployeeStep(u)
      PROVE  SettlementInv'
  <2>1. CASE OpenFeed(u) \/ FeedArrives(u) \/ AcceptTask(u) \/ CancelAccept(u)
    <3>1. ASSUME NEW T, NEW b, page' = [page EXCEPT ![u] = FeedPage(T, b)],
                 timesRated' = timesRated
          PROVE  SettlementInv'
      <4> DEFINE p == FeedPage(T, b)
      <4>1. SettleableOn(p) = {} /\ RowsOn(p) = {} /\ p.name # "rate"
        BY DEF FeedPage, SettleableOn, RowsOn
      <4> HIDE DEF p
      <4> QED BY <1>4, <3>1, <4>1 DEF p
    <3> QED BY <2>1, <3>1 DEF OpenFeed, FeedArrives, AcceptTask, CancelAccept, Navigate
  <2>2. CASE LeaveFeed(u)
    BY <1>4, <2>2, NotSettleable DEF LeaveFeed, Navigate
  <2>3. ASSUME NEW t \in Task, OpenTask(u, t)
        PROVE  SettlementInv'
    BY <1>4, <2>3, NotSettleable DEF OpenTask, Navigate
  <2> QED BY <1>8, <2>1, <2>2, <2>3 DEF EmployeeStep
<1>9. ASSUME NEW u \in User, ClientStep(u)
      PROVE  SettlementInv'
  <2>1. ASSUME NEW t \in Task, PostTask(u, t)
        PROVE  SettlementInv'
    BY <1>6, <2>1 DEF PostTask
  <2>2. /\ SettleableOn(RecentPage({}, FALSE)) = {} /\ RowsOn(RecentPage({}, FALSE)) = {}
        /\ RecentPage({}, FALSE).name # "rate"
    <3>1. {row.docID : row \in {}} = {}
      OBVIOUS
    <3> QED BY <3>1, RecentSettleable
  <2>3. CASE OpenRecentTasks(u) \/ ConfirmPayment(u)
    <3>1. page' = [page EXCEPT ![u] = RecentPage({}, FALSE)] /\ timesRated' = timesRated
      BY <2>3 DEF OpenRecentTasks, ConfirmPayment, Navigate
    <3> QED BY <1>4, <2>2, <3>1
  <2>4. CASE LeaveRecentTasks(u)
    BY <1>4, <2>4, NotSettleable DEF LeaveRecentTasks, Navigate
  <2>5. CASE RecentTasksArrive(u)
    <3> DEFINE R == RecentRows(u)
               p == RecentPage(R, TRUE)
    <3>1. page' = [page EXCEPT ![u] = p] /\ timesRated' = timesRated
      BY <2>5 DEF RecentTasksArrive, Navigate
    <3>2. ASSUME NEW row \in R
          PROVE  LET t == row.docID
                 IN  /\ t \in Task /\ LocallyExists(u, t) /\ LocalValue(u, t, "clientID") = u
                     /\ LocalValue(u, t, "employeeID") # NoOne
                     /\ row.employeeRated = LocalValue(u, t, "employeeRated")
      BY DEF RecentRows, RowOf
    <3>3. \A t \in Task : LocallyExists(u, t) /\ LocalValue(u, t, "clientID") = u => Owns(u, t)
      BY <1>2, SeenClient
    <3>4. \A row \in R : /\ row.docID \in Task /\ Owns(u, row.docID)
                         /\ AssignedOnPhone(u, row.docID)
      BY <3>2, <3>3, SeenAssigned
    <3>5. ASSUME NEW row \in R, ~row.employeeRated
          PROVE  timesRated[row.docID] = 0
      <4> DEFINE t == row.docID
      <4>1. t \in Task /\ Owns(u, t) /\ ~SettledOnPhone(u, t, "employeeRated")
        BY <3>2, <3>4, <3>5 DEF SettledOnPhone
      <4>2. ASSUME NEW v \in User, SettledOnPhone(v, t, "employeeRated")
            PROVE  FALSE
        <5>1. Owns(v, t)
          BY <4>1, <4>2 DEF SeenRight
        <5> QED BY <1>2, <4>1, <4>2, <5>1 DEF OwnerInv, OneOwner
      <4>3. ~(timesRated[t] > 0) /\ timesRated[t] \in Nat
        BY <1>2, <4>1, <4>2 DEF RatedStaysRated, TypeOK
      <4> QED BY <4>3
    <3> HIDE DEF R
    <3>6. SettleableOn(p) = {row.docID : row \in R} /\ RowsOn(p) = R /\ p.name # "rate"
      BY RecentSettleable
    <3>7. SettleableOn(p) \subseteq Task /\ \A t \in SettleableOn(p) : Owns(u, t) /\ AssignedOnPhone(u, t)
      BY <3>4, <3>6
    <3>8. \A row \in RowsOn(p) : ~row.employeeRated => timesRated[row.docID] = 0
      BY <3>5, <3>6
    <3> HIDE DEF p
    <3> QED BY <1>3, <3>1, <3>6, <3>7, <3>8
  <2>6. ASSUME On(u, "recent")
        PROVE  /\ RowsOn(page[u]) = page[u].rows
               /\ SettleableOn(page[u]) = {r.docID : r \in page[u].rows}
    BY <1>2, <2>6, PageKinds DEF RowsOn, SettleableOn
  <2>7. ASSUME On(u, "pay") \/ On(u, "rate")
        PROVE  /\ RowsOn(page[u]) = page[u].under
               /\ SettleableOn(page[u]) = {page[u].docID} \cup {r.docID : r \in page[u].under}
    <3>1. page[u].name \in {"pay", "rate"} /\ page[u].name # "recent"
      BY <2>7
    <3> QED BY <1>2, <3>1, PageKinds DEF RowsOn, SettleableOn
  <2>8. CASE PressPay(u)
    <3>1. PICK row \in page[u].rows :
            page' = [page EXCEPT ![u] = PayPage(row.docID, page[u].rows)] /\ timesRated' = timesRated
      BY <2>8 DEF PressPay, Navigate
    <3> DEFINE p == PayPage(row.docID, page[u].rows)
    <3>2. /\ SettleableOn(p) = {row.docID} \cup {r.docID : r \in page[u].rows}
          /\ RowsOn(p) = page[u].rows /\ p.name # "rate"
      BY PaySettleable
    <3>3. SettleableOn(p) \subseteq SettleableOn(page[u]) /\ RowsOn(p) \subseteq RowsOn(page[u])
      BY <2>6, <2>8, <3>1, <3>2 DEF PressPay
    <3> HIDE DEF p
    <3> QED BY <1>5, <3>1, <3>2, <3>3 DEF p
  <2>9. CASE PressRate(u)
    <3>1. PICK row \in page[u].rows :
            /\ ~row.employeeRated
            /\ page' = [page EXCEPT ![u] = RatePage(row.docID, row.employeeID, 0, 0, FALSE, page[u].rows)]
            /\ timesRated' = timesRated
      BY <2>9 DEF PressRate, Navigate
    <3> DEFINE p == RatePage(row.docID, row.employeeID, 0, 0, FALSE, page[u].rows)
    <3>2. /\ SettleableOn(p) = {row.docID} \cup {r.docID : r \in page[u].rows}
          /\ RowsOn(p) = page[u].rows /\ p.docID = row.docID
      BY DEF RatePage, SettleableOn, ErrandsOn, RowsOn
    <3>3. SettleableOn(p) \subseteq SettleableOn(page[u]) /\ RowsOn(p) \subseteq RowsOn(page[u])
      BY <2>6, <2>9, <3>1, <3>2 DEF PressRate
    <3>4. timesRated[p.docID] = 0
      BY <1>2, <2>6, <2>9, <3>1, <3>2 DEF RatedStaysRated, PressRate
    <3> HIDE DEF p
    <3> QED BY <1>5, <3>1, <3>3, <3>4 DEF p
  <2>10. CASE RatingArrives(u)
    <3> DEFINE old == page[u]
               n == LocalValue(u, old.employeeID, "num_ratings")
               r == LocalValue(u, old.employeeID, "rating")
               p == RatePage(old.docID, old.employeeID, n, r, TRUE, old.under)
    <3>1. old.name = "rate" /\ page' = [page EXCEPT ![u] = p] /\ timesRated' = timesRated
      BY <2>10 DEF RatingArrives, Navigate
    <3> HIDE DEF n, r
    <3>2. /\ SettleableOn(p) = {old.docID} \cup {row.docID : row \in old.under}
          /\ RowsOn(p) = old.under /\ p.docID = old.docID
      BY DEF RatePage, SettleableOn, ErrandsOn, RowsOn
    <3>3. SettleableOn(p) \subseteq SettleableOn(page[u]) /\ RowsOn(p) \subseteq RowsOn(page[u])
      BY <2>7, <3>1, <3>2
    <3>4. timesRated[p.docID] = 0
      BY <1>2, <3>1, <3>2 DEF RatedStaysRated
    <3> HIDE DEF p
    <3> QED BY <1>5, <3>1, <3>3, <3>4
  <2>11. CASE BackToRecentTasks(u)
    <3> DEFINE p == RecentPage(page[u].under, TRUE)
    <3>1. page' = [page EXCEPT ![u] = p] /\ timesRated' = timesRated
      BY <2>11 DEF BackToRecentTasks, Navigate
    <3>2. /\ SettleableOn(p) = {row.docID : row \in page[u].under}
          /\ RowsOn(p) = page[u].under /\ p.name # "rate"
      BY RecentSettleable
    <3>3. SettleableOn(p) \subseteq SettleableOn(page[u]) /\ RowsOn(p) \subseteq RowsOn(page[u])
      BY <2>7, <2>11, <3>2 DEF BackToRecentTasks
    <3> HIDE DEF p
    <3> QED BY <1>5, <3>1, <3>2, <3>3
  <2>12. ASSUME NEW stars \in StarChoices, CompleteRating(u, stars)
         PROVE  SettlementInv'
    <3>1. PICK t : t = page[u].docID
      OBVIOUS
    <3>2. /\ t \in Task /\ Owns(u, t) /\ timesRated[t] = 0
          /\ MarkSeen(u, t, "employeeRated")'
          /\ page' = [page EXCEPT ![u] = RecentPage({}, FALSE)]
          /\ timesRated' = [timesRated EXCEPT ![t] = @ + 1]
      BY <2>12, <3>1, CompletedRating
    <3>3. /\ \A v \in User \ {u} : page'[v] = page[v]
          /\ page'[u] = RecentPage({}, FALSE)
          /\ timesRated'[t] = 1
          /\ \A s \in Task \ {t} : timesRated'[s] = timesRated[s]
      BY <1>2, <3>2 DEF TypeOK
    <3>4. RatedOnce'
      BY <1>2, <3>3 DEF RatedOnce
    <3>5. ASSUME NEW v \in User, NEW s \in SettleableOn(page'[v])
          PROVE  v # u /\ s \in SettleableOn(page[v]) /\ s \in Task /\ s # t
                 /\ Owns(v, s) /\ AssignedOnPhone(v, s)
      <4>1. v # u
        BY <2>2, <3>3, <3>5
      <4>2. s \in SettleableOn(page[v]) /\ s \in Task
        BY <1>2, <3>3, <3>5, <4>1, SettleablePages
      <4>3. Owns(v, s) /\ AssignedOnPhone(v, s)
        BY <1>2, <4>2 DEF PagesAreOwn
      <4>4. s # t
        BY <1>2, <3>2, <4>1, <4>2, <4>3 DEF OwnerInv, OneOwner
      <4> QED BY <4>1, <4>2, <4>3, <4>4
    <3>6. PagesAreOwn'
      BY <1>1, <3>5 DEF PagesAreOwn, KeepsErrands
    <3>7. ASSUME NEW s \in Task, timesRated'[s] > 0
          PROVE  \E v \in User : SettledOnPhone(v, s, "employeeRated")'
      <4>1. CASE s = t
        <5>1. Owns(u, t)'
          BY <1>1, <3>2 DEF KeepsErrands
        <5> QED BY <3>2, <4>1, <5>1 DEF SeenRight
      <4>2. CASE s # t
        <5>1. PICK v \in User : SettledOnPhone(v, s, "employeeRated")
          BY <1>2, <3>3, <3>7, <4>2 DEF RatedStaysRated
        <5>2. Owns(v, s) /\ MarkSeen(v, s, "employeeRated")
          BY <5>1 DEF SeenRight
        <5>3. Owns(v, s)' /\ MarkSeen(v, s, "employeeRated")'
          BY <1>1, <5>2 DEF KeepsErrands
        <5>4. SettledOnPhone(v, s, "employeeRated")'
          BY <5>3 DEF SeenRight
        <5> QED BY <5>4
      <4> QED BY <4>1, <4>2
    <3>8. ASSUME NEW v \in User, NEW row \in RowsOn(page'[v]), ~row.employeeRated
          PROVE  timesRated'[row.docID] = 0
      <4>1. v # u
        BY <2>2, <3>3
      <4>2. page'[v] = page[v] /\ page[v] \in Page
        BY <1>2, <3>3, <4>1
      <4>3. row \in RowsOn(page[v]) /\ row.docID \in SettleableOn(page'[v])
        BY <4>2, SettleablePages
      <4>4. row.docID \in Task \ {t}
        BY <3>5, <4>3
      <4>5. timesRated[row.docID] = 0
        BY <1>2, <3>8, <4>3 DEF RatedStaysRated
      <4> QED BY <3>3, <4>4, <4>5
    <3>9. ASSUME NEW v \in User, page'[v].name = "rate"
          PROVE  timesRated'[page'[v].docID] = 0
      <4>1. v # u
        BY <2>2, <3>3, <3>9
      <4>2. page'[v] = page[v] /\ page[v] \in Page
        BY <1>2, <3>3, <4>1
      <4>3. page[v].docID \in SettleableOn(page'[v])
        BY <3>9, <4>2, SettleablePages
      <4>4. page[v].docID \in Task \ {t}
        BY <3>5, <4>3
      <4>5. timesRated[page[v].docID] = 0
        BY <1>2, <3>9, <4>2 DEF RatedStaysRated
      <4> QED BY <3>3, <4>2, <4>4, <4>5
    <3>10. RatedStaysRated'
      BY <3>7, <3>8, <3>9 DEF RatedStaysRated
    <3> QED BY <1>1, <3>4, <3>6, <3>10 DEF SettlementInv
  <2> QED BY <1>9, <2>1, <2>3, <2>4, <2>5, <2>8, <2>9, <2>10, <2>11, <2>12 DEF ClientStep
<1>10. ASSUME NEW u \in User, NetworkStep(u)
       PROVE  SettlementInv'
  <2>1. CASE ServerApplies(u) \/ Acknowledged(u) \/ ConnectionLost(u)
    BY <1>6, <2>1 DEF ServerApplies, Acknowledged, ConnectionLost
  <2>2. CASE Relaunch(u)
    BY <1>4, <2>2, NotSettleable DEF Relaunch, Navigate
  <2> QED BY <1>10, <2>1, <2>2 DEF NetworkStep
<1> QED BY <1>7, <1>8, <1>9, <1>10 DEF Next

LEMMA InitSettlement == Init => SettlementInv
<1> SUFFICES ASSUME Init PROVE SettlementInv
  OBVIOUS
<1>1. /\ \A u \in User : pending[u] = << >> /\ applied[u] = 0 /\ page[u] = HomePage
      /\ \A t \in Task : ~Exists(t) /\ timesRated[t] = 0
  BY MarketAssumption DEF Init, Log!LogInit, Exists
<1>2. \A u \in User : \A t, f : Setting(u, t, f) = {}
  BY <1>1 DEF Setting
<1>3. \A u \in User : \A t \in Task : ~Owns(u, t) /\ Posting(u, t) = {}
  BY <1>1, <1>2 DEF Owns, Posting
<1>4. PostingsComeFirst /\ OneOwner /\ MarksAreOwn
  BY <1>1, <1>3 DEF PostingsComeFirst, OneOwner, MarksAreOwn
<1>5. AppliedMarksShow /\ AppliedAcceptsShow /\ SettledErrandIsAssigned
  BY <1>1, <1>2, <1>3 DEF AppliedMarksShow, AppliedAcceptsShow, SettledErrandIsAssigned, Settled
<1>6. PagesAreOwn /\ RatedOnce /\ RatedStaysRated
  BY <1>1, NotSettleable DEF PagesAreOwn, RatedOnce, RatedStaysRated
<1> QED BY <1>4, <1>5, <1>6 DEF OwnerInv, SettlementInv

LEMMA SettlementInvariance == Spec => [](IInv /\ SettlementInv)
<1>1. IInv /\ SettlementInv => SeenRight
  BY MarkIsSeen DEF SettlementInv
<1>2. IInv /\ SettlementInv /\ IInv' /\ SeenRight /\ [Next]_vars => SettlementInv'
  <2> SUFFICES ASSUME IInv, SettlementInv, IInv', SeenRight, [Next]_vars
               PROVE  SettlementInv'
    OBVIOUS
  <2>1. OwnerInv'
    BY OwnerNext
  <2>2. SeenRight'
    BY <2>1, MarkIsSeenNext
  <2> QED BY <2>2, StepSettlement
<1> QED BY <1>1, <1>2, InitIInv, NextIInv, InitSettlement, PTL DEF Spec

-----------------------------------------------------------------------------

(* An errand is marked paid or rated only when somebody has accepted it, also  *)
(* when a posting whose answer was lost is applied again and clears it.        *)
THEOREM MarkedErrandsAreAssigned == Spec => []SettledErrandIsAssigned
<1>1. SettlementInv => SettledErrandIsAssigned
  BY DEF SettlementInv, OwnerInv
<1> QED BY <1>1, SettlementInvariance, PTL

(* A client completes at most one rating for an errand, from whatever page.    *)
THEOREM NobodyRatesTwice == Spec => []RatedOnce
<1>1. SettlementInv => RatedOnce
  BY DEF SettlementInv
<1> QED BY <1>1, SettlementInvariance, PTL

(* Only the client of an errand has a payment or a rating mark for it under    *)
(* way.                                                                        *)
THEOREM OthersNeverSettle == Spec => []OnlyTheClientSettles
<1>1. IInv /\ SettlementInv => OnlyTheClientSettles
  <2> SUFFICES ASSUME IInv, SettlementInv, NEW u \in User, NEW i \in DOMAIN pending[u],
                      IsMark(pending[u][i])
               PROVE  LocalValue(u, pending[u][i].doc, "clientID") = u
    BY DEF OnlyTheClientSettles, IsMark
  <2>1. PICK t \in Task : t = pending[u][i].doc
    BY DEF IsMark
  <2>2. OwnerInv /\ Owns(u, t)
    BY <2>1 DEF SettlementInv, OwnerInv, MarksAreOwn
  <2> QED BY <2>1, <2>2, SeenClient
<1> QED BY <1>1, SettlementInvariance, PTL

(* What a client has paid or rated never looks unpaid or unrated on the        *)
(* client's phone again: every step keeps it, however the acknowledgements,    *)
(* the server's changes and repeated postings fall.                            *)
THEOREM SettlementLasts == Spec => SettlementIsFinal
<1> DEFINE Lasts == \A u \in User, t \in Task, mark \in {"hasPaid", "employeeRated"} :
                       SettledOnPhone(u, t, mark) => SettledOnPhone(u, t, mark)'
<1>1. IInv /\ SettlementInv /\ (IInv /\ SettlementInv)' /\ [Next]_vars => Lasts
  <2> SUFFICES ASSUME IInv, SettlementInv, IInv', SettlementInv', [Next]_vars,
                      NEW u \in User, NEW t \in Task, NEW mark \in {"hasPaid", "employeeRated"},
                      SettledOnPhone(u, t, mark)
               PROVE  SettledOnPhone(u, t, mark)'
    OBVIOUS
  <2>1. KeepsErrands
    BY OwnerNext
  <2>2. SeenRight /\ SeenRight'
    BY MarkIsSeen, MarkIsSeenNext DEF SettlementInv
  <2>3. Owns(u, t) /\ MarkSeen(u, t, mark)
    BY <2>2 DEF SeenRight
  <2>4. Owns(u, t)' /\ MarkSeen(u, t, mark)'
    BY <2>1, <2>3 DEF KeepsErrands
  <2> QED BY <2>2, <2>4 DEF SeenRight
<1>2. IInv /\ SettlementInv /\ (IInv /\ SettlementInv)' /\ [Next]_vars => [Lasts]_vars
  BY <1>1
<1> QED BY <1>2, SettlementInvariance, PTL DEF Spec, SettlementIsFinal
=============================================================================
