------------------------- MODULE ErrandMarketProofs -------------------------
(***************************************************************************)
(* Theorems about ErrandMarket, for any number of accounts, errands and    *)
(* writes under way.                                                       *)
(***************************************************************************)
EXTENDS ErrandMarket, SequenceTheorems, WellFoundedInduction, TLAPS

-----------------------------------------------------------------------------
(* Writes and documents. *)

(* Some element of a set of positions is the last one. *)
LEMMA LastPosition ==
  ASSUME NEW n \in Nat, NEW S \in SUBSET (1..n), S # {}
  PROVE  \E m \in S : \A k \in S : k <= m
<1> DEFINE T == {n - k : k \in S}
<1>1. T \subseteq Nat /\ T # {}
  <2>1. T \subseteq Nat
    OBVIOUS
  <2>2. T # {}
    OBVIOUS
  <2> QED BY <2>1, <2>2
<1>2. PICK x \in T : \A y \in T : ~(<<y, x>> \in OpToRel(<, Nat))
  BY <1>1, NatLessThanWellFounded, WFMin
<1>3. \A y \in T : ~(y < x)
  BY <1>1, <1>2 DEF OpToRel
<1>4. PICK m \in S : x = n - m
  OBVIOUS
<1>5. ASSUME NEW k \in S PROVE k <= m
  <2>1. n - k \in T
    OBVIOUS
  <2>2. ~(n - k < n - m)
    BY <1>3, <1>4, <2>1
  <2> HIDE DEF T
  <2> QED BY <2>2
<1> QED BY <1>5

(* A write that sets the client is a posting. *)
LEMMA PostingIsErrand ==
  ASSUME NEW x \in Write, "clientID" \in DOMAIN x.set
  PROVE  x.doc \in Task /\ x.set \in Errand
<1>1. CASE x \in [doc : Task, set : Errand]
  BY <1>1
<1>2. CASE x \in [doc : Task, set : [employeeID : User]]
  BY <1>2
<1>3. CASE x \in [doc : Task, set : [hasPaid : {TRUE}]]
  BY <1>3
<1>4. CASE x \in [doc : Task, set : [employeeRated : {TRUE}]]
  BY <1>4
<1>5. CASE x \in [doc : User, set : RatingFields]
  BY <1>5 DEF RatingFields
<1> QED BY <1>1, <1>2, <1>3, <1>4, <1>5 DEF Write

LEMMA WriteDocument == \A x \in Write : x.doc \in Task \cup User
BY DEF Write

(* The two kinds of documents have no values in common. *)
LEMMA NoDocumentIsNoErrand == NoDocument \notin Errand /\ NoDocument \notin RatingFields
BY DEF NoDocument, Errand, RatingFields

(* What a write makes of a document. *)
LEMMA MergedErrand ==
  ASSUME NEW e \in Errand, NEW x \in Write, x.doc \in Task
  PROVE  Merged(e, x.set) \in Errand
BY MarketAssumption DEF Write, Errand, Merged

LEMMA MergedPosting ==
  ASSUME NEW e \in Errand \cup {NoDocument}, NEW new \in Errand
  PROVE  Merged(e, new) \in Errand
BY DEF Errand, NoDocument, Merged

LEMMA MergedRatings ==
  ASSUME NEW e \in RatingFields, NEW x \in Write, x.doc \in User
  PROVE  Merged(e, x.set) \in RatingFields
BY MarketAssumption DEF Write, RatingFields, Merged

(* The values the writes give to the fields. *)
LEMMA WriteFields ==
  ASSUME NEW x \in Write
  PROVE  /\ "clientID" \in DOMAIN x.set => x.set["clientID"] \in User
         /\ "employeeID" \in DOMAIN x.set => x.set["employeeID"] \in User \cup {NoOne}
         /\ "hasPaid" \in DOMAIN x.set => x.set["hasPaid"] \in BOOLEAN
         /\ "employeeRated" \in DOMAIN x.set => x.set["employeeRated"] \in BOOLEAN
         /\ "num_ratings" \in DOMAIN x.set => x.set["num_ratings"] \in Nat
         /\ "rating" \in DOMAIN x.set => x.set["rating"] \in Nat
BY DEF Write, Errand, RatingFields

(* The constructors. *)
LEMMA PostWriteType ==
  ASSUME NEW t \in Task, NEW u \in User
  PROVE  PostWrite(t, u) \in Write /\ PostWrite(t, u).doc = t
         /\ "clientID" \in DOMAIN PostWrite(t, u).set
BY DEF PostWrite, NewErrand, Write, Errand

LEMMA MarkWriteTypes ==
  ASSUME NEW t \in Task, NEW u \in User
  PROVE  /\ AcceptWrite(t, u) \in Write /\ AcceptWrite(t, u).doc = t
         /\ PayWrite(t) \in Write /\ PayWrite(t).doc = t
         /\ RatedWrite(t) \in Write /\ RatedWrite(t).doc = t
BY DEF AcceptWrite, PayWrite, RatedWrite, Write

LEMMA RatingWriteType ==
  ASSUME NEW e \in User, NEW n \in Nat, NEW r \in Nat
  PROVE  RatingWrite(e, n, r) \in Write /\ RatingWrite(e, n, r).doc = e
BY DEF RatingWrite, Write, RatingFields

-----------------------------------------------------------------------------
(* What a phone sees. *)

(* The positions that set a field are positions of the log, and the value seen *)
(* is that of one of them or the server's.                                     *)
LEMMA SettingInLog ==
  ASSUME NEW u \in User, pending[u] \in Seq(Write), NEW d, NEW f
  PROVE  Setting(u, d, f) \in SUBSET (1..Len(pending[u]))
BY LenProperties DEF Setting

LEMMA LocalValueCases ==
  ASSUME NEW u \in User, pending[u] \in Seq(Write), NEW d, NEW f
  PROVE  \/ Setting(u, d, f) = {} /\ LocalValue(u, d, f) = documents[d][f]
         \/ \E i \in Setting(u, d, f) : /\ \A j \in Setting(u, d, f) : j <= i
                                        /\ LocalValue(u, d, f) = pending[u][i].set[f]
<1>1. CASE Setting(u, d, f) = {}
  BY <1>1 DEF LocalValue
<1>2. CASE Setting(u, d, f) # {}
  <2> DEFINE setting == Setting(u, d, f)
             newest == CHOOSE i \in setting : \A j \in setting : j <= i
  <2>1. \E i \in setting : \A j \in setting : j <= i
    BY <1>2, SettingInLog, LastPosition, LenProperties
  <2>2. newest \in setting /\ \A j \in setting : j <= newest
    BY <2>1
  <2>3. LocalValue(u, d, f) = pending[u][newest].set[f]
    BY <1>2 DEF LocalValue
  <2> HIDE DEF newest
  <2> QED BY <2>2, <2>3
<1> QED BY <1>1, <1>2

(* An errand the phone has is complete as it sees it. *)
LEMMA LocalErrand ==
  ASSUME TypeOK, NEW u \in User, NEW t \in Task, LocallyExists(u, t)
  PROVE  /\ LocalValue(u, t, "employeeID") \in User \cup {NoOne}
         /\ LocalValue(u, t, "hasPaid") \in BOOLEAN
         /\ LocalValue(u, t, "employeeRated") \in BOOLEAN
<1>1. pending[u] \in Seq(Write)
  BY DEF TypeOK
<1>2. ASSUME NEW f \in {"employeeID", "hasPaid", "employeeRated"}, Setting(u, t, f) = {}
      PROVE  documents[t] \in Errand
  <2>1. ASSUME NEW i \in Setting(u, t, "clientID") PROVE FALSE
    <3>1. i \in DOMAIN pending[u] /\ pending[u][i].doc = t /\ pending[u][i] \in Write
          /\ "clientID" \in DOMAIN pending[u][i].set
      BY <1>1, <2>1, LenProperties, ElementOfSeq DEF Setting
    <3>2. f \in DOMAIN pending[u][i].set
      BY <3>1, PostingIsErrand DEF Errand
    <3> QED BY <1>2, <3>1, <3>2 DEF Setting
  <2>2. Exists(t)
    BY <2>1 DEF LocallyExists
  <2> QED BY <2>2 DEF Exists, TypeOK
<1>3. \A f, i : i \in Setting(u, t, f) =>
         pending[u][i] \in Write /\ f \in DOMAIN pending[u][i].set
  BY <1>1, LenProperties, ElementOfSeq DEF Setting
<1>4. LocalValue(u, t, "employeeID") \in User \cup {NoOne}
  BY <1>1, <1>2, <1>3, LocalValueCases, WriteFields DEF Errand
<1>5. LocalValue(u, t, "hasPaid") \in BOOLEAN
  BY <1>1, <1>2, <1>3, LocalValueCases, WriteFields DEF Errand
<1>6. LocalValue(u, t, "employeeRated") \in BOOLEAN
  BY <1>1, <1>2, <1>3, LocalValueCases, WriteFields DEF Errand
<1> QED BY <1>4, <1>5, <1>6

(* So are the ratings of an account. *)
LEMMA LocalRatings ==
  ASSUME TypeOK, NEW u \in User, NEW e \in User
  PROVE  LocalValue(u, e, "num_ratings") \in Nat /\ LocalValue(u, e, "rating") \in Nat
<1>1. pending[u] \in Seq(Write) /\ documents[e] \in RatingFields
  BY DEF TypeOK
<1>2. \A f, i : i \in Setting(u, e, f) =>
         pending[u][i] \in Write /\ f \in DOMAIN pending[u][i].set
  BY <1>1, LenProperties, ElementOfSeq DEF Setting
<1>3. LocalValue(u, e, "num_ratings") \in Nat
  BY <1>1, <1>2, LocalValueCases, WriteFields DEF RatingFields
<1>4. LocalValue(u, e, "rating") \in Nat
  BY <1>1, <1>2, LocalValueCases, WriteFields DEF RatingFields
<1> QED BY <1>3, <1>4

-----------------------------------------------------------------------------
(* The inductive invariant: the type invariant needs that a write finds its    *)
(* errand, and that needs that a page only shows errands its phone has.        *)

ErrandsOn(p) ==
    CASE p.name = "home"   -> {}
      [] p.name = "feed"   -> p.tasks
      [] p.name = "accept" -> {p.docID}
      [] p.name = "recent" -> {row.docID : row \in p.rows}
      [] p.name = "pay"    -> {p.docID} \cup {row.docID : row \in p.under}
      [] p.name = "rate"   -> {p.docID} \cup {row.docID : row \in p.under}

ShownErrandsExist == \A u \in User : \A t \in ErrandsOn(page[u]) : LocallyExists(u, t)

IInv == TypeOK /\ WritesFindTheirErrand /\ ShownErrandsExist

LEMMA InitIInv == Init => IInv
<1> SUFFICES ASSUME Init PROVE IInv
  OBVIOUS
<1> USE DEF Init, Log!LogInit
<1>1. TypeOK
  <2>1. \A u \in User : documents[u] = [num_ratings |-> 0, rating |-> 0]
    OBVIOUS
  <2>2. \A t \in Task : documents[t] = NoDocument
    BY MarketAssumption
  <2>3. [num_ratings |-> 0, rating |-> 0] \in RatingFields
    BY DEF RatingFields
  <2>4. documents \in [Task \cup User -> Errand \cup RatingFields \cup {NoDocument}]
    BY <2>3
  <2>5. HomePage \in Page
    BY DEF HomePage, Page
  <2>6. << >> \in Seq(Write)
    BY EmptySeq
  <2> QED BY <2>1, <2>2, <2>3, <2>4, <2>5, <2>6 DEF TypeOK
<1>2. WritesFindTheirErrand
  BY EmptySeq DEF WritesFindTheirErrand
<1>3. ShownErrandsExist
  BY DEF ShownErrandsExist, ErrandsOn, HomePage
<1> QED BY <1>1, <1>2, <1>3 DEF IInv

(* A step that shows another page. *)
LEMMA NavigateIInv ==
  ASSUME IInv, NEW u \in User, NEW p \in Page, Navigate(u, p),
         \A t \in ErrandsOn(p) : LocallyExists(u, t)
  PROVE  IInv'
<1> USE DEF IInv, Navigate, Show, logVars, history
<1>1. TypeOK'
  BY DEF TypeOK
<1>2. WritesFindTheirErrand'
  BY DEF WritesFindTheirErrand, Exists, Setting
<1>3. ShownErrandsExist'
  <2> SUFFICES ASSUME NEW v \in User, NEW t \in ErrandsOn(page'[v])
               PROVE  LocallyExists(v, t)'
    BY DEF ShownErrandsExist
  <2>1. page'[v] = IF v = u THEN p ELSE page[v]
    BY DEF TypeOK
  <2>2. LocallyExists(v, t)
    BY <2>1 DEF ShownErrandsExist
  <2> QED BY <2>2 DEF LocallyExists, Exists, Setting
<1> QED BY <1>1, <1>2, <1>3

(* A step that adds writes, each for an errand the phone has or for a new one, *)
(* to the end of the log of u and shows another page.                          *)
LEMMA SubmitIInv ==
  ASSUME IInv, NEW u \in User, NEW p \in Page, NEW xs \in Seq(Write),
         \A k \in 1..Len(xs) : xs[k].doc \in Task =>
            LocallyExists(u, xs[k].doc) \/ "clientID" \in DOMAIN xs[k].set,
         \A t \in ErrandsOn(p) : LocallyExists(u, t),
         pending' = [pending EXCEPT ![u] = @ \o xs],
         UNCHANGED <<applied, documents>>,
         page' = [page EXCEPT ![u] = p],
         timesRated' \in [Task -> Nat], ratingsGiven' \in [User -> Nat]
  PROVE  IInv'
<1>1. \A v \in User : pending[v] \in Seq(Write) /\ applied[v] \in Nat
  BY DEF IInv, TypeOK
<1>2. /\ pending' \in [User -> Seq(Write)]
      /\ pending'[u] = pending[u] \o xs
      /\ \A v \in User \ {u} : pending'[v] = pending[v]
  BY <1>1, ConcatProperties DEF IInv, TypeOK
<1>3. /\ Len(pending'[u]) = Len(pending[u]) + Len(xs)
      /\ \A i \in 1..Len(pending[u]) : pending'[u][i] = pending[u][i]
      /\ \A i \in 1..Len(pending'[u]) : i > Len(pending[u]) =>
            i - Len(pending[u]) \in 1..Len(xs) /\ pending'[u][i] = xs[i - Len(pending[u])]
  BY <1>1, <1>2, ConcatProperties, LenProperties
<1>4. ASSUME NEW v \in User, NEW t, NEW f
      PROVE  Setting(v, t, f) \subseteq Setting(v, t, f)'
  BY <1>1, <1>2, <1>3, LenProperties DEF Setting
<1>5. \A v \in User, t \in Task : LocallyExists(v, t) => LocallyExists(v, t)'
  BY <1>4 DEF LocallyExists, Exists
<1>6. TypeOK'
  BY <1>2 DEF IInv, TypeOK
<1>7. WritesFindTheirErrand'
  <2>1. ASSUME NEW v \in User
        PROVE  applied'[v] <= Len(pending'[v]) /\ applied[v] <= Len(pending[v])
    BY <1>1, <1>2, <1>3, LenProperties DEF IInv, WritesFindTheirErrand
  <2>2. ASSUME NEW v \in User, NEW i \in DOMAIN pending'[v], NEW t \in Task,
               pending'[v][i].doc = t, ~Exists(t)'
        PROVE  i > applied'[v] /\ \E j \in Setting(v, t, "clientID")' : j <= i
    <3>1. i \in 1..Len(pending'[v]) /\ ~Exists(t)
      BY <1>2, <2>2, LenProperties DEF Exists
    <3>2. CASE i <= Len(pending[v])
      <4>1. i \in DOMAIN pending[v] /\ pending[v][i].doc = t
        BY <1>1, <1>2, <1>3, <2>2, <3>1, <3>2, LenProperties
      <4>2. i > applied[v] /\ \E j \in Setting(v, t, "clientID") : j <= i
        BY <3>1, <4>1 DEF IInv, WritesFindTheirErrand
      <4> QED BY <1>4, <4>2
    <3>3. CASE i > Len(pending[v])
      <4>1. v = u /\ i > applied'[v]
        BY <1>1, <1>2, <2>1, <3>1, <3>3, LenProperties
      <4>2. i - Len(pending[u]) \in 1..Len(xs) /\ pending'[u][i] = xs[i - Len(pending[u])]
        BY <1>3, <3>1, <3>3, <4>1
      <4>3. CASE "clientID" \in DOMAIN pending'[u][i].set
        <5>1. i \in Setting(u, t, "clientID")'
          BY <2>2, <4>1, <4>3 DEF Setting
        <5> QED BY <3>1, <4>1, <5>1
      <4>4. CASE LocallyExists(u, t)
        <5>1. PICK j \in Setting(u, t, "clientID") : TRUE
          BY <3>1, <4>4 DEF LocallyExists
        <5>2. j \in 1..Len(pending[u])
          BY <1>1, <5>1, SettingInLog
        <5>3. j \in Setting(u, t, "clientID")' /\ j <= i
          BY <1>1, <1>4, <3>1, <3>3, <4>1, <5>1, <5>2, LenProperties
        <5> QED BY <4>1, <5>3
      <4> QED BY <2>2, <4>1, <4>2, <4>3, <4>4
    <3> QED BY <1>1, <3>1, <3>2, <3>3, LenProperties
  <2> QED BY <2>1, <2>2 DEF WritesFindTheirErrand
<1>8. ShownErrandsExist'
  <2> SUFFICES ASSUME NEW v \in User, NEW t \in ErrandsOn(page'[v])
               PROVE  LocallyExists(v, t)'
    BY DEF ShownErrandsExist
  <2>1. page'[v] = IF v = u THEN p ELSE page[v]
    BY DEF IInv, TypeOK
  <2>2. LocallyExists(v, t)
    BY <2>1 DEF IInv, ShownErrandsExist
  <2> QED BY <1>4, <2>2 DEF LocallyExists, Exists
<1> QED BY <1>6, <1>7, <1>8 DEF IInv

(* The kinds of pages and the errands they show. *)
LEMMA PageKinds ==
  ASSUME NEW p \in Page
  PROVE  /\ p.name = "feed" => p.tasks \subseteq Task /\ ErrandsOn(p) = p.tasks
         /\ p.name = "accept" => p.docID \in Task /\ ErrandsOn(p) = {p.docID}
         /\ p.name = "recent" => /\ p.rows \subseteq Row
                                /\ ErrandsOn(p) = {row.docID : row \in p.rows}
         /\ p.name \in {"pay", "rate"} =>
              /\ p.docID \in Task
              /\ p.under \subseteq Row
              /\ ErrandsOn(p) = {p.docID} \cup {row.docID : row \in p.under}
         /\ p.name = "rate" => /\ p.employeeID \in User
                              /\ p.numOfRatings \in Nat
                              /\ p.currentRating \in Nat
<1>1. p.name = "feed" => p.tasks \subseteq Task
  BY DEF Page
<1>2. p.name = "accept" => p.docID \in Task
  BY DEF Page
<1>3. p.name = "recent" => p.rows \subseteq Row
  BY DEF Page
<1>4. p.name \in {"pay", "rate"} => p.docID \in Task /\ p.under \subseteq Row
  BY DEF Page
<1>5. p.name = "rate" => p.employeeID \in User /\ p.numOfRatings \in Nat
                          /\ p.currentRating \in Nat
  BY DEF Page
<1> QED BY <1>1, <1>2, <1>3, <1>4, <1>5 DEF ErrandsOn

LEMMA PageErrands ==
  ASSUME NEW p \in Page
  PROVE  ErrandsOn(p) \subseteq Task
<1>1. p.name \in {"home", "feed", "accept", "recent", "pay", "rate"}
  BY DEF Page
<1>2. p.name = "home" => ErrandsOn(p) = {}
  BY DEF ErrandsOn
<1>3. \A row \in Row : row.docID \in Task
  BY DEF Row
<1> QED BY <1>1, <1>2, <1>3, PageKinds

LEMMA PageConstructors ==
  /\ HomePage \in Page /\ ErrandsOn(HomePage) = {}
  /\ \A T \in SUBSET Task, b \in BOOLEAN :
        FeedPage(T, b) \in Page /\ ErrandsOn(FeedPage(T, b)) = T
  /\ \A t \in Task : AcceptPage(t) \in Page /\ ErrandsOn(AcceptPage(t)) = {t}
  /\ \A R \in SUBSET Row, b \in BOOLEAN :
        RecentPage(R, b) \in Page /\ ErrandsOn(RecentPage(R, b)) = {row.docID : row \in R}
  /\ \A t \in Task, R \in SUBSET Row :
        /\ PayPage(t, R) \in Page
        /\ ErrandsOn(PayPage(t, R)) = {t} \cup {row.docID : row \in R}
<1>1. HomePage \in Page /\ ErrandsOn(HomePage) = {}
  BY DEF HomePage, Page, ErrandsOn
<1>2. \A T \in SUBSET Task, b \in BOOLEAN :
        FeedPage(T, b) \in Page /\ ErrandsOn(FeedPage(T, b)) = T
  BY DEF FeedPage, Page, ErrandsOn
<1>3. \A t \in Task : AcceptPage(t) \in Page /\ ErrandsOn(AcceptPage(t)) = {t}
  BY DEF AcceptPage, Page, ErrandsOn
<1>4. \A R \in SUBSET Row, b \in BOOLEAN :
        RecentPage(R, b) \in Page /\ ErrandsOn(RecentPage(R, b)) = {row.docID : row \in R}
  BY DEF RecentPage, Page, ErrandsOn
<1>5. \A t \in Task, R \in SUBSET Row :
        /\ PayPage(t, R) \in Page
        /\ ErrandsOn(PayPage(t, R)) = {t} \cup {row.docID : row \in R}
  BY DEF PayPage, Page, ErrandsOn
<1> QED BY <1>1, <1>2, <1>3, <1>4, <1>5

(* round() of a quotient between two whole numbers stays between them. *)
LEMMA RoundedQuotientBounds ==
  ASSUME NEW a \in Nat, NEW b \in Nat \ {0}, NEW low \in Nat, NEW high \in Nat,
         low * b <= a, a <= high * b
  PROVE  RoundedQuotient(a, b) \in low..high
BY SMTT(30) DEF RoundedQuotient

LEMMA NewUserRatingType ==
  ASSUME NEW c \in Nat, NEW n \in Nat, NEW s \in StarSums
  PROVE  NewUserRating(c, n, s) \in Nat
<1> DEFINE a == 3 * c * n + 100 * s
           b == 3 * (n + 1)
<1>1. a \in Nat /\ b \in Nat \ {0} /\ s \in Nat
  BY DEF StarSums, numOfCategories
<1>2. RoundedQuotient(a, b) \in Nat
  <2> HIDE DEF a, b
  <2> QED BY <1>1, SMTT(30) DEF RoundedQuotient
<1> QED BY <1>2 DEF NewUserRating, numOfCategories

-----------------------------------------------------------------------------
(* Every step keeps the invariant. *)

LEMMA RecentRowsType ==
  ASSUME TypeOK, NEW u \in User
  PROVE  RecentRows(u) \subseteq Row /\ \A row \in RecentRows(u) : LocallyExists(u, row.docID)
BY LocalErrand DEF RecentRows, RowOf, Row

LEMMA NetworkIInv ==
  ASSUME IInv, NEW u \in User, ServerApplies(u) \/ Acknowledged(u) \/ ConnectionLost(u)
  PROVE  IInv'
<1> USE DEF IInv, history
<1>1. /\ \A v \in User : pending[v] \in Seq(Write) /\ applied[v] \in Nat
      /\ \A v \in User : Len(pending[v]) \in Nat /\ DOMAIN pending[v] = 1..Len(pending[v])
  BY LenProperties DEF TypeOK
<1>2. CASE ServerApplies(u)
  <2> DEFINE i == applied[u] + 1
             x == pending[u][i]
  <2>1. /\ i \in DOMAIN pending[u] /\ x \in Write
        /\ applied' = [applied EXCEPT ![u] = @ + 1]
        /\ documents' = [documents EXCEPT ![x.doc] = Merged(@, x.set)]
        /\ UNCHANGED <<pending, page, timesRated, ratingsGiven>>
    <3>1. applied[u] < Len(pending[u])
      BY <1>2 DEF ServerApplies, Log!Apply, Log!HasNext
    <3>2. i \in 1..Len(pending[u])
      BY <1>1, <3>1
    <3>3. x \in Write
      BY <1>1, <3>2, ElementOfSeq
    <3> QED BY <1>1, <1>2, <3>2, <3>3 DEF ServerApplies, Log!Apply, Log!NextToApply
  <2>2. ASSUME x.doc \in Task
        PROVE  Merged(documents[x.doc], x.set) \in Errand
    <3>1. CASE Exists(x.doc)
      BY <2>1, <2>2, <3>1, MergedErrand DEF Exists, TypeOK
    <3>2. CASE ~Exists(x.doc)
      <4>1. PICK j \in Setting(u, x.doc, "clientID") : j <= i
        BY <2>1, <2>2, <3>2 DEF WritesFindTheirErrand
      <4>2. j \in DOMAIN pending[u] /\ pending[u][j].doc = x.doc
            /\ "clientID" \in DOMAIN pending[u][j].set
        BY <4>1 DEF Setting
      <4>3. ~(j <= applied[u])
        BY <1>1, <2>2, <3>2, <4>2 DEF WritesFindTheirErrand
      <4>4. j = i
        BY <1>1, <4>1, <4>2, <4>3
      <4>5. x.set \in Errand
        BY <2>1, <4>2, <4>4, PostingIsErrand
      <4> QED BY <2>2, <4>5, MergedPosting DEF TypeOK
    <3> QED BY <3>1, <3>2
  <2>3. ASSUME x.doc \in User
        PROVE  Merged(documents[x.doc], x.set) \in RatingFields
    BY <2>1, <2>3, MergedRatings DEF TypeOK
  <2>4. x.doc \in Task \cup User
    BY <2>1, WriteDocument
  <2> HIDE DEF x
  <2>5. TypeOK'
    <3>1. documents' \in [Task \cup User -> Errand \cup RatingFields \cup {NoDocument}]
      BY <2>1, <2>2, <2>3, <2>4 DEF TypeOK
    <3>2. \A t \in Task : documents'[t] \in Errand \cup {NoDocument}
      BY <2>1, <2>2, <2>4 DEF TypeOK
    <3>3. \A v \in User : documents'[v] \in RatingFields
      BY <2>1, <2>3, <2>4 DEF TypeOK
    <3>4. applied' \in [User -> Nat]
      BY <1>1, <2>1 DEF TypeOK
    <3> QED BY <2>1, <3>1, <3>2, <3>3, <3>4 DEF TypeOK
  <2>6. \A t \in Task : Exists(t) => Exists(t)'
    BY <2>1, <2>2, <2>4, NoDocumentIsNoErrand DEF Exists, TypeOK
  <2>7. x.doc \in Task => documents'[x.doc] # NoDocument
    BY <2>1, <2>2, <2>4, NoDocumentIsNoErrand DEF TypeOK
  <2>8. \A v \in User : \A t, f : Setting(v, t, f)' = Setting(v, t, f)
    BY <2>1 DEF Setting
  <2>9. WritesFindTheirErrand'
    <3>1. ASSUME NEW v \in User
          PROVE  applied'[v] <= Len(pending'[v])
      BY <1>1, <2>1, <3>1 DEF WritesFindTheirErrand, TypeOK
    <3>2. ASSUME NEW v \in User, NEW k \in DOMAIN pending'[v], NEW t \in Task,
                 pending'[v][k].doc = t, ~Exists(t)'
          PROVE  k > applied'[v] /\ \E j \in Setting(v, t, "clientID")' : j <= k
      <4>1. ~Exists(t) /\ k \in DOMAIN pending[v] /\ pending[v][k].doc = t
        BY <2>1, <2>6, <3>2
      <4>2. k > applied[v] /\ \E j \in Setting(v, t, "clientID") : j <= k
        BY <4>1 DEF WritesFindTheirErrand
      <4>3. v = u => k # i
        BY <2>7, <3>2, <4>1 DEF x, Exists
      <4>4. k > applied'[v]
        BY <1>1, <2>1, <4>1, <4>2, <4>3 DEF TypeOK
      <4> QED BY <2>8, <4>2, <4>4
    <3> QED BY <3>1, <3>2 DEF WritesFindTheirErrand
  <2>10. ShownErrandsExist'
    <3> SUFFICES ASSUME NEW v \in User, NEW t \in ErrandsOn(page[v])
                 PROVE  LocallyExists(v, t)'
      BY <2>1 DEF ShownErrandsExist
    <3>1. LocallyExists(v, t)
      BY DEF ShownErrandsExist
    <3>2. t \in Task
      BY PageErrands DEF TypeOK
    <3> QED BY <2>6, <2>8, <3>1, <3>2 DEF LocallyExists
  <2> QED BY <2>5, <2>9, <2>10
<1>3. CASE Acknowledged(u)
  <2>1. /\ applied[u] > 0 /\ applied[u] <= Len(pending[u])
        /\ pending' = [pending EXCEPT ![u] = Tail(@)]
        /\ applied' = [applied EXCEPT ![u] = @ - 1]
        /\ UNCHANGED <<documents, page, timesRated, ratingsGiven>>
    BY <1>3 DEF Acknowledged, Log!Acknowledge, WritesFindTheirErrand
  <2>2. /\ pending[u] # << >>
        /\ pending'[u] \in Seq(Write)
        /\ Len(pending'[u]) = Len(pending[u]) - 1
        /\ DOMAIN pending'[u] = 1..Len(pending'[u])
        /\ \A k \in 1..Len(pending'[u]) : pending'[u][k] = pending[u][k + 1]
        /\ \A v \in User \ {u} : pending'[v] = pending[v]
    <3>1. pending'[u] = Tail(pending[u]) /\ \A v \in User \ {u} : pending'[v] = pending[v]
      BY <2>1 DEF TypeOK
    <3>2. pending[u] # << >>
      BY <1>1, <2>1, EmptySeq
    <3> QED BY <1>1, <3>1, <3>2, HeadTailProperties, LenProperties
  <2>3. TypeOK'
    BY <1>1, <2>1, <2>2 DEF TypeOK
  <2>4. ASSUME NEW t \in Task, NEW j \in Setting(u, t, "clientID"), ~Exists(t)
        PROVE  j > 1 /\ j - 1 \in Setting(u, t, "clientID")'
    <3>1. j \in 1..Len(pending[u]) /\ pending[u][j].doc = t
          /\ "clientID" \in DOMAIN pending[u][j].set
      BY <1>1 DEF Setting
    <3>2. j > applied[u]
      BY <1>1, <2>4, <3>1 DEF WritesFindTheirErrand
    <3>3. j > 1 /\ j - 1 \in 1..Len(pending'[u]) /\ pending'[u][j - 1] = pending[u][j]
      BY <1>1, <2>1, <2>2, <3>1, <3>2
    <3> QED BY <2>2, <3>1, <3>3, LenProperties DEF Setting
  <2>5. \A v \in User \ {u} : \A t, f : Setting(v, t, f)' = Setting(v, t, f)
    BY <2>2 DEF Setting
  <2>6. WritesFindTheirErrand'
    <3>1. ASSUME NEW v \in User
          PROVE  applied'[v] <= Len(pending'[v])
      BY <1>1, <2>1, <2>2, <3>1 DEF WritesFindTheirErrand, TypeOK
    <3>2. ASSUME NEW v \in User, NEW k \in DOMAIN pending'[v], NEW t \in Task,
                 pending'[v][k].doc = t, ~Exists(t)'
          PROVE  k > applied'[v] /\ \E j \in Setting(v, t, "clientID")' : j <= k
      <4>1. ~Exists(t)
        BY <2>1, <3>2 DEF Exists
      <4>2. CASE v # u
        <5>1. applied'[v] = applied[v] /\ k \in DOMAIN pending[v] /\ pending[v][k].doc = t
          BY <2>1, <2>2, <3>2, <4>2 DEF TypeOK
        <5>2. k > applied[v] /\ \E j \in Setting(v, t, "clientID") : j <= k
          BY <4>1, <5>1 DEF WritesFindTheirErrand
        <5> QED BY <2>5, <4>2, <5>1, <5>2
      <4>3. CASE v = u
        <5>1. k \in 1..Len(pending'[u]) /\ k + 1 \in DOMAIN pending[u]
              /\ pending[u][k + 1].doc = t
          <6>1. k \in 1..Len(pending'[u]) /\ pending'[u][k].doc = t
            BY <2>2, <3>2, <4>3
          <6>2. Len(pending[u]) \in Nat /\ DOMAIN pending[u] = 1..Len(pending[u])
                /\ Len(pending'[u]) = Len(pending[u]) - 1
            BY <1>1, <2>2
          <6>3. k + 1 \in 1..Len(pending[u])
            BY <6>1, <6>2
          <6>4. pending'[u][k] = pending[u][k + 1]
            BY <2>2, <6>1
          <6> QED BY <6>1, <6>2, <6>3, <6>4
        <5>2. PICK j \in Setting(u, t, "clientID") : k + 1 > applied[u] /\ j <= k + 1
          BY <4>1, <5>1 DEF WritesFindTheirErrand
        <5>3. j - 1 \in Setting(u, t, "clientID")'
          BY <2>4, <4>1, <5>2
        <5>4. j \in Nat /\ applied'[u] = applied[u] - 1
          BY <1>1, <2>1, <5>2 DEF Setting, TypeOK
        <5> QED BY <1>1, <4>3, <5>1, <5>2, <5>3, <5>4
      <4> QED BY <4>2, <4>3
    <3> QED BY <3>1, <3>2 DEF WritesFindTheirErrand
  <2>7. ShownErrandsExist'
    <3> SUFFICES ASSUME NEW v \in User, NEW t \in ErrandsOn(page[v])
                 PROVE  LocallyExists(v, t)'
      BY <2>1 DEF ShownErrandsExist
    <3>1. LocallyExists(v, t) /\ t \in Task
      BY PageErrands DEF ShownErrandsExist, TypeOK
    <3> QED BY <2>1, <2>4, <2>5, <3>1 DEF LocallyExists, Exists
  <2> QED BY <2>3, <2>6, <2>7
<1>4. CASE ConnectionLost(u)
  <2>1. /\ applied' = [applied EXCEPT ![u] = 0]
        /\ UNCHANGED <<documents, pending, page, timesRated, ratingsGiven>>
    BY <1>4 DEF ConnectionLost, Log!Reconnect
  <2>2. TypeOK'
    BY <2>1 DEF TypeOK
  <2>3. WritesFindTheirErrand'
    <3>1. \A v \in User : 0 <= applied'[v] /\ applied'[v] <= applied[v]
      BY <1>1, <2>1 DEF TypeOK
    <3>2. \A v \in User : \A t, f : Setting(v, t, f)' = Setting(v, t, f)
      BY <2>1 DEF Setting
    <3>3. \A t : Exists(t)' = Exists(t)
      BY <2>1 DEF Exists
    <3>4. ASSUME NEW v \in User
          PROVE  applied'[v] <= Len(pending'[v])
      BY <1>1, <2>1, <3>1 DEF WritesFindTheirErrand, TypeOK
    <3>5. ASSUME NEW v \in User, NEW k \in DOMAIN pending'[v], NEW t \in Task,
                 pending'[v][k].doc = t, ~Exists(t)'
          PROVE  k > applied'[v] /\ \E j \in Setting(v, t, "clientID")' : j <= k
      <4>1. k > applied[v] /\ \E j \in Setting(v, t, "clientID") : j <= k
        BY <2>1, <3>3, <3>5 DEF WritesFindTheirErrand
      <4>2. k \in Nat /\ applied'[v] \in Nat
        BY <1>1, <2>1, <3>5 DEF TypeOK
      <4> QED BY <1>1, <3>1, <3>2, <4>1, <4>2
    <3> QED BY <3>4, <3>5 DEF WritesFindTheirErrand
  <2>4. ShownErrandsExist'
    BY <2>1 DEF ShownErrandsExist, LocallyExists, Exists, Setting
  <2> QED BY <2>2, <2>3, <2>4
<1> QED BY <1>2, <1>3, <1>4

(* Appending one write and two writes, in the form SubmitIInv speaks of. *)
LEMMA OneWrite ==
  ASSUME NEW x \in Write
  PROVE  /\ <<x>> \in Seq(Write) /\ Len(<<x>>) = 1 /\ <<x>>[1] = x
         /\ \A s \in Seq(Write) : Append(s, x) = s \o <<x>>
OBVIOUS

LEMMA SubmitOneIInv ==
  ASSUME IInv, NEW u \in User, NEW p \in Page, NEW x \in Write,
         x.doc \in Task => LocallyExists(u, x.doc) \/ "clientID" \in DOMAIN x.set,
         \A t \in ErrandsOn(p) : LocallyExists(u, t),
         Log!Submit(u, x), page' = [page EXCEPT ![u] = p],
         UNCHANGED <<documents, timesRated, ratingsGiven>>
  PROVE  IInv'
<1>1. pending[u] \in Seq(Write) /\ timesRated \in [Task -> Nat] /\ ratingsGiven \in [User -> Nat]
  BY DEF IInv, TypeOK
<1>2. pending' = [pending EXCEPT ![u] = @ \o <<x>>] /\ applied' = applied
  BY <1>1, OneWrite DEF Log!Submit
<1>3. <<x>> \in Seq(Write) /\ \A k \in 1..Len(<<x>>) : <<x>>[k] = x
  BY OneWrite
<1>4. \A k \in 1..Len(<<x>>) : <<x>>[k].doc \in Task =>
         LocallyExists(u, <<x>>[k].doc) \/ "clientID" \in DOMAIN <<x>>[k].set
  BY <1>3
<1> DEFINE xs == <<x>>
<1> HIDE DEF xs
<1> QED BY <1>1, <1>2, <1>3, <1>4, SubmitIInv DEF xs

LEMMA EmployeeIInv ==
  ASSUME IInv, NEW u \in User, EmployeeStep(u)
  PROVE  IInv'
<1> USE DEF On
<1>1. TypeOK /\ page[u] \in Page /\ \A t \in ErrandsOn(page[u]) : LocallyExists(u, t)
  BY DEF IInv, TypeOK, ShownErrandsExist
<1>2. CASE OpenFeed(u)
  BY <1>2, PageConstructors, NavigateIInv DEF OpenFeed
<1>3. CASE FeedArrives(u)
  <2> DEFINE T == {t \in Task : LocallyExists(u, t)}
  <2>1. Navigate(u, FeedPage(T, TRUE))
    BY <1>3 DEF FeedArrives
  <2> QED BY <2>1, PageConstructors, NavigateIInv
<1>4. ASSUME NEW t \in Task, OpenTask(u, t)
      PROVE  IInv'
  <2>1. LocallyExists(u, t) /\ Navigate(u, AcceptPage(t))
    BY <1>1, <1>4, PageKinds DEF OpenTask
  <2> QED BY <2>1, PageConstructors, NavigateIInv
<1>5. CASE AcceptTask(u)
  <2> DEFINE t == page[u].docID
  <2>1. t \in Task /\ LocallyExists(u, t)
    BY <1>1, <1>5, PageKinds DEF AcceptTask
  <2>2. AcceptWrite(t, u) \in Write /\ AcceptWrite(t, u).doc = t
    BY <2>1, MarkWriteTypes
  <2>3. FeedPage({}, FALSE) \in Page /\ ErrandsOn(FeedPage({}, FALSE)) = {}
    BY PageConstructors
  <2> QED BY <1>5, <2>1, <2>2, <2>3, SubmitOneIInv DEF AcceptTask, Show, history
<1>6. CASE CancelAccept(u)
  BY <1>6, PageConstructors, NavigateIInv DEF CancelAccept
<1>7. CASE LeaveFeed(u)
  BY <1>7, PageConstructors, NavigateIInv DEF LeaveFeed
<1> QED BY <1>2, <1>3, <1>4, <1>5, <1>6, <1>7 DEF EmployeeStep

LEMMA ClientIInv ==
  ASSUME IInv, NEW u \in User, ClientStep(u)
  PROVE  IInv'
<1> USE DEF On
<1>1. TypeOK /\ page[u] \in Page /\ \A t \in ErrandsOn(page[u]) : LocallyExists(u, t)
  BY DEF IInv, TypeOK, ShownErrandsExist
<1>2. RecentPage({}, FALSE) \in Page /\ ErrandsOn(RecentPage({}, FALSE)) = {}
  <2>1. {} \in SUBSET Row /\ FALSE \in BOOLEAN /\ {row.docID : row \in {}} = {}
    OBVIOUS
  <2> QED BY <2>1, PageConstructors
<1>3. ASSUME NEW t \in Task, PostTask(u, t)
      PROVE  IInv'
  <2>1. page[u] \in Page /\ page' = [page EXCEPT ![u] = page[u]]
    BY <1>1, <1>3 DEF PostTask, TypeOK
  <2>2. UNCHANGED <<documents, timesRated, ratingsGiven>> /\ Log!Submit(u, PostWrite(t, u))
    BY <1>3 DEF PostTask, history
  <2> QED BY <1>1, <2>1, <2>2, PostWriteType, SubmitOneIInv
<1>4. CASE OpenRecentTasks(u)
  BY <1>2, <1>4, NavigateIInv DEF OpenRecentTasks
<1>5. CASE RecentTasksArrive(u)
  <2>1. Navigate(u, RecentPage(RecentRows(u), TRUE))
    BY <1>5 DEF RecentTasksArrive
  <2>2. RecentRows(u) \in SUBSET Row /\ \A row \in RecentRows(u) : LocallyExists(u, row.docID)
    BY <1>1, RecentRowsType
  <2>3. RecentPage(RecentRows(u), TRUE) \in Page
        /\ ErrandsOn(RecentPage(RecentRows(u), TRUE)) = {row.docID : row \in RecentRows(u)}
    BY <2>2, PageConstructors
  <2> QED BY <2>1, <2>2, <2>3, NavigateIInv
<1>6. CASE LeaveRecentTasks(u)
  BY <1>6, PageConstructors, NavigateIInv DEF LeaveRecentTasks
<1>7. CASE PressPay(u)
  <2>1. PICK row \in page[u].rows : Navigate(u, PayPage(row.docID, page[u].rows))
    BY <1>7 DEF PressPay
  <2>2. page[u].rows \in SUBSET Row /\ ErrandsOn(page[u]) = {r.docID : r \in page[u].rows}
    BY <1>1, <1>7, PageKinds DEF PressPay
  <2>3. row.docID \in Task
    BY <2>2 DEF Row
  <2>4. PayPage(row.docID, page[u].rows) \in Page
        /\ ErrandsOn(PayPage(row.docID, page[u].rows)) = ErrandsOn(page[u])
    BY <2>2, <2>3, PageConstructors
  <2> QED BY <1>1, <2>1, <2>4, NavigateIInv
<1>8. CASE PressRate(u)
  <2>1. PICK row \in page[u].rows :
          Navigate(u, RatePage(row.docID, row.employeeID, 0, 0, FALSE, page[u].rows))
    BY <1>8 DEF PressRate
  <2>2. page[u].rows \in SUBSET Row /\ ErrandsOn(page[u]) = {r.docID : r \in page[u].rows}
    BY <1>1, <1>8, PageKinds DEF PressRate
  <2>3. row.docID \in Task /\ row.employeeID \in User
    BY <2>2 DEF Row
  <2> DEFINE p == RatePage(row.docID, row.employeeID, 0, 0, FALSE, page[u].rows)
  <2>4. p \in Page /\ ErrandsOn(p) = ErrandsOn(page[u])
    <3>1. p \in Page
      BY <2>2, <2>3 DEF RatePage, Page
    <3>2. ErrandsOn(p) = {row.docID} \cup {r.docID : r \in page[u].rows}
      BY <2>3 DEF RatePage, ErrandsOn
    <3> QED BY <2>2, <3>2, <3>1
  <2> QED BY <1>1, <2>1, <2>4, NavigateIInv
<1>9. CASE ConfirmPayment(u)
  <2> DEFINE t == page[u].docID
  <2>1. t \in Task /\ LocallyExists(u, t)
    BY <1>1, <1>9, PageKinds DEF ConfirmPayment
  <2>2. PayWrite(t) \in Write /\ PayWrite(t).doc = t
    BY <2>1, MarkWriteTypes
  <2> QED BY <1>2, <1>9, <2>1, <2>2, SubmitOneIInv DEF ConfirmPayment, Show, history
<1>10. CASE RatingArrives(u)
  <2> DEFINE old == page[u]
             n == LocalValue(u, old.employeeID, "num_ratings")
             r == LocalValue(u, old.employeeID, "rating")
             p == RatePage(old.docID, old.employeeID, n, r, TRUE, old.under)
  <2>1. Navigate(u, p) /\ old.name = "rate"
    BY <1>10 DEF RatingArrives
  <2>2. old.docID \in Task /\ old.employeeID \in User /\ old.under \in SUBSET Row
        /\ ErrandsOn(old) = {old.docID} \cup {row.docID : row \in old.under}
    BY <1>1, <2>1, PageKinds
  <2>3. n \in Nat /\ r \in Nat
    BY <1>1, <2>2, LocalRatings
  <2>4. p \in Page /\ ErrandsOn(p) = ErrandsOn(old)
    <3> HIDE DEF n, r
    <3>1. p \in Page
      BY <2>2, <2>3 DEF RatePage, Page
    <3>2. ErrandsOn(p) = {old.docID} \cup {row.docID : row \in old.under}
      BY <2>2 DEF RatePage, ErrandsOn
    <3> QED BY <2>2, <3>2, <3>1
  <2> QED BY <1>1, <2>1, <2>4, NavigateIInv
<1>11. ASSUME NEW stars \in StarChoices, CompleteRating(u, stars)
       PROVE  IInv'
  <2> DEFINE p == page[u]
             rating == NewUserRating(p.currentRating, p.numOfRatings, stars)
             given == RatingWrite(p.employeeID, p.numOfRatings + 1, rating)
             xs == <<given, RatedWrite(p.docID)>>
  <2>1. /\ p.name = "rate"
        /\ pending' = [pending EXCEPT ![u] = @ \o xs]
        /\ page' = [page EXCEPT ![u] = RecentPage({}, FALSE)]
        /\ timesRated' = [timesRated EXCEPT ![p.docID] = @ + 1]
        /\ ratingsGiven' = [ratingsGiven EXCEPT ![p.employeeID] = @ + 1]
        /\ UNCHANGED <<documents, applied>>
    BY <1>11 DEF CompleteRating, Show
  <2>2. /\ p.docID \in Task /\ LocallyExists(u, p.docID)
        /\ p.employeeID \in User /\ p.numOfRatings \in Nat /\ p.currentRating \in Nat
    BY <1>1, <2>1, PageKinds
  <2>3. rating \in Nat
    BY <2>2, MarketAssumption, NewUserRatingType
  <2>4. /\ given \in Write /\ given.doc = p.employeeID
        /\ RatedWrite(p.docID) \in Write /\ RatedWrite(p.docID).doc = p.docID
    <3> HIDE DEF rating
    <3> QED BY <2>2, <2>3, RatingWriteType, MarkWriteTypes
  <2> HIDE DEF given
  <2>5. xs \in Seq(Write) /\ Len(xs) = 2 /\ xs[1] = given /\ xs[2] = RatedWrite(p.docID)
    BY <2>4
  <2>6. \A k \in 1..Len(xs) : xs[k].doc \in Task =>
            LocallyExists(u, xs[k].doc) \/ "clientID" \in DOMAIN xs[k].set
    BY <2>2, <2>4, <2>5, MarketAssumption
  <2>7. timesRated' \in [Task -> Nat] /\ ratingsGiven' \in [User -> Nat]
    <3>1. timesRated \in [Task -> Nat] /\ ratingsGiven \in [User -> Nat]
      BY <1>1 DEF TypeOK
    <3> QED BY <2>1, <2>2, <3>1
  <2> HIDE DEF xs
  <2> QED BY <1>2, <2>1, <2>5, <2>6, <2>7, SubmitIInv
<1>12. CASE BackToRecentTasks(u)
  <2>1. page[u].name \in {"pay", "rate"} /\ Navigate(u, RecentPage(page[u].under, TRUE))
    BY <1>12 DEF BackToRecentTasks
  <2>2. page[u].under \in SUBSET Row
        /\ {row.docID : row \in page[u].under} \subseteq ErrandsOn(page[u])
    BY <1>1, <2>1, PageKinds
  <2>3. RecentPage(page[u].under, TRUE) \in Page
        /\ ErrandsOn(RecentPage(page[u].under, TRUE)) \subseteq ErrandsOn(page[u])
    BY <2>2, PageConstructors
  <2> QED BY <1>1, <2>1, <2>3, NavigateIInv
<1> QED BY <1>3, <1>4, <1>5, <1>6, <1>7, <1>8, <1>9, <1>10, <1>11, <1>12 DEF ClientStep

LEMMA NextIInv == IInv /\ [Next]_vars => IInv'
<1> SUFFICES ASSUME IInv, [Next]_vars PROVE IInv'
  OBVIOUS
<1>1. CASE UNCHANGED vars
  BY <1>1 DEF IInv, TypeOK, WritesFindTheirErrand, ShownErrandsExist, LocallyExists,
              Exists, Setting, vars, logVars
<1>2. ASSUME NEW u \in User, NetworkStep(u)
      PROVE  IInv'
  <2>1. CASE Relaunch(u)
    BY <2>1, PageConstructors, NavigateIInv DEF Relaunch
  <2> QED BY <1>2, <2>1, NetworkIInv DEF NetworkStep
<1> QED BY <1>1, <1>2, ClientIInv, EmployeeIInv DEF Next

(* The state has its type: no write ever reaches an errand's document that is  *)
(* not there, so errands are whole; for all accounts, errands and connections. *)
THEOREM TypeCorrect == Spec => []TypeOK
BY InitIInv, NextIInv, PTL DEF Spec, IInv

(* A write for an errand finds its document or travels behind its posting.     *)
THEOREM WritesArriveAfterPosting == Spec => []WritesFindTheirErrand
BY InitIInv, NextIInv, PTL DEF Spec, IInv

-----------------------------------------------------------------------------
(* Ratings stay in their range.                                                *)

GoodRating(n, r) == IF n = 0 THEN r = 0 ELSE r \in RatingRange

RatingInv ==
    /\ RatingInRange
    /\ \A u \in User : \A i \in DOMAIN pending[u] :
          pending[u][i].doc \in User =>
             GoodRating(pending[u][i].set.num_ratings, pending[u][i].set.rating)
    /\ \A u \in User :
          page[u].name = "rate" => GoodRating(page[u].numOfRatings, page[u].currentRating)

LEMMA TimesMonotone ==
  ASSUME NEW a \in Nat, NEW b \in Nat, NEW n \in Nat, a <= b
  PROVE  a * n <= b * n /\ a * n \in Nat /\ b * n \in Nat
OBVIOUS

(* The rounded mean of ratings within one to five stars is within them.        *)
LEMMA NewUserRatingInRange ==
  ASSUME NEW c \in Nat, NEW n \in Nat, NEW s \in StarSums, GoodRating(n, c)
  PROVE  NewUserRating(c, n, s) \in RatingRange
<1> DEFINE a == 3 * c * n + 100 * s
           b == 3 * (n + 1)
<1>1. s \in 3..15
  BY DEF StarSums, numOfCategories
<1>2. 100 * n <= c * n /\ c * n <= 500 * n /\ c * n \in Nat
  <2>1. CASE n = 0
    BY <2>1
  <2>2. CASE n # 0
    <3>1. 100 <= c /\ c <= 500
      BY <2>2 DEF GoodRating, RatingRange
    <3> QED BY <3>1, TimesMonotone
  <2> QED BY <2>1, <2>2
<1>3. a = 3 * (c * n) + 100 * s
  BY <1>1
<1>4. a \in Nat /\ b \in Nat \ {0} /\ 100 * b <= a /\ a <= 500 * b
  <2> DEFINE m == c * n
  <2>1. m \in Nat /\ 100 * n <= m /\ m <= 500 * n /\ a = 3 * m + 100 * s
    BY <1>2, <1>3
  <2>2. b \in Nat \ {0} /\ b = 3 * n + 3
    OBVIOUS
  <2> HIDE DEF a, b, m
  <2>3. a \in Nat /\ 100 * b <= a /\ a <= 500 * b
    BY <1>1, <2>1, <2>2
  <2> QED BY <2>2, <2>3
<1>5. RoundedQuotient(a, b) \in 100..500
  <2> HIDE DEF a, b
  <2>1. \A low, high \in Nat : low * b <= a /\ a <= high * b =>
           RoundedQuotient(a, b) \in low..high
    BY <1>4, RoundedQuotientBounds
  <2>2. 100 \in Nat /\ 500 \in Nat
    OBVIOUS
  <2> QED BY <1>4, <2>1, <2>2, Zenon
<1> QED BY <1>5 DEF NewUserRating, RatingRange, numOfCategories

(* A write for an account sets both of its fields. *)
LEMMA RatingsSetTogether ==
  ASSUME NEW x \in Write, x.doc \in User
  PROVE  x.set \in RatingFields
BY MarketAssumption DEF Write

(* So the two values a phone sees belong together. *)
LEMMA LocalRatingGood ==
  ASSUME TypeOK, RatingInv, NEW u \in User, NEW e \in User
  PROVE  GoodRating(LocalValue(u, e, "num_ratings"), LocalValue(u, e, "rating"))
<1>1. pending[u] \in Seq(Write) /\ DOMAIN pending[u] = 1..Len(pending[u])
      /\ Len(pending[u]) \in Nat
  BY LenProperties DEF TypeOK
<1>2. \A i \in DOMAIN pending[u] : pending[u][i] \in Write
  BY <1>1, ElementOfSeq
<1>3. Setting(u, e, "num_ratings") = Setting(u, e, "rating")
  BY <1>2, RatingsSetTogether DEF Setting, RatingFields
<1>4. CASE Setting(u, e, "rating") = {}
  BY <1>3, <1>4 DEF LocalValue, RatingInv, RatingInRange, GoodRating
<1>5. CASE Setting(u, e, "rating") # {}
  <2>1. PICK i \in Setting(u, e, "num_ratings") :
           /\ \A j \in Setting(u, e, "num_ratings") : j <= i
           /\ LocalValue(u, e, "num_ratings") = pending[u][i].set["num_ratings"]
    BY <1>1, <1>3, <1>5, LocalValueCases
  <2>2. PICK k \in Setting(u, e, "rating") :
           /\ \A j \in Setting(u, e, "rating") : j <= k
           /\ LocalValue(u, e, "rating") = pending[u][k].set["rating"]
    BY <1>1, <1>5, LocalValueCases
  <2>3. i \in Nat /\ k \in Nat /\ i <= k /\ k <= i
    BY <1>1, <1>3, <2>1, <2>2 DEF Setting
  <2>4. i = k
    BY <2>3
  <2>5. i \in DOMAIN pending[u] /\ pending[u][i].doc = e
    BY <2>1 DEF Setting
  <2>6. GoodRating(pending[u][i].set.num_ratings, pending[u][i].set.rating)
    BY <2>5 DEF RatingInv
  <2> QED BY <2>1, <2>2, <2>4, <2>6
<1> QED BY <1>4, <1>5

LEMMA InitRatingInv == Init => RatingInv
<1> SUFFICES ASSUME Init PROVE RatingInv
  OBVIOUS
<1>1. RatingInRange
  BY DEF Init, RatingInRange
<1>2. \A u \in User : pending[u] = << >> /\ page[u].name # "rate"
  BY DEF Init, Log!LogInit, HomePage
<1> QED BY <1>1, <1>2 DEF RatingInv

(* A step that neither touches the server's documents nor adds a rating to a   *)
(* log keeps the invariant, if the page it shows is no rate page or a good one. *)
LEMMA OtherRatingInv ==
  ASSUME TypeOK, RatingInv, NEW u \in User, NEW p,
         page' = [page EXCEPT ![u] = p], documents' = documents,
         p.name = "rate" => GoodRating(p.numOfRatings, p.currentRating),
         \A v \in User : \A i \in DOMAIN pending'[v] : pending'[v][i].doc \in User =>
            \/ \E k \in DOMAIN pending[v] : pending'[v][i] = pending[v][k]
            \/ GoodRating(pending'[v][i].set.num_ratings, pending'[v][i].set.rating)
  PROVE  RatingInv'
<1>1. RatingInRange'
  BY DEF RatingInv, RatingInRange
<1>2. ASSUME NEW v \in User, page'[v].name = "rate"
      PROVE  GoodRating(page'[v].numOfRatings, page'[v].currentRating)
  <2>1. page'[v] = IF v = u THEN p ELSE page[v]
    BY DEF TypeOK
  <2> QED BY <1>2, <2>1 DEF RatingInv
<1>3. ASSUME NEW v \in User, NEW i \in DOMAIN pending'[v], pending'[v][i].doc \in User
      PROVE  GoodRating(pending'[v][i].set.num_ratings, pending'[v][i].set.rating)
  BY <1>3 DEF RatingInv
<1> QED BY <1>1, <1>2, <1>3 DEF RatingInv

(* The data of the page a phone shows, and the new rating, are good. *)
LEMMA StepRatingInv ==
  ASSUME IInv, RatingInv, [Next]_vars
  PROVE  RatingInv'
<1> USE DEF On, Show, Navigate, logVars, history
<1>1. /\ TypeOK
      /\ \A v \in User : pending[v] \in Seq(Write) /\ page[v] \in Page
      /\ \A v \in User : Len(pending[v]) \in Nat /\ DOMAIN pending[v] = 1..Len(pending[v])
  BY LenProperties DEF IInv, TypeOK
<1>2. CASE UNCHANGED vars
  BY <1>2 DEF vars, RatingInv, RatingInRange
<1>3. ASSUME NEW u \in User, NEW p, Navigate(u, p),
             p.name = "rate" => GoodRating(p.numOfRatings, p.currentRating)
      PROVE  RatingInv'
  BY <1>1, <1>3, OtherRatingInv
<1>4. ASSUME NEW u \in User, NEW x \in Write, NEW p, x.doc \in Task, Log!Submit(u, x),
             page' = [page EXCEPT ![u] = p], p.name # "rate", documents' = documents
      PROVE  RatingInv'
  <2>1. pending' = [pending EXCEPT ![u] = Append(@, x)]
    BY <1>4 DEF Log!Submit
  <2>2. ASSUME NEW v \in User, NEW i \in DOMAIN pending'[v], pending'[v][i].doc \in User
        PROVE  \E k \in DOMAIN pending[v] : pending'[v][i] = pending[v][k]
    <3>1. CASE v # u
      BY <1>1, <2>1, <2>2, <3>1 DEF TypeOK
    <3>2. CASE v = u
      <4>1. pending'[u] = Append(pending[u], x)
        BY <1>1, <2>1 DEF TypeOK
      <4>2. i \in 1..Len(pending[u]) + 1
        BY <1>1, <2>2, <3>2, <4>1
      <4>3. CASE i = Len(pending[u]) + 1
        BY <1>1, <1>4, <2>2, <3>2, <4>1, <4>3, MarketAssumption
      <4>4. CASE i \in 1..Len(pending[u])
        BY <1>1, <3>2, <4>1, <4>4
      <4>5. Len(pending[u]) \in Nat
        BY <1>1
      <4>6. i \in 1..Len(pending[u]) \/ i = Len(pending[u]) + 1
        BY <4>2, <4>5
      <4> QED BY <4>3, <4>4, <4>6
    <3> QED BY <3>1, <3>2
  <2> QED BY <1>1, <1>4, <2>2, OtherRatingInv
<1>5. ASSUME NEW u \in User, EmployeeStep(u)
      PROVE  RatingInv'
  <2>1. CASE AcceptTask(u)
    <3> DEFINE x == AcceptWrite(page[u].docID, u)
    <3>1. page[u].docID \in Task
      BY <1>1, <2>1, PageKinds DEF AcceptTask
    <3>2. x \in Write /\ x.doc \in Task
      BY <3>1, MarkWriteTypes
    <3>3. FeedPage({}, FALSE).name # "rate"
      BY DEF FeedPage
    <3> QED BY <1>4, <2>1, <3>2, <3>3 DEF AcceptTask
  <2>2. CASE OpenFeed(u) \/ FeedArrives(u) \/ CancelAccept(u) \/ LeaveFeed(u)
             \/ \E t \in Task : OpenTask(u, t)
    BY <1>3, <2>2 DEF OpenFeed, FeedArrives, CancelAccept, LeaveFeed, OpenTask,
                      FeedPage, HomePage, AcceptPage
  <2> QED BY <1>5, <2>1, <2>2 DEF EmployeeStep
<1>6. ASSUME NEW u \in User, ClientStep(u)
      PROVE  RatingInv'
  <2>1. RecentPage({}, FALSE).name # "rate"
    BY DEF RecentPage
  <2>2. ASSUME NEW t \in Task, PostTask(u, t)
        PROVE  RatingInv'
    <3>1. page' = [page EXCEPT ![u] = page[u]] /\ page[u].name # "rate" /\ documents' = documents
      BY <1>1, <2>2 DEF PostTask, TypeOK
    <3>2. Log!Submit(u, PostWrite(t, u)) /\ PostWrite(t, u) \in Write
          /\ PostWrite(t, u).doc \in Task
      BY <2>2, PostWriteType DEF PostTask
    <3> QED BY <1>4, <3>1, <3>2
  <2>3. CASE ConfirmPayment(u)
    <3>1. page[u].docID \in Task
      BY <1>1, <2>3, PageKinds DEF ConfirmPayment
    <3>2. PayWrite(page[u].docID) \in Write /\ PayWrite(page[u].docID).doc \in Task
      BY <3>1, MarkWriteTypes
    <3> QED BY <1>4, <2>1, <2>3, <3>2 DEF ConfirmPayment
  <2>4. CASE OpenRecentTasks(u) \/ RecentTasksArrive(u) \/ LeaveRecentTasks(u)
             \/ BackToRecentTasks(u) \/ PressPay(u)
    BY <1>3, <2>4 DEF OpenRecentTasks, RecentTasksArrive, LeaveRecentTasks,
                      BackToRecentTasks, PressPay, RecentPage, HomePage, PayPage
  <2>5. CASE PressRate(u)
    <3>1. PICK row \in page[u].rows :
            Navigate(u, RatePage(row.docID, row.employeeID, 0, 0, FALSE, page[u].rows))
      BY <2>5 DEF PressRate
    <3>2. GoodRating(0, 0)
      BY DEF GoodRating
    <3> QED BY <1>3, <3>1, <3>2 DEF RatePage
  <2>6. CASE RatingArrives(u)
    <3> DEFINE e == page[u].employeeID
               n == LocalValue(u, e, "num_ratings")
               r == LocalValue(u, e, "rating")
    <3>1. e \in User
      BY <1>1, <2>6, PageKinds DEF RatingArrives
    <3>2. GoodRating(n, r)
      BY <1>1, <3>1, LocalRatingGood
    <3>3. Navigate(u, RatePage(page[u].docID, e, n, r, TRUE, page[u].under))
      BY <2>6 DEF RatingArrives
    <3> HIDE DEF n, r
    <3> QED BY <1>3, <3>2, <3>3 DEF RatePage
  <2>7. ASSUME NEW stars \in StarChoices, CompleteRating(u, stars)
        PROVE  RatingInv'
    <3> DEFINE p == page[u]
               rating == NewUserRating(p.currentRating, p.numOfRatings, stars)
               given == RatingWrite(p.employeeID, p.numOfRatings + 1, rating)
               xs == <<given, RatedWrite(p.docID)>>
    <3>1. /\ p.name = "rate"
          /\ pending' = [pending EXCEPT ![u] = @ \o xs]
          /\ page' = [page EXCEPT ![u] = RecentPage({}, FALSE)]
          /\ documents' = documents
      BY <2>7 DEF CompleteRating
    <3>2. /\ p.docID \in Task /\ p.employeeID \in User
          /\ p.numOfRatings \in Nat /\ p.currentRating \in Nat
          /\ GoodRating(p.numOfRatings, p.currentRating)
      BY <1>1, <3>1, PageKinds DEF RatingInv
    <3>3. rating \in RatingRange
      BY <3>2, MarketAssumption, NewUserRatingInRange
    <3>4. /\ given.set.num_ratings = p.numOfRatings + 1 /\ given.set.rating = rating
          /\ given \in Write /\ RatedWrite(p.docID) \in Write /\ RatedWrite(p.docID).doc \in Task
      <4> HIDE DEF rating
      <4>1. rating \in Nat
        BY <3>3 DEF RatingRange
      <4>2. given \in Write /\ RatedWrite(p.docID) \in Write /\ RatedWrite(p.docID).doc \in Task
        BY <3>2, <4>1, RatingWriteType, MarkWriteTypes
      <4>3. given.set.num_ratings = p.numOfRatings + 1 /\ given.set.rating = rating
        BY DEF RatingWrite
      <4> QED BY <4>2, <4>3
    <3>5. GoodRating(given.set.num_ratings, given.set.rating)
      <4>1. p.numOfRatings + 1 # 0
        BY <3>2
      <4> HIDE DEF given, rating
      <4> QED BY <3>3, <3>4, <4>1 DEF GoodRating
    <3> HIDE DEF given
    <3>6. xs \in Seq(Write) /\ Len(xs) = 2 /\ xs[1] = given /\ xs[2] = RatedWrite(p.docID)
      BY <3>4
    <3> HIDE DEF xs
    <3>7. ASSUME NEW v \in User, NEW i \in DOMAIN pending'[v], pending'[v][i].doc \in User
          PROVE  \/ \E k \in DOMAIN pending[v] : pending'[v][i] = pending[v][k]
                 \/ GoodRating(pending'[v][i].set.num_ratings, pending'[v][i].set.rating)
      <4>1. CASE v # u
        BY <1>1, <3>1, <3>7, <4>1 DEF TypeOK
      <4>2. CASE v = u
        <5>1. pending'[u] = pending[u] \o xs
          BY <1>1, <3>1 DEF TypeOK
        <5>2. i \in 1..Len(pending[u]) + 2
          BY <1>1, <3>6, <3>7, <4>2, <5>1, ConcatProperties, LenProperties
        <5>3. CASE i \in 1..Len(pending[u])
          BY <1>1, <3>6, <4>2, <5>1, <5>3, ConcatProperties
        <5>4. CASE i = Len(pending[u]) + 1
          <6>1. pending'[u][i] = given
            BY <1>1, <3>6, <5>1, <5>4, ConcatProperties
          <6> QED BY <3>5, <4>2, <6>1
        <5>5. CASE i = Len(pending[u]) + 2
          <6>1. pending'[u][i] = RatedWrite(p.docID)
            BY <1>1, <3>6, <5>1, <5>5, ConcatProperties
          <6> QED BY <3>4, <3>7, <4>2, <6>1, MarketAssumption
        <5> QED BY <1>1, <5>2, <5>3, <5>4, <5>5
      <4> QED BY <4>1, <4>2
    <3> QED BY <1>1, <2>1, <3>1, <3>7, OtherRatingInv
  <2> QED BY <1>6, <2>2, <2>3, <2>4, <2>5, <2>6, <2>7 DEF ClientStep
<1>7. ASSUME NEW u \in User, NetworkStep(u)
      PROVE  RatingInv'
  <2>1. CASE ServerApplies(u)
    <3> DEFINE x == pending[u][applied[u] + 1]
    <3>1. /\ applied[u] + 1 \in DOMAIN pending[u] /\ x \in Write
          /\ documents' = [documents EXCEPT ![x.doc] = Merged(@, x.set)]
          /\ UNCHANGED <<pending, page>>
      <4>1. applied[u] < Len(pending[u]) /\ applied[u] \in Nat
        BY <1>1, <2>1 DEF ServerApplies, Log!Apply, Log!HasNext, TypeOK
      <4>2. applied[u] + 1 \in 1..Len(pending[u])
        BY <1>1, <4>1
      <4> QED BY <1>1, <2>1, <4>2, ElementOfSeq DEF ServerApplies, Log!Apply, Log!NextToApply
    <3>2. RatingInRange'
      <4> SUFFICES ASSUME NEW e \in User
                   PROVE  GoodRating(documents'[e].num_ratings, documents'[e].rating)
        BY DEF RatingInRange, GoodRating
      <4>1. GoodRating(documents[e].num_ratings, documents[e].rating)
        BY DEF RatingInv, RatingInRange, GoodRating
      <4>2. CASE x.doc = e
        <5>1. x.set \in RatingFields /\ GoodRating(x.set.num_ratings, x.set.rating)
          BY <3>1, <4>2, RatingsSetTogether DEF RatingInv
        <5>2. documents'[e] = Merged(documents[e], x.set)
          BY <1>1, <3>1, <4>2 DEF TypeOK
        <5>3. documents'[e].num_ratings = x.set.num_ratings
              /\ documents'[e].rating = x.set.rating
          BY <5>1, <5>2 DEF Merged, RatingFields
        <5> QED BY <5>1, <5>3
      <4>3. CASE x.doc # e
        BY <1>1, <3>1, <4>1, <4>3 DEF TypeOK
      <4> QED BY <4>2, <4>3
    <3> QED BY <3>1, <3>2 DEF RatingInv
  <2>2. CASE Acknowledged(u)
    <3>1. applied[u] > 0 /\ applied[u] <= Len(pending[u]) /\ pending[u] # << >>
          /\ pending' = [pending EXCEPT ![u] = Tail(@)] /\ UNCHANGED <<documents, page>>
      <4>1. applied[u] > 0 /\ applied[u] <= Len(pending[u]) /\ applied[u] \in Nat
            /\ pending' = [pending EXCEPT ![u] = Tail(@)] /\ UNCHANGED <<documents, page>>
        BY <1>1, <2>2 DEF Acknowledged, Log!Acknowledge, IInv, WritesFindTheirErrand, TypeOK
      <4> QED BY <1>1, <4>1, EmptySeq
    <3>2. ASSUME NEW v \in User, NEW i \in DOMAIN pending'[v]
          PROVE  \E k \in DOMAIN pending[v] : pending'[v][i] = pending[v][k]
      <4>1. CASE v # u
        BY <1>1, <3>1, <3>2, <4>1 DEF TypeOK
      <4>2. CASE v = u
        <5>1. pending'[u] = Tail(pending[u])
          BY <1>1, <3>1 DEF TypeOK
        <5>2. i + 1 \in DOMAIN pending[u] /\ pending'[u][i] = pending[u][i + 1]
          <6>1. /\ pending'[u] \in Seq(Write)
                /\ Len(pending'[u]) = Len(pending[u]) - 1
                /\ \A k \in 1..Len(pending'[u]) : pending'[u][k] = pending[u][k + 1]
            BY <1>1, <3>1, <5>1, HeadTailProperties
          <6>2. i \in 1..Len(pending'[u])
            BY <3>2, <4>2, <6>1, LenProperties
          <6> QED BY <1>1, <6>1, <6>2
        <5> QED BY <4>2, <5>2
      <4> QED BY <4>1, <4>2
    <3>3. page' = [page EXCEPT ![u] = page[u]]
      BY <1>1, <3>1 DEF TypeOK
    <3>4. page[u].name = "rate" => GoodRating(page[u].numOfRatings, page[u].currentRating)
      BY DEF RatingInv
    <3>5. documents' = documents
      BY <3>1
    <3> DEFINE p == page[u]
    <3>6. page' = [page EXCEPT ![u] = p] /\ (p.name = "rate" => GoodRating(p.numOfRatings, p.currentRating))
      BY <3>3, <3>4
    <3> HIDE DEF p
    <3> QED BY <1>1, <3>2, <3>5, <3>6, OtherRatingInv
  <2>3. CASE ConnectionLost(u)
    BY <2>3 DEF ConnectionLost, Log!Reconnect, RatingInv, RatingInRange
  <2>4. CASE Relaunch(u)
    BY <1>3, <2>4 DEF Relaunch, HomePage
  <2> QED BY <1>7, <2>1, <2>2, <2>3, <2>4 DEF NetworkStep
<1> QED BY <1>2, <1>5, <1>6, <1>7 DEF Next

(* Every stored rating is within one to five stars, or nobody has rated yet,   *)
(* whatever data ratings were computed from and however often they were sent.  *)
THEOREM RatingsStayInRange == Spec => []RatingInRange
<1>1. RatingInv => RatingInRange
  BY DEF RatingInv
<1>2. IInv /\ RatingInv /\ [Next]_vars => IInv' /\ RatingInv'
  BY NextIInv, StepRatingInv
<1> QED BY <1>1, <1>2, InitIInv, InitRatingInv, PTL DEF Spec
=============================================================================
