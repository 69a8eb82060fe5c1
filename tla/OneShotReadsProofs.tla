------------------------- MODULE OneShotReadsProofs -------------------------
(***************************************************************************)
(* Theorems about OneShotReads, for any number of calls, finitely many     *)
(* documents, and any number of versions and faults.                       *)
(***************************************************************************)
EXTENDS OneShotReads, SequenceTheorems, FiniteSetTheorems, TLAPS

-----------------------------------------------------------------------------
(* The inductive invariant. *)

IsAnswer(m, t) == m.type \in {"added", "removed"} /\ m.target = t
IsDocument(m, t) == m.type \in {"document", "current"} /\ m.target = t

(* No answer to a request for t comes at or after position i of the stream s:  *)
(* t is active by then, if it is listened to.                                  *)
Settled(s, t, i) == \A k \in DOMAIN s : k >= i => ~IsAnswer(s[k], t)

(* Version v of t is in the cache once the first n - 1 messages of s and a     *)
(* snapshot have been read, from what is stored and what is pending for it.    *)
Covered(s, t, v, n, stored, pending) ==
    \/ v <= stored
    \/ v <= pending
    \/ \E j \in DOMAIN s : /\ j < n /\ Settled(s, t, j)
                           /\ IsDocument(s[j], t) /\ v <= s[j].doc

(* The documents of t come in the order of their versions. *)
InOrder(s, t, pending, latest) ==
    /\ pending <= latest
    /\ \A j \in DOMAIN s : IsDocument(s[j], t) /\ s[j].doc # 0 =>
          /\ pending <= s[j].doc
          /\ s[j].doc <= latest
          /\ \A i \in DOMAIN s : i < j /\ IsDocument(s[i], t) => s[i].doc <= s[j].doc

(* Every snapshot that is going to be raised for t has what it says of t ahead *)
(* of it in the stream or in the cache, and is not of an earlier listen.       *)
SnapshotsCovered(s, t, stored, pending, from) ==
    \A n \in DOMAIN s : s[n].type = "snapshot" /\ Settled(s, t, n) =>
        /\ Covered(s, t, s[n].token[t], n, stored, pending)
        /\ from <= s[n].token[t]

(* Only an open stream carries anything, and the server knows what is          *)
(* listened to.                                                                *)
StreamInv ==
    /\ stream # "Open" => /\ responses = << >> /\ ~unannounced
                          /\ \A t \in Target : ~watched[t].on
    /\ stream = "Open" => \A t \in Target : watched[t].on <=> t \in ListenTargets

NewerLater ==
    \A t \in Target :
        InOrder(responses, t, aggregator.updates[t], serverDocument[t])

(* What the server has sent of a target is ahead in the stream or in the cache.*)
SentCovered ==
    \A t \in ListenTargets : watched[t].on =>
        Covered(responses, t, watched[t].doc, Len(responses) + 1,
                remoteDocuments[t], aggregator.updates[t])

CoverInv ==
    \A t \in ListenTargets :
        SnapshotsCovered(responses, t, remoteDocuments[t], aggregator.updates[t],
                         listenedFrom[t])

(* A view in sync shows what is in the cache, and that is new enough. *)
ViewInv ==
    /\ \A t \in Target : listenedFrom[t] <= serverDocument[t]
    /\ \A t \in ListenTargets : current[t] => listenedFrom[t] <= remoteDocuments[t]

IInv == TypeOK /\ TimersAreNeeded /\ TokenCoversCache /\ OutstandingIsUnderWay
            /\ StreamInv /\ NewerLater /\ SentCovered /\ CoverInv /\ ViewInv
            /\ SyncedAnswerIsFresh

-----------------------------------------------------------------------------
(* The messages of the stream. *)

LEMMA MessageFacts ==
  ASSUME NEW m \in Message
  PROVE  /\ m.type \in {"added", "removed", "document", "current", "snapshot"}
         /\ m.type # "snapshot" => m.target \in Target
         /\ m.type \in {"document", "current"} => m.doc \in Version
         /\ m.type = "snapshot" => m.token \in [Target -> Version]
BY DEF Message

LEMMA AnswersFinite ==
  ASSUME NEW s \in Seq(Message), NEW t
  PROVE  /\ AnswersTo(t, s) \subseteq 1..Len(s)
         /\ IsFiniteSet(AnswersTo(t, s)) /\ Cardinality(AnswersTo(t, s)) \in Nat
         /\ Cardinality(AnswersTo(t, s)) = 0 <=> AnswersTo(t, s) = {}
<1>1. Len(s) \in Nat /\ DOMAIN s = 1..Len(s)
  BY LenProperties
<1>2. AnswersTo(t, s) \subseteq 1..Len(s)
  BY <1>1 DEF AnswersTo
<1>3. IsFiniteSet(1..Len(s))
  BY <1>1, FS_Interval
<1>4. IsFiniteSet(AnswersTo(t, s))
  BY <1>2, <1>3, FS_Subset
<1> QED BY <1>2, <1>4, FS_CardinalityType, FS_EmptySet

LEMMA AnswersNone ==
  ASSUME NEW t
  PROVE  Cardinality(AnswersTo(t, << >>)) = 0
<1>1. AnswersTo(t, << >>) = {}
  BY DEF AnswersTo
<1> QED BY <1>1, FS_EmptySet

(* A sequence of messages with one answer to t, or with none, is added. *)
LEMMA AnswersAdded ==
  ASSUME NEW s \in Seq(Message), NEW more \in Seq(Message), NEW t,
         \A i, j \in AnswersTo(t, more) : i = j
  PROVE  Cardinality(AnswersTo(t, s \o more)) =
            Cardinality(AnswersTo(t, s)) + (IF AnswersTo(t, more) = {} THEN 0 ELSE 1)
<1> DEFINE A == AnswersTo(t, s)
           both == s \o more
<1>1. /\ Len(s) \in Nat /\ DOMAIN s = 1..Len(s)
      /\ Len(more) \in Nat /\ DOMAIN more = 1..Len(more)
      /\ both \in Seq(Message) /\ Len(both) = Len(s) + Len(more)
      /\ DOMAIN both = 1..Len(s) + Len(more)
      /\ \A i \in 1..Len(s) + Len(more) :
            both[i] = IF i <= Len(s) THEN s[i] ELSE more[i - Len(s)]
  BY LenProperties, ConcatProperties
<1> HIDE DEF both
<1>2. \A i \in 1..Len(s) : i \in AnswersTo(t, both) <=> i \in A
  BY <1>1 DEF AnswersTo
<1>3. \A i \in 1..Len(s) + Len(more) : i > Len(s) =>
         (i \in AnswersTo(t, both) <=> i - Len(s) \in AnswersTo(t, more))
  BY <1>1 DEF AnswersTo
<1>4. A \subseteq 1..Len(s) /\ IsFiniteSet(A)
  BY AnswersFinite
<1>5. AnswersTo(t, both) \subseteq 1..Len(s) + Len(more)
  BY <1>1 DEF AnswersTo
<1>6. CASE AnswersTo(t, more) = {}
  <2>1. AnswersTo(t, both) = A
    <3>1. ASSUME NEW i \in AnswersTo(t, both) PROVE i \in A
      <4>1. i \in 1..Len(s) + Len(more) /\ i \in Nat
        BY <1>1, <1>5, <3>1
      <4>2. i <= Len(s)
        BY <1>1, <1>3, <1>6, <3>1, <4>1
      <4> QED BY <1>1, <1>2, <3>1, <4>1, <4>2
    <3>2. A \subseteq AnswersTo(t, both)
      BY <1>1, <1>2, <1>4
    <3> QED BY <3>1, <3>2
  <2>2. Cardinality(A) \in Nat
    BY AnswersFinite
  <2> QED BY <1>6, <2>1, <2>2 DEF both
<1>7. CASE AnswersTo(t, more) # {}
  <2>1. PICK k : k \in AnswersTo(t, more)
    BY <1>7
  <2>2. k \in 1..Len(more) /\ \A j \in AnswersTo(t, more) : j = k
    BY <1>1, <2>1 DEF AnswersTo
  <2>3. Len(s) + k \notin A
    BY <1>1, <1>4, <2>2
  <2>4. AnswersTo(t, both) = A \cup {Len(s) + k}
    <3>1. ASSUME NEW i \in AnswersTo(t, both) PROVE i \in A \cup {Len(s) + k}
      <4>1. CASE i <= Len(s)
        BY <1>1, <1>2, <1>5, <3>1, <4>1
      <4>2. CASE i > Len(s)
        <5>1. i \in 1..Len(s) + Len(more) /\ i \in Nat
          BY <1>1, <1>5, <3>1
        <5>2. i - Len(s) = k
          BY <1>3, <2>2, <3>1, <4>2, <5>1
        <5>3. i = Len(s) + k
          BY <1>1, <2>2, <5>1, <5>2
        <5> QED BY <5>3
      <4>3. i \in Nat
        BY <1>1, <1>5, <3>1
      <4> QED BY <1>1, <4>1, <4>2, <4>3
    <3>2. Len(s) + k \in AnswersTo(t, both)
      <4>1. (Len(s) + k) - Len(s) = k /\ Len(s) + k \in 1..Len(s) + Len(more)
        BY <1>1, <2>2
      <4> QED BY <1>1, <1>3, <2>1, <2>2, <4>1
    <3>3. A \subseteq AnswersTo(t, both)
      BY <1>1, <1>2, <1>4
    <3> QED BY <3>1, <3>2, <3>3
  <2>5. Cardinality(A \cup {Len(s) + k}) = Cardinality(A) + 1
    BY <1>4, <2>3, FS_AddElement
  <2> QED BY <1>7, <2>4, <2>5 DEF both
<1> QED BY <1>6, <1>7

LEMMA AnswersAppended ==
  ASSUME NEW s \in Seq(Message), NEW m \in Message, NEW t
  PROVE  Cardinality(AnswersTo(t, Append(s, m))) =
            Cardinality(AnswersTo(t, s)) + (IF IsAnswer(m, t) THEN 1 ELSE 0)
<1>1. <<m>> \in Seq(Message) /\ Append(s, m) = s \o <<m>>
  BY AppendIsConcat
<1>2. AnswersTo(t, <<m>>) = IF IsAnswer(m, t) THEN {1} ELSE {}
  BY DEF AnswersTo, IsAnswer
<1>3. \A i, j \in AnswersTo(t, <<m>>) : i = j
  BY <1>2
<1>4. AnswersTo(t, <<m>>) = {} <=> ~IsAnswer(m, t)
  BY <1>2
<1> QED BY <1>1, <1>3, <1>4, AnswersAdded

LEMMA AnswersRead ==
  ASSUME NEW s \in Seq(Message), s # << >>, NEW t
  PROVE  Cardinality(AnswersTo(t, Tail(s))) =
            Cardinality(AnswersTo(t, s)) - (IF IsAnswer(Head(s), t) THEN 1 ELSE 0)
<1> DEFINE A == AnswersTo(t, s)
           B == AnswersTo(t, Tail(s))
           f == [i \in B |-> i + 1]
<1>1. /\ Len(s) \in Nat /\ DOMAIN s = 1..Len(s) /\ Len(s) > 0
      /\ Tail(s) \in Seq(Message) /\ Len(Tail(s)) = Len(s) - 1
      /\ DOMAIN Tail(s) = 1..Len(s) - 1
      /\ \A i \in 1..Len(s) - 1 : Tail(s)[i] = s[i + 1]
      /\ Head(s) = s[1]
  BY LenProperties, HeadTailProperties, EmptySeq
<1>2. \A i : i \in B <=> i \in 1..Len(s) - 1 /\ i + 1 \in A
  BY <1>1 DEF AnswersTo
<1>3. A \subseteq 1..Len(s) /\ IsFiniteSet(A) /\ Cardinality(A) \in Nat
  BY AnswersFinite
<1>4. B \subseteq 1..Len(s) - 1 /\ IsFiniteSet(B)
  BY <1>1, AnswersFinite
<1>5. f \in Bijection(B, A \ {1})
  <2>1. f \in [B -> A \ {1}]
    BY <1>1, <1>2, <1>4
  <2>2. \A i, j \in B : f[i] = f[j] => i = j
    BY <1>1, <1>4
  <2>3. ASSUME NEW j \in A \ {1} PROVE \E i \in B : f[i] = j
    <3>1. j - 1 \in B /\ f[j - 1] = j
      BY <1>1, <1>2, <1>3
    <3> QED BY <3>1
  <2> QED BY <2>1, <2>2, <2>3 DEF Bijection, Injection, Surjection, IsInjective
<1>6. Cardinality(A \ {1}) = Cardinality(B)
  BY <1>4, <1>5, FS_Bijection DEF ExistsBijection
<1>7. 1 \in A <=> IsAnswer(Head(s), t)
  BY <1>1 DEF AnswersTo, IsAnswer
<1>8. Cardinality(A \ {1}) = IF 1 \in A THEN Cardinality(A) - 1 ELSE Cardinality(A)
  BY <1>3, FS_RemoveElement
<1> QED BY <1>3, <1>6, <1>7, <1>8

(* The answers to the requests for a set of targets. *)
LEMMA SetToSeqFacts ==
  ASSUME NEW S, IsFiniteSet(S)
  PROVE  /\ SetToSeq(S) \in Seq(S)
         /\ \A t \in S : \E i \in DOMAIN SetToSeq(S) : SetToSeq(S)[i] = t
         /\ \A i, j \in DOMAIN SetToSeq(S) : SetToSeq(S)[i] = SetToSeq(S)[j] => i = j
<1> DEFINE n == Cardinality(S)
           f == SetToSeq(S)
<1>1. n \in Nat /\ \E g : g \in Bijection(1..n, S)
  BY FS_CardinalityType DEF ExistsBijection
<1>2. \E g \in [1..n -> S] : IsInjective(g)
  BY <1>1 DEF Bijection, Injection
<1>3. f \in [1..n -> S] /\ IsInjective(f)
  BY <1>2 DEF SetToSeq
<1>4. f \in Injection(1..n, S)
  BY <1>3 DEF Injection
<1>5. Cardinality(1..n) = n
  BY <1>1, FS_Interval
<1>6. f \in Surjection(1..n, S)
  BY <1>4, <1>5, FS_Injection
<1>7. f \in Seq(S)
  BY <1>1, <1>3, SeqDef
<1> QED BY <1>3, <1>6, <1>7 DEF Surjection, IsInjective

AllAdded(S) == [i \in DOMAIN SetToSeq(S) |-> Added(SetToSeq(S)[i])]

LEMMA AllAddedFacts ==
  ASSUME NEW S \in SUBSET Target
  PROVE  /\ AllAdded(S) \in Seq(Message)
         /\ \A i \in DOMAIN AllAdded(S) : AllAdded(S)[i].type = "added"
                                          /\ AllAdded(S)[i].target \in S
         /\ \A t : \A i, j \in AnswersTo(t, AllAdded(S)) : i = j
         /\ \A t : AnswersTo(t, AllAdded(S)) = {} <=> t \notin S
<1> DEFINE q == SetToSeq(S)
           a == AllAdded(S)
<1>1. IsFiniteSet(S)
  BY ReadAssumption, FS_Subset
<1>2. /\ q \in Seq(S) /\ \A t \in S : \E i \in DOMAIN q : q[i] = t
      /\ \A i, j \in DOMAIN q : q[i] = q[j] => i = j
  BY <1>1, SetToSeqFacts
<1>3. Len(q) \in Nat /\ DOMAIN q = 1..Len(q) /\ \A i \in DOMAIN q : q[i] \in S
  BY <1>2, LenProperties
<1>4. a = [i \in 1..Len(q) |-> Added(q[i])]
  BY <1>3 DEF AllAdded
<1>5. \A t \in Target : Added(t) \in Message /\ Added(t).type = "added" /\ Added(t).target = t
  BY DEF Added, Message
<1>6. /\ DOMAIN a = DOMAIN q
      /\ \A i \in DOMAIN q : a[i].type = "added" /\ a[i].target = q[i] /\ a[i] \in Message
  BY <1>3, <1>4, <1>5
<1>7. a \in Seq(Message)
  BY <1>3, <1>4, <1>6
<1>8. \A t, i : i \in AnswersTo(t, a) <=> i \in DOMAIN q /\ q[i] = t
  BY <1>6 DEF AnswersTo
<1> HIDE DEF a, q
<1>9. /\ \A i \in DOMAIN a : a[i].type = "added" /\ a[i].target \in S
      /\ \A t : \A i, j \in AnswersTo(t, a) : i = j
      /\ \A t : AnswersTo(t, a) = {} <=> t \notin S
  BY <1>2, <1>3, <1>6, <1>8
<1> QED BY <1>7, <1>9 DEF a

(* Messages added to the stream: positions and messages of both parts. *)
LEMMA JoinedFacts ==
  ASSUME NEW s \in Seq(Message), NEW more \in Seq(Message),
         NEW both, both = s \o more
  PROVE  /\ Len(s) \in Nat /\ DOMAIN s = 1..Len(s)
         /\ Len(more) \in Nat /\ DOMAIN more = 1..Len(more)
         /\ both \in Seq(Message) /\ Len(both) = Len(s) + Len(more)
         /\ DOMAIN both = 1..Len(s) + Len(more)
         /\ \A i \in DOMAIN s : i \in DOMAIN both /\ both[i] = s[i]
         /\ \A i \in DOMAIN both : i \in Nat
               /\ (i <= Len(s) => i \in DOMAIN s /\ both[i] = s[i])
               /\ (i > Len(s) => i - Len(s) \in DOMAIN more
                                 /\ both[i] = more[i - Len(s)])
<1>1. /\ Len(s) \in Nat /\ DOMAIN s = 1..Len(s)
      /\ Len(more) \in Nat /\ DOMAIN more = 1..Len(more)
      /\ both \in Seq(Message) /\ Len(both) = Len(s) + Len(more)
      /\ DOMAIN both = 1..Len(both)
      /\ \A i \in 1..Len(s) + Len(more) :
            both[i] = IF i <= Len(s) THEN s[i] ELSE more[i - Len(s)]
  BY LenProperties, ConcatProperties
<1>2. ASSUME NEW i \in DOMAIN s PROVE i \in DOMAIN both /\ both[i] = s[i]
  BY <1>1
<1>3. ASSUME NEW i \in DOMAIN both
      PROVE  /\ i \in Nat
             /\ i <= Len(s) => i \in DOMAIN s /\ both[i] = s[i]
             /\ i > Len(s) => i - Len(s) \in DOMAIN more /\ both[i] = more[i - Len(s)]
  BY <1>1
<1> QED BY <1>1, <1>2, <1>3

LEMMA JoinedSettled ==
  ASSUME NEW s \in Seq(Message), NEW more \in Seq(Message),
         NEW both, both = s \o more, NEW t
  PROVE  /\ \A i : Settled(both, t, i) => Settled(s, t, i)
         /\ \A i : Settled(s, t, i) /\ (\A k \in DOMAIN more : ~IsAnswer(more[k], t))
                      => Settled(both, t, i)
         /\ \A i \in 1..Len(s) : Settled(both, t, i) =>
               \A k \in DOMAIN more : ~IsAnswer(more[k], t)
<1>1. /\ Len(s) \in Nat /\ DOMAIN s = 1..Len(s)
      /\ Len(more) \in Nat /\ DOMAIN more = 1..Len(more)
      /\ DOMAIN both = 1..Len(s) + Len(more)
      /\ \A i \in DOMAIN s : i \in DOMAIN both /\ both[i] = s[i]
      /\ \A i \in DOMAIN both : i \in Nat
            /\ (i <= Len(s) => i \in DOMAIN s /\ both[i] = s[i])
            /\ (i > Len(s) => i - Len(s) \in DOMAIN more
                              /\ both[i] = more[i - Len(s)])
  BY JoinedFacts
<1>2. ASSUME NEW i, Settled(both, t, i) PROVE Settled(s, t, i)
  BY <1>1, <1>2 DEF Settled
<1>3. ASSUME NEW i, Settled(s, t, i), \A k \in DOMAIN more : ~IsAnswer(more[k], t)
      PROVE  Settled(both, t, i)
  <2> SUFFICES ASSUME NEW k \in DOMAIN both, k >= i PROVE ~IsAnswer(both[k], t)
    BY DEF Settled
  <2>1. CASE k <= Len(s)
    BY <1>1, <1>3, <2>1 DEF Settled
  <2>2. CASE k > Len(s)
    BY <1>1, <1>3, <2>2
  <2> QED BY <1>1, <2>1, <2>2
<1>4. ASSUME NEW i \in 1..Len(s), Settled(both, t, i), NEW k \in DOMAIN more
      PROVE  ~IsAnswer(more[k], t)
  <2>1. /\ Len(s) + k \in DOMAIN both /\ Len(s) + k > Len(s) /\ Len(s) + k >= i
        /\ (Len(s) + k) - Len(s) = k
    BY <1>1
  <2>2. both[Len(s) + k] = more[k]
    BY <1>1, <2>1
  <2>3. ~IsAnswer(both[Len(s) + k], t)
    BY <1>4, <2>1 DEF Settled
  <2> QED BY <2>2, <2>3
<1> QED BY <1>2, <1>3, <1>4

NoAnswers(s, t) == \A k \in DOMAIN s : ~IsAnswer(s[k], t)

LEMMA CoveredWhenJoined ==
  ASSUME NEW s \in Seq(Message), NEW more \in Seq(Message),
         NEW both, both = s \o more, NEW t, NEW v, NEW n \in Nat, NEW m \in Nat, n <= m,
         NEW stored, NEW pending,
         NoAnswers(more, t),
         Covered(s, t, v, n, stored, pending)
  PROVE  Covered(both, t, v, m, stored, pending)
<1>1. CASE v <= stored \/ v <= pending
  BY <1>1 DEF Covered
<1>2. CASE \E j \in DOMAIN s : /\ j < n /\ Settled(s, t, j)
                               /\ IsDocument(s[j], t) /\ v <= s[j].doc
  <2>1. PICK j \in DOMAIN s : /\ j < n /\ Settled(s, t, j)
                              /\ IsDocument(s[j], t) /\ v <= s[j].doc
    BY <1>2
  <2>2. j \in DOMAIN both /\ both[j] = s[j] /\ j \in Nat
    BY JoinedFacts
  <2>3. Settled(both, t, j)
    BY <2>1, JoinedSettled DEF NoAnswers
  <2>4. j < m
    BY <2>1, <2>2
  <2> QED BY <2>1, <2>2, <2>3, <2>4 DEF Covered
<1> QED BY <1>1, <1>2 DEF Covered

(* A document sent later is the latest, or says nothing new. *)
LEMMA InOrderWhenJoined ==
  ASSUME NEW s \in Seq(Message), NEW more \in Seq(Message),
         NEW both, both = s \o more, NEW t,
         NEW pending \in Nat, NEW latest \in Nat,
         \A k \in DOMAIN more : IsDocument(more[k], t) => more[k].doc \in {0, latest},
         InOrder(s, t, pending, latest)
  PROVE  InOrder(both, t, pending, latest)
<1>1. /\ Len(s) \in Nat
      /\ \A i \in DOMAIN both : i \in Nat
            /\ (i <= Len(s) => i \in DOMAIN s /\ both[i] = s[i])
            /\ (i > Len(s) => i - Len(s) \in DOMAIN more
                              /\ both[i] = more[i - Len(s)])
  BY JoinedFacts
<1>2. ASSUME NEW i \in DOMAIN both, IsDocument(both[i], t)
      PROVE  both[i].doc \in Nat /\ both[i].doc <= latest
  <2>1. CASE i <= Len(s)
    <3>1. i \in DOMAIN s /\ both[i] = s[i]
      BY <1>1, <2>1
    <3>2. s[i] \in Message
      BY <3>1, LenProperties
    <3>3. s[i].doc \in Nat
      BY <1>2, <3>1, <3>2, MessageFacts DEF IsDocument, Version
    <3>4. CASE s[i].doc = 0
      BY <3>1, <3>4
    <3>5. CASE s[i].doc # 0
      BY <1>2, <3>1, <3>3, <3>5 DEF InOrder
    <3> QED BY <3>4, <3>5
  <2>2. CASE i > Len(s)
    <3>1. both[i].doc \in {0, latest}
      BY <1>1, <1>2, <2>2
    <3> QED BY <3>1
  <2> QED BY <1>1, <2>1, <2>2
<1>3. ASSUME NEW j \in DOMAIN both, IsDocument(both[j], t), both[j].doc # 0
      PROVE  /\ pending <= both[j].doc
             /\ \A i \in DOMAIN both : i < j /\ IsDocument(both[i], t) =>
                   both[i].doc <= both[j].doc
  <2>1. CASE j <= Len(s)
    <3>1. j \in DOMAIN s /\ both[j] = s[j]
      BY <1>1, <2>1
    <3>2. ASSUME NEW i \in DOMAIN both, i < j, IsDocument(both[i], t)
          PROVE  both[i].doc <= both[j].doc
      <4>1. i <= Len(s)
        BY <1>1, <2>1, <3>2
      <4>2. i \in DOMAIN s /\ both[i] = s[i]
        BY <1>1, <4>1
      <4> QED BY <1>3, <3>1, <3>2, <4>2 DEF InOrder
    <3> QED BY <1>3, <3>1, <3>2 DEF InOrder
  <2>2. CASE j > Len(s)
    <3>1. both[j].doc = latest
      BY <1>1, <1>3, <2>2
    <3>2. pending <= both[j].doc
      BY <3>1 DEF InOrder
    <3>3. \A i \in DOMAIN both : IsDocument(both[i], t) => both[i].doc <= both[j].doc
      BY <1>2, <3>1
    <3> QED BY <3>2, <3>3
  <2>3. j <= Len(s) \/ j > Len(s)
    BY <1>1
  <2> QED BY <2>1, <2>2, <2>3
<1>4. pending <= latest
  BY DEF InOrder
<1> QED BY <1>2, <1>3, <1>4 DEF InOrder

(* A message is read: the next one moves up. *)
LEMMA ReadFacts ==
  ASSUME NEW s \in Seq(Message), s # << >>, NEW rest, rest = Tail(s)
  PROVE  /\ Len(s) \in Nat /\ Len(s) > 0 /\ DOMAIN s = 1..Len(s)
         /\ 1 \in DOMAIN s /\ Head(s) = s[1] /\ Head(s) \in Message
         /\ rest \in Seq(Message) /\ Len(rest) = Len(s) - 1
         /\ DOMAIN rest = 1..Len(s) - 1
         /\ \A i \in DOMAIN rest : i \in Nat /\ i + 1 \in DOMAIN s /\ rest[i] = s[i + 1]
         /\ \A i \in DOMAIN s : i \in Nat
               /\ (i # 1 => i - 1 \in DOMAIN rest /\ rest[i - 1] = s[i])
<1>1. /\ Len(s) \in Nat /\ DOMAIN s = 1..Len(s) /\ Len(s) > 0
      /\ rest \in Seq(Message) /\ Len(rest) = Len(s) - 1
      /\ DOMAIN rest = 1..Len(rest)
      /\ \A i \in 1..Len(s) - 1 : rest[i] = s[i + 1]
      /\ Head(s) = s[1] /\ Head(s) \in Message
  BY LenProperties, HeadTailProperties, EmptySeq
<1>2. ASSUME NEW i \in DOMAIN rest
      PROVE  i \in Nat /\ i + 1 \in DOMAIN s /\ rest[i] = s[i + 1]
  BY <1>1
<1>3. ASSUME NEW i \in DOMAIN s, i # 1
      PROVE  i - 1 \in DOMAIN rest /\ rest[i - 1] = s[i]
  <2>1. i - 1 \in 1..Len(s) - 1 /\ (i - 1) + 1 = i
    BY <1>1, <1>3
  <2>2. rest[i - 1] = s[(i - 1) + 1]
    BY <1>1, <2>1
  <2> QED BY <1>1, <2>1, <2>2
<1>4. \A i \in DOMAIN s : i \in Nat
  BY <1>1
<1>5. 1 \in DOMAIN s
  BY <1>1
<1> QED BY <1>1, <1>2, <1>3, <1>4, <1>5

LEMMA ReadSettled ==
  ASSUME NEW s \in Seq(Message), s # << >>, NEW rest, rest = Tail(s), NEW t,
         NEW i \in DOMAIN rest
  PROVE  Settled(rest, t, i) <=> Settled(s, t, i + 1)
<1>1. /\ \A k \in DOMAIN rest : k \in Nat /\ k + 1 \in DOMAIN s /\ rest[k] = s[k + 1]
      /\ \A k \in DOMAIN s : k \in Nat
            /\ (k # 1 => k - 1 \in DOMAIN rest /\ rest[k - 1] = s[k])
  BY ReadFacts
<1>2. i \in Nat /\ i > 0
  BY ReadFacts
<1>3. ASSUME Settled(rest, t, i), NEW k \in DOMAIN s, k >= i + 1
      PROVE  ~IsAnswer(s[k], t)
  <2>1. k \in Nat /\ k # 1 /\ k - 1 >= i
    BY <1>1, <1>2, <1>3
  <2> QED BY <1>1, <1>3, <2>1 DEF Settled
<1>4. ASSUME Settled(s, t, i + 1), NEW k \in DOMAIN rest, k >= i
      PROVE  ~IsAnswer(rest[k], t)
  <2>1. k \in Nat /\ k + 1 >= i + 1 /\ k + 1 \in DOMAIN s /\ rest[k] = s[k + 1]
    BY <1>1, <1>2, <1>4
  <2> QED BY <1>4, <2>1 DEF Settled
<1> QED BY <1>3, <1>4 DEF Settled

(* What is pending for t goes into the cache or stays pending, and a document  *)
(* that is read and not ignored is pending or already there.                   *)
LEMMA CoveredWhenRead ==
  ASSUME NEW s \in Seq(Message), s # << >>, NEW rest, rest = Tail(s), NEW t,
         NEW v \in Nat, NEW n \in Nat,
         NEW stored \in Nat, NEW pending \in Nat, NEW stored2 \in Nat, NEW pending2 \in Nat,
         stored <= stored2, pending <= stored2 \/ pending <= pending2,
         IsDocument(s[1], t) /\ Settled(s, t, 1) =>
             s[1].doc <= stored2 \/ s[1].doc <= pending2,
         Covered(s, t, v, n, stored, pending)
  PROVE  Covered(rest, t, v, n - 1, stored2, pending2)
<1>1. CASE v <= stored \/ v <= pending
  BY <1>1 DEF Covered
<1>2. CASE \E j \in DOMAIN s : /\ j < n /\ Settled(s, t, j)
                               /\ IsDocument(s[j], t) /\ v <= s[j].doc
  <2>1. PICK j \in DOMAIN s : /\ j < n /\ Settled(s, t, j)
                              /\ IsDocument(s[j], t) /\ v <= s[j].doc
    BY <1>2
  <2>2. j \in Nat /\ (j # 1 => j - 1 \in DOMAIN rest /\ rest[j - 1] = s[j])
    BY ReadFacts
  <2>3. CASE j = 1
    <3>1. s[1] \in Message /\ IsDocument(s[1], t) /\ v <= s[1].doc
      BY <2>1, <2>3, ReadFacts
    <3>2. s[1].doc \in Nat
      BY <3>1, MessageFacts DEF IsDocument, Version
    <3>3. s[1].doc <= stored2 \/ s[1].doc <= pending2
      BY <2>1, <2>3
    <3>4. v <= stored2 \/ v <= pending2
      BY <3>1, <3>2, <3>3
    <3> QED BY <3>4 DEF Covered
  <2>4. CASE j # 1
    <3>1. j - 1 \in DOMAIN rest /\ rest[j - 1] = s[j] /\ (j - 1) + 1 = j /\ j - 1 < n - 1
      BY <2>1, <2>2, <2>4
    <3>2. Settled(rest, t, j - 1)
      BY <2>1, <3>1, ReadSettled
    <3> QED BY <2>1, <3>1, <3>2 DEF Covered
  <2> QED BY <2>3, <2>4
<1> QED BY <1>1, <1>2 DEF Covered

LEMMA SnapshotsCoveredWhenRead ==
  ASSUME NEW s \in Seq(Message), s # << >>, NEW rest, rest = Tail(s), NEW t \in Target,
         NEW stored \in Nat, NEW pending \in Nat, NEW stored2 \in Nat, NEW pending2 \in Nat,
         stored <= stored2, pending <= stored2 \/ pending <= pending2,
         IsDocument(s[1], t) /\ Settled(s, t, 1) =>
             s[1].doc <= stored2 \/ s[1].doc <= pending2,
         NEW from, SnapshotsCovered(s, t, stored, pending, from)
  PROVE  SnapshotsCovered(rest, t, stored2, pending2, from)
<1> SUFFICES ASSUME NEW n \in DOMAIN rest, rest[n].type = "snapshot", Settled(rest, t, n)
             PROVE  /\ Covered(rest, t, rest[n].token[t], n, stored2, pending2)
                    /\ from <= rest[n].token[t]
  BY DEF SnapshotsCovered
<1>1. n \in Nat /\ n + 1 \in DOMAIN s /\ rest[n] = s[n + 1]
  BY ReadFacts
<1>2. Settled(s, t, n + 1)
  BY ReadSettled
<1>3. /\ Covered(s, t, rest[n].token[t], n + 1, stored, pending)
      /\ from <= rest[n].token[t]
  BY <1>1, <1>2 DEF SnapshotsCovered
<1>4. rest[n] \in Message
  BY ReadFacts, LenProperties
<1>5. rest[n].token[t] \in Nat
  BY <1>4, MessageFacts DEF Version
<1>6. (n + 1) - 1 = n /\ n + 1 \in Nat
  BY <1>1
<1>7. Covered(rest, t, rest[n].token[t], (n + 1) - 1, stored2, pending2)
  BY <1>3, <1>5, <1>6, CoveredWhenRead
<1> QED BY <1>3, <1>6, <1>7

LEMMA InOrderWhenRead ==
  ASSUME NEW s \in Seq(Message), s # << >>, NEW rest, rest = Tail(s), NEW t,
         NEW pending \in Nat, NEW pending2 \in Nat, NEW latest \in Nat,
         \/ pending2 = pending
         \/ pending2 = 0
         \/ IsDocument(s[1], t) /\ s[1].doc # 0 /\ pending2 = s[1].doc,
         InOrder(s, t, pending, latest)
  PROVE  InOrder(rest, t, pending2, latest)
<1>1. /\ \A i \in DOMAIN rest : i \in Nat /\ i > 0 /\ i + 1 \in DOMAIN s /\ rest[i] = s[i + 1]
      /\ 1 \in DOMAIN s
  BY ReadFacts
<1>2. pending2 <= latest
  BY <1>1 DEF InOrder
<1>3. ASSUME NEW j \in DOMAIN rest, IsDocument(rest[j], t), rest[j].doc # 0
      PROVE  /\ pending2 <= rest[j].doc
             /\ rest[j].doc <= latest
             /\ \A i \in DOMAIN rest : i < j /\ IsDocument(rest[i], t) =>
                   rest[i].doc <= rest[j].doc
  <2>1. j \in Nat /\ j > 0 /\ j + 1 \in DOMAIN s /\ rest[j] = s[j + 1] /\ 1 < j + 1
    BY <1>1
  <2>2. /\ pending <= s[j + 1].doc /\ s[j + 1].doc <= latest
        /\ \A i \in DOMAIN s : i < j + 1 /\ IsDocument(s[i], t) => s[i].doc <= s[j + 1].doc
    BY <1>3, <2>1 DEF InOrder
  <2>3. rest[j] \in Message
    BY ReadFacts, LenProperties
  <2>4. rest[j].doc \in Nat
    BY <1>3, <2>3, MessageFacts DEF IsDocument, Version
  <2>5. pending2 <= rest[j].doc
    BY <1>1, <2>1, <2>2, <2>4
  <2>6. ASSUME NEW i \in DOMAIN rest, i < j, IsDocument(rest[i], t)
        PROVE  rest[i].doc <= rest[j].doc
    <3>1. i + 1 \in DOMAIN s /\ rest[i] = s[i + 1] /\ i + 1 < j + 1
      BY <1>1, <2>1, <2>6
    <3> QED BY <2>1, <2>2, <2>6, <3>1
  <2> QED BY <2>1, <2>2, <2>5, <2>6
<1> QED BY <1>2, <1>3 DEF InOrder

LEMMA SnapshotsCoveredWhenJoined ==
  ASSUME NEW s \in Seq(Message), NEW more \in Seq(Message),
         NEW both, both = s \o more, NEW t, NEW stored, NEW pending, NEW from,
         NoAnswers(more, t),
         \A k \in DOMAIN more : more[k].type = "snapshot" =>
            /\ Covered(s, t, more[k].token[t], Len(s) + 1, stored, pending)
            /\ from <= more[k].token[t],
         SnapshotsCovered(s, t, stored, pending, from)
  PROVE  SnapshotsCovered(both, t, stored, pending, from)
<1>0. ASSUME NEW v, NEW i \in Nat, NEW j \in Nat, i <= j,
             Covered(s, t, v, i, stored, pending)
      PROVE  Covered(both, t, v, j, stored, pending)
  BY <1>0, CoveredWhenJoined
<1> SUFFICES ASSUME NEW n \in DOMAIN both, both[n].type = "snapshot", Settled(both, t, n)
             PROVE  /\ Covered(both, t, both[n].token[t], n, stored, pending)
                    /\ from <= both[n].token[t]
  BY DEF SnapshotsCovered
<1> PICK v : v = both[n].token[t]
  OBVIOUS
<1>1. /\ Len(s) \in Nat /\ n \in Nat
      /\ n <= Len(s) => n \in DOMAIN s /\ both[n] = s[n]
      /\ n > Len(s) => n - Len(s) \in DOMAIN more /\ both[n] = more[n - Len(s)]
  BY JoinedFacts
<1>2. CASE n <= Len(s)
  <2>1. Settled(s, t, n)
    BY JoinedSettled
  <2>2. /\ Covered(s, t, both[n].token[t], n, stored, pending)
        /\ from <= both[n].token[t]
    BY <1>1, <1>2, <2>1 DEF SnapshotsCovered
  <2>3. n <= n /\ n \in Nat
    BY <1>1
  <2>4. Covered(both, t, v, n, stored, pending)
    <3>1. Covered(s, t, v, n, stored, pending)
      BY <2>2
    <3> QED BY <1>0, <2>3, <3>1
  <2> QED BY <2>2, <2>4
<1>3. CASE n > Len(s)
  <2>1. /\ Covered(s, t, both[n].token[t], Len(s) + 1, stored, pending)
        /\ from <= both[n].token[t]
    BY <1>1, <1>3
  <2>2. Len(s) + 1 <= n /\ Len(s) + 1 \in Nat /\ n \in Nat
    BY <1>1, <1>3
  <2>3. Covered(both, t, v, n, stored, pending)
    <3>1. Covered(s, t, v, Len(s) + 1, stored, pending)
      BY <2>1
    <3> QED BY <1>0, <2>2, <3>1
  <2> QED BY <2>1, <2>3
<1> QED BY <1>1, <1>2, <1>3

(* A request for t outlives all snapshots under way: they are not for it. *)
LEMMA SnapshotsOvertaken ==
  ASSUME NEW s \in Seq(Message), NEW more \in Seq(Message),
         NEW both, both = s \o more, NEW t, NEW stored, NEW pending, NEW from,
         NEW a \in DOMAIN more, IsAnswer(more[a], t),
         \A k \in DOMAIN more : more[k].type # "snapshot"
  PROVE  SnapshotsCovered(both, t, stored, pending, from)
<1> SUFFICES ASSUME NEW n \in DOMAIN both, both[n].type = "snapshot", Settled(both, t, n)
             PROVE  FALSE
  BY DEF SnapshotsCovered
<1>1. /\ Len(s) \in Nat /\ n \in Nat /\ DOMAIN s = 1..Len(s)
      /\ n <= Len(s) => n \in DOMAIN s
      /\ n > Len(s) => n - Len(s) \in DOMAIN more /\ both[n] = more[n - Len(s)]
  BY JoinedFacts
<1>2. n <= Len(s)
  BY <1>1
<1>3. n \in 1..Len(s)
  BY <1>1, <1>2
<1> QED BY <1>3, JoinedSettled

LEMMA NothingUnderWay ==
  ASSUME NEW t, NEW stored, NEW pending \in Nat, NEW latest \in Nat, pending = 0, NEW from
  PROVE  /\ InOrder(<< >>, t, pending, latest)
         /\ SnapshotsCovered(<< >>, t, stored, pending, from)
<1>1. DOMAIN << >> = {}
  OBVIOUS
<1> QED BY <1>1 DEF InOrder, SnapshotsCovered

-----------------------------------------------------------------------------
(* The calls. *)

Call == {Idle} \cup {Waiting(t) : t \in Target}
          \cup [phase : {"answered"}, target : Target, doc : Version,
                fromCache : BOOLEAN]

Tracker == [state : {"Unknown", "Online", "Offline"}, failures : 0..1, timer : BOOLEAN]

Fresh(calls, from) ==
    \A r \in Reader : (calls[r].phase = "answered" /\ ~calls[r].fromCache) =>
        calls[r].doc >= from[calls[r].target]

LEMMA CallFacts ==
  ASSUME NEW c \in Call
  PROVE  /\ c.phase \in {"idle", "waiting", "answered"}
         /\ c = Idle <=> c.phase = "idle"
         /\ c # Idle => c.target \in Target
         /\ c.phase = "answered" => c.doc \in Version /\ c.fromCache \in BOOLEAN
<1>1. CASE c = Idle
  BY <1>1 DEF Idle
<1>2. CASE c \in {Waiting(t) : t \in Target}
  BY <1>2 DEF Waiting, Idle
<1>3. CASE c \in [phase : {"answered"}, target : Target, doc : Version,
                  fromCache : BOOLEAN]
  BY <1>3 DEF Idle
<1> QED BY <1>1, <1>2, <1>3 DEF Call

LEMMA WaitingFacts ==
  ASSUME NEW t \in Target
  PROVE  Waiting(t) \in Call /\ Waiting(t) # Idle /\ Waiting(t).phase = "waiting"
         /\ Waiting(t).target = t
BY DEF Waiting, Call, Idle

LEMMA TargetsOfFacts ==
  ASSUME NEW calls \in [Reader -> Call]
  PROVE  /\ TargetsOf(calls) \subseteq Target
         /\ \A r \in Reader : calls[r] # Idle => calls[r].target \in TargetsOf(calls)
BY CallFacts DEF TargetsOf

(* Notifying the listeners changes neither what is listened to nor an answer   *)
(* that was given; a new one from a view in sync shows the cache.              *)
LEMMA NotifiedFacts ==
  ASSUME NEW calls \in [Reader -> Call], NEW inSync \in [Target -> BOOLEAN],
         NEW docs \in [Target -> Version], NEW o,
         NEW told, told = Notified(calls, inSync, docs, o)
  PROVE  /\ told \in [Reader -> Call]
         /\ TargetsOf(told) = TargetsOf(calls)
         /\ \A r \in Reader :
               \/ told[r] = calls[r]
               \/ /\ calls[r] # Idle /\ told[r] # Idle
                  /\ told[r].target = calls[r].target
                  /\ told[r].phase = "answered"
                  /\ told[r].doc = docs[calls[r].target]
                  /\ ~told[r].fromCache => inSync[calls[r].target]
<1>1. ASSUME NEW r \in Reader, ShouldRaise(calls[r], inSync, o)
      PROVE  /\ told[r] \in Call
             /\ calls[r] # Idle /\ told[r] # Idle
             /\ told[r].target = calls[r].target
             /\ told[r].phase = "answered"
             /\ told[r].doc = docs[calls[r].target]
             /\ ~told[r].fromCache => inSync[calls[r].target]
  <2>1. calls[r].phase = "waiting"
    BY <1>1 DEF ShouldRaise
  <2>2. calls[r] # Idle /\ calls[r].target \in Target
    BY <2>1, CallFacts
  <2>3. told[r] = [phase |-> "answered", target |-> calls[r].target,
                   doc |-> docs[calls[r].target],
                   fromCache |-> ~inSync[calls[r].target]]
    BY <1>1 DEF Notified
  <2>4. docs[calls[r].target] \in Version
    BY <2>2
  <2>5. told[r] \in Call
    BY <2>2, <2>3, <2>4 DEF Call
  <2>6. told[r].phase = "answered"
    BY <2>3
  <2>7. told[r] # Idle
    BY <2>5, <2>6, CallFacts
  <2>8. ~told[r].fromCache => inSync[calls[r].target]
    <3>1. told[r].fromCache = ~inSync[calls[r].target]
      BY <2>3
    <3>2. inSync[calls[r].target] \in BOOLEAN
      BY <2>2
    <3> QED BY <3>1, <3>2
  <2> QED BY <2>2, <2>3, <2>5, <2>6, <2>7, <2>8
<1>2. ASSUME NEW r \in Reader, ~ShouldRaise(calls[r], inSync, o)
      PROVE  told[r] = calls[r]
  BY <1>2 DEF Notified
<1>3. told \in [Reader -> Call]
  <2>1. told = [r \in Reader |-> told[r]]
    BY DEF Notified
  <2>2. \A r \in Reader : told[r] \in Call
    BY <1>1, <1>2
  <2> QED BY <2>1, <2>2
<1>4. \A r \in Reader : (told[r] = Idle <=> calls[r] = Idle)
                        /\ (told[r] # Idle => told[r].target = calls[r].target)
  BY <1>1, <1>2
<1>5. TargetsOf(told) = TargetsOf(calls)
  BY <1>4 DEF TargetsOf
<1>6. ASSUME NEW r \in Reader
      PROVE  \/ told[r] = calls[r]
             \/ /\ calls[r] # Idle /\ told[r] # Idle
                /\ told[r].target = calls[r].target
                /\ told[r].phase = "answered"
                /\ told[r].doc = docs[calls[r].target]
                /\ ~told[r].fromCache => inSync[calls[r].target]
  BY <1>1, <1>2
<1> QED BY <1>3, <1>5, <1>6

LEMMA NotifiedFresh ==
  ASSUME NEW calls \in [Reader -> Call], NEW inSync \in [Target -> BOOLEAN],
         NEW docs \in [Target -> Version], NEW o, NEW from \in [Target -> Version],
         NEW told, told = Notified(calls, inSync, docs, o),
         Fresh(calls, from),
         \A t \in TargetsOf(calls) : inSync[t] => from[t] <= docs[t]
  PROVE  Fresh(told, from)
<1> SUFFICES ASSUME NEW r \in Reader, told[r].phase = "answered", ~told[r].fromCache
             PROVE  told[r].doc >= from[told[r].target]
  BY DEF Fresh
<1>1. CASE told[r] = calls[r]
  BY <1>1 DEF Fresh
<1>2. CASE /\ calls[r] # Idle /\ told[r].target = calls[r].target
           /\ told[r].doc = docs[calls[r].target]
           /\ ~told[r].fromCache => inSync[calls[r].target]
  <2>1. calls[r].target \in TargetsOf(calls) /\ calls[r].target \in Target
    BY <1>2, TargetsOfFacts
  <2>2. from[calls[r].target] <= docs[calls[r].target]
    BY <1>2, <2>1
  <2>3. from[calls[r].target] \in Nat /\ docs[calls[r].target] \in Nat
    BY <2>1 DEF Version
  <2> QED BY <1>2, <2>2, <2>3
<1> QED BY <1>1, <1>2, NotifiedFacts

-----------------------------------------------------------------------------
(* What the steps share. *)

LEMMA TrackerFacts ==
  /\ \A s \in {"Unknown", "Online", "Offline"} : UpdateState(s) \in Tracker
  /\ \A o \in Tracker : /\ HandleWatchStreamStart(o) \in Tracker
                        /\ HandleWatchStreamFailure(o) \in Tracker
                        /\ [o EXCEPT !.state = "Offline", !.timer = FALSE] \in Tracker
<1>1. \A s \in {"Unknown", "Online", "Offline"} : UpdateState(s) \in Tracker
  BY DEF Tracker, UpdateState
<1>2. ASSUME NEW o \in Tracker
      PROVE  /\ HandleWatchStreamStart(o) \in Tracker
             /\ HandleWatchStreamFailure(o) \in Tracker
             /\ [o EXCEPT !.state = "Offline", !.timer = FALSE] \in Tracker
  <2>1. HandleWatchStreamStart(o) \in Tracker
    BY DEF Tracker, HandleWatchStreamStart
  <2>2. HandleWatchStreamFailure(o) \in Tracker
    BY <1>1 DEF Tracker, HandleWatchStreamFailure
  <2>3. [o EXCEPT !.state = "Offline", !.timer = FALSE] \in Tracker
    BY DEF Tracker
  <2> QED BY <2>1, <2>2, <2>3
<1> QED BY <1>1, <1>2

LEMMA StateFacts ==
  ASSUME TypeOK
  PROVE  /\ reader \in [Reader -> Call] /\ current \in [Target -> BOOLEAN]
         /\ remoteDocuments \in [Target -> Version]
         /\ resumeToken \in [Target -> Version] /\ savedToken \in [Target -> Version]
         /\ aggregator.outstanding \in [Target -> Nat]
         /\ aggregator.updates \in [Target -> Version]
         /\ aggregator.current \in [Target -> BOOLEAN]
         /\ stream \in StreamState /\ idleTimer \in BOOLEAN /\ online \in Tracker
         /\ unannounced \in BOOLEAN /\ responses \in Seq(Message)
         /\ serverDocument \in [Target -> Version]
         /\ listenedFrom \in [Target -> Version] /\ faults \in 0..MaxFaults
         /\ ListenTargets \subseteq Target /\ Version \subseteq Nat
<1>1. reader \in [Reader -> Call] /\ online \in Tracker
  BY DEF TypeOK, Call, Tracker
<1>2. ListenTargets \subseteq Target
  BY <1>1, TargetsOfFacts DEF ListenTargets
<1> QED BY <1>1, <1>2 DEF TypeOK, Version

LEMMA WatchedFacts ==
  ASSUME TypeOK, NEW t \in Target
  PROVE  /\ watched[t].on \in BOOLEAN
         /\ watched[t].on => watched[t].current \in BOOLEAN /\ watched[t].doc \in Version
<1>1. watched[t] \in {NotWatched} \cup [on : {TRUE}, current : BOOLEAN, doc : Version]
  BY DEF TypeOK
<1>2. CASE watched[t] = NotWatched
  BY <1>2 DEF NotWatched
<1>3. CASE watched[t] \in [on : {TRUE}, current : BOOLEAN, doc : Version]
  BY <1>3
<1> QED BY <1>1, <1>2, <1>3

ServerTypes ==
    /\ aggregator \in [outstanding : [Target -> Nat], current : [Target -> BOOLEAN],
                       updates : [Target -> Version]]
    /\ watched \in [Target -> {NotWatched}
          \cup [on : {TRUE}, current : BOOLEAN, doc : Version]]
    /\ unannounced \in BOOLEAN
    /\ responses \in Seq(Message)

(* The parts of the invariant that are about the stream. *)
OnStream == /\ ServerTypes /\ OutstandingIsUnderWay /\ StreamInv
            /\ NewerLater /\ SentCovered /\ CoverInv

(* Those about the calls. *)
OnCalls == /\ reader \in [Reader -> Call] /\ current \in [Target -> BOOLEAN]
           /\ ViewInv /\ SyncedAnswerIsFresh

(* The state of the connection changes and the listeners hear of it. *)
LEMMA Broadcasting ==
  ASSUME IInv, \E o \in Tracker : Broadcast(o, reader, current),
         UNCHANGED <<listenedFrom, serverDocument, remoteDocuments>>
  PROVE  OnCalls' /\ online' \in Tracker /\ ListenTargets' = ListenTargets
<1>1. /\ reader \in [Reader -> Call] /\ current \in [Target -> BOOLEAN]
      /\ remoteDocuments \in [Target -> Version] /\ listenedFrom \in [Target -> Version]
      /\ ListenTargets \subseteq Target /\ ViewInv /\ Fresh(reader, listenedFrom)
  BY StateFacts DEF IInv, SyncedAnswerIsFresh, Fresh
<1>2. PICK o \in Tracker : Broadcast(o, reader, current)
  OBVIOUS
<1>3. /\ online' = o /\ current' \in [Target -> BOOLEAN]
      /\ \A t \in Target : current'[t] => current[t]
      /\ reader' = Notified(reader, current', remoteDocuments, o)
  BY <1>1, <1>2 DEF Broadcast, Each
<1>4. reader' \in [Reader -> Call] /\ ListenTargets' = ListenTargets
  BY <1>1, <1>3, NotifiedFacts DEF ListenTargets
<1>5. ViewInv'
  BY <1>1, <1>3, <1>4 DEF ViewInv
<1>6. \A t \in TargetsOf(reader) : current'[t] => listenedFrom[t] <= remoteDocuments[t]
  BY <1>1, <1>3 DEF ViewInv, ListenTargets
<1>7. Fresh(reader', listenedFrom)
  BY <1>1, <1>3, <1>6, NotifiedFresh
<1>8. SyncedAnswerIsFresh'
  BY <1>7 DEF Fresh, SyncedAnswerIsFresh
<1> QED BY <1>3, <1>4, <1>5, <1>8 DEF OnCalls

(* Nothing is under way on a stream that is not open. *)
LEMMA StreamNotOpen ==
  ASSUME IInv, stream' # "Open", UNCHANGED serverDocument, ListenTargets' \subseteq Target,
         \/ CleanUpWatchStreamState
         \/ stream # "Open" /\ UNCHANGED <<aggregator, serverVars>>
  PROVE  OnStream'
<1>1. /\ responses' = << >> /\ ~unannounced' /\ unannounced' \in BOOLEAN
      /\ \A t \in Target : ~watched'[t].on
  <2>1. CASE CleanUpWatchStreamState
    BY <2>1 DEF CleanUpWatchStreamState, Each, NotWatched
  <2>2. CASE stream # "Open" /\ UNCHANGED <<aggregator, serverVars>>
    <3>1. /\ responses' = responses /\ unannounced' = unannounced /\ watched' = watched
          /\ stream # "Open"
      BY <2>2 DEF serverVars
    <3>2. unannounced \in BOOLEAN
      BY StateFacts DEF IInv
    <3> QED BY <3>1, <3>2 DEF IInv, StreamInv
  <2> QED BY <2>1, <2>2
<1>2. ServerTypes'
  <2>1. responses' \in Seq(Message)
    BY <1>1
  <2>2. CASE CleanUpWatchStreamState
    <3>1. /\ Each(0) \in [Target -> Nat] /\ Each(FALSE) \in [Target -> BOOLEAN]
          /\ Each(0) \in [Target -> Version]
          /\ Each(NotWatched) \in [Target -> {NotWatched}]
      BY ReadAssumption DEF Each, Version
    <3>2. aggregator' \in [outstanding : [Target -> Nat], current : [Target -> BOOLEAN],
                           updates : [Target -> Version]]
      BY <2>2, <3>1 DEF CleanUpWatchStreamState, FreshAggregator
    <3>3. watched' \in [Target -> {NotWatched}
             \cup [on : {TRUE}, current : BOOLEAN, doc : Version]]
      BY <2>2, <3>1 DEF CleanUpWatchStreamState
    <3> QED BY <1>1, <2>1, <3>2, <3>3 DEF ServerTypes
  <2>3. CASE UNCHANGED <<aggregator, serverVars>>
    BY <2>3 DEF IInv, TypeOK, ServerTypes, serverVars
  <2> QED BY <2>2, <2>3
<1>3. ASSUME NEW t \in Target
      PROVE  /\ aggregator'.outstanding[t] = 0
             /\ aggregator'.updates[t] <= serverDocument'[t]
             /\ aggregator'.updates[t] \in Nat
  <2>1. serverDocument[t] \in Nat /\ serverDocument'[t] = serverDocument[t]
    BY StateFacts DEF IInv
  <2>2. CASE CleanUpWatchStreamState
    BY <2>1, <2>2 DEF CleanUpWatchStreamState, FreshAggregator, Each
  <2>3. CASE stream # "Open" /\ UNCHANGED <<aggregator, serverVars>>
    <3>1. responses = << >> /\ aggregator' = aggregator
      BY <2>3 DEF IInv, StreamInv
    <3>2. aggregator.outstanding[t] = Cardinality(AnswersTo(t, << >>))
      BY <3>1 DEF IInv, OutstandingIsUnderWay
    <3>3. aggregator.updates[t] <= serverDocument[t]
      BY DEF IInv, NewerLater, InOrder
    <3>4. aggregator.updates[t] \in Nat
      BY StateFacts DEF IInv
    <3> QED BY <2>1, <3>1, <3>2, <3>3, <3>4, AnswersNone
  <2> QED BY <2>2, <2>3
<1>4. OutstandingIsUnderWay'
  BY <1>1, <1>3, AnswersNone DEF OutstandingIsUnderWay
<1>5. StreamInv'
  BY <1>1 DEF StreamInv
<1>6. DOMAIN responses' = {}
  BY <1>1
<1>7. NewerLater'
  BY <1>3, <1>6 DEF NewerLater, InOrder
<1>8. SentCovered' /\ CoverInv'
  BY <1>1, <1>6 DEF SentCovered, CoverInv, SnapshotsCovered
<1> QED BY <1>2, <1>4, <1>5, <1>7, <1>8 DEF OnStream

(* The same messages are under way, for the same targets or fewer, and the     *)
(* server's documents are as new as before.                                    *)
LEMMA StreamUntouched ==
  ASSUME IInv, UNCHANGED <<aggregator, serverVars, stream>>,
         ListenTargets' = ListenTargets,
         \A t \in ListenTargets : /\ remoteDocuments'[t] = remoteDocuments[t]
                                  /\ listenedFrom'[t] = listenedFrom[t],
         \A t \in Target : /\ serverDocument'[t] \in Nat
                           /\ serverDocument[t] <= serverDocument'[t]
  PROVE  OnStream'
<1>1. /\ aggregator' = aggregator /\ watched' = watched /\ unannounced' = unannounced
      /\ responses' = responses /\ stream' = stream
  BY DEF serverVars
<1>2. ServerTypes' /\ OutstandingIsUnderWay' /\ StreamInv'
  <2>1. ServerTypes'
    BY <1>1 DEF IInv, TypeOK, ServerTypes
  <2>2. OutstandingIsUnderWay'
    BY <1>1 DEF IInv, OutstandingIsUnderWay
  <2>3. StreamInv'
    BY <1>1 DEF IInv, StreamInv
  <2> QED BY <2>1, <2>2, <2>3
<1>3. NewerLater'
  <2> SUFFICES ASSUME NEW t \in Target
               PROVE  InOrder(responses, t, aggregator.updates[t], serverDocument'[t])
    BY <1>1 DEF NewerLater
  <2>1. InOrder(responses, t, aggregator.updates[t], serverDocument[t])
    BY DEF IInv, NewerLater
  <2>2. /\ serverDocument[t] \in Nat /\ serverDocument'[t] \in Nat
        /\ serverDocument[t] <= serverDocument'[t] /\ aggregator.updates[t] \in Nat
        /\ responses \in Seq(Message)
    BY StateFacts DEF IInv
  <2>3. \A j \in DOMAIN responses : IsDocument(responses[j], t) => responses[j].doc \in Nat
    BY <2>2, LenProperties, MessageFacts DEF IsDocument, Version
  <2> QED BY <2>1, <2>2, <2>3 DEF InOrder
<1>4. SentCovered' /\ CoverInv'
  <2>1. SentCovered'
    BY <1>1 DEF IInv, SentCovered
  <2>2. CoverInv'
    BY <1>1 DEF IInv, CoverInv
  <2> QED BY <2>1, <2>2
<1> QED BY <1>2, <1>3, <1>4 DEF OnStream

(* Requests are sent for a set of targets, on an open stream. *)
LEMMA RequestsSent ==
  ASSUME IInv, NEW S \in SUBSET Target, SendWatchRequests(S), stream' = "Open",
         ListenTargets' \subseteq Target, S \subseteq ListenTargets',
         \A t \in Target \ S : /\ watched[t].on <=> t \in ListenTargets'
                               /\ t \in ListenTargets' => t \in ListenTargets
                               /\ listenedFrom'[t] = listenedFrom[t],
         UNCHANGED <<remoteDocuments, serverDocument>>
  PROVE  OnStream'
<1>1. /\ AllAdded(S) \in Seq(Message)
      /\ \A i \in DOMAIN AllAdded(S) : AllAdded(S)[i].type = "added"
                                       /\ AllAdded(S)[i].target \in S
      /\ \A t : \A i, j \in AnswersTo(t, AllAdded(S)) : i = j
      /\ \A t : AnswersTo(t, AllAdded(S)) = {} <=> t \notin S
  BY AllAddedFacts
<1>2. PICK more \in Seq(Message) : more = AllAdded(S)
  BY <1>1
<1>3. PICK s \in Seq(Message) : s = responses
  BY StateFacts DEF IInv
<1>4. PICK both : both = s \o more
  OBVIOUS
<1>5. /\ responses' = both /\ unannounced' = unannounced
      /\ aggregator' = [aggregator EXCEPT !.outstanding =
            [t \in Target |-> IF t \in S THEN @[t] + 1 ELSE @[t]]]
      /\ watched' = [t \in Target |->
            IF t \in S THEN Watching(resumeToken[t]) ELSE watched[t]]
  BY <1>2, <1>3, <1>4 DEF SendWatchRequests, AllAdded
<1>0. ASSUME NEW t, NoAnswers(more, t), NEW v, NEW i \in Nat, NEW j \in Nat, i <= j,
             NEW stored, NEW pending, Covered(s, t, v, i, stored, pending)
      PROVE  Covered(both, t, v, j, stored, pending)
  BY ONLY <1>0, <1>4, s \in Seq(Message), more \in Seq(Message), CoveredWhenJoined
<1>6. aggregator \in [outstanding : [Target -> Nat], current : [Target -> BOOLEAN],
                      updates : [Target -> Version]]
  BY DEF IInv, TypeOK
<1>7. /\ aggregator'.updates = aggregator.updates
      /\ aggregator'.current = aggregator.current
      /\ \A t \in Target : aggregator'.outstanding[t] =
            IF t \in S THEN aggregator.outstanding[t] + 1 ELSE aggregator.outstanding[t]
      /\ aggregator' \in [outstanding : [Target -> Nat], current : [Target -> BOOLEAN],
                          updates : [Target -> Version]]
  <2> DEFINE counts == [t \in Target |-> IF t \in S THEN aggregator.outstanding[t] + 1
                                         ELSE aggregator.outstanding[t]]
  <2>1. aggregator' = [aggregator EXCEPT !.outstanding = counts]
    BY <1>5
  <2>2. counts \in [Target -> Nat]
    BY <1>6
  <2>3. \A t \in Target : counts[t] =
           IF t \in S THEN aggregator.outstanding[t] + 1 ELSE aggregator.outstanding[t]
    OBVIOUS
  <2> HIDE DEF counts
  <2>4. aggregator'.outstanding = counts
    BY <1>6, <2>1
  <2> QED BY <1>6, <2>1, <2>2, <2>3, <2>4
<1>8. both \in Seq(Message) /\ Len(s) \in Nat /\ Len(both) \in Nat /\ Len(s) <= Len(both)
  <2>1. Len(more) \in Nat /\ Len(both) = Len(s) + Len(more)
        /\ both \in Seq(Message) /\ Len(s) \in Nat
    BY <1>4, JoinedFacts
  <2> QED BY <2>1
<1>9. ServerTypes'
  <2>1. watched' \in [Target -> {NotWatched}
           \cup [on : {TRUE}, current : BOOLEAN, doc : Version]]
    BY <1>5 DEF IInv, TypeOK, Watching
  <2>2. unannounced' \in BOOLEAN /\ responses' \in Seq(Message)
    BY <1>5, <1>8 DEF IInv, TypeOK
  <2> QED BY <1>7, <2>1, <2>2 DEF ServerTypes
<1>10. OutstandingIsUnderWay'
  <2> SUFFICES ASSUME NEW t \in Target
               PROVE  aggregator'.outstanding[t] = Cardinality(AnswersTo(t, both))
    BY <1>5 DEF OutstandingIsUnderWay
  <2>1. \A i, j \in AnswersTo(t, more) : i = j
    BY <1>1, <1>2
  <2>2. Cardinality(AnswersTo(t, both)) =
           Cardinality(AnswersTo(t, s)) + (IF AnswersTo(t, more) = {} THEN 0 ELSE 1)
    BY <1>4, <2>1, AnswersAdded
  <2>3. AnswersTo(t, more) = {} <=> t \notin S
    BY <1>1, <1>2
  <2>4. aggregator.outstanding[t] = Cardinality(AnswersTo(t, s))
    BY <1>3 DEF IInv, OutstandingIsUnderWay
  <2>5. aggregator.outstanding[t] \in Nat
    BY StateFacts DEF IInv
  <2> QED BY <1>7, <2>2, <2>3, <2>4, <2>5
<1>11. StreamInv'
  <2>1. \A t \in S : watched'[t].on
    BY <1>5 DEF Watching
  <2>2. \A t \in Target \ S : watched'[t].on <=> t \in ListenTargets'
    BY <1>5
  <2> QED BY <2>1, <2>2 DEF StreamInv
<1>12. NewerLater'
  <2> SUFFICES ASSUME NEW t \in Target
               PROVE  InOrder(both, t, aggregator.updates[t], serverDocument[t])
    BY <1>5, <1>7 DEF NewerLater
  <2>1. InOrder(s, t, aggregator.updates[t], serverDocument[t])
    BY <1>3 DEF IInv, NewerLater
  <2>2. \A k \in DOMAIN more : ~IsDocument(more[k], t)
    BY <1>1, <1>2 DEF IsDocument
  <2>3. aggregator.updates[t] \in Nat /\ serverDocument[t] \in Nat
    BY StateFacts DEF IInv
  <2>4. PICK pending \in Nat, latest \in Nat :
           pending = aggregator.updates[t] /\ latest = serverDocument[t]
    BY <2>3
  <2>5. \A k \in DOMAIN more : IsDocument(more[k], t) => more[k].doc \in {0, latest}
    BY <2>2
  <2>6. InOrder(both, t, pending, latest)
    BY <1>4, <2>1, <2>4, <2>5, InOrderWhenJoined
  <2> QED BY <2>4, <2>6
<1>13. ASSUME NEW t \in Target \ S PROVE NoAnswers(more, t)
  BY <1>1, <1>2 DEF NoAnswers, IsAnswer
<1>14. \A k \in DOMAIN more : more[k].type # "snapshot"
  BY <1>1, <1>2
<1>15. SentCovered'
  <2> SUFFICES ASSUME NEW t \in ListenTargets', watched'[t].on
               PROVE  Covered(both, t, watched'[t].doc, Len(both) + 1,
                              remoteDocuments[t], aggregator.updates[t])
    BY <1>5, <1>7 DEF SentCovered
  <2>1. CASE t \in S
    <3>1. watched'[t].doc = resumeToken[t]
      BY <1>5, <2>1 DEF Watching
    <3> QED BY <2>1, <3>1 DEF IInv, TokenCoversCache, Covered
  <2>2. CASE t \notin S
    <3>1. watched'[t] = watched[t] /\ t \in ListenTargets /\ t \in Target \ S
      BY <1>5, <2>2
    <3>2. PICK v : v = watched[t].doc
      OBVIOUS
    <3>3. Covered(s, t, v, Len(s) + 1, remoteDocuments[t], aggregator.updates[t])
      BY <1>3, <3>1, <3>2 DEF IInv, SentCovered
    <3>4. NoAnswers(more, t) /\ Len(s) + 1 <= Len(both) + 1
          /\ Len(s) + 1 \in Nat /\ Len(both) + 1 \in Nat
      BY <1>8, <1>13, <3>1
    <3>5. Covered(both, t, v, Len(both) + 1, remoteDocuments[t], aggregator.updates[t])
      BY <1>0, <3>3, <3>4
    <3> QED BY <3>1, <3>2, <3>5
  <2> QED BY <2>1, <2>2
<1>16. CoverInv'
  <2> SUFFICES ASSUME NEW t \in ListenTargets'
               PROVE  SnapshotsCovered(both, t, remoteDocuments[t], aggregator.updates[t],
                                       listenedFrom'[t])
    BY <1>5, <1>7 DEF CoverInv
  <2>1. CASE t \in S
    <3>1. PICK a \in DOMAIN more : IsAnswer(more[a], t)
      BY <1>1, <1>2, <2>1 DEF AnswersTo, IsAnswer
    <3> QED BY <1>4, <1>14, <3>1, SnapshotsOvertaken
  <2>2. CASE t \notin S
    <3>1. t \in ListenTargets /\ t \in Target \ S /\ listenedFrom'[t] = listenedFrom[t]
      BY <2>2
    <3>2. SnapshotsCovered(s, t, remoteDocuments[t], aggregator.updates[t], listenedFrom[t])
      BY <1>3, <3>1 DEF IInv, CoverInv
    <3> QED BY <1>4, <1>13, <1>14, <3>1, <3>2, SnapshotsCoveredWhenJoined
  <2> QED BY <2>1, <2>2
<1> QED BY <1>9, <1>10, <1>11, <1>12, <1>15, <1>16 DEF OnStream

(* One message is added. *)
LEMMA AppendedFacts ==
  ASSUME NEW s \in Seq(Message), NEW m \in Message, NEW both, both = Append(s, m)
  PROVE  /\ both \in Seq(Message) /\ Len(s) \in Nat /\ Len(both) = Len(s) + 1
         /\ \A t, v, stored, pending : \A i, j \in Nat :
               ~IsAnswer(m, t) /\ i <= j /\ Covered(s, t, v, i, stored, pending) =>
                   Covered(both, t, v, j, stored, pending)
         /\ \A t, stored, pending : IsDocument(m, t) =>
               Covered(both, t, m.doc, Len(both) + 1, stored, pending)
         /\ \A t : \A pending, latest \in Nat :
               (IsDocument(m, t) => m.doc \in {0, latest}) /\ InOrder(s, t, pending, latest) =>
                   InOrder(both, t, pending, latest)
         /\ \A t, stored, pending, from :
               /\ ~IsAnswer(m, t)
               /\ m.type = "snapshot" =>
                     /\ Covered(s, t, m.token[t], Len(s) + 1, stored, pending)
                     /\ from <= m.token[t]
               /\ SnapshotsCovered(s, t, stored, pending, from)
               => SnapshotsCovered(both, t, stored, pending, from)
<1>0. <<m>> \in Seq(Message) /\ Append(s, m) = s \o <<m>>
  BY AppendIsConcat
<1>1. PICK more \in Seq(Message) : more = <<m>>
  BY <1>0
<1>2. both = s \o more
  BY <1>0, <1>1
<1>3. DOMAIN more = {1} /\ more[1] = m
  BY <1>1
<1>4. \A t : ~IsAnswer(m, t) => NoAnswers(more, t)
  BY <1>3 DEF NoAnswers
<1>5. /\ both \in Seq(Message) /\ Len(s) \in Nat /\ Len(both) = Len(s) + 1
      /\ both[Len(s) + 1] = m /\ Len(s) + 1 \in DOMAIN both /\ DOMAIN both = 1..Len(both)
  BY AppendProperties, LenProperties
<1>6. ASSUME NEW t, ~IsAnswer(m, t), NEW v, NEW i \in Nat, NEW j \in Nat, i <= j,
             NEW stored, NEW pending, Covered(s, t, v, i, stored, pending)
      PROVE  Covered(both, t, v, j, stored, pending)
  <2>1. NoAnswers(more, t)
    BY <1>4, <1>6
  <2> QED BY ONLY <1>6, <2>1, <1>2, s \in Seq(Message), more \in Seq(Message),
                  CoveredWhenJoined
<1>7. ASSUME NEW t, NEW stored, NEW pending, IsDocument(m, t)
      PROVE  Covered(both, t, m.doc, Len(both) + 1, stored, pending)
  <2>1. m.doc <= m.doc
    BY <1>7, MessageFacts DEF IsDocument, Version
  <2>2. Settled(both, t, Len(s) + 1)
    <3> SUFFICES ASSUME NEW k \in DOMAIN both, k >= Len(s) + 1 PROVE ~IsAnswer(both[k], t)
      BY DEF Settled
    <3>1. k = Len(s) + 1
      BY <1>5
    <3> QED BY <1>5, <1>7, <3>1 DEF IsDocument, IsAnswer
  <2>3. Len(s) + 1 < Len(both) + 1
    BY <1>5
  <2> QED BY <1>5, <1>7, <2>1, <2>2, <2>3 DEF Covered
<1>8. ASSUME NEW t, NEW pending \in Nat, NEW latest \in Nat,
             IsDocument(m, t) => m.doc \in {0, latest}, InOrder(s, t, pending, latest)
      PROVE  InOrder(both, t, pending, latest)
  <2>1. \A k \in DOMAIN more : IsDocument(more[k], t) => more[k].doc \in {0, latest}
    BY <1>3, <1>8
  <2> QED BY <1>2, <1>8, <2>1, InOrderWhenJoined
<1>9. ASSUME NEW t, NEW stored, NEW pending, NEW from, ~IsAnswer(m, t),
             m.type = "snapshot" =>
                /\ Covered(s, t, m.token[t], Len(s) + 1, stored, pending)
                /\ from <= m.token[t],
             SnapshotsCovered(s, t, stored, pending, from)
      PROVE  SnapshotsCovered(both, t, stored, pending, from)
  <2>1. NoAnswers(more, t)
    BY <1>4, <1>9
  <2>2. \A k \in DOMAIN more : more[k].type = "snapshot" =>
           /\ Covered(s, t, more[k].token[t], Len(s) + 1, stored, pending)
           /\ from <= more[k].token[t]
    BY <1>3, <1>9
  <2> QED BY ONLY <1>2, <1>9, <2>1, <2>2, s \in Seq(Message), more \in Seq(Message),
                  SnapshotsCoveredWhenJoined
<1> QED BY <1>5, <1>6, <1>7, <1>8, <1>9

LEMMA UnwatchSent ==
  ASSUME IInv, NEW u \in Target, SendUnwatchRequest(u), stream = "Open", stream' = "Open",
         ListenTargets' = ListenTargets \ {u},
         \A t \in Target \ {u} : listenedFrom'[t] = listenedFrom[t],
         UNCHANGED <<remoteDocuments, serverDocument>>
  PROVE  OnStream'
<1>1. Removed(u) \in Message /\ Removed(u).type = "removed" /\ Removed(u).target = u
  BY DEF Removed, Message
<1>2. PICK m \in Message : m = Removed(u)
  BY <1>1
<1>3. PICK s \in Seq(Message) : s = responses
  BY StateFacts DEF IInv
<1>4. PICK both : both = Append(s, m)
  OBVIOUS
<1>5. /\ responses' = both /\ unannounced' = unannounced
      /\ aggregator' = [aggregator EXCEPT !.outstanding[u] = @ + 1]
      /\ watched' = [watched EXCEPT ![u] = NotWatched]
  BY <1>2, <1>3, <1>4 DEF SendUnwatchRequest
<1>6. aggregator \in [outstanding : [Target -> Nat], current : [Target -> BOOLEAN],
                      updates : [Target -> Version]]
  BY DEF IInv, TypeOK
<1>7. /\ aggregator'.updates = aggregator.updates
      /\ \A t \in Target : aggregator'.outstanding[t] =
            IF t = u THEN aggregator.outstanding[t] + 1 ELSE aggregator.outstanding[t]
      /\ aggregator' \in [outstanding : [Target -> Nat], current : [Target -> BOOLEAN],
                          updates : [Target -> Version]]
  <2> DEFINE counts == [aggregator.outstanding EXCEPT ![u] = @ + 1]
  <2>1. aggregator' = [aggregator EXCEPT !.outstanding = counts]
    BY <1>5
  <2>2. counts \in [Target -> Nat]
    BY <1>6
  <2>3. \A t \in Target : counts[t] =
           IF t = u THEN aggregator.outstanding[t] + 1 ELSE aggregator.outstanding[t]
    BY <1>6
  <2> HIDE DEF counts
  <2>4. aggregator'.outstanding = counts
    BY <1>6, <2>1
  <2> QED BY <1>6, <2>1, <2>2, <2>3, <2>4
<1>8. /\ both \in Seq(Message) /\ Len(s) \in Nat /\ Len(both) = Len(s) + 1
      /\ \A t, v, stored, pending : \A i, j \in Nat :
            ~IsAnswer(m, t) /\ i <= j /\ Covered(s, t, v, i, stored, pending) =>
                Covered(both, t, v, j, stored, pending)
      /\ \A t : \A pending, latest \in Nat :
            (IsDocument(m, t) => m.doc \in {0, latest}) /\ InOrder(s, t, pending, latest) =>
                InOrder(both, t, pending, latest)
      /\ \A t, stored, pending, from :
            /\ ~IsAnswer(m, t)
            /\ m.type = "snapshot" =>
                  /\ Covered(s, t, m.token[t], Len(s) + 1, stored, pending)
                  /\ from <= m.token[t]
            /\ SnapshotsCovered(s, t, stored, pending, from)
            => SnapshotsCovered(both, t, stored, pending, from)
  BY <1>4, AppendedFacts
<1>9. /\ m.type # "snapshot" /\ \A t : ~IsDocument(m, t)
      /\ \A t : IsAnswer(m, t) <=> t = u
  BY <1>1, <1>2 DEF IsDocument, IsAnswer
<1>10. ServerTypes'
  <2>1. watched' \in [Target -> {NotWatched}
           \cup [on : {TRUE}, current : BOOLEAN, doc : Version]]
    BY <1>5 DEF IInv, TypeOK
  <2>2. unannounced' \in BOOLEAN /\ responses' \in Seq(Message)
    BY <1>5, <1>8 DEF IInv, TypeOK
  <2> QED BY <1>7, <2>1, <2>2 DEF ServerTypes
<1>11. OutstandingIsUnderWay'
  <2> SUFFICES ASSUME NEW t \in Target
               PROVE  aggregator'.outstanding[t] = Cardinality(AnswersTo(t, both))
    BY <1>5 DEF OutstandingIsUnderWay
  <2>1. Cardinality(AnswersTo(t, both)) =
           Cardinality(AnswersTo(t, s)) + (IF IsAnswer(m, t) THEN 1 ELSE 0)
    BY <1>4, AnswersAppended
  <2>2. aggregator.outstanding[t] = Cardinality(AnswersTo(t, s))
    BY <1>3 DEF IInv, OutstandingIsUnderWay
  <2>3. aggregator.outstanding[t] \in Nat
    BY StateFacts DEF IInv
  <2> QED BY <1>7, <1>9, <2>1, <2>2, <2>3
<1>12. StreamInv'
  <2>1. \A t \in Target : watched'[t].on <=> t \in ListenTargets'
    BY <1>5 DEF NotWatched, IInv, StreamInv, TypeOK
  <2> QED BY <2>1 DEF StreamInv
<1>13. NewerLater'
  <2> SUFFICES ASSUME NEW t \in Target
               PROVE  InOrder(both, t, aggregator.updates[t], serverDocument[t])
    BY <1>5, <1>7 DEF NewerLater
  <2>1. InOrder(s, t, aggregator.updates[t], serverDocument[t])
    BY <1>3 DEF IInv, NewerLater
  <2>2. aggregator.updates[t] \in Nat /\ serverDocument[t] \in Nat
    BY StateFacts DEF IInv
  <2> QED BY <1>8, <1>9, <2>1, <2>2
<1>14. ASSUME NEW t \in ListenTargets'
       PROVE  t \in ListenTargets /\ t \in Target \ {u} /\ watched'[t] = watched[t]
              /\ ~IsAnswer(m, t)
  <2>1. t \in ListenTargets /\ t \in Target \ {u}
    BY StateFacts DEF IInv
  <2> QED BY <1>5, <1>9, <2>1 DEF IInv, TypeOK
<1>15. SentCovered'
  <2> SUFFICES ASSUME NEW t \in ListenTargets', watched'[t].on
               PROVE  Covered(both, t, watched[t].doc, Len(both) + 1,
                              remoteDocuments[t], aggregator.updates[t])
    BY <1>5, <1>7, <1>14 DEF SentCovered
  <2>1. Covered(s, t, watched[t].doc, Len(s) + 1, remoteDocuments[t], aggregator.updates[t])
    BY <1>3, <1>14 DEF IInv, SentCovered
  <2>2. Len(s) + 1 \in Nat /\ Len(both) + 1 \in Nat /\ Len(s) + 1 <= Len(both) + 1
    BY <1>8
  <2> QED BY <1>8, <1>14, <2>1, <2>2
<1>16. CoverInv'
  <2> SUFFICES ASSUME NEW t \in ListenTargets'
               PROVE  SnapshotsCovered(both, t, remoteDocuments[t], aggregator.updates[t],
                                       listenedFrom[t])
    BY <1>5, <1>7, <1>14 DEF CoverInv
  <2>1. SnapshotsCovered(s, t, remoteDocuments[t], aggregator.updates[t], listenedFrom[t])
    BY <1>3, <1>14 DEF IInv, CoverInv
  <2> QED BY <1>8, <1>9, <1>14, <2>1
<1> QED BY <1>10, <1>11, <1>12, <1>13, <1>15, <1>16 DEF OnStream

(* The server sends a document, or a snapshot. *)
LEMMA TargetSent ==
  ASSUME IInv, NEW u \in Target, ServerSendTarget(u)
  PROVE  OnStream' /\ ListenTargets' = ListenTargets
<1> DEFINE w == watched[u]
           newer == serverDocument[u] > w.doc
<1>0. /\ w.on /\ w.current \in BOOLEAN /\ w.doc \in Nat /\ w.doc \in Version
      /\ serverDocument[u] \in Version /\ serverDocument[u] \in Nat /\ 0 \in Version
      /\ w \in [on : {TRUE}, current : BOOLEAN, doc : Version]
  <2>1. w.on /\ w \in {NotWatched} \cup [on : {TRUE}, current : BOOLEAN, doc : Version]
    BY DEF ServerSendTarget, IInv, TypeOK
  <2> HIDE DEF w
  <2>2. w \in [on : {TRUE}, current : BOOLEAN, doc : Version]
    <3>1. CASE w = NotWatched
      BY <2>1, <3>1 DEF NotWatched
    <3> QED BY <2>1, <3>1
  <2>3. serverDocument[u] \in Version /\ 0 \in Version /\ Version \subseteq Nat
    BY ReadAssumption, StateFacts DEF IInv, Version
  <2> QED BY <2>1, <2>2, <2>3
<1>1. PICK m : m = [type |-> IF w.current THEN "document" ELSE "current", target |-> u,
                    doc |-> IF newer THEN serverDocument[u] ELSE 0]
  OBVIOUS
<1>2. /\ m \in Message /\ m.type \in {"document", "current"} /\ m.target = u
      /\ m.doc = IF newer THEN serverDocument[u] ELSE 0
  BY <1>0, <1>1 DEF Message
<1>3. PICK s \in Seq(Message) : s = responses
  BY StateFacts DEF IInv
<1>4. PICK both : both = Append(s, m)
  OBVIOUS
<1>5. /\ responses' = both /\ unannounced' = TRUE
      /\ watched' = [watched EXCEPT ![u].current = TRUE, ![u].doc = serverDocument[u]]
      /\ UNCHANGED <<viewVars, storeVars, aggregator, streamVars, online,
                     serverDocument, listenedFrom, faults>>
  BY <1>1, <1>3, <1>4 DEF ServerSendTarget
<1>6. /\ both \in Seq(Message) /\ Len(s) \in Nat /\ Len(both) = Len(s) + 1
      /\ \A t, v, stored, pending : \A i, j \in Nat :
            ~IsAnswer(m, t) /\ i <= j /\ Covered(s, t, v, i, stored, pending) =>
                Covered(both, t, v, j, stored, pending)
      /\ \A t, stored, pending : IsDocument(m, t) =>
            Covered(both, t, m.doc, Len(both) + 1, stored, pending)
      /\ \A t : \A pending, latest \in Nat :
            (IsDocument(m, t) => m.doc \in {0, latest}) /\ InOrder(s, t, pending, latest) =>
                InOrder(both, t, pending, latest)
      /\ \A t, stored, pending, from :
            /\ ~IsAnswer(m, t)
            /\ m.type = "snapshot" =>
                  /\ Covered(s, t, m.token[t], Len(s) + 1, stored, pending)
                  /\ from <= m.token[t]
            /\ SnapshotsCovered(s, t, stored, pending, from)
            => SnapshotsCovered(both, t, stored, pending, from)
  BY <1>2, <1>4, AppendedFacts
<1>7. /\ m.type # "snapshot" /\ \A t : ~IsAnswer(m, t)
      /\ \A t : IsDocument(m, t) <=> t = u
  BY <1>2 DEF IsAnswer, IsDocument
<1>8. /\ watched' \in [Target -> {NotWatched}
            \cup [on : {TRUE}, current : BOOLEAN, doc : Version]]
      /\ \A t \in Target \ {u} : watched'[t] = watched[t]
      /\ watched'[u].on /\ watched'[u].doc = serverDocument[u]
  <2>1. watched \in [Target -> {NotWatched}
            \cup [on : {TRUE}, current : BOOLEAN, doc : Version]]
    BY DEF IInv, TypeOK
  <2>2. PICK w2 : w2 = [w EXCEPT !.current = TRUE, !.doc = serverDocument[u]]
    OBVIOUS
  <2>3. /\ w2 \in [on : {TRUE}, current : BOOLEAN, doc : Version]
        /\ w2.on /\ w2.doc = serverDocument[u]
    BY <1>0, <2>2
  <2>4. watched' = [watched EXCEPT ![u] = w2]
    BY <1>5, <2>2
  <2> QED BY <2>1, <2>3, <2>4
<1> HIDE DEF w, newer
<1>9. ListenTargets' = ListenTargets /\ stream' = stream
  BY <1>5 DEF ListenTargets, viewVars, streamVars
<1>10. ServerTypes'
  BY <1>5, <1>6, <1>8 DEF IInv, TypeOK, ServerTypes
<1>11. OutstandingIsUnderWay'
  <2> SUFFICES ASSUME NEW t \in Target
               PROVE  aggregator.outstanding[t] = Cardinality(AnswersTo(t, both))
    BY <1>5 DEF OutstandingIsUnderWay
  <2>1. Cardinality(AnswersTo(t, both)) =
           Cardinality(AnswersTo(t, s)) + (IF IsAnswer(m, t) THEN 1 ELSE 0)
    BY <1>2, <1>4, AnswersAppended
  <2>2. aggregator.outstanding[t] = Cardinality(AnswersTo(t, s))
    BY <1>3 DEF IInv, OutstandingIsUnderWay
  <2>3. aggregator.outstanding[t] \in Nat
    BY StateFacts DEF IInv
  <2> QED BY <1>7, <2>1, <2>2, <2>3
<1>12. StreamInv'
  <2>1. stream = "Open"
    BY <1>0 DEF IInv, StreamInv, w
  <2>2. \A t \in Target : watched'[t].on <=> watched[t].on
    BY <1>0, <1>8 DEF w
  <2> QED BY <1>9, <2>1, <2>2 DEF IInv, StreamInv
<1>13. NewerLater'
  <2> SUFFICES ASSUME NEW t \in Target
               PROVE  InOrder(both, t, aggregator.updates[t], serverDocument[t])
    BY <1>5 DEF NewerLater
  <2>1. InOrder(s, t, aggregator.updates[t], serverDocument[t])
    BY <1>3 DEF IInv, NewerLater
  <2>2. aggregator.updates[t] \in Nat /\ serverDocument[t] \in Nat
    BY StateFacts DEF IInv
  <2>3. IsDocument(m, t) => m.doc \in {0, serverDocument[t]}
    BY <1>2, <1>7
  <2> QED BY <1>6, <2>1, <2>2, <2>3
<1>14. /\ remoteDocuments' = remoteDocuments /\ aggregator' = aggregator
       /\ listenedFrom' = listenedFrom
  BY <1>5 DEF storeVars
<1>15. SentCovered'
  <2> SUFFICES ASSUME NEW t \in ListenTargets, watched'[t].on
               PROVE  Covered(both, t, watched'[t].doc, Len(both) + 1,
                              remoteDocuments[t], aggregator.updates[t])
    BY <1>5, <1>9, <1>14 DEF SentCovered
  <2>1. Len(s) + 1 \in Nat /\ Len(both) + 1 \in Nat /\ Len(s) + 1 <= Len(both) + 1
    BY <1>6
  <2>2. t \in Target
    BY StateFacts DEF IInv
  <2>3. watched[t].on =>
           Covered(s, t, watched[t].doc, Len(s) + 1, remoteDocuments[t], aggregator.updates[t])
    BY <1>3 DEF IInv, SentCovered
  <2>4. watched[t].on => Covered(both, t, watched[t].doc, Len(both) + 1,
                                 remoteDocuments[t], aggregator.updates[t])
    BY <1>6, <1>7, <2>1, <2>3
  <2>5. CASE t # u
    BY <1>8, <2>2, <2>4, <2>5
  <2>6. CASE t = u /\ newer
    <3>1. m.doc = watched'[t].doc /\ IsDocument(m, t)
      BY <1>2, <1>7, <1>8, <2>6
    <3> QED BY <1>6, <3>1
  <2>7. CASE t = u /\ ~newer
    <3>1. /\ watched'[t].doc = serverDocument[u] /\ watched[t].on
          /\ serverDocument[u] <= watched[t].doc
          /\ serverDocument[u] \in Nat /\ watched[t].doc \in Nat
      BY <1>0, <1>8, <2>7 DEF w, newer
    <3>2. remoteDocuments[t] \in Nat /\ aggregator.updates[t] \in Nat
      BY <2>2, StateFacts DEF IInv
    <3>3. \A j \in DOMAIN both : IsDocument(both[j], t) => both[j].doc \in Nat
      BY <1>6, LenProperties, MessageFacts DEF IsDocument, Version
    <3> QED BY <2>4, <3>1, <3>2, <3>3 DEF Covered
  <2> QED BY <2>5, <2>6, <2>7
<1>16. CoverInv'
  <2> SUFFICES ASSUME NEW t \in ListenTargets
               PROVE  SnapshotsCovered(both, t, remoteDocuments[t], aggregator.updates[t],
                                       listenedFrom[t])
    BY <1>5, <1>9, <1>14 DEF CoverInv
  <2>1. SnapshotsCovered(s, t, remoteDocuments[t], aggregator.updates[t], listenedFrom[t])
    BY <1>3 DEF IInv, CoverInv
  <2> QED BY <1>6, <1>7, <2>1
<1> QED BY <1>9, <1>10, <1>11, <1>12, <1>13, <1>15, <1>16 DEF OnStream

LEMMA SnapshotSent ==
  ASSUME IInv, ServerSnapshot
  PROVE  OnStream' /\ ListenTargets' = ListenTargets
<1>1. PICK m : m = [type |-> "snapshot", token |-> serverDocument]
  OBVIOUS
<1>2. m \in Message /\ m.type = "snapshot" /\ m.token = serverDocument
  <2>1. serverDocument \in [Target -> Version]
    BY StateFacts DEF IInv
  <2> QED BY <1>1, <2>1 DEF Message
<1>3. PICK s \in Seq(Message) : s = responses
  BY StateFacts DEF IInv
<1>4. PICK both : both = Append(s, m)
  OBVIOUS
<1>5. /\ responses' = both /\ unannounced' = FALSE /\ unannounced
      /\ UNCHANGED <<viewVars, storeVars, aggregator, streamVars, online, watched,
                     serverDocument, listenedFrom, faults>>
  BY <1>1, <1>3, <1>4 DEF ServerSnapshot
<1>6. /\ both \in Seq(Message) /\ Len(s) \in Nat /\ Len(both) = Len(s) + 1
      /\ \A t, v, stored, pending : \A i, j \in Nat :
            ~IsAnswer(m, t) /\ i <= j /\ Covered(s, t, v, i, stored, pending) =>
                Covered(both, t, v, j, stored, pending)
      /\ \A t : \A pending, latest \in Nat :
            (IsDocument(m, t) => m.doc \in {0, latest}) /\ InOrder(s, t, pending, latest) =>
                InOrder(both, t, pending, latest)
      /\ \A t, stored, pending, from :
            /\ ~IsAnswer(m, t)
            /\ m.type = "snapshot" =>
                  /\ Covered(s, t, m.token[t], Len(s) + 1, stored, pending)
                  /\ from <= m.token[t]
            /\ SnapshotsCovered(s, t, stored, pending, from)
            => SnapshotsCovered(both, t, stored, pending, from)
  BY <1>2, <1>4, AppendedFacts
<1>7. \A t : ~IsAnswer(m, t) /\ ~IsDocument(m, t)
  BY <1>2 DEF IsAnswer, IsDocument
<1>8. /\ ListenTargets' = ListenTargets /\ stream' = stream /\ watched' = watched
      /\ remoteDocuments' = remoteDocuments /\ aggregator' = aggregator
      /\ listenedFrom' = listenedFrom /\ serverDocument' = serverDocument
  BY <1>5 DEF ListenTargets, viewVars, streamVars, storeVars
<1>9. stream = "Open"
  BY <1>5 DEF IInv, StreamInv
<1>10. ServerTypes'
  BY <1>5, <1>6 DEF IInv, TypeOK, ServerTypes
<1>11. OutstandingIsUnderWay'
  <2> SUFFICES ASSUME NEW t \in Target
               PROVE  aggregator.outstanding[t] = Cardinality(AnswersTo(t, both))
    BY <1>5 DEF OutstandingIsUnderWay
  <2>1. Cardinality(AnswersTo(t, both)) =
           Cardinality(AnswersTo(t, s)) + (IF IsAnswer(m, t) THEN 1 ELSE 0)
    BY <1>2, <1>4, AnswersAppended
  <2>2. aggregator.outstanding[t] = Cardinality(AnswersTo(t, s))
    BY <1>3 DEF IInv, OutstandingIsUnderWay
  <2>3. aggregator.outstanding[t] \in Nat
    BY StateFacts DEF IInv
  <2> QED BY <1>7, <2>1, <2>2, <2>3
<1>12. StreamInv'
  BY <1>8, <1>9 DEF IInv, StreamInv
<1>13. NewerLater'
  <2> SUFFICES ASSUME NEW t \in Target
               PROVE  InOrder(both, t, aggregator.updates[t], serverDocument[t])
    BY <1>5 DEF NewerLater
  <2>1. InOrder(s, t, aggregator.updates[t], serverDocument[t])
    BY <1>3 DEF IInv, NewerLater
  <2>2. aggregator.updates[t] \in Nat /\ serverDocument[t] \in Nat
    BY StateFacts DEF IInv
  <2> QED BY <1>6, <1>7, <2>1, <2>2
<1>14. ASSUME NEW t \in ListenTargets
       PROVE  /\ watched[t].on /\ watched[t].doc = serverDocument[t]
              /\ Covered(s, t, watched[t].doc, Len(s) + 1, remoteDocuments[t],
                         aggregator.updates[t])
              /\ listenedFrom[t] <= serverDocument[t]
  <2>1. t \in Target
    BY StateFacts DEF IInv
  <2>2. watched[t].on
    BY <1>9, <2>1 DEF IInv, StreamInv
  <2> QED BY <1>3, <2>1, <2>2 DEF ServerSnapshot, IInv, SentCovered, ViewInv
<1>15. SentCovered'
  <2> SUFFICES ASSUME NEW t \in ListenTargets
               PROVE  Covered(both, t, watched[t].doc, Len(both) + 1,
                              remoteDocuments[t], aggregator.updates[t])
    BY <1>5, <1>8 DEF SentCovered
  <2>1. Len(s) + 1 \in Nat /\ Len(both) + 1 \in Nat /\ Len(s) + 1 <= Len(both) + 1
    BY <1>6
  <2> QED BY <1>6, <1>7, <1>14, <2>1
<1>16. CoverInv'
  <2> SUFFICES ASSUME NEW t \in ListenTargets
               PROVE  SnapshotsCovered(both, t, remoteDocuments[t], aggregator.updates[t],
                                       listenedFrom[t])
    BY <1>5, <1>8 DEF CoverInv
  <2>1. SnapshotsCovered(s, t, remoteDocuments[t], aggregator.updates[t], listenedFrom[t])
    BY <1>3 DEF IInv, CoverInv
  <2>2. /\ Covered(s, t, m.token[t], Len(s) + 1, remoteDocuments[t], aggregator.updates[t])
        /\ listenedFrom[t] <= m.token[t]
    BY <1>2, <1>14
  <2> QED BY <1>6, <1>7, <2>1, <2>2
<1> QED BY <1>8, <1>10, <1>11, <1>12, <1>13, <1>15, <1>16 DEF OnStream

(* The answers that are under way for t say whether it is settled. *)
LEMMA SettledFromNow ==
  ASSUME IInv, NEW t \in Target
  PROVE  Settled(responses, t, 1) <=> aggregator.outstanding[t] = 0
<1>1. responses \in Seq(Message)
  BY StateFacts DEF IInv
<1>2. \A k \in DOMAIN responses : k >= 1
  BY <1>1, LenProperties
<1>3. aggregator.outstanding[t] = Cardinality(AnswersTo(t, responses))
  BY DEF IInv, OutstandingIsUnderWay
<1>4. aggregator.outstanding[t] = 0 <=> AnswersTo(t, responses) = {}
  BY <1>1, <1>3, AnswersFinite
<1>5. AnswersTo(t, responses) = {} <=> Settled(responses, t, 1)
  BY <1>2 DEF AnswersTo, Settled, IsAnswer
<1> QED BY <1>4, <1>5

LEMMA AnswerIsOutstanding ==
  ASSUME IInv, responses # << >>, NEW t \in Target, IsAnswer(Head(responses), t)
  PROVE  aggregator.outstanding[t] \in Nat \ {0}
<1>1. responses \in Seq(Message) /\ aggregator.outstanding[t] \in Nat
  BY StateFacts DEF IInv
<1>2. 1 \in DOMAIN responses /\ Head(responses) = responses[1]
  BY <1>1, ReadFacts
<1>3. ~Settled(responses, t, 1)
  BY <1>2 DEF Settled
<1> QED BY <1>1, <1>3, SettledFromNow

(* A message is read.  A document that is read for an active target becomes    *)
(* pending, and what is pending goes into the cache.                           *)
LEMMA MessageRead ==
  ASSUME IInv, responses # << >>, responses' = Tail(responses),
         ListenTargets' = ListenTargets,
         UNCHANGED <<stream, watched, unannounced, serverDocument, listenedFrom>>,
         aggregator' \in [outstanding : [Target -> Nat], current : [Target -> BOOLEAN],
                          updates : [Target -> Version]],
         \A t \in Target :
            /\ remoteDocuments'[t] \in Version
            /\ remoteDocuments[t] <= remoteDocuments'[t]
            /\ \/ aggregator.updates[t] <= remoteDocuments'[t]
               \/ aggregator.updates[t] <= aggregator'.updates[t]
            /\ \/ aggregator'.updates[t] = aggregator.updates[t]
               \/ aggregator'.updates[t] = 0
               \/ /\ IsDocument(Head(responses), t) /\ Head(responses).doc # 0
                  /\ aggregator'.updates[t] = Head(responses).doc
            /\ aggregator'.outstanding[t] = aggregator.outstanding[t]
                  - (IF IsAnswer(Head(responses), t) THEN 1 ELSE 0)
            /\ t \in ListenTargets /\ aggregator.outstanding[t] = 0
                  /\ IsDocument(Head(responses), t)
               => \/ Head(responses).doc <= remoteDocuments'[t]
                  \/ Head(responses).doc <= aggregator'.updates[t]
  PROVE  OnStream'
<1>1. PICK s \in Seq(Message) : s = responses
  BY StateFacts DEF IInv
<1>2. PICK rest : rest = Tail(s)
  OBVIOUS
<1>3. /\ responses' = rest /\ s # << >> /\ rest \in Seq(Message) /\ Head(responses) = s[1]
      /\ Len(s) \in Nat /\ Len(rest) = Len(s) - 1
  BY <1>1, <1>2, ReadFacts
<1>4. ServerTypes'
  BY <1>3 DEF IInv, TypeOK, ServerTypes
<1>5. OutstandingIsUnderWay'
  <2> SUFFICES ASSUME NEW t \in Target
               PROVE  aggregator'.outstanding[t] = Cardinality(AnswersTo(t, rest))
    BY <1>3 DEF OutstandingIsUnderWay
  <2>1. Cardinality(AnswersTo(t, rest)) =
           Cardinality(AnswersTo(t, s)) - (IF IsAnswer(Head(s), t) THEN 1 ELSE 0)
    BY <1>2, <1>3, AnswersRead
  <2>2. aggregator.outstanding[t] = Cardinality(AnswersTo(t, s))
    BY <1>1 DEF IInv, OutstandingIsUnderWay
  <2> QED BY <1>1, <2>1, <2>2
<1>6. StreamInv'
  <2>1. stream = "Open"
    BY DEF IInv, StreamInv
  <2> QED BY <2>1 DEF IInv, StreamInv
<1>7. NewerLater'
  <2> SUFFICES ASSUME NEW t \in Target
               PROVE  InOrder(rest, t, aggregator'.updates[t], serverDocument[t])
    BY <1>3 DEF NewerLater
  <2>1. InOrder(s, t, aggregator.updates[t], serverDocument[t])
    BY <1>1 DEF IInv, NewerLater
  <2>2. /\ aggregator.updates[t] \in Nat /\ serverDocument[t] \in Nat
        /\ aggregator'.updates[t] \in Nat
    BY StateFacts DEF IInv, Version
  <2>3. PICK p \in Nat, p2 \in Nat, latest \in Nat :
           p = aggregator.updates[t] /\ p2 = aggregator'.updates[t]
           /\ latest = serverDocument[t]
    BY <2>2
  <2>4. \/ p2 = p
        \/ p2 = 0
        \/ IsDocument(s[1], t) /\ s[1].doc # 0 /\ p2 = s[1].doc
    BY <1>3, <2>3
  <2>5. InOrder(s, t, p, latest)
    BY <2>1, <2>3
  <2>6. InOrder(rest, t, p2, latest)
    BY ONLY <1>2, <1>3, <2>4, <2>5, s \in Seq(Message), p \in Nat, p2 \in Nat, latest \in Nat,
            InOrderWhenRead
  <2> QED BY <2>3, <2>6
<1>8. ASSUME NEW t \in ListenTargets
      PROVE  \E stored, pending, stored2, pending2 \in Nat :
                /\ stored = remoteDocuments[t] /\ pending = aggregator.updates[t]
                /\ stored2 = remoteDocuments'[t] /\ pending2 = aggregator'.updates[t]
                /\ stored <= stored2 /\ (pending <= stored2 \/ pending <= pending2)
                /\ IsDocument(s[1], t) /\ Settled(s, t, 1) =>
                      s[1].doc <= stored2 \/ s[1].doc <= pending2
  <2>1. t \in Target
    BY StateFacts DEF IInv
  <2>2. /\ remoteDocuments[t] \in Nat /\ aggregator.updates[t] \in Nat
        /\ remoteDocuments'[t] \in Nat /\ aggregator'.updates[t] \in Nat
    BY <2>1, StateFacts DEF IInv, Version
  <2>3. Settled(s, t, 1) <=> aggregator.outstanding[t] = 0
    BY <1>1, <2>1, SettledFromNow
  <2>4. /\ remoteDocuments[t] <= remoteDocuments'[t]
        /\ \/ aggregator.updates[t] <= remoteDocuments'[t]
           \/ aggregator.updates[t] <= aggregator'.updates[t]
        /\ IsDocument(s[1], t) /\ Settled(s, t, 1) =>
              s[1].doc <= remoteDocuments'[t] \/ s[1].doc <= aggregator'.updates[t]
    BY <1>3, <2>1, <2>3
  <2> QED BY <2>2, <2>4
<1>9. SentCovered'
  <2> SUFFICES ASSUME NEW t \in ListenTargets, watched[t].on
               PROVE  Covered(rest, t, watched[t].doc, Len(rest) + 1,
                              remoteDocuments'[t], aggregator'.updates[t])
    BY <1>3 DEF SentCovered
  <2>1. t \in Target
    BY StateFacts DEF IInv
  <2>2. PICK stored \in Nat, pending \in Nat, stored2 \in Nat, pending2 \in Nat :
           /\ stored = remoteDocuments[t] /\ pending = aggregator.updates[t]
           /\ stored2 = remoteDocuments'[t] /\ pending2 = aggregator'.updates[t]
           /\ stored <= stored2 /\ (pending <= stored2 \/ pending <= pending2)
           /\ IsDocument(s[1], t) /\ Settled(s, t, 1) =>
                 s[1].doc <= stored2 \/ s[1].doc <= pending2
    BY <1>8
  <2>0. watched[t].doc \in Version /\ Version \subseteq Nat
    BY <2>1, WatchedFacts, StateFacts DEF IInv
  <2>3. PICK v \in Nat : v = watched[t].doc
    BY <2>0
  <2>4. PICK n \in Nat : n = Len(s) + 1 /\ n - 1 = Len(rest) + 1
    BY <1>3
  <2>5. Covered(s, t, v, n, stored, pending)
    BY <1>1, <2>2, <2>3, <2>4 DEF IInv, SentCovered
  <2>6. Covered(rest, t, v, n - 1, stored2, pending2)
    BY ONLY <1>2, <1>3, <2>2, <2>5, s \in Seq(Message), v \in Nat, n \in Nat, stored \in Nat,
            pending \in Nat, stored2 \in Nat, pending2 \in Nat, CoveredWhenRead
  <2> QED BY <2>2, <2>3, <2>4, <2>6
<1>10. CoverInv'
  <2> SUFFICES ASSUME NEW t \in ListenTargets
               PROVE  SnapshotsCovered(rest, t, remoteDocuments'[t], aggregator'.updates[t],
                                       listenedFrom[t])
    BY <1>3 DEF CoverInv
  <2>1. t \in Target
    BY StateFacts DEF IInv
  <2>2. PICK stored \in Nat, pending \in Nat, stored2 \in Nat, pending2 \in Nat :
           /\ stored = remoteDocuments[t] /\ pending = aggregator.updates[t]
           /\ stored2 = remoteDocuments'[t] /\ pending2 = aggregator'.updates[t]
           /\ stored <= stored2 /\ (pending <= stored2 \/ pending <= pending2)
           /\ IsDocument(s[1], t) /\ Settled(s, t, 1) =>
                 s[1].doc <= stored2 \/ s[1].doc <= pending2
    BY <1>8
  <2>3. PICK from : from = listenedFrom[t]
    OBVIOUS
  <2>4. SnapshotsCovered(s, t, stored, pending, from)
    BY <1>1, <2>2, <2>3 DEF IInv, CoverInv
  <2>5. SnapshotsCovered(rest, t, stored2, pending2, from)
    <3>1. s # << >> /\ t \in Target
      BY <1>3, <2>1
    <3>2. /\ stored <= stored2 /\ (pending <= stored2 \/ pending <= pending2)
          /\ IsDocument(s[1], t) /\ Settled(s, t, 1) =>
                s[1].doc <= stored2 \/ s[1].doc <= pending2
      BY <2>2
    <3> QED BY ONLY <1>2, <2>4, <3>1, <3>2, s \in Seq(Message), stored \in Nat,
                    pending \in Nat, stored2 \in Nat, pending2 \in Nat,
                    SnapshotsCoveredWhenRead
  <2> QED BY <2>2, <2>3, <2>5
<1> QED BY <1>4, <1>5, <1>6, <1>7, <1>9, <1>10 DEF OnStream

(* The rest of the invariant. *)
Others ==
    /\ resumeToken \in [Target -> Version] /\ savedToken \in [Target -> Version]
    /\ remoteDocuments \in [Target -> Version]
    /\ stream \in StreamState /\ idleTimer \in BOOLEAN /\ online \in Tracker
    /\ serverDocument \in [Target -> Version] /\ listenedFrom \in [Target -> Version]
    /\ faults \in 0..MaxFaults
    /\ TimersAreNeeded /\ TokenCoversCache

LEMMA AllParts == OnStream' /\ OnCalls' /\ Others' => IInv'
BY DEF OnStream, ServerTypes, OnCalls, Others, IInv, TypeOK, Call, Tracker

LEMMA Parts == IInv => Others
BY StateFacts DEF Others, IInv

LEMMA ServerUntouched ==
  ASSUME IInv, UNCHANGED serverDocument
  PROVE  \A t \in Target : /\ serverDocument'[t] \in Nat
                           /\ serverDocument[t] <= serverDocument'[t]
<1>1. \A t \in Target : serverDocument[t] \in Nat
  BY StateFacts DEF IInv
<1> QED BY <1>1

LEMMA CallsUntouched ==
  ASSUME IInv, UNCHANGED viewVars,
         \A t \in ListenTargets : remoteDocuments'[t] = remoteDocuments[t],
         UNCHANGED listenedFrom,
         \A t \in Target : /\ serverDocument'[t] \in Nat
                           /\ serverDocument[t] <= serverDocument'[t]
  PROVE  OnCalls' /\ ListenTargets' = ListenTargets
<1>1. reader' = reader /\ current' = current /\ ListenTargets' = ListenTargets
  BY DEF viewVars, ListenTargets
<1>2. /\ reader \in [Reader -> Call] /\ current \in [Target -> BOOLEAN]
      /\ \A t \in Target : serverDocument[t] \in Nat /\ listenedFrom[t] \in Nat
  BY StateFacts DEF IInv
<1>3. SyncedAnswerIsFresh'
  BY <1>1 DEF IInv, SyncedAnswerIsFresh
<1>4. ViewInv'
  <2>1. ASSUME NEW t \in Target PROVE listenedFrom[t] <= serverDocument'[t]
    <3>1. listenedFrom[t] <= serverDocument[t]
      BY DEF IInv, ViewInv
    <3> QED BY <1>2, <3>1
  <2> QED BY <1>1, <2>1 DEF IInv, ViewInv
<1> QED BY <1>1, <1>2, <1>3, <1>4 DEF OnCalls

LEMMA CallAdded ==
  ASSUME NEW calls \in [Reader -> Call], NEW r \in Reader, calls[r] = Idle,
         NEW t \in Target, NEW more, more = [calls EXCEPT ![r] = Waiting(t)]
  PROVE  /\ more \in [Reader -> Call] /\ TargetsOf(more) = TargetsOf(calls) \cup {t}
         /\ \A from : Fresh(calls, from) => Fresh(more, from)
<1>1. /\ Waiting(t) \in Call /\ Waiting(t) # Idle /\ Waiting(t).phase = "waiting"
      /\ Waiting(t).target = t
  BY WaitingFacts
<1>2. more \in [Reader -> Call] /\ more[r] = Waiting(t)
      /\ \A q \in Reader : q # r => more[q] = calls[q]
  BY <1>1
<1>3. TargetsOf(more) = TargetsOf(calls) \cup {t}
  BY <1>1, <1>2 DEF TargetsOf
<1>4. \A from : Fresh(calls, from) => Fresh(more, from)
  BY <1>1, <1>2 DEF Fresh
<1> QED BY <1>2, <1>3, <1>4

LEMMA CallRemoved ==
  ASSUME NEW calls \in [Reader -> Call], NEW r \in Reader, calls[r] # Idle,
         NEW left, left = [calls EXCEPT ![r] = Idle]
  PROVE  /\ left \in [Reader -> Call]
         /\ TargetsOf(calls) = TargetsOf(left) \cup {calls[r].target}
         /\ \A from : Fresh(calls, from) => Fresh(left, from)
<1>1. Idle \in Call /\ Idle.phase = "idle"
  BY DEF Call, Idle
<1>2. left \in [Reader -> Call] /\ left[r] = Idle
      /\ \A q \in Reader : q # r => left[q] = calls[q]
  BY <1>1
<1>3. TargetsOf(calls) = TargetsOf(left) \cup {calls[r].target}
  BY <1>2 DEF TargetsOf
<1>4. \A from : Fresh(calls, from) => Fresh(left, from)
  BY <1>1, <1>2 DEF Fresh
<1> QED BY <1>2, <1>3, <1>4

-----------------------------------------------------------------------------
(* The steps. *)

LEMMA JoinViewStep ==
  ASSUME IInv, NEW r \in Reader, NEW t \in Target, JoinView(r, t)
  PROVE  IInv'
<1>1. /\ reader \in [Reader -> Call] /\ current \in [Target -> BOOLEAN]
      /\ remoteDocuments \in [Target -> Version] /\ listenedFrom \in [Target -> Version]
      /\ serverDocument \in [Target -> Version] /\ Version \subseteq Nat
      /\ ListenTargets \subseteq Target /\ Fresh(reader, listenedFrom)
  BY StateFacts DEF IInv, SyncedAnswerIsFresh, Fresh
<1>2. PICK more : more = [reader EXCEPT ![r] = Waiting(t)]
  OBVIOUS
<1>3. /\ reader[r] = Idle /\ t \in ListenTargets
      /\ reader' = Notified(more, current, remoteDocuments, online)
      /\ UNCHANGED <<current, storeVars, aggregator, streamVars, online, serverVars,
                     serverDocument, listenedFrom, faults>>
  BY <1>2 DEF JoinView
<1>4. /\ more \in [Reader -> Call] /\ TargetsOf(more) = ListenTargets
      /\ Fresh(more, listenedFrom)
  <2>1. more \in [Reader -> Call] /\ TargetsOf(more) = TargetsOf(reader) \cup {t}
        /\ \A from : Fresh(reader, from) => Fresh(more, from)
    BY <1>1, <1>2, <1>3, CallAdded
  <2> QED BY <1>1, <1>3, <2>1 DEF ListenTargets
<1>5. reader' \in [Reader -> Call] /\ ListenTargets' = ListenTargets
  <2>1. reader' \in [Reader -> Call] /\ TargetsOf(reader') = TargetsOf(more)
    BY <1>1, <1>3, <1>4, NotifiedFacts
  <2> QED BY <1>4, <2>1 DEF ListenTargets
<1>6. Fresh(reader', listenedFrom)
  <2>1. \A u \in TargetsOf(more) : current[u] => listenedFrom[u] <= remoteDocuments[u]
    BY <1>4 DEF IInv, ViewInv
  <2> QED BY <1>1, <1>3, <1>4, <2>1, NotifiedFresh
<1>7. remoteDocuments' = remoteDocuments
  BY <1>3 DEF storeVars
<1>8. OnCalls'
  <2>1. SyncedAnswerIsFresh'
    BY <1>3, <1>6 DEF SyncedAnswerIsFresh, Fresh
  <2>2. ViewInv'
    BY <1>3, <1>5, <1>7 DEF IInv, ViewInv
  <2> QED BY <1>1, <1>3, <1>5, <2>1, <2>2 DEF OnCalls
<1>9. OnStream'
  BY <1>3, <1>5, <1>7, ServerUntouched, StreamUntouched DEF streamVars
<1>10. Others'
  <2>1. Others
    BY Parts
  <2>2. TimersAreNeeded'
    BY <1>3, <1>5, <2>1 DEF Others, TimersAreNeeded, TimeoutIsOfFirstAttempt,
       IdleStreamNotNeeded, streamVars, IsStarted
  <2>3. TokenCoversCache'
    BY <1>3, <2>1 DEF Others, TokenCoversCache, storeVars
  <2> QED BY <1>3, <2>1, <2>2, <2>3 DEF Others, storeVars, streamVars
<1> QED BY <1>8, <1>9, <1>10, AllParts

LEMMA ListenStep ==
  ASSUME IInv, NEW r \in Reader, NEW t \in Target, Listen(r, t)
  PROVE  IInv'
<1>1. /\ reader \in [Reader -> Call] /\ current \in [Target -> BOOLEAN]
      /\ remoteDocuments \in [Target -> Version] /\ listenedFrom \in [Target -> Version]
      /\ serverDocument \in [Target -> Version] /\ Version \subseteq Nat
      /\ ListenTargets \subseteq Target /\ Fresh(reader, listenedFrom) /\ online \in Tracker
      /\ stream \in StreamState
  BY StateFacts DEF IInv, SyncedAnswerIsFresh, Fresh
<1>2. PICK more : more = [reader EXCEPT ![r] = Waiting(t)]
  OBVIOUS
<1>3. PICK inSync : inSync = [current EXCEPT ![t] = FALSE]
  OBVIOUS
<1>4. PICK from : from = [listenedFrom EXCEPT ![t] = serverDocument[t]]
  OBVIOUS
<1>5. /\ reader[r] = Idle /\ t \notin ListenTargets
      /\ reader' = Notified(more, inSync, remoteDocuments, online)
      /\ current' = inSync /\ listenedFrom' = from
      /\ UNCHANGED <<storeVars, serverDocument, faults>>
  BY <1>2, <1>3, <1>4 DEF Listen
<1>6. remoteDocuments' = remoteDocuments /\ resumeToken' = resumeToken
      /\ savedToken' = savedToken
  BY <1>5 DEF storeVars
<1>7. /\ inSync \in [Target -> BOOLEAN] /\ ~inSync[t]
      /\ \A u \in Target : inSync[u] => current[u]
      /\ from \in [Target -> Version] /\ from[t] = serverDocument[t]
      /\ \A u \in Target \ {t} : from[u] = listenedFrom[u]
  BY <1>1, <1>3, <1>4
<1>8. /\ more \in [Reader -> Call] /\ TargetsOf(more) = ListenTargets \cup {t}
      /\ Fresh(more, from)
  <2>1. more \in [Reader -> Call] /\ TargetsOf(more) = TargetsOf(reader) \cup {t}
        /\ \A f : Fresh(reader, f) => Fresh(more, f)
    BY <1>1, <1>2, <1>5, CallAdded
  <2>2. Fresh(reader, from)
    <3> SUFFICES ASSUME NEW q \in Reader, reader[q].phase = "answered", ~reader[q].fromCache
                 PROVE  reader[q].doc >= from[reader[q].target]
      BY DEF Fresh
    <3>1. reader[q] # Idle
      BY <1>1, CallFacts
    <3>2. reader[q].target \in ListenTargets /\ reader[q].target \in Target
      BY <1>1, <3>1, TargetsOfFacts DEF ListenTargets
    <3>3. from[reader[q].target] = listenedFrom[reader[q].target]
      BY <1>5, <1>7, <3>2
    <3> QED BY <1>1, <3>3 DEF Fresh
  <2> QED BY <2>1, <2>2 DEF ListenTargets
<1>9. reader' \in [Reader -> Call] /\ ListenTargets' = ListenTargets \cup {t}
  <2>1. reader' \in [Reader -> Call] /\ TargetsOf(reader') = TargetsOf(more)
    BY <1>1, <1>5, <1>7, <1>8, NotifiedFacts
  <2> QED BY <1>8, <2>1 DEF ListenTargets
<1>10. \A u \in TargetsOf(more) : inSync[u] => from[u] <= remoteDocuments[u]
  <2> SUFFICES ASSUME NEW u \in TargetsOf(more), inSync[u]
               PROVE  from[u] <= remoteDocuments[u]
    OBVIOUS
  <2>1. u # t /\ u \in ListenTargets /\ u \in Target /\ current[u]
    BY <1>1, <1>7, <1>8
  <2> QED BY <1>7, <2>1 DEF IInv, ViewInv
<1>11. OnCalls'
  <2>1. Fresh(reader', from)
    BY <1>1, <1>5, <1>7, <1>8, <1>10, NotifiedFresh
  <2>2. SyncedAnswerIsFresh'
    BY <1>5, <2>1 DEF SyncedAnswerIsFresh, Fresh
  <2>3. ASSUME NEW u \in Target PROVE from[u] <= serverDocument[u]
    <3>1. serverDocument[u] \in Nat
      BY <1>1
    <3> QED BY <1>7, <3>1 DEF IInv, ViewInv
  <2>4. ViewInv'
    BY <1>5, <1>6, <1>8, <1>9, <1>10, <2>3 DEF ViewInv
  <2> QED BY <1>5, <1>7, <1>9, <2>2, <2>4 DEF OnCalls
<1>12. /\ ListenTargets' \subseteq Target /\ {t} \subseteq ListenTargets'
       /\ {t} \in SUBSET Target
  BY <1>1, <1>9
<1>13. CASE stream = "Open"
  <2>1. SendWatchRequests({t}) /\ idleTimer' = FALSE /\ stream' = stream /\ online' = online
    BY <1>13 DEF Listen, IsStarted
  <2>2. OnStream'
    <3>1. \A u \in Target \ {t} : /\ watched[u].on <=> u \in ListenTargets'
                                  /\ u \in ListenTargets' => u \in ListenTargets
                                  /\ listenedFrom'[u] = listenedFrom[u]
      BY <1>5, <1>7, <1>9, <1>13 DEF IInv, StreamInv
    <3> QED BY <1>5, <1>6, <1>12, <1>13, <2>1, <3>1, RequestsSent
  <2>3. Others'
    <3>1. Others
      BY Parts
    <3>2. TimersAreNeeded'
      BY <2>1, <3>1 DEF Others, TimersAreNeeded, TimeoutIsOfFirstAttempt,
         IdleStreamNotNeeded, IsStarted
    <3>3. TokenCoversCache'
      BY <1>6, <3>1 DEF Others, TokenCoversCache
    <3> QED BY <1>5, <1>6, <1>7, <2>1, <3>1, <3>2, <3>3 DEF Others
  <2> QED BY <1>11, <2>2, <2>3, AllParts
<1>14. CASE stream # "Open"
  <2>1. /\ UNCHANGED <<aggregator, serverVars, idleTimer>>
        /\ IF IsStarted THEN UNCHANGED <<stream, online>>
           ELSE /\ stream' = IF stream = "Error" THEN "Backoff" ELSE "Starting"
                /\ online' = HandleWatchStreamStart(online)
    BY <1>14 DEF Listen
  <2>2. stream' # "Open" /\ stream' \in StreamState
    BY <1>1, <1>14, <2>1 DEF StreamState
  <2>3. OnStream'
    BY <1>5, <1>12, <1>14, <2>1, <2>2, StreamNotOpen
  <2>4. online' \in Tracker
    BY <1>1, <2>1, TrackerFacts
  <2>5. Others'
    <3>1. Others
      BY Parts
    <3>2. ~idleTimer /\ ~idleTimer'
      BY <1>14, <2>1, <3>1 DEF Others, TimersAreNeeded, IdleStreamNotNeeded
    <3>3. TimeoutIsOfFirstAttempt'
      <4>1. CASE IsStarted
        BY <2>1, <3>1, <4>1 DEF Others, TimersAreNeeded, TimeoutIsOfFirstAttempt, IsStarted
      <4>2. CASE ~IsStarted
        <5>1. ~online.timer
          BY <3>1, <4>2 DEF Others, TimersAreNeeded, TimeoutIsOfFirstAttempt
        <5>2. stream' \in {"Backoff", "Starting"} /\ online' = HandleWatchStreamStart(online)
          BY <2>1, <4>2
        <5>3. online'.timer => online'.state = "Unknown" /\ online'.failures = 0
          BY <5>1, <5>2 DEF HandleWatchStreamStart
        <5> QED BY <5>2, <5>3 DEF TimeoutIsOfFirstAttempt, IsStarted
      <4> QED BY <4>1, <4>2
    <3>4. TokenCoversCache'
      BY <1>6, <3>1 DEF Others, TokenCoversCache
    <3>5. TimersAreNeeded'
      BY <3>2, <3>3 DEF TimersAreNeeded, IdleStreamNotNeeded
    <3> QED BY <1>5, <1>6, <1>7, <2>1, <2>2, <2>4, <3>1, <3>4, <3>5 DEF Others
  <2> QED BY <1>11, <2>3, <2>5, AllParts
<1> QED BY <1>13, <1>14

LEMMA RemoveQueryListenerStep ==
  ASSUME IInv, NEW r \in Reader, RemoveQueryListener(r)
  PROVE  IInv'
<1>1. /\ reader \in [Reader -> Call] /\ current \in [Target -> BOOLEAN]
      /\ remoteDocuments \in [Target -> Version] /\ listenedFrom \in [Target -> Version]
      /\ serverDocument \in [Target -> Version] /\ Version \subseteq Nat
      /\ resumeToken \in [Target -> Version] /\ savedToken \in [Target -> Version]
      /\ ListenTargets \subseteq Target /\ Fresh(reader, listenedFrom) /\ online \in Tracker
  BY StateFacts DEF IInv, SyncedAnswerIsFresh, Fresh
<1>2. PICK t \in Target : t = reader[r].target
  BY <1>1, CallFacts DEF RemoveQueryListener
<1>3. PICK left : left = [reader EXCEPT ![r] = Idle]
  OBVIOUS
<1>4. reader[r] # Idle /\ reader' = left
      /\ UNCHANGED <<resumeToken, remoteDocuments, stream, serverDocument, faults>>
  BY <1>3 DEF RemoveQueryListener
<1>5. /\ left \in [Reader -> Call] /\ ListenTargets = TargetsOf(left) \cup {t}
      /\ Fresh(left, listenedFrom) /\ ListenTargets' = TargetsOf(left)
  <2>1. left \in [Reader -> Call] /\ TargetsOf(reader) = TargetsOf(left) \cup {reader[r].target}
        /\ \A f : Fresh(reader, f) => Fresh(left, f)
    BY <1>1, <1>3, <1>4, CallRemoved
  <2> QED BY <1>1, <1>2, <1>4, <2>1 DEF ListenTargets
<1>6. Others
  BY Parts
<1>7. CASE t \in TargetsOf(left)
  <2>1. /\ UNCHANGED <<current, savedToken, listenedFrom, online>>
        /\ UNCHANGED <<aggregator, serverVars, idleTimer>>
    BY <1>2, <1>3, <1>7 DEF RemoveQueryListener
  <2>2. ListenTargets' = ListenTargets
    BY <1>5, <1>7
  <2>3. OnCalls'
    <3>1. SyncedAnswerIsFresh'
      BY <1>4, <1>5, <2>1 DEF SyncedAnswerIsFresh, Fresh
    <3>2. ViewInv'
      BY <1>4, <2>1, <2>2 DEF IInv, ViewInv
    <3> QED BY <1>1, <1>4, <1>5, <2>1, <3>1, <3>2 DEF OnCalls
  <2>4. OnStream'
    BY <1>4, <2>1, <2>2, ServerUntouched, StreamUntouched
  <2>5. Others'
    <3>1. TimersAreNeeded'
      BY <1>4, <1>6, <2>1, <2>2 DEF Others, TimersAreNeeded, TimeoutIsOfFirstAttempt,
         IdleStreamNotNeeded, IsStarted
    <3>2. TokenCoversCache'
      BY <1>4, <1>6, <2>1 DEF Others, TokenCoversCache
    <3> QED BY <1>4, <1>6, <2>1, <3>1, <3>2 DEF Others
  <2> QED BY <2>3, <2>4, <2>5, AllParts
<1>8. CASE t \notin TargetsOf(left)
  <2>1. /\ current' = [current EXCEPT ![t] = FALSE]
        /\ savedToken' = [savedToken EXCEPT ![t] = resumeToken[t]]
        /\ listenedFrom' = [listenedFrom EXCEPT ![t] = 0]
        /\ online' = IF TargetsOf(left) = {} /\ stream # "Open"
                     THEN UpdateState("Unknown") ELSE online
        /\ IF stream = "Open"
           THEN /\ SendUnwatchRequest(t)
                /\ idleTimer' = (TargetsOf(left) = {})
           ELSE UNCHANGED <<aggregator, serverVars, idleTimer>>
    BY <1>2, <1>3, <1>8 DEF RemoveQueryListener
  <2>2. /\ ListenTargets' = ListenTargets \ {t} /\ ListenTargets' \subseteq Target
        /\ 0 \in Version
    BY <1>1, <1>5, <1>8, ReadAssumption DEF Version
  <2>3. /\ current' \in [Target -> BOOLEAN] /\ listenedFrom' \in [Target -> Version]
        /\ savedToken' \in [Target -> Version]
        /\ \A u \in Target \ {t} : /\ current'[u] = current[u]
                                   /\ listenedFrom'[u] = listenedFrom[u]
                                   /\ savedToken'[u] = savedToken[u]
        /\ listenedFrom'[t] = 0 /\ savedToken'[t] = resumeToken[t]
    BY <1>1, <2>1, <2>2
  <2>4. OnCalls'
    <3>1. SyncedAnswerIsFresh'
      <4> SUFFICES ASSUME NEW q \in Reader, left[q].phase = "answered", ~left[q].fromCache
                   PROVE  left[q].doc >= listenedFrom'[left[q].target]
        BY <1>4 DEF SyncedAnswerIsFresh
      <4>1. left[q] # Idle
        BY <1>5, CallFacts
      <4>2. left[q].target \in TargetsOf(left)
        BY <1>5, <4>1, TargetsOfFacts
      <4>3. left[q].target \in Target \ {t}
        BY <1>1, <1>5, <1>8, <4>2
      <4> QED BY <1>5, <2>3, <4>3 DEF Fresh
    <3>2. ViewInv'
      <4>1. ASSUME NEW u \in Target PROVE listenedFrom'[u] <= serverDocument[u]
        <5>1. serverDocument[u] \in Nat
          BY <1>1
        <5> QED BY <2>3, <5>1 DEF IInv, ViewInv
      <4>2. ASSUME NEW u \in ListenTargets', current'[u]
            PROVE  listenedFrom'[u] <= remoteDocuments[u]
        <5>1. u \in Target \ {t} /\ u \in ListenTargets
          BY <2>2
        <5> QED BY <2>3, <4>2, <5>1 DEF IInv, ViewInv
      <4> QED BY <1>4, <4>1, <4>2 DEF ViewInv
    <3> QED BY <1>4, <1>5, <2>3, <3>1, <3>2 DEF OnCalls
  <2>5. OnStream'
    <3>1. CASE stream = "Open"
      BY <1>4, <2>1, <2>2, <2>3, <3>1, UnwatchSent
    <3>2. CASE stream # "Open"
      BY <1>4, <2>1, <2>2, <3>2, StreamNotOpen
    <3> QED BY <3>1, <3>2
  <2>6. online' \in Tracker
    BY <1>1, <2>1, TrackerFacts
  <2>7. TimersAreNeeded'
    <3>1. TimeoutIsOfFirstAttempt'
      BY <1>4, <1>6, <2>1 DEF Others, TimersAreNeeded, TimeoutIsOfFirstAttempt, UpdateState,
         IsStarted
    <3>2. IdleStreamNotNeeded'
      <4>1. CASE stream = "Open"
        BY <1>4, <1>5, <2>1, <4>1 DEF IdleStreamNotNeeded
      <4>2. CASE stream # "Open"
        BY <1>4, <1>6, <2>1, <4>2 DEF Others, TimersAreNeeded, IdleStreamNotNeeded
      <4> QED BY <4>1, <4>2
    <3> QED BY <3>1, <3>2 DEF TimersAreNeeded
  <2>8. TokenCoversCache'
    BY <1>4, <1>6, <2>3 DEF Others, TokenCoversCache
  <2>9. Others'
    <3>1. idleTimer' \in BOOLEAN
      BY <1>6, <2>1 DEF Others
    <3> QED BY <1>4, <1>6, <2>3, <2>6, <2>7, <2>8, <3>1 DEF Others
  <2> QED BY <2>4, <2>5, <2>9, AllParts
<1> QED BY <1>7, <1>8

LEMMA OnWatchStreamOpenStep ==
  ASSUME IInv, OnWatchStreamOpen
  PROVE  IInv'
<1>1. /\ stream = "Starting" /\ stream' = "Open" /\ SendWatchRequests(ListenTargets)
      /\ UNCHANGED <<viewVars, storeVars, idleTimer, online, serverDocument,
                     listenedFrom, faults>>
      /\ remoteDocuments' = remoteDocuments
  BY DEF OnWatchStreamOpen, storeVars
<1>2. OnCalls' /\ ListenTargets' = ListenTargets
  BY <1>1, ServerUntouched, CallsUntouched
<1>3. OnStream'
  <2>1. ListenTargets \in SUBSET Target
    BY StateFacts DEF IInv
  <2>2. \A t \in Target \ ListenTargets : ~watched[t].on /\ t \notin ListenTargets'
    BY <1>1, <1>2 DEF IInv, StreamInv
  <2>3. \A t \in Target \ ListenTargets :
           /\ watched[t].on <=> t \in ListenTargets'
           /\ t \in ListenTargets' => t \in ListenTargets
           /\ listenedFrom'[t] = listenedFrom[t]
    BY <1>1, <2>2
  <2> QED BY <1>1, <1>2, <2>1, <2>3, RequestsSent
<1>4. Others'
  <2>1. Others
    BY Parts
  <2>2. TimersAreNeeded'
    BY <1>1, <1>2, <2>1 DEF Others, TimersAreNeeded, TimeoutIsOfFirstAttempt,
       IdleStreamNotNeeded, IsStarted
  <2>3. TokenCoversCache'
    BY <1>1, <2>1 DEF Others, TokenCoversCache, storeVars
  <2> QED BY <1>1, <2>1, <2>2, <2>3 DEF Others, storeVars, StreamState
<1> QED BY <1>2, <1>3, <1>4, AllParts

(* The stream is lost or stopped; what was known of the connection with it. *)
LEMMA StreamGone ==
  ASSUME IInv, CleanUpWatchStreamState, idleTimer' = FALSE,
         stream' \in StreamState \ {"Open"}, faults' \in 0..MaxFaults,
         \E o \in Tracker : Broadcast(o, reader, current),
         online'.timer => /\ online'.state = "Unknown" /\ online'.failures = 0
                          /\ stream' # "Initial" /\ stream' # "Error",
         UNCHANGED <<storeVars, serverDocument, listenedFrom>>
  PROVE  IInv'
<1>1. remoteDocuments' = remoteDocuments
  BY DEF storeVars
<1>2. OnCalls' /\ online' \in Tracker /\ ListenTargets' = ListenTargets
  BY <1>1, Broadcasting
<1>3. OnStream'
  <2>1. ListenTargets' \subseteq Target /\ stream' # "Open"
    BY <1>2, StateFacts DEF IInv
  <2> QED BY <2>1, StreamNotOpen
<1>4. Others'
  <2>1. Others
    BY Parts
  <2>2. TimersAreNeeded'
    BY DEF TimersAreNeeded, TimeoutIsOfFirstAttempt, IdleStreamNotNeeded, IsStarted,
           StreamState
  <2>3. TokenCoversCache'
    BY <2>1 DEF Others, TokenCoversCache, storeVars
  <2> QED BY <1>2, <2>1, <2>2, <2>3 DEF Others, storeVars
<1> QED BY <1>2, <1>3, <1>4, AllParts

LEMMA OnWatchStreamCloseStep ==
  ASSUME IInv, OnWatchStreamClose, faults' \in 0..MaxFaults
  PROVE  IInv'
<1>1. PICK o : o = IF ListenTargets # {}
                   THEN HandleWatchStreamStart(HandleWatchStreamFailure(online))
                   ELSE UpdateState("Unknown")
  OBVIOUS
<1>2. /\ Broadcast(o, reader, current)
      /\ stream' = IF ListenTargets # {} THEN "Backoff" ELSE "Error"
      /\ CleanUpWatchStreamState /\ idleTimer' = FALSE
      /\ UNCHANGED <<storeVars, serverDocument, listenedFrom>>
  BY <1>1 DEF OnWatchStreamClose
<1>3. o \in Tracker
  <2>1. online \in Tracker
    BY StateFacts DEF IInv
  <2> QED BY <1>1, <2>1, TrackerFacts
<1>4. online' = o
  BY <1>2 DEF Broadcast
<1>5. o.timer => /\ o.state = "Unknown" /\ o.failures = 0 /\ ListenTargets # {}
  BY <1>1 DEF HandleWatchStreamStart, HandleWatchStreamFailure, UpdateState
<1>6. \E p \in Tracker : Broadcast(p, reader, current)
  BY <1>2, <1>3
<1>7. stream' \in StreamState \ {"Open"}
  BY <1>2 DEF StreamState
<1>8. online'.timer => /\ online'.state = "Unknown" /\ online'.failures = 0
                       /\ stream' # "Initial" /\ stream' # "Error"
  BY <1>2, <1>4, <1>5
<1> QED BY <1>2, <1>6, <1>7, <1>8, StreamGone

LEMMA IdleTimeoutStep ==
  ASSUME IInv, IdleTimeout
  PROVE  IInv'
<1>1. /\ Broadcast(UpdateState("Unknown"), reader, current) /\ stream' = "Initial"
      /\ CleanUpWatchStreamState /\ idleTimer' = FALSE
      /\ UNCHANGED <<storeVars, serverDocument, listenedFrom, faults>>
  BY DEF IdleTimeout
<1>2. \E o \in Tracker : Broadcast(o, reader, current)
  BY <1>1, TrackerFacts
<1>3. ~online'.timer
  BY <1>1 DEF Broadcast, UpdateState
<1>4. stream' \in StreamState \ {"Open"} /\ faults' \in 0..MaxFaults
  BY <1>1, StateFacts DEF IInv, StreamState
<1> QED BY <1>1, <1>2, <1>3, <1>4, StreamGone

LEMMA RestartNetworkStep ==
  ASSUME IInv, RestartNetwork
  PROVE  IInv'
<1>1. PICK o : o = IF ListenTargets = {} THEN UpdateState("Unknown")
                   ELSE HandleWatchStreamStart(UpdateState("Unknown"))
  OBVIOUS
<1>2. /\ Broadcast(o, reader, current) /\ faults < MaxFaults /\ faults' = faults + 1
      /\ stream' = IF ListenTargets = {} THEN "Initial" ELSE "Starting"
      /\ CleanUpWatchStreamState /\ idleTimer' = FALSE
      /\ UNCHANGED <<storeVars, serverDocument, listenedFrom>>
  BY <1>1 DEF RestartNetwork
<1>3. o \in Tracker
  BY <1>1, TrackerFacts
<1>4. online' = o
  BY <1>2 DEF Broadcast
<1>5. o.timer => /\ o.state = "Unknown" /\ o.failures = 0 /\ ListenTargets # {}
  BY <1>1 DEF HandleWatchStreamStart, UpdateState
<1>6. \E p \in Tracker : Broadcast(p, reader, current)
  BY <1>2, <1>3
<1>7. stream' \in StreamState \ {"Open"}
  BY <1>2 DEF StreamState
<1>8. online'.timer => /\ online'.state = "Unknown" /\ online'.failures = 0
                       /\ stream' # "Initial" /\ stream' # "Error"
  BY <1>2, <1>4, <1>5
<1>9. faults' \in 0..MaxFaults
  BY <1>2, StateFacts, ReadAssumption DEF IInv
<1> QED BY <1>2, <1>6, <1>7, <1>8, <1>9, StreamGone

LEMMA BackoffElapsedStep ==
  ASSUME IInv, BackoffElapsed
  PROVE  IInv'
<1>1. /\ stream = "Backoff" /\ stream' = "Starting"
      /\ UNCHANGED <<viewVars, storeVars, aggregator, idleTimer, online, serverVars,
                     serverDocument, listenedFrom, faults>>
      /\ remoteDocuments' = remoteDocuments
  BY DEF BackoffElapsed, storeVars
<1>2. OnCalls' /\ ListenTargets' = ListenTargets
  BY <1>1, ServerUntouched, CallsUntouched
<1>3. OnStream'
  <2>1. ListenTargets' \subseteq Target
    BY <1>2, StateFacts DEF IInv
  <2> QED BY <1>1, <2>1, StreamNotOpen
<1>4. Others'
  <2>1. Others
    BY Parts
  <2>2. TimersAreNeeded'
    BY <1>1, <1>2, <2>1 DEF Others, TimersAreNeeded, TimeoutIsOfFirstAttempt,
       IdleStreamNotNeeded, IsStarted
  <2>3. TokenCoversCache'
    BY <1>1, <2>1 DEF Others, TokenCoversCache, storeVars
  <2> QED BY <1>1, <2>1, <2>2, <2>3 DEF Others, storeVars, StreamState
<1> QED BY <1>2, <1>3, <1>4, AllParts

LEMMA OnlineStateTimeoutStep ==
  ASSUME IInv, OnlineStateTimeout
  PROVE  IInv'
<1>1. /\ Broadcast([online EXCEPT !.state = "Offline", !.timer = FALSE], reader, current)
      /\ UNCHANGED <<storeVars, aggregator, streamVars, serverVars, serverDocument,
                     listenedFrom, faults>>
      /\ remoteDocuments' = remoteDocuments /\ stream' = stream /\ idleTimer' = idleTimer
  BY DEF OnlineStateTimeout, storeVars, streamVars
<1>2. \E o \in Tracker : Broadcast(o, reader, current)
  <2>1. online \in Tracker
    BY StateFacts DEF IInv
  <2> QED BY <1>1, <2>1, TrackerFacts
<1>3. OnCalls' /\ online' \in Tracker /\ ListenTargets' = ListenTargets
  BY <1>1, <1>2, Broadcasting
<1>4. OnStream'
  BY <1>1, <1>3, ServerUntouched, StreamUntouched
<1>5. Others'
  <2>1. Others
    BY Parts
  <2>2. ~online'.timer
    <3>1. online \in Tracker
      BY StateFacts DEF IInv
    <3> QED BY <1>1, <3>1 DEF Broadcast, Tracker
  <2>3. TimersAreNeeded'
    BY <1>1, <1>3, <2>1, <2>2 DEF Others, TimersAreNeeded, TimeoutIsOfFirstAttempt,
       IdleStreamNotNeeded
  <2>4. TokenCoversCache'
    BY <1>1, <2>1 DEF Others, TokenCoversCache, storeVars
  <2> QED BY <1>1, <1>3, <2>1, <2>3, <2>4 DEF Others, storeVars
<1> QED BY <1>3, <1>4, <1>5, AllParts

(* Nothing is listened to after a restart. *)
LEMMA RelaunchStep ==
  ASSUME IInv, Relaunch
  PROVE  IInv'
<1>1. /\ reader' = [r \in Reader |-> Idle] /\ current' = Each(FALSE)
      /\ resumeToken' = savedToken /\ CleanUpWatchStreamState /\ stream' = "Initial"
      /\ idleTimer' = FALSE /\ online' = UpdateState("Unknown") /\ listenedFrom' = Each(0)
      /\ UNCHANGED <<savedToken, remoteDocuments, serverDocument, faults>>
  BY DEF Relaunch
<1>2. ListenTargets' = {}
  BY <1>1 DEF ListenTargets, TargetsOf
<1>3. OnStream'
  BY <1>1, <1>2, StreamNotOpen
<1>4. OnCalls'
  <2>1. reader' \in [Reader -> Call] /\ current' \in [Target -> BOOLEAN]
    BY <1>1 DEF Call, Each
  <2>2. SyncedAnswerIsFresh'
    BY <1>1 DEF SyncedAnswerIsFresh, Idle
  <2>3. \A t \in Target : serverDocument[t] \in Nat
    BY StateFacts DEF IInv
  <2>4. ViewInv'
    BY <1>1, <1>2, <2>3 DEF ViewInv, Each
  <2> QED BY <2>1, <2>2, <2>4 DEF OnCalls
<1>5. Others'
  <2>1. Others
    BY Parts
  <2>2. listenedFrom' \in [Target -> Version]
    BY <1>1, ReadAssumption DEF Each, Version
  <2>3. TimersAreNeeded'
    BY <1>1 DEF TimersAreNeeded, TimeoutIsOfFirstAttempt, IdleStreamNotNeeded, UpdateState
  <2>4. TokenCoversCache'
    BY <1>1, <2>1 DEF Others, TokenCoversCache
  <2>5. online' \in Tracker
    BY <1>1, TrackerFacts
  <2> QED BY <1>1, <2>1, <2>2, <2>3, <2>4, <2>5 DEF Others, StreamState
<1> QED BY <1>3, <1>4, <1>5, AllParts

LEMMA CollectGarbageStep ==
  ASSUME IInv, NEW t \in Target, CollectGarbage(t)
  PROVE  IInv'
<1>1. /\ t \notin ListenTargets
      /\ resumeToken' = [resumeToken EXCEPT ![t] = 0]
      /\ savedToken' = [savedToken EXCEPT ![t] = 0]
      /\ UNCHANGED <<viewVars, aggregator, streamVars, online, serverVars,
                     serverDocument, listenedFrom, faults>>
      /\ stream' = stream /\ idleTimer' = idleTimer
  BY DEF CollectGarbage, streamVars
<1>2. PICK kept \in {0, remoteDocuments[t]} :
         remoteDocuments' = [remoteDocuments EXCEPT ![t] = kept]
  BY DEF CollectGarbage
<1>3. /\ remoteDocuments \in [Target -> Version] /\ resumeToken \in [Target -> Version]
      /\ savedToken \in [Target -> Version] /\ 0 \in Version /\ Version \subseteq Nat
      /\ ListenTargets \subseteq Target
  <2>1. 0 \in Version
    BY ReadAssumption DEF Version
  <2> QED BY <2>1, StateFacts DEF IInv
<1>4. /\ remoteDocuments' \in [Target -> Version] /\ resumeToken' \in [Target -> Version]
      /\ savedToken' \in [Target -> Version] /\ resumeToken'[t] = 0 /\ savedToken'[t] = 0
      /\ \A u \in Target \ {t} : /\ remoteDocuments'[u] = remoteDocuments[u]
                                 /\ resumeToken'[u] = resumeToken[u]
                                 /\ savedToken'[u] = savedToken[u]
  <2>1. kept \in Version
    BY <1>2, <1>3
  <2> QED BY <1>1, <1>2, <1>3, <2>1
<1>5. \A u \in ListenTargets : remoteDocuments'[u] = remoteDocuments[u]
  BY <1>1, <1>3, <1>4
<1>6. OnCalls' /\ ListenTargets' = ListenTargets
  BY <1>1, <1>5, ServerUntouched, CallsUntouched
<1>7. OnStream'
  BY <1>1, <1>5, <1>6, ServerUntouched, StreamUntouched
<1>8. Others'
  <2>1. Others
    BY Parts
  <2>2. TimersAreNeeded'
    BY <1>1, <1>6, <2>1 DEF Others, TimersAreNeeded, TimeoutIsOfFirstAttempt,
       IdleStreamNotNeeded, IsStarted
  <2>3. remoteDocuments'[t] \in Nat
    BY <1>3, <1>4
  <2>4. TokenCoversCache'
    BY <1>4, <2>1, <2>3 DEF Others, TokenCoversCache
  <2> QED BY <1>1, <1>4, <2>1, <2>2, <2>4 DEF Others
<1> QED BY <1>6, <1>7, <1>8, AllParts

LEMMA ServerWriteStep ==
  ASSUME IInv, NEW t \in Target, ServerWrite(t)
  PROVE  IInv'
<1>1. /\ serverDocument' = [serverDocument EXCEPT ![t] = @ + 1]
      /\ serverDocument[t] < MaxVersion
      /\ UNCHANGED <<viewVars, storeVars, aggregator, streamVars, online, serverVars,
                     listenedFrom, faults>>
      /\ stream' = stream /\ idleTimer' = idleTimer /\ remoteDocuments' = remoteDocuments
  BY DEF ServerWrite, streamVars, storeVars
<1>2. serverDocument \in [Target -> Version] /\ serverDocument[t] + 1 \in Version
  <2>1. serverDocument \in [Target -> Version]
    BY StateFacts DEF IInv
  <2>2. serverDocument[t] \in Version
    BY <2>1
  <2> QED BY <1>1, <2>1, <2>2, ReadAssumption DEF Version
<1>3. /\ serverDocument' \in [Target -> Version]
      /\ \A u \in Target : /\ serverDocument'[u] \in Nat
                           /\ serverDocument[u] <= serverDocument'[u]
  <2>1. serverDocument' \in [Target -> Version]
    BY <1>1, <1>2
  <2>2. \A u \in Target :
           serverDocument'[u] = IF u = t THEN serverDocument[u] + 1 ELSE serverDocument[u]
    BY <1>1, <1>2
  <2>3. \A u \in Target : serverDocument[u] \in Nat
    BY StateFacts DEF IInv
  <2> QED BY <2>1, <2>2, <2>3
<1>4. OnCalls' /\ ListenTargets' = ListenTargets
  BY <1>1, <1>3, CallsUntouched
<1>5. OnStream'
  BY <1>1, <1>3, <1>4, StreamUntouched
<1>6. Others'
  <2>1. Others
    BY Parts
  <2>2. TimersAreNeeded'
    BY <1>1, <1>4, <2>1 DEF Others, TimersAreNeeded, TimeoutIsOfFirstAttempt,
       IdleStreamNotNeeded, IsStarted
  <2>3. TokenCoversCache'
    BY <1>1, <2>1 DEF Others, TokenCoversCache, storeVars
  <2> QED BY <1>1, <1>3, <2>1, <2>2, <2>3 DEF Others, storeVars
<1> QED BY <1>4, <1>5, <1>6, AllParts

(* The server sends, the client does nothing yet. *)
LEMMA ServerSendsStep ==
  ASSUME IInv, ServerSnapshot \/ \E t \in Target : ServerSendTarget(t)
  PROVE  IInv'
<1>1. /\ UNCHANGED <<viewVars, storeVars, aggregator, streamVars, online,
                     serverDocument, listenedFrom, faults>>
      /\ remoteDocuments' = remoteDocuments
  <2>1. CASE ServerSnapshot
    BY <2>1 DEF ServerSnapshot, storeVars
  <2>2. CASE \E t \in Target : ServerSendTarget(t)
    BY <2>2 DEF ServerSendTarget, storeVars
  <2> QED BY <2>1, <2>2
<1>2. OnStream'
  BY TargetSent, SnapshotSent
<1>3. OnCalls' /\ ListenTargets' = ListenTargets
  BY <1>1, ServerUntouched, CallsUntouched
<1>4. Others'
  <2>1. Others
    BY Parts
  <2>2. TimersAreNeeded'
    BY <1>1, <1>3, <2>1 DEF Others, TimersAreNeeded, TimeoutIsOfFirstAttempt,
       IdleStreamNotNeeded, IsStarted, streamVars
  <2>3. TokenCoversCache'
    BY <1>1, <2>1 DEF Others, TokenCoversCache, storeVars
  <2> QED BY <1>1, <2>1, <2>2, <2>3 DEF Others, storeVars, streamVars
<1> QED BY <1>2, <1>3, <1>4, AllParts

(* A message other than a snapshot: the client is online, the cache as before. *)
LEMMA ResponseRead ==
  ASSUME IInv, NEW type, NextResponse(type), type # "snapshot",
         Broadcast(UpdateState("Online"), reader, current), UNCHANGED storeVars
  PROVE  /\ OnCalls' /\ Others' /\ ListenTargets' = ListenTargets
         /\ responses # << >> /\ responses' = Tail(responses)
         /\ UNCHANGED <<stream, watched, unannounced, serverDocument, listenedFrom,
                        remoteDocuments>>
         /\ Head(responses) \in Message /\ Head(responses).type = type
         /\ Head(responses).target \in Target
<1>1. /\ responses # << >> /\ responses' = Tail(responses) /\ Head(responses).type = type
      /\ UNCHANGED <<stream, idleTimer, watched, unannounced, serverDocument, listenedFrom,
                     faults, remoteDocuments, resumeToken, savedToken>>
  BY DEF NextResponse, storeVars, streamVars
<1>2. \E o \in Tracker : Broadcast(o, reader, current)
  BY TrackerFacts
<1>3. OnCalls' /\ online' \in Tracker /\ ListenTargets' = ListenTargets
  BY <1>1, <1>2, Broadcasting
<1>4. Others'
  <2>1. Others
    BY Parts
  <2>2. ~online'.timer
    BY DEF Broadcast, UpdateState
  <2>3. TimersAreNeeded'
    BY <1>1, <1>3, <2>1, <2>2 DEF Others, TimersAreNeeded, TimeoutIsOfFirstAttempt,
       IdleStreamNotNeeded
  <2>4. TokenCoversCache'
    BY <1>1, <2>1 DEF Others, TokenCoversCache
  <2> QED BY <1>1, <1>3, <2>1, <2>3, <2>4 DEF Others
<1>5. Head(responses) \in Message
  <2>1. responses \in Seq(Message)
    BY StateFacts DEF IInv
  <2> QED BY <1>1, <2>1, ReadFacts
<1>6. Head(responses).target \in Target
  BY <1>1, <1>5, MessageFacts
<1> QED BY <1>1, <1>3, <1>4, <1>5, <1>6

(* The bounds a message that is no document keeps. *)
LEMMA CacheUntouched ==
  ASSUME IInv, UNCHANGED remoteDocuments
  PROVE  \A t \in Target : /\ remoteDocuments'[t] \in Version
                           /\ remoteDocuments[t] <= remoteDocuments'[t]
                           /\ aggregator.updates[t] <= aggregator.updates[t]
<1>1. ASSUME NEW t \in Target
      PROVE  /\ remoteDocuments[t] \in Version /\ remoteDocuments[t] \in Nat
             /\ aggregator.updates[t] \in Nat
  BY StateFacts DEF IInv
<1> QED BY <1>1

LEMMA OnTargetAddedStep ==
  ASSUME IInv, OnTargetAdded \/ OnTargetRemoved
  PROVE  IInv'
<1>1. PICK type \in {"added", "removed"} :
         /\ NextResponse(type) /\ Broadcast(UpdateState("Online"), reader, current)
         /\ UNCHANGED storeVars
  BY DEF OnTargetAdded, OnTargetRemoved
<1>2. /\ OnCalls' /\ Others' /\ ListenTargets' = ListenTargets
      /\ responses # << >> /\ responses' = Tail(responses)
      /\ UNCHANGED <<stream, watched, unannounced, serverDocument, listenedFrom,
                     remoteDocuments>>
      /\ Head(responses) \in Message /\ Head(responses).type = type
      /\ Head(responses).target \in Target
  BY <1>1, ResponseRead
<1>3. PICK u \in Target : u = Head(responses).target
  BY <1>2
<1>4. aggregator \in [outstanding : [Target -> Nat], current : [Target -> BOOLEAN],
                      updates : [Target -> Version]]
  BY DEF IInv, TypeOK
<1>5. PICK flags \in [Target -> BOOLEAN] :
         aggregator' = [aggregator EXCEPT
            !.outstanding = [aggregator.outstanding EXCEPT ![u] = @ - 1], !.current = flags]
  <2>1. CASE OnTargetAdded
    BY <1>3, <1>4, <2>1 DEF OnTargetAdded
  <2>2. CASE OnTargetRemoved
    <3>1. PICK flag : flag = (aggregator.outstanding[u] > 1 /\ aggregator.current[u])
      OBVIOUS
    <3>2. flag \in BOOLEAN
      BY <3>1
    <3>3. aggregator' = [aggregator EXCEPT
             !.outstanding = [aggregator.outstanding EXCEPT ![u] = @ - 1],
             !.current = [aggregator.current EXCEPT ![u] = flag]]
      BY <1>3, <1>4, <2>2, <3>1, <3>2 DEF OnTargetRemoved
    <3>4. [aggregator.current EXCEPT ![u] = flag] \in [Target -> BOOLEAN]
      BY <1>4, <3>2
    <3> QED BY <3>3, <3>4
  <2> QED BY <2>1, <2>2
<1>6. /\ IsAnswer(Head(responses), u) /\ \A t \in Target : IsAnswer(Head(responses), t) <=> t = u
      /\ \A t : ~IsDocument(Head(responses), t)
  BY <1>2, <1>3 DEF IsAnswer, IsDocument
<1>7. aggregator.outstanding[u] \in Nat \ {0}
  BY <1>2, <1>6, AnswerIsOutstanding
<1>8. /\ aggregator' \in [outstanding : [Target -> Nat], current : [Target -> BOOLEAN],
                          updates : [Target -> Version]]
      /\ aggregator'.updates = aggregator.updates
      /\ \A t \in Target : aggregator'.outstanding[t] =
            IF t = u THEN aggregator.outstanding[t] - 1 ELSE aggregator.outstanding[t]
  <2>1. PICK counts : counts = [aggregator.outstanding EXCEPT ![u] = @ - 1]
    OBVIOUS
  <2>2. /\ counts \in [Target -> Nat]
        /\ \A t \in Target : counts[t] =
              IF t = u THEN aggregator.outstanding[t] - 1 ELSE aggregator.outstanding[t]
    BY <1>4, <1>7, <2>1
  <2> QED BY <1>4, <1>5, <2>1, <2>2
<1>9. OnStream'
  <2>1. ASSUME NEW t \in Target
        PROVE  /\ aggregator.updates[t] <= aggregator'.updates[t]
               /\ aggregator'.updates[t] = aggregator.updates[t]
               /\ aggregator'.outstanding[t] = aggregator.outstanding[t]
                     - (IF IsAnswer(Head(responses), t) THEN 1 ELSE 0)
               /\ ~IsDocument(Head(responses), t)
               /\ remoteDocuments'[t] \in Version
               /\ remoteDocuments[t] <= remoteDocuments'[t]
    <3>1. aggregator.outstanding[t] \in Nat
      BY <1>4
    <3> QED BY <1>2, <1>6, <1>8, <3>1, CacheUntouched
  <2> QED BY <1>2, <1>8, <2>1, MessageRead
<1> QED BY <1>2, <1>9, AllParts

LEMMA OnTargetChangeStep ==
  ASSUME IInv, NEW type \in {"document", "current"}, OnTargetChange(type)
  PROVE  IInv'
<1>1. /\ OnCalls' /\ Others' /\ ListenTargets' = ListenTargets
      /\ responses # << >> /\ responses' = Tail(responses)
      /\ UNCHANGED <<stream, watched, unannounced, serverDocument, listenedFrom,
                     remoteDocuments>>
      /\ Head(responses) \in Message /\ Head(responses).type = type
      /\ Head(responses).target \in Target
  BY ResponseRead DEF OnTargetChange
<1>2. PICK m \in Message : m = Head(responses)
  BY <1>1
<1>3. PICK u \in Target : u = m.target
  BY <1>1, <1>2
<1>4. aggregator \in [outstanding : [Target -> Nat], current : [Target -> BOOLEAN],
                      updates : [Target -> Version]]
  BY DEF IInv, TypeOK
<1>5. /\ m.doc \in Version /\ m.doc \in Nat /\ IsDocument(m, u)
      /\ \A t \in Target : IsDocument(m, t) <=> t = u
      /\ \A t : ~IsAnswer(m, t)
  <2>1. m.type = type /\ m.doc \in Version
    BY <1>1, <1>2, MessageFacts
  <2> QED BY <1>3, <2>1 DEF IsDocument, IsAnswer, Version
<1>6. /\ aggregator' \in [outstanding : [Target -> Nat], current : [Target -> BOOLEAN],
                          updates : [Target -> Version]]
      /\ aggregator'.outstanding = aggregator.outstanding
      /\ \A t \in Target \ {u} : aggregator'.updates[t] = aggregator.updates[t]
      /\ aggregator'.updates[u] = IF IsActiveTarget(u) /\ m.doc # 0
                                  THEN m.doc ELSE aggregator.updates[u]
  <2>1. CASE IsActiveTarget(u)
    <3>1. PICK doc \in Version : doc = IF m.doc = 0 THEN aggregator.updates[u] ELSE m.doc
      BY <1>4, <1>5
    <3>2. PICK flag \in BOOLEAN : flag = (aggregator.current[u] \/ type = "current")
      BY <1>4
    <3>3. aggregator' = [aggregator EXCEPT
             !.updates = [aggregator.updates EXCEPT ![u] = doc],
             !.current = [aggregator.current EXCEPT ![u] = flag]]
      BY <1>2, <1>3, <1>4, <2>1, <3>1, <3>2 DEF OnTargetChange
    <3>4. /\ [aggregator.updates EXCEPT ![u] = doc] \in [Target -> Version]
          /\ [aggregator.current EXCEPT ![u] = flag] \in [Target -> BOOLEAN]
      BY <1>4
    <3> QED BY <1>4, <2>1, <3>1, <3>3, <3>4
  <2>2. CASE ~IsActiveTarget(u)
    BY <1>2, <1>3, <1>4, <2>2 DEF OnTargetChange
  <2> QED BY <2>1, <2>2
<1>7. OnStream'
  <2>1. ASSUME NEW t \in Target
        PROVE  /\ aggregator.updates[t] <= aggregator'.updates[t]
               /\ \/ aggregator'.updates[t] = aggregator.updates[t]
                  \/ /\ IsDocument(m, t) /\ m.doc # 0 /\ aggregator'.updates[t] = m.doc
               /\ aggregator'.outstanding[t] = aggregator.outstanding[t]
                     - (IF IsAnswer(m, t) THEN 1 ELSE 0)
               /\ remoteDocuments'[t] \in Version
               /\ remoteDocuments[t] <= remoteDocuments'[t]
               /\ t \in ListenTargets /\ aggregator.outstanding[t] = 0 /\ IsDocument(m, t)
                  => \/ m.doc <= remoteDocuments'[t]
                     \/ m.doc <= aggregator'.updates[t]
    <3>1. /\ aggregator.outstanding[t] \in Nat /\ aggregator.updates[t] \in Nat
          /\ remoteDocuments'[t] \in Version /\ remoteDocuments[t] <= remoteDocuments'[t]
      BY <1>1, StateFacts, CacheUntouched DEF IInv
    <3>2. m.doc # 0 /\ t = u => aggregator.updates[t] <= m.doc
      <4>1. 1 \in DOMAIN responses /\ responses[1] = m
        BY <1>1, <1>2, StateFacts, ReadFacts DEF IInv
      <4> QED BY <1>5, <4>1 DEF IInv, NewerLater, InOrder
    <3>3. remoteDocuments'[t] \in Nat
      BY <3>1 DEF Version
    <3>4. CASE t # u
      BY <1>5, <1>6, <3>1, <3>4
    <3>5. CASE t = u /\ IsActiveTarget(u) /\ m.doc # 0
      BY <1>5, <1>6, <3>1, <3>2, <3>5
    <3>6. CASE t = u /\ m.doc = 0
      BY <1>5, <1>6, <3>1, <3>3, <3>6
    <3>7. CASE t = u /\ ~IsActiveTarget(u)
      BY <1>5, <1>6, <3>1, <3>7 DEF IsActiveTarget
    <3> QED BY <3>4, <3>5, <3>6, <3>7
  <2>2. m = Head(responses)
    BY <1>2
  <2> QED BY <1>1, <1>6, <2>1, <2>2, MessageRead
<1> QED BY <1>1, <1>7, AllParts

(* What is pending goes into the cache, and the targets that are active get a  *)
(* token that the cache covers.                                                *)
LEMMA OnSnapshotStep ==
  ASSUME IInv, OnSnapshot
  PROVE  IInv'
<1>1. /\ reader \in [Reader -> Call] /\ current \in [Target -> BOOLEAN]
      /\ remoteDocuments \in [Target -> Version] /\ listenedFrom \in [Target -> Version]
      /\ resumeToken \in [Target -> Version] /\ savedToken \in [Target -> Version]
      /\ aggregator.updates \in [Target -> Version]
      /\ aggregator.outstanding \in [Target -> Nat]
      /\ aggregator.current \in [Target -> BOOLEAN]
      /\ responses \in Seq(Message) /\ Version \subseteq Nat
      /\ ListenTargets \subseteq Target /\ Fresh(reader, listenedFrom)
  BY StateFacts DEF IInv, SyncedAnswerIsFresh, Fresh
<1>2. /\ responses # << >> /\ Head(responses).type = "snapshot"
      /\ responses' = Tail(responses)
      /\ UNCHANGED <<streamVars, watched, unannounced, serverDocument, listenedFrom, faults>>
      /\ stream' = stream /\ idleTimer' = idleTimer
  BY DEF OnSnapshot, NextResponse, streamVars
<1>3. PICK m \in Message : m = Head(responses)
  BY <1>1, <1>2, ReadFacts
<1>4. m.type = "snapshot" /\ m.token \in [Target -> Version]
  BY <1>2, <1>3, MessageFacts
<1>5. PICK active : active = {t \in Target : IsActiveTarget(t)}
  OBVIOUS
<1>6. PICK old \in SUBSET active :
         savedToken' = [t \in Target |->
            IF t \in active /\ (aggregator.updates[t] # 0 \/ resumeToken[t] = 0 \/ t \in old)
            THEN m.token[t] ELSE savedToken[t]]
  BY <1>3, <1>5 DEF OnSnapshot
<1>7. /\ remoteDocuments' = [t \in Target |->
            IF aggregator.updates[t] > remoteDocuments[t] THEN aggregator.updates[t]
            ELSE remoteDocuments[t]]
      /\ resumeToken' = [t \in Target |->
            IF t \in active THEN m.token[t] ELSE resumeToken[t]]
      /\ aggregator' = [aggregator EXCEPT !.updates = Each(0)]
      /\ online' = UpdateState("Online")
      /\ current' = [t \in Target |->
            IF t \in active THEN aggregator.current[t] ELSE current[t]]
      /\ reader' = Notified(reader, current', remoteDocuments', online')
  BY <1>3, <1>5 DEF OnSnapshot
<1>8. /\ remoteDocuments' \in [Target -> Version] /\ resumeToken' \in [Target -> Version]
      /\ savedToken' \in [Target -> Version] /\ current' \in [Target -> BOOLEAN]
  BY <1>1, <1>4, <1>6, <1>7
<1>9. ASSUME NEW t \in Target
      PROVE  /\ remoteDocuments[t] \in Nat /\ aggregator.updates[t] \in Nat
             /\ remoteDocuments'[t] \in Nat
             /\ remoteDocuments[t] <= remoteDocuments'[t]
             /\ aggregator.updates[t] <= remoteDocuments'[t]
  <2>1. remoteDocuments[t] \in Nat /\ aggregator.updates[t] \in Nat
    BY <1>1
  <2>2. remoteDocuments'[t] =
           IF aggregator.updates[t] > remoteDocuments[t] THEN aggregator.updates[t]
           ELSE remoteDocuments[t]
    BY <1>7
  <2> QED BY <2>1, <2>2
<1>10. ASSUME NEW t \in active
       PROVE  /\ t \in ListenTargets /\ t \in Target
              /\ m.token[t] \in Nat /\ m.token[t] <= remoteDocuments'[t]
              /\ listenedFrom[t] <= m.token[t]
  <2>1. t \in ListenTargets /\ t \in Target /\ aggregator.outstanding[t] = 0
    BY <1>5 DEF IsActiveTarget
  <2>2. Settled(responses, t, 1)
    BY <2>1, SettledFromNow
  <2>3. /\ 1 \in DOMAIN responses /\ responses[1] = m
        /\ \A j \in DOMAIN responses : ~(j < 1)
    <3>1. \A j \in DOMAIN responses : j \in 1..Len(responses)
      BY <1>1, LenProperties
    <3> QED BY <1>1, <1>2, <1>3, <3>1, ReadFacts
  <2>4. /\ Covered(responses, t, m.token[t], 1, remoteDocuments[t], aggregator.updates[t])
        /\ listenedFrom[t] <= m.token[t]
    BY <1>4, <2>1, <2>2, <2>3 DEF IInv, CoverInv, SnapshotsCovered
  <2>5. m.token[t] <= remoteDocuments[t] \/ m.token[t] <= aggregator.updates[t]
    BY <2>3, <2>4 DEF Covered
  <2>6. m.token[t] \in Nat
    BY <1>1, <1>4, <2>1
  <2> QED BY <1>9, <2>1, <2>4, <2>5, <2>6
<1>11. reader' \in [Reader -> Call] /\ ListenTargets' = ListenTargets
  <2>1. PICK o, docs, inSync, told :
           o = online' /\ docs = remoteDocuments' /\ inSync = current' /\ told = reader'
    OBVIOUS
  <2>2. /\ told = Notified(reader, inSync, docs, o)
        /\ docs \in [Target -> Version] /\ inSync \in [Target -> BOOLEAN]
    BY <1>7, <1>8, <2>1
  <2>3. told \in [Reader -> Call] /\ TargetsOf(told) = TargetsOf(reader)
    <3>1. PICK calls : calls = reader
      OBVIOUS
    <3>2. calls \in [Reader -> Call] /\ told = Notified(calls, inSync, docs, o)
      BY <1>1, <2>2, <3>1
    <3>3. told \in [Reader -> Call] /\ TargetsOf(told) = TargetsOf(calls)
      BY ONLY <2>2, <3>2, NotifiedFacts
    <3> QED BY <3>1, <3>3
  <2> QED BY <2>1, <2>3 DEF ListenTargets
<1>12. ASSUME NEW t \in ListenTargets, current'[t]
       PROVE  listenedFrom[t] <= remoteDocuments'[t]
  <2>1. t \in Target /\ listenedFrom[t] \in Nat
    BY <1>1
  <2>2. CASE t \in active
    BY <1>9, <1>10, <2>1, <2>2
  <2>3. CASE t \notin active
    <3>1. current[t]
      BY <1>7, <1>12, <2>1, <2>3
    <3>2. listenedFrom[t] <= remoteDocuments[t]
      BY <3>1 DEF IInv, ViewInv
    <3> QED BY <1>9, <2>1, <3>2
  <2> QED BY <2>2, <2>3
<1>13. OnCalls'
  <2>1. ViewInv'
    BY <1>2, <1>11, <1>12 DEF IInv, ViewInv
  <2>2. Fresh(reader', listenedFrom)
    <3>1. PICK o, docs, inSync, told :
             o = online' /\ docs = remoteDocuments' /\ inSync = current' /\ told = reader'
      OBVIOUS
    <3>2. /\ told = Notified(reader, inSync, docs, o)
          /\ docs \in [Target -> Version] /\ inSync \in [Target -> BOOLEAN]
      BY <1>7, <1>8, <3>1
    <3>3. \A t \in TargetsOf(reader) : inSync[t] => listenedFrom[t] <= docs[t]
      BY <1>12, <3>1 DEF ListenTargets
    <3>4. Fresh(told, listenedFrom)
      BY <1>1, <3>2, <3>3, NotifiedFresh
    <3> QED BY <3>1, <3>4
  <2>3. SyncedAnswerIsFresh'
    BY <1>2, <2>2 DEF SyncedAnswerIsFresh, Fresh
  <2> QED BY <1>8, <1>11, <2>1, <2>3 DEF OnCalls
<1>14. OnStream'
  <2>1. aggregator \in [outstanding : [Target -> Nat], current : [Target -> BOOLEAN],
                        updates : [Target -> Version]]
    BY DEF IInv, TypeOK
  <2>2. Each(0) \in [Target -> Version] /\ \A t \in Target : Each(0)[t] = 0
    BY ReadAssumption DEF Each, Version
  <2>3. /\ aggregator' \in [outstanding : [Target -> Nat], current : [Target -> BOOLEAN],
                            updates : [Target -> Version]]
        /\ aggregator'.outstanding = aggregator.outstanding
        /\ aggregator'.updates = Each(0)
    BY <1>7, <2>1, <2>2
  <2>4. \A t : ~IsAnswer(Head(responses), t) /\ ~IsDocument(Head(responses), t)
    BY <1>2 DEF IsAnswer, IsDocument
  <2>5. ASSUME NEW t \in Target
        PROVE  /\ remoteDocuments'[t] \in Version
               /\ remoteDocuments[t] <= remoteDocuments'[t]
               /\ aggregator.updates[t] <= remoteDocuments'[t]
               /\ aggregator'.updates[t] = 0
               /\ aggregator'.outstanding[t] = aggregator.outstanding[t]
                     - (IF IsAnswer(Head(responses), t) THEN 1 ELSE 0)
    <3>1. aggregator.outstanding[t] \in Nat
      BY <1>1
    <3> QED BY <1>8, <1>9, <2>2, <2>3, <2>4, <3>1
  <2> QED BY <1>2, <1>11, <2>3, <2>4, <2>5, MessageRead
<1>15. Others'
  <2>1. Others
    BY Parts
  <2>2. ~online'.timer /\ online' \in Tracker
    BY <1>7, TrackerFacts DEF UpdateState
  <2>3. TimersAreNeeded'
    BY <1>2, <1>11, <2>1, <2>2 DEF Others, TimersAreNeeded, TimeoutIsOfFirstAttempt,
       IdleStreamNotNeeded
  <2>4. TokenCoversCache'
    <3> SUFFICES ASSUME NEW t \in Target
                 PROVE  /\ resumeToken'[t] <= remoteDocuments'[t]
                        /\ savedToken'[t] <= remoteDocuments'[t]
      BY DEF TokenCoversCache
    <3>1. /\ resumeToken[t] <= remoteDocuments[t] /\ savedToken[t] <= remoteDocuments[t]
          /\ resumeToken[t] \in Nat /\ savedToken[t] \in Nat
      BY <1>1, <2>1 DEF Others, TokenCoversCache
    <3>2. /\ resumeToken'[t] = IF t \in active THEN m.token[t] ELSE resumeToken[t]
          /\ \/ savedToken'[t] = savedToken[t]
             \/ t \in active /\ savedToken'[t] = m.token[t]
      BY <1>6, <1>7
    <3> QED BY <1>9, <1>10, <3>1, <3>2
  <2> QED BY <1>2, <1>8, <2>1, <2>2, <2>3, <2>4 DEF Others
<1> QED BY <1>13, <1>14, <1>15, AllParts

-----------------------------------------------------------------------------
(* The theorems. *)

LEMMA InitStep == Init => IInv
<1> SUFFICES ASSUME Init PROVE IInv
  OBVIOUS
<1>1. /\ reader = [r \in Reader |-> Idle] /\ current = Each(FALSE)
      /\ resumeToken = Each(0) /\ savedToken = Each(0) /\ remoteDocuments = Each(0)
      /\ aggregator = FreshAggregator /\ stream = "Initial" /\ idleTimer = FALSE
      /\ online = UpdateState("Unknown") /\ watched = Each(NotWatched)
      /\ unannounced = FALSE /\ responses = << >> /\ serverDocument = Each(0)
      /\ listenedFrom = Each(0) /\ faults = 0
  BY DEF Init
<1>2. /\ Each(0) \in [Target -> Version] /\ Each(0) \in [Target -> Nat]
      /\ Each(FALSE) \in [Target -> BOOLEAN] /\ 0 \in Version /\ 0 \in 0..MaxFaults
      /\ Each(NotWatched) \in [Target -> {NotWatched}]
  BY ReadAssumption DEF Each, Version
<1>3. ListenTargets = {}
  BY <1>1 DEF ListenTargets, TargetsOf
<1>4. TypeOK
  <2>1. aggregator \in [outstanding : [Target -> Nat], current : [Target -> BOOLEAN],
                        updates : [Target -> Version]]
    BY <1>1, <1>2 DEF FreshAggregator
  <2>2. reader \in [Reader -> {Idle}]
    BY <1>1
  <2>3. online \in [state : {"Unknown", "Online", "Offline"}, failures : 0..1,
                    timer : BOOLEAN]
    BY <1>1 DEF UpdateState
  <2>4. responses \in Seq(Message)
    BY <1>1
  <2>5. watched \in [Target -> {NotWatched}
           \cup [on : {TRUE}, current : BOOLEAN, doc : Version]]
    BY <1>1, <1>2
  <2> QED BY <1>1, <1>2, <2>1, <2>2, <2>3, <2>4, <2>5 DEF TypeOK, StreamState
<1>5. TimersAreNeeded
  BY <1>1 DEF TimersAreNeeded, TimeoutIsOfFirstAttempt, IdleStreamNotNeeded, UpdateState
<1>6. TokenCoversCache
  BY <1>1 DEF TokenCoversCache, Each
<1>7. OutstandingIsUnderWay
  BY <1>1, AnswersNone DEF OutstandingIsUnderWay, FreshAggregator, Each
<1>8. StreamInv
  BY <1>1 DEF StreamInv, Each, NotWatched
<1>9. NewerLater
  <2>1. \A t \in Target : aggregator.updates[t] = 0 /\ serverDocument[t] = 0
    BY <1>1 DEF FreshAggregator, Each
  <2> QED BY <1>1, <2>1, NothingUnderWay DEF NewerLater
<1>10. SentCovered /\ CoverInv /\ ViewInv
  BY <1>1, <1>3 DEF SentCovered, CoverInv, ViewInv, Each
<1>11. SyncedAnswerIsFresh
  BY <1>1 DEF SyncedAnswerIsFresh, Idle
<1> QED BY <1>4, <1>5, <1>6, <1>7, <1>8, <1>9, <1>10, <1>11 DEF IInv

LEMMA NextStep == IInv /\ [Next]_vars => IInv'
<1> SUFFICES ASSUME IInv, [Next]_vars PROVE IInv'
  OBVIOUS
<1>1. CASE \E r \in Reader, t \in Target : JoinView(r, t) \/ Listen(r, t)
  BY <1>1, JoinViewStep, ListenStep
<1>2. CASE \E r \in Reader : RemoveQueryListener(r)
  BY <1>2, RemoveQueryListenerStep
<1>3. CASE OnWatchStreamOpen
  BY <1>3, OnWatchStreamOpenStep
<1>4. CASE AttemptFails \/ ConnectionLost
  <2>1. OnWatchStreamClose
    BY <1>4 DEF AttemptFails, ConnectionLost
  <2>2. faults' \in 0..MaxFaults
    BY <1>4, StateFacts, ReadAssumption DEF IInv, AttemptFails, ConnectionLost
  <2> QED BY <2>1, <2>2, OnWatchStreamCloseStep
<1>5. CASE BackoffElapsed
  BY <1>5, BackoffElapsedStep
<1>6. CASE IdleTimeout
  BY <1>6, IdleTimeoutStep
<1>7. CASE OnlineStateTimeout
  BY <1>7, OnlineStateTimeoutStep
<1>8. CASE RestartNetwork
  BY <1>8, RestartNetworkStep
<1>9. CASE Relaunch
  BY <1>9, RelaunchStep
<1>10. CASE \E t \in Target : CollectGarbage(t) \/ ServerWrite(t)
  BY <1>10, CollectGarbageStep, ServerWriteStep
<1>11. CASE ServerSnapshot \/ \E t \in Target : ServerSendTarget(t)
  BY <1>11, ServerSendsStep
<1>12. CASE OnTargetAdded \/ OnTargetRemoved
  BY <1>12, OnTargetAddedStep
<1>13. CASE OnDocumentChange \/ OnTargetCurrent
  BY <1>13, OnTargetChangeStep DEF OnDocumentChange, OnTargetCurrent
<1>14. CASE OnSnapshot
  BY <1>14, OnSnapshotStep
<1>15. CASE UNCHANGED vars
  <2>1. /\ reader' = reader /\ current' = current /\ resumeToken' = resumeToken
        /\ savedToken' = savedToken /\ remoteDocuments' = remoteDocuments
        /\ aggregator' = aggregator /\ stream' = stream /\ idleTimer' = idleTimer
        /\ online' = online /\ watched' = watched /\ unannounced' = unannounced
        /\ responses' = responses /\ serverDocument' = serverDocument
        /\ listenedFrom' = listenedFrom /\ faults' = faults
    BY <1>15 DEF vars, viewVars, storeVars, streamVars, serverVars
  <2>2. UNCHANGED viewVars /\ UNCHANGED <<aggregator, serverVars, stream>>
    BY <2>1 DEF viewVars, serverVars
  <2>3. OnCalls' /\ ListenTargets' = ListenTargets
    BY <2>1, <2>2, ServerUntouched, CallsUntouched
  <2>4. OnStream'
    BY <2>1, <2>2, <2>3, ServerUntouched, StreamUntouched
  <2>5. Others'
    BY <2>1, <2>3, Parts DEF Others, TimersAreNeeded, TimeoutIsOfFirstAttempt,
       IdleStreamNotNeeded, TokenCoversCache, IsStarted
  <2> QED BY <2>3, <2>4, <2>5, AllParts
<1> QED BY <1>1, <1>2, <1>3, <1>4, <1>5, <1>6, <1>7, <1>8, <1>9, <1>10, <1>11, <1>12,
           <1>13, <1>14, <1>15 DEF Next, OnWatchStreamChange

(* The invariant holds in every reachable state. *)
THEOREM Invariance == Spec => []IInv
BY InitStep, NextStep, PTL DEF Spec

(* Every variable keeps its type: in particular no count of outstanding        *)
(* answers becomes negative when WatchChangeAggregator reads one.              *)
THEOREM TypeCorrect == Spec => []TypeOK
<1>1. IInv => TypeOK
  BY DEF IInv
<1> QED BY <1>1, Invariance, PTL

(* What LocalStore keeps of a target: its resume token never says more than    *)
(* the cached document does, in memory or in LevelDB.                          *)
THEOREM TokensAreCovered == Spec => []TokenCoversCache
<1>1. IInv => TokenCoversCache
  BY DEF IInv
<1> QED BY <1>1, Invariance, PTL

(* The pending responses TargetState counts are those that are under way.      *)
THEOREM AnswersAreCounted == Spec => []OutstandingIsUnderWay
<1>1. IInv => OutstandingIsUnderWay
  BY DEF IInv
<1> QED BY <1>1, Invariance, PTL

(* The timers of OnlineStateTracker and of Stream only run while they are      *)
(* needed, which their callbacks assert.                                       *)
THEOREM TimersAreStopped == Spec => []TimersAreNeeded
<1>1. IInv => TimersAreNeeded
  BY DEF IInv
<1> QED BY <1>1, Invariance, PTL

(* What getDocument answers without saying it is from the cache is at least as *)
(* new as the document was when the client began to listen to it.              *)
THEOREM AnswersAreFresh == Spec => []SyncedAnswerIsFresh
<1>1. IInv => SyncedAnswerIsFresh
  BY DEF IInv
<1> QED BY <1>1, Invariance, PTL
=============================================================================
