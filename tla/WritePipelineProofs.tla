------------------------ MODULE WritePipelineProofs -------------------------
(***************************************************************************)
(* Theorems about WritePipeline, for any number of accounts and writes and *)
(* any length of the pipeline.                                             *)
(***************************************************************************)
EXTENDS WritePipeline, SequenceTheorems, WellFoundedInduction, TLAPS

-----------------------------------------------------------------------------
(* The inductive invariant. *)

Ordered(queue) == \A i, j \in DOMAIN queue : i < j => queue[i].id < queue[j].id

(* The pipeline holds the first batches of the queue. *)
Heads(pipeline, queue) ==
    /\ Len(pipeline) <= Len(queue)
    /\ Len(pipeline) <= MaxPendingWrites
    /\ \A i \in 1..Len(pipeline) : pipeline[i] = queue[i]

(* There are never more ids in use than writes were submitted, so the         *)
(* greatest one exists.                                                       *)
IdsAreBounded ==
    /\ nextBatchId <= submitted + 1
    /\ \A u \in User : \A i \in DOMAIN mutationQueue[u] :
          mutationQueue[u][i].id <= submitted

(* A queue holds its writes in the order of submission, each write is in one. *)
WritesInOrder ==
    /\ \A u \in User : \A i, j \in DOMAIN mutationQueue[u] :
          i < j => mutationQueue[u][i].write < mutationQueue[u][j].write
    /\ \A u \in User : \A i \in DOMAIN mutationQueue[u] :
          mutationQueue[u][i].write <= submitted
    /\ \A u, v \in User : \A i \in DOMAIN mutationQueue[u] :
          \A j \in DOMAIN mutationQueue[v] :
              mutationQueue[u][i].write = mutationQueue[v][j].write => u = v

QueueInv == IdsAreBounded /\ WritesInOrder /\ IdsIdentifyWrites

(* With the network disabled nothing is open; a stream that is not ready yet  *)
(* was started for a write that is still there.                               *)
StreamIsNeeded ==
    /\ ~networkEnabled => writePipeline = << >> /\ ~IsStarted(stream)
    /\ stream \in {"Starting", "Open", "Backoff"} => writePipeline # << >>

StreamInv ==
    PipelineHeadsQueue /\ ResponsesMatchPipeline /\ IdleStreamNotNeeded /\ StreamIsNeeded

(* What the server applied was a write of the account; once it is settled, it *)
(* is older than what is still queued.                                        *)
CommittedWrites ==
    \A u \in User : \A w \in committed[u] :
        /\ w <= submitted
        /\ \A v \in User : \A i \in DOMAIN mutationQueue[v] :
              mutationQueue[v][i].write = w => u = v
        /\ outcome[w] # "pending" =>
              \A i \in DOMAIN mutationQueue[u] : w < mutationQueue[u][i].write

(* Answers under way are about writes that were applied, the last one about   *)
(* the write that was applied last.                                           *)
AnswersAreCommitted ==
    /\ \A i \in DOMAIN responses : responses[i].write \in committed[currentUser]
    /\ responses # << >> => lastCommit[currentUser] = responses[Len(responses)].write

(* NewestWriteOnTop at any time, not only when the queue is empty.            *)
AcknowledgedInOrder ==
    \A u \in User : \A w \in committed[u] : outcome[w] = "acked" => w <= lastCommit[u]

HistoryInv ==
    /\ SettledOnce
    /\ \A w \in WriteId : w > submitted => outcome[w] = "pending"
    /\ CommittedWrites
    /\ AnswersAreCommitted
    /\ AcknowledgedInOrder

IInv == TypeOK /\ QueueInv /\ StreamInv /\ HistoryInv

-----------------------------------------------------------------------------
(* Queues and pipelines. *)

(* A bounded set of naturals has a greatest element. *)
LEMMA GreatestElement ==
  ASSUME NEW n \in Nat, NEW S \in SUBSET (0..n), S # {}
  PROVE  \E m \in S : \A k \in S : k <= m
<1> DEFINE T == {n - k : k \in S}
<1>1. T \subseteq Nat /\ T # {}
  <2>1. T \subseteq Nat
    OBVIOUS
  <2>2. T # {}
    OBVIOUS
  <2> QED BY <2>1, <2>2
<1>2. PICK x \in T : \A y \in T : ~(<<y, x>> \in OpToRel(<, Nat))
  BY <1>1, NatLessThanWellFounded, WFMin
<1>3. \A y \in T : ~(y < x)
  BY <1>1, <1>2 DEF OpToRel
<1>4. PICK m \in S : x = n - m
  OBVIOUS
<1>5. ASSUME NEW k \in S PROVE k <= m
  <2>1. n - k \in T
    OBVIOUS
  <2>2. ~(n - k < n - m)
    BY <1>3, <1>4, <2>1
  <2> HIDE DEF T
  <2> QED BY <2>2
<1> QED BY <1>5

(* The positions of a queue and what is there. *)
LEMMA BatchesOfQueue ==
  ASSUME NEW q \in Seq(Batch)
  PROVE  /\ Len(q) \in Nat
         /\ DOMAIN q = 1..Len(q)
         /\ \A i \in 1..Len(q) : /\ q[i] \in Batch
                                /\ q[i].id \in Nat \ {0}
                                /\ q[i].write \in WriteId
<1>1. Len(q) \in Nat /\ DOMAIN q = 1..Len(q)
  BY LenProperties
<1>2. \A i \in 1..Len(q) : q[i] \in Batch
  BY ElementOfSeq
<1>3. \A b \in Batch : b.id \in Nat \ {0} /\ b.write \in WriteId
  BY DEF Batch
<1> QED BY <1>1, <1>2, <1>3

(* The reloaded id is beyond every id in the database. *)
LEMMA NextIdIsFresh ==
  ASSUME TypeOK, IdsAreBounded
  PROVE  /\ LoadNextBatchId(mutationQueue) \in 1..submitted + 1
         /\ \A u \in User : \A i \in DOMAIN mutationQueue[u] :
               mutationQueue[u][i].id < LoadNextBatchId(mutationQueue)
<1> DEFINE used == {0} \cup UNION {{mutationQueue[u][i].id : i \in DOMAIN mutationQueue[u]} :
                                      u \in User}
           m == CHOOSE m \in used : \A k \in used : k <= m
<1>1. \A u \in User : \A i \in DOMAIN mutationQueue[u] :
         mutationQueue[u][i].id \in 1..submitted /\ mutationQueue[u][i].id \in used
  <2> SUFFICES ASSUME NEW u \in User, NEW i \in DOMAIN mutationQueue[u]
               PROVE  mutationQueue[u][i].id \in 1..submitted /\ mutationQueue[u][i].id \in used
    OBVIOUS
  <2>1. mutationQueue[u][i] \in Batch
    BY ElementOfSeq, LenProperties DEF TypeOK
  <2>2. mutationQueue[u][i].id \in used
    OBVIOUS
  <2> HIDE DEF used
  <2> QED BY <2>1, <2>2 DEF IdsAreBounded, TypeOK, Batch
<1>2. used \in SUBSET (0..submitted) /\ used # {}
  <2>1. submitted \in Nat
    BY DEF TypeOK
  <2>2. ASSUME NEW k \in used PROVE k \in 0..submitted
    BY <1>1, <2>1, <2>2
  <2> QED BY <2>2
<1>3. m \in used /\ \A k \in used : k <= m
  <2>1. \E k \in used : \A l \in used : l <= k
    <3>1. submitted \in Nat
      BY DEF TypeOK
    <3> HIDE DEF used
    <3> QED BY <1>2, <3>1, GreatestElement
  <2> HIDE DEF used
  <2> QED BY <2>1
<1>4. LoadNextBatchId(mutationQueue) = m + 1
  BY DEF LoadNextBatchId
<1> HIDE DEF m, used
<1> QED BY <1>1, <1>2, <1>3, <1>4 DEF TypeOK

(* Seeking behind the pipeline finds the batches that are not in it. *)
LEMMA BatchesBehindPipeline ==
  ASSUME NEW q \in Seq(Batch), Ordered(q), NEW p \in Seq(Batch), Heads(p, q)
  PROVE  BatchesAfter(q, LastBatchId(p)) = SubSeq(q, Len(p) + 1, Len(q))
<1> DEFINE later == {i \in DOMAIN q : q[i].id > LastBatchId(p)}
           first == CHOOSE i \in later : \A j \in later : i <= j
<1>1. Len(p) \in Nat /\ Len(q) \in Nat /\ DOMAIN q = 1..Len(q)
      /\ \A i \in 1..Len(q) : q[i].id \in Nat \ {0}
  BY BatchesOfQueue
<1>2. later = (Len(p) + 1)..Len(q)
  <2>1. CASE p = << >>
    BY <1>1, <2>1 DEF LastBatchId
  <2>2. CASE p # << >>
    <3>1. Len(p) \in 1..Len(q) /\ LastBatchId(p) = q[Len(p)].id
      BY <1>1, <2>2, EmptySeq DEF LastBatchId, Heads
    <3>2. ASSUME NEW i \in 1..Len(q) PROVE q[i].id > q[Len(p)].id <=> i > Len(p)
      <4>1. CASE i > Len(p)
        BY <1>1, <3>1, <4>1 DEF Ordered
      <4>2. CASE i = Len(p)
        BY <1>1, <3>1, <4>2
      <4>3. CASE i < Len(p)
        BY <1>1, <3>1, <4>3 DEF Ordered
      <4> QED BY <1>1, <4>1, <4>2, <4>3
    <3> QED BY <1>1, <3>1, <3>2
  <2> QED BY <2>1, <2>2
<1>3. CASE later = {}
  <2>1. Len(q) < Len(p) + 1
    BY <1>1, <1>2, <1>3
  <2>2. SubSeq(q, Len(p) + 1, Len(q)) = << >>
    BY <1>1, <2>1, SubSeqEmpty
  <2> QED BY <1>3, <2>2 DEF BatchesAfter
<1>4. CASE later # {}
  <2>1. Len(p) + 1 \in later /\ \A j \in later : Len(p) + 1 <= j
    BY <1>1, <1>2, <1>4
  <2>2. first \in later /\ \A j \in later : first <= j
    <3> HIDE DEF later
    <3> QED BY <2>1
  <2>3. first = Len(p) + 1
    <3>1. later \subseteq Nat
      BY <1>1
    <3> HIDE DEF later, first
    <3> QED BY <2>1, <2>2, <3>1
  <2> QED BY <1>4, <2>3 DEF BatchesAfter
<1> QED BY <1>3, <1>4

(* What the loop of FillWritePipeline leaves behind. *)
LEMMA FilledPipeline ==
  ASSUME NEW q \in Seq(Batch), Ordered(q), NEW p \in Seq(Batch), Heads(p, q)
  PROVE  /\ Fresh(p, q) \in Seq(Batch)
         /\ p \o Fresh(p, q) \in Seq(Batch)
         /\ Heads(p \o Fresh(p, q), q)
<1> DEFINE waiting == SubSeq(q, Len(p) + 1, Len(q))
           room == Smaller(Len(waiting), MaxPendingWrites - Len(p))
           added == SubSeq(waiting, 1, room)
<1>1. Len(p) \in Nat /\ Len(q) \in Nat /\ Len(p) <= Len(q) /\ Len(p) <= MaxPendingWrites
      /\ MaxPendingWrites \in Nat
  BY LenProperties, PipelineAssumption DEF Heads
<1>2. /\ waiting \in Seq(Batch)
      /\ Len(waiting) = Len(q) - Len(p)
      /\ \A i \in 1..Len(waiting) : waiting[i] = q[Len(p) + i]
  <2>1. \A i \in (Len(p) + 1)..Len(q) : q[i] \in Batch
    BY <1>1, ElementOfSeq
  <2>2. /\ waiting \in Seq(Batch)
        /\ Len(waiting) = IF Len(p) + 1 <= Len(q) THEN Len(q) - (Len(p) + 1) + 1 ELSE 0
        /\ \A i \in 1..(Len(q) - (Len(p) + 1) + 1) : waiting[i] = q[Len(p) + 1 + i - 1]
    BY <1>1, <2>1, SubSeqProperties
  <2>3. Len(waiting) = Len(q) - Len(p)
    BY <1>1, <2>2
  <2>4. ASSUME NEW i \in 1..Len(waiting) PROVE waiting[i] = q[Len(p) + i]
    <3>1. i \in 1..(Len(q) - (Len(p) + 1) + 1) /\ Len(p) + 1 + i - 1 = Len(p) + i
      BY <1>1, <2>3
    <3> QED BY <2>2, <3>1
  <2> QED BY <2>2, <2>3, <2>4
<1> HIDE DEF waiting
<1>3. room \in Nat /\ room <= Len(waiting) /\ room <= MaxPendingWrites - Len(p)
  BY <1>1, <1>2 DEF Smaller
<1> HIDE DEF room
<1>4. /\ added \in Seq(Batch)
      /\ Len(added) = room
      /\ \A i \in 1..room : added[i] = waiting[i]
  <2>1. \A i \in 1..room : waiting[i] \in Batch
    BY <1>1, <1>2, <1>3, ElementOfSeq
  <2>2. /\ added \in Seq(Batch)
        /\ Len(added) = IF 1 <= room THEN room - 1 + 1 ELSE 0
        /\ \A i \in 1..(room - 1 + 1) : added[i] = waiting[1 + i - 1]
    BY <1>3, <2>1, SubSeqProperties
  <2>3. Len(added) = room
    BY <1>3, <2>2
  <2>4. ASSUME NEW i \in 1..room PROVE added[i] = waiting[i]
    <3>1. i \in 1..(room - 1 + 1) /\ 1 + i - 1 = i
      BY <1>3
    <3> QED BY <2>2, <3>1
  <2> QED BY <2>2, <2>3, <2>4
<1> HIDE DEF added
<1>5. Fresh(p, q) = added
  BY BatchesBehindPipeline DEF Fresh, added, room, waiting
<1>6. /\ p \o added \in Seq(Batch)
      /\ Len(p \o added) = Len(p) + room
      /\ \A i \in 1..(Len(p) + room) : (p \o added)[i] = IF i <= Len(p) THEN p[i]
                                                          ELSE added[i - Len(p)]
  BY <1>4, ConcatProperties
<1>7. ASSUME NEW i \in 1..(Len(p) + room) PROVE (p \o added)[i] = q[i]
  <2>1. CASE i <= Len(p)
    BY <1>1, <1>6, <2>1 DEF Heads
  <2>2. CASE ~(i <= Len(p))
    <3>1. i - Len(p) \in 1..room /\ i - Len(p) \in 1..Len(waiting)
          /\ Len(p) + (i - Len(p)) = i
      BY <1>1, <1>2, <1>3, <2>2
    <3>2. (p \o added)[i] = added[i - Len(p)]
      BY <1>6, <2>2
    <3>3. added[i - Len(p)] = waiting[i - Len(p)]
      BY <1>4, <3>1
    <3>4. waiting[i - Len(p)] = q[Len(p) + (i - Len(p))]
      BY <1>2, <3>1
    <3> QED BY <3>1, <3>2, <3>3, <3>4
  <2> QED BY <2>1, <2>2
<1> QED BY <1>1, <1>2, <1>3, <1>4, <1>5, <1>6, <1>7 DEF Heads

(* The batch of the lowest id is the first one. *)
LEMMA RemovingTheFirst ==
  ASSUME NEW q \in Seq(Batch), Ordered(q), q # << >>
  PROVE  WithoutBatch(q, q[1].id) = Tail(q)
<1>1. Len(q) \in Nat /\ DOMAIN q = 1..Len(q) /\ 1 \in 1..Len(q)
      /\ \A i \in 1..Len(q) : q[i].id \in Nat
  <2>1. Len(q) \in Nat \ {0}
    BY EmptySeq
  <2> QED BY <2>1, BatchesOfQueue
<1>2. \A k \in DOMAIN q : q[k].id = q[1].id <=> k = 1
  BY <1>1 DEF Ordered
<1> DEFINE first == CHOOSE k \in DOMAIN q : q[k].id = q[1].id
<1>3. first = 1
  BY <1>1, <1>2
<1>4. WithoutBatch(q, q[1].id) = SubSeq(q, 1, first - 1) \o SubSeq(q, first + 1, Len(q))
  BY DEF WithoutBatch
<1> HIDE DEF first
<1>5. WithoutBatch(q, q[1].id) = SubSeq(q, 1, 0) \o SubSeq(q, 2, Len(q))
  BY <1>3, <1>4
<1>6. SubSeq(q, 1, 0) = << >> /\ SubSeq(q, 2, Len(q)) = Tail(q) /\ Tail(q) \in Seq(Batch)
  BY <1>1, SubSeqEmpty, TailIsSubSeq, HeadTailProperties
<1> QED BY <1>5, <1>6, ConcatEmptySeq

-----------------------------------------------------------------------------
(* The stream. *)

StreamTypes ==
    /\ networkEnabled \in BOOLEAN
    /\ writePipeline \in Seq(Batch)
    /\ stream \in StreamState
    /\ idleTimer \in BOOLEAN
    /\ requests \in Seq(Batch)
    /\ responses \in Seq(Batch)

LEMMA PipelineHeads ==
  ASSUME currentUser \in User, mutationQueue \in [User -> Seq(Batch)],
         writePipeline \in Seq(Batch)
  PROVE  PipelineHeadsQueue <=> Heads(writePipeline, mutationQueue[currentUser])
<1>1. /\ Len(writePipeline) \in Nat /\ DOMAIN writePipeline = 1..Len(writePipeline)
      /\ Len(mutationQueue[currentUser]) \in Nat
  BY BatchesOfQueue
<1>2. \A k, m, n \in Nat : k <= Smaller(m, n) <=> k <= m /\ k <= n
  BY DEF Smaller
<1>3. MaxPendingWrites \in Nat
  BY PipelineAssumption
<1> QED BY <1>1, <1>2, <1>3 DEF PipelineHeadsQueue, Heads

LEMMA BatchesAssociate ==
  \A a, b, c \in Seq(Batch) : (a \o b) \o c = a \o (b \o c)
BY ConcatAssociative

(* FillWritePipeline keeps the pipeline, the requests and the idle timer in   *)
(* step, whichever handler calls it: r are the answers not read yet.          *)
LEMMA FillKeepsStreamInv ==
  ASSUME NEW q \in Seq(Batch), Ordered(q), NEW p \in Seq(Batch), Heads(p, q),
         NEW net \in BOOLEAN, NEW s \in StreamState, NEW idle \in BOOLEAN,
         NEW sent \in Seq(Batch), NEW r \in Seq(Batch),
         r \o sent = IF s = "Ready" THEN p ELSE << >>,
         idle => p = << >> /\ IsOpen(s),
         ~net => p = << >> /\ ~IsStarted(s),
         s \in {"Starting", "Open", "Backoff"} => p # << >>,
         FillWritePipeline(net, q, p, s, sent, idle)
  PROVE  /\ writePipeline' \in Seq(Batch) /\ stream' \in StreamState
         /\ idleTimer' \in BOOLEAN /\ requests' \in Seq(Batch)
         /\ Heads(writePipeline', q)
         /\ r \o requests' = IF stream' = "Ready" THEN writePipeline' ELSE << >>
         /\ idleTimer' => writePipeline' = << >> /\ IsOpen(stream')
         /\ ~net => writePipeline' = << >> /\ ~IsStarted(stream')
         /\ stream' \in {"Starting", "Open", "Backoff"} => writePipeline' # << >>
<1> DEFINE added == IF net THEN Fresh(p, q) ELSE << >>
<1>1. /\ added \in Seq(Batch) /\ p \o added \in Seq(Batch) /\ Heads(p \o added, q)
      /\ ~net => added = << >> /\ p \o added = << >>
      /\ p \o added = << >> <=> p = << >> /\ added = << >>
  <2>1. CASE net
    <3>1. p \o Fresh(p, q) = << >> <=> p = << >> /\ Fresh(p, q) = << >>
      BY FilledPipeline, ConcatEqualIffEmpty
    <3> QED BY <2>1, <3>1, FilledPipeline
  <2>2. CASE ~net
    <3>1. << >> \in Seq(Batch) /\ p \o << >> = p
      BY EmptySeq, ConcatEmptySeq
    <3> QED BY <2>2, <3>1
  <2> QED BY <2>1, <2>2
<1>2. /\ writePipeline' = p \o added
      /\ stream' = StartIfNeeded(net, p \o added, s)
      /\ requests' = IF s = "Ready" THEN sent \o added ELSE sent
      /\ idleTimer' = \/ net /\ IsOpen(s) /\ p \o added = << >>
                      \/ idle /\ ~(s = "Ready" /\ added # << >>)
  BY DEF FillWritePipeline
<1> HIDE DEF added
<1>3. stream' \in StreamState /\ (s = "Ready" <=> stream' = "Ready")
      /\ (IsStarted(s) => stream' = s)
      /\ (~IsStarted(stream') => stream' = s)
      /\ (~IsStarted(s) /\ IsStarted(stream') => net /\ p \o added # << >>)
  BY <1>2 DEF StreamState, StartIfNeeded, Started, IsStarted
<1>4. sent \o added \in Seq(Batch)
  BY <1>1, ConcatProperties
<1>5. r \o requests' = IF stream' = "Ready" THEN writePipeline' ELSE << >>
  <2>1. CASE s = "Ready"
    <3>1. r \o (sent \o added) = (r \o sent) \o added
      BY <1>1, BatchesAssociate
    <3> QED BY <1>2, <1>3, <2>1, <3>1
  <2>2. CASE s # "Ready"
    BY <1>2, <1>3, <2>2
  <2> QED BY <2>1, <2>2
<1>6. idleTimer' => writePipeline' = << >> /\ IsOpen(stream')
  <2>1. CASE net /\ IsOpen(s) /\ p \o added = << >>
    BY <1>2, <1>3, <2>1 DEF IsOpen, IsStarted
  <2>2. CASE idle /\ ~(s = "Ready" /\ added # << >>)
    <3>1. p = << >> /\ s = "Ready" /\ added = << >>
      BY <2>2 DEF IsOpen
    <3> QED BY <1>1, <1>2, <1>3, <3>1 DEF IsOpen
  <2> QED BY <1>2, <2>1, <2>2
<1>7. ~net => writePipeline' = << >> /\ ~IsStarted(stream')
  BY <1>1, <1>2, <1>3
<1>8. stream' \in {"Starting", "Open", "Backoff"} => writePipeline' # << >>
  <2>1. CASE IsStarted(s)
    BY <1>1, <1>2, <1>3, <2>1
  <2>2. CASE ~IsStarted(s)
    BY <1>2, <1>3, <2>2 DEF IsStarted
  <2> QED BY <2>1, <2>2
<1>9. idleTimer' \in BOOLEAN
  BY <1>2
<1> QED BY <1>1, <1>2, <1>3, <1>4, <1>5, <1>6, <1>7, <1>8, <1>9

(* What FillWritePipeline gives the invariant, once the account and its queue *)
(* are settled.                                                               *)
LEMMA FilledStreamInv ==
  ASSUME NEW q \in Seq(Batch), Ordered(q), NEW p \in Seq(Batch), Heads(p, q),
         NEW s \in StreamState, NEW idle \in BOOLEAN, NEW sent \in Seq(Batch),
         networkEnabled' \in BOOLEAN, responses' \in Seq(Batch),
         responses' \o sent = IF s = "Ready" THEN p ELSE << >>,
         idle => p = << >> /\ IsOpen(s),
         ~networkEnabled' => p = << >> /\ ~IsStarted(s),
         s \in {"Starting", "Open", "Backoff"} => p # << >>,
         FillWritePipeline(networkEnabled', q, p, s, sent, idle),
         currentUser' \in User, mutationQueue' \in [User -> Seq(Batch)],
         mutationQueue'[currentUser'] = q
  PROVE  StreamTypes' /\ StreamInv'
<1>1. /\ writePipeline' \in Seq(Batch) /\ stream' \in StreamState
      /\ idleTimer' \in BOOLEAN /\ requests' \in Seq(Batch)
      /\ Heads(writePipeline', q)
      /\ responses' \o requests' = IF stream' = "Ready" THEN writePipeline' ELSE << >>
      /\ idleTimer' => writePipeline' = << >> /\ IsOpen(stream')
      /\ ~networkEnabled' => writePipeline' = << >> /\ ~IsStarted(stream')
      /\ stream' \in {"Starting", "Open", "Backoff"} => writePipeline' # << >>
  BY FillKeepsStreamInv
<1>2. PipelineHeadsQueue'
  <2>1. /\ Len(writePipeline') \in Nat /\ DOMAIN writePipeline' = 1..Len(writePipeline')
        /\ Len(q) \in Nat
    BY <1>1, BatchesOfQueue
  <2> QED BY <1>1, <2>1, PipelineAssumption DEF PipelineHeadsQueue, Heads, Smaller
<1> QED BY <1>1, <1>2 DEF StreamTypes, StreamInv, ResponsesMatchPipeline,
                          IdleStreamNotNeeded, StreamIsNeeded

(* The queues are in order, as the operators above need it. *)
LEMMA QueuesOrdered ==
  ASSUME QueueInv
  PROVE  \A u \in User : Ordered(mutationQueue[u])
BY DEF QueueInv, IdsIdentifyWrites, QueueOrderedById, Ordered

LEMMA EmptyPipeline ==
  ASSUME NEW q \in Seq(Batch)
  PROVE  << >> \in Seq(Batch) /\ Heads(<< >>, q) /\ << >> \o << >> = << >>
BY EmptySeq, ConcatEmptySeq, LenProperties, PipelineAssumption DEF Heads

(* The stream after RestartNetwork. *)
LEMMA FreshNetworkStreamInv ==
  ASSUME TypeOK, QueueInv, UNCHANGED mutationQueue, currentUser' \in User,
         FreshNetwork(mutationQueue[currentUser'])
  PROVE  StreamTypes' /\ StreamInv' /\ responses' = << >>
<1> DEFINE q == mutationQueue[currentUser']
<1>1. q \in Seq(Batch) /\ Ordered(q) /\ mutationQueue' \in [User -> Seq(Batch)]
      /\ mutationQueue'[currentUser'] = q
  BY QueuesOrdered DEF TypeOK
<1>2. networkEnabled' = TRUE /\ responses' = << >>
      /\ FillWritePipeline(TRUE, q, << >>, "Initial", << >>, FALSE)
  BY DEF FreshNetwork
<1> HIDE DEF q
<1>3. << >> \in Seq(Batch) /\ Heads(<< >>, q) /\ << >> \o << >> = << >>
  BY <1>1, EmptyPipeline
<1>4. "Initial" \in StreamState
  BY DEF StreamState
<1>5. StreamTypes' /\ StreamInv'
  BY <1>1, <1>2, <1>3, <1>4, FilledStreamInv
<1> QED BY <1>2, <1>5

-----------------------------------------------------------------------------
(* Steps that settle nothing: the account, the network and the stream. *)

(* What such a step may do to the queues, the callbacks and the history. *)
Quiet ==
    /\ UNCHANGED <<mutationQueue, historyVars>>
    /\ currentUser' \in User
    /\ \/ UNCHANGED <<currentUser, nextBatchId>>
       \/ nextBatchId' = LoadNextBatchId(mutationQueue)
    /\ mutationCallbacks' \in {mutationCallbacks, [u \in User |-> {}]}
    /\ UNCHANGED <<currentUser, responses>> \/ responses' = << >>

LEMMA QuietQueueInv ==
  ASSUME IInv, Quiet
  PROVE  QueueInv' /\ nextBatchId' \in Nat \ {0}
<1>1. nextBatchId' \in Nat \ {0} /\ nextBatchId' <= submitted + 1
      /\ \A i \in DOMAIN mutationQueue[currentUser'] :
            mutationQueue[currentUser'][i].id < nextBatchId'
  <2>1. CASE UNCHANGED <<currentUser, nextBatchId>>
    BY <2>1 DEF IInv, TypeOK, QueueInv, IdsAreBounded, IdsIdentifyWrites, QueueOrderedById
  <2>2. CASE nextBatchId' = LoadNextBatchId(mutationQueue)
    BY <2>2, NextIdIsFresh DEF IInv, QueueInv, Quiet, TypeOK
  <2> QED BY <2>1, <2>2 DEF Quiet
<1>2. IdsAreBounded' /\ WritesInOrder'
  BY <1>1 DEF IInv, QueueInv, Quiet, IdsAreBounded, WritesInOrder, historyVars
<1>3. QueueOrderedById'
  BY <1>1 DEF IInv, QueueInv, Quiet, IdsIdentifyWrites, QueueOrderedById
<1>4. CallbackBelongsToPendingWrite'
  BY DEF IInv, QueueInv, Quiet, IdsIdentifyWrites, CallbackBelongsToPendingWrite
<1> QED BY <1>1, <1>2, <1>3, <1>4 DEF QueueInv, IdsIdentifyWrites

LEMMA QuietHistoryInv ==
  ASSUME IInv, Quiet
  PROVE  HistoryInv'
<1>1. SettledOnce' /\ (\A w \in WriteId : w > submitted => outcome[w] = "pending")'
  BY DEF IInv, HistoryInv, Quiet, historyVars, SettledOnce
<1>2. CommittedWrites'
  BY DEF IInv, HistoryInv, Quiet, historyVars, CommittedWrites
<1>3. AcknowledgedInOrder'
  BY DEF IInv, HistoryInv, Quiet, historyVars, AcknowledgedInOrder
<1>4. AnswersAreCommitted'
  <2>1. CASE UNCHANGED <<currentUser, responses>>
    BY <2>1 DEF IInv, HistoryInv, Quiet, historyVars, AnswersAreCommitted
  <2>2. CASE responses' = << >>
    BY <2>2 DEF AnswersAreCommitted
  <2> QED BY <2>1, <2>2 DEF Quiet
<1> QED BY <1>1, <1>2, <1>3, <1>4 DEF HistoryInv

LEMMA QuietIInv ==
  ASSUME IInv, Quiet, StreamTypes', StreamInv'
  PROVE  IInv'
<1>1. QueueInv' /\ nextBatchId' \in Nat \ {0} /\ HistoryInv'
  BY QuietQueueInv, QuietHistoryInv
<1>2. TypeOK'
  BY <1>1 DEF IInv, TypeOK, Quiet, historyVars, StreamTypes
<1> QED BY <1>1, <1>2 DEF IInv

LEMMA RestartIInv ==
  ASSUME IInv,
         \/ \E u \in User : HandleCredentialChange(u)
         \/ ConnectivityChanged
         \/ Relaunch
  PROVE  IInv'
<1>1. CASE \E u \in User : HandleCredentialChange(u)
  <2>1. PICK u \in User : HandleCredentialChange(u)
    BY <1>1
  <2>2. CASE networkEnabled
    <3>1. StreamTypes' /\ StreamInv' /\ responses' = << >>
      BY <2>1, <2>2, FreshNetworkStreamInv DEF HandleCredentialChange, IInv
    <3> QED BY <2>1, <3>1, QuietIInv DEF HandleCredentialChange, Quiet
  <2>3. CASE ~networkEnabled
    <3>1. /\ UNCHANGED <<networkEnabled, writePipeline, stream, idleTimer, wireVars>>
          /\ writePipeline = << >> /\ ~IsStarted(stream) /\ currentUser' = u
          /\ UNCHANGED mutationQueue
      BY <2>1, <2>3 DEF HandleCredentialChange, IInv, StreamInv, StreamIsNeeded
    <3>2. StreamTypes'
      BY <3>1 DEF IInv, TypeOK, StreamTypes, wireVars
    <3>3. mutationQueue[u] \in Seq(Batch)
      BY DEF IInv, TypeOK
    <3>4. PipelineHeadsQueue'
      <4>1. Heads(<< >>, mutationQueue[u]) /\ << >> \in Seq(Batch)
            /\ Len(<< >>) = 0 /\ Len(mutationQueue[u]) \in Nat
        BY <3>3, EmptyPipeline, EmptySeq, LenProperties
      <4>2. \A k, m, n \in Nat : k <= Smaller(m, n) <=> k <= m /\ k <= n
        BY DEF Smaller
      <4> QED BY <3>1, <4>1, <4>2, PipelineAssumption DEF PipelineHeadsQueue, Heads
    <3>5. StreamInv' /\ responses' = << >>
      <4>1. responses \o requests = << >>
        BY <3>1 DEF IInv, StreamInv, ResponsesMatchPipeline, IsStarted
      <4>2. responses = << >>
        BY <4>1, ConcatEqualIffEmpty DEF IInv, TypeOK
      <4> QED BY <3>1, <3>4, <4>2 DEF IInv, StreamInv, wireVars, ResponsesMatchPipeline,
                                  IdleStreamNotNeeded, StreamIsNeeded, IsStarted
    <3> QED BY <2>1, <3>2, <3>5, QuietIInv DEF HandleCredentialChange, Quiet
  <2> QED BY <2>2, <2>3
<1>2. CASE ConnectivityChanged
  <2>1. currentUser' = currentUser /\ currentUser \in User /\ UNCHANGED mutationQueue
    BY <1>2 DEF ConnectivityChanged, IInv, TypeOK
  <2>2. FreshNetwork(mutationQueue[currentUser'])
    BY <1>2, <2>1 DEF ConnectivityChanged
  <2>3. StreamTypes' /\ StreamInv' /\ responses' = << >>
    BY <2>1, <2>2, FreshNetworkStreamInv DEF IInv
  <2> QED BY <1>2, <2>1, <2>3, QuietIInv DEF ConnectivityChanged, Quiet
<1>3. CASE Relaunch
  <2>1. currentUser' = currentUser /\ currentUser \in User /\ UNCHANGED mutationQueue
    BY <1>3 DEF Relaunch, IInv, TypeOK
  <2>2. FreshNetwork(mutationQueue[currentUser'])
    BY <1>3, <2>1 DEF Relaunch
  <2>3. StreamTypes' /\ StreamInv' /\ responses' = << >>
    BY <2>1, <2>2, FreshNetworkStreamInv DEF IInv
  <2> QED BY <1>3, <2>1, <2>3, QuietIInv DEF Relaunch, Quiet
<1> QED BY <1>1, <1>2, <1>3

LEMMA CurrentQueue ==
  ASSUME IInv
  PROVE  /\ currentUser \in User
         /\ mutationQueue[currentUser] \in Seq(Batch)
         /\ Ordered(mutationQueue[currentUser])
         /\ Heads(writePipeline, mutationQueue[currentUser])
<1>1. currentUser \in User /\ mutationQueue[currentUser] \in Seq(Batch)
  BY DEF IInv, TypeOK
<1> QED BY <1>1, QueuesOrdered, PipelineHeads DEF IInv, StreamInv, TypeOK

LEMMA NetworkSwitchIInv ==
  ASSUME IInv, EnableNetwork \/ DisableNetwork
  PROVE  IInv'
<1>1. CASE EnableNetwork
  <2>1. /\ networkEnabled' = TRUE /\ UNCHANGED <<currentUser, mutationQueue, responses>>
        /\ FillWritePipeline(networkEnabled', mutationQueue[currentUser], writePipeline,
                             stream, requests, idleTimer)
    BY <1>1 DEF EnableNetwork
  <2>2. /\ writePipeline \in Seq(Batch) /\ stream \in StreamState /\ idleTimer \in BOOLEAN
        /\ requests \in Seq(Batch) /\ responses \in Seq(Batch)
        /\ mutationQueue' \in [User -> Seq(Batch)]
    BY <2>1 DEF IInv, TypeOK
  <2>3. /\ responses' \o requests = IF stream = "Ready" THEN writePipeline ELSE << >>
        /\ idleTimer => writePipeline = << >> /\ IsOpen(stream)
        /\ stream \in {"Starting", "Open", "Backoff"} => writePipeline # << >>
    BY <2>1 DEF IInv, StreamInv, ResponsesMatchPipeline, IdleStreamNotNeeded, StreamIsNeeded
  <2>4. StreamTypes' /\ StreamInv'
    BY <2>1, <2>2, <2>3, CurrentQueue, FilledStreamInv
  <2> QED BY <1>1, <2>4, QuietIInv, CurrentQueue DEF EnableNetwork, Quiet
<1>2. CASE DisableNetwork
  <2>1. /\ networkEnabled' = FALSE /\ writePipeline' = << >> /\ idleTimer' = FALSE
        /\ requests' = << >> /\ responses' = << >> /\ ~IsStarted(stream')
        /\ stream' \in StreamState /\ UNCHANGED <<currentUser, mutationQueue>>
    BY <1>2 DEF DisableNetwork, IsStarted, StreamState, IInv, TypeOK
  <2>2. /\ << >> \in Seq(Batch) /\ << >> \o << >> = << >>
        /\ Heads(<< >>, mutationQueue[currentUser])
    BY CurrentQueue, EmptyPipeline
  <2>3. StreamTypes'
    BY <2>1, <2>2 DEF StreamTypes
  <2>4. PipelineHeadsQueue'
    <3>1. Len(<< >>) = 0 /\ Len(mutationQueue[currentUser]) \in Nat
      BY CurrentQueue, EmptySeq, LenProperties
    <3>2. \A k, m, n \in Nat : k <= Smaller(m, n) <=> k <= m /\ k <= n
      BY DEF Smaller
    <3> QED BY <2>1, <2>2, <3>1, <3>2, PipelineAssumption DEF PipelineHeadsQueue
  <2>5. StreamInv'
    BY <2>1, <2>2, <2>4 DEF StreamInv, ResponsesMatchPipeline, IdleStreamNotNeeded,
                            StreamIsNeeded, IsStarted
  <2> QED BY <1>2, <2>3, <2>5, QuietIInv, CurrentQueue DEF DisableNetwork, Quiet
<1> QED BY <1>1, <1>2

(* The stream's own steps leave the pipeline and the queue alone. *)
LEMMA StreamStepIInv ==
  ASSUME IInv,
         \/ BackoffElapsed \/ OnWriteStreamOpen \/ OnWriteStreamHandshakeComplete
         \/ OnStreamError \/ IdleTimeout
  PROVE  IInv'
<1>1. /\ UNCHANGED <<currentUser, mutationQueue, nextBatchId, mutationCallbacks,
                     networkEnabled, writePipeline, historyVars>>
      /\ UNCHANGED responses \/ responses' = << >>
  BY DEF BackoffElapsed, OnWriteStreamOpen, OnWriteStreamHandshakeComplete,
         OnStreamError, IdleTimeout, wireVars
<1>2. Quiet
  BY <1>1, CurrentQueue DEF Quiet
<1>3. PipelineHeadsQueue'
  BY <1>1 DEF IInv, StreamInv, PipelineHeadsQueue
<1>4. /\ writePipeline \in Seq(Batch) /\ requests \in Seq(Batch) /\ responses \in Seq(Batch)
      /\ networkEnabled \in BOOLEAN /\ idleTimer \in BOOLEAN /\ stream \in StreamState
  BY DEF IInv, TypeOK
<1>5. << >> \in Seq(Batch) /\ << >> \o << >> = << >> /\ << >> \o writePipeline = writePipeline
  BY <1>4, EmptySeq, ConcatEmptySeq
<1>6. stream # "Ready" => responses = << >> /\ requests = << >>
  BY <1>4, ConcatEqualIffEmpty DEF IInv, StreamInv, ResponsesMatchPipeline
<1>7. (stream \in {"Starting", "Open", "Backoff"} => writePipeline # << >>)
      /\ (~networkEnabled => writePipeline = << >> /\ ~IsStarted(stream))
      /\ (idleTimer => writePipeline = << >> /\ IsOpen(stream))
  BY DEF IInv, StreamInv, StreamIsNeeded, IdleStreamNotNeeded
<1>8. CASE BackoffElapsed
  <2>1. stream = "Backoff" /\ stream' = "Starting" /\ UNCHANGED <<idleTimer, requests, responses>>
    BY <1>8 DEF BackoffElapsed, wireVars
  <2> QED BY <1>1, <1>2, <1>3, <1>4, <1>5, <1>6, <1>7, <2>1, QuietIInv
          DEF StreamTypes, StreamInv, ResponsesMatchPipeline, IdleStreamNotNeeded,
              StreamIsNeeded, IsStarted, IsOpen, StreamState
<1>9. CASE OnWriteStreamOpen
  <2>1. stream = "Starting" /\ stream' = "Open" /\ idleTimer' = FALSE
        /\ UNCHANGED <<requests, responses>>
    BY <1>9 DEF OnWriteStreamOpen, wireVars
  <2> QED BY <1>1, <1>2, <1>3, <1>4, <1>5, <1>6, <1>7, <2>1, QuietIInv
          DEF StreamTypes, StreamInv, ResponsesMatchPipeline, IdleStreamNotNeeded,
              StreamIsNeeded, IsStarted, IsOpen, StreamState
<1>10. CASE OnWriteStreamHandshakeComplete
  <2>1. stream = "Open" /\ stream' = "Ready" /\ requests' = writePipeline
        /\ idleTimer' = (idleTimer /\ writePipeline = << >>) /\ UNCHANGED responses
    BY <1>10 DEF OnWriteStreamHandshakeComplete
  <2> QED BY <1>1, <1>2, <1>3, <1>4, <1>5, <1>6, <1>7, <2>1, QuietIInv
          DEF StreamTypes, StreamInv, ResponsesMatchPipeline, IdleStreamNotNeeded,
              StreamIsNeeded, IsStarted, IsOpen, StreamState
<1>11. CASE OnStreamError
  <2>1. stream \in {"Starting", "Open", "Ready"}
        /\ stream' = StartIfNeeded(networkEnabled, writePipeline, "Error")
        /\ idleTimer' = FALSE /\ requests' = << >> /\ responses' = << >>
    BY <1>11 DEF OnStreamError
  <2> QED BY <1>1, <1>2, <1>3, <1>4, <1>5, <1>6, <1>7, <2>1, QuietIInv
          DEF StreamTypes, StreamInv, ResponsesMatchPipeline, IdleStreamNotNeeded,
              StreamIsNeeded, IsStarted, IsOpen, StreamState, StartIfNeeded, Started
<1>12. CASE IdleTimeout
  <2>1. stream' = StartIfNeeded(networkEnabled, writePipeline, "Initial")
        /\ idleTimer' = FALSE /\ requests' = << >> /\ responses' = << >>
    BY <1>12 DEF IdleTimeout
  <2> QED BY <1>1, <1>2, <1>3, <1>4, <1>5, <1>6, <1>7, <2>1, QuietIInv
          DEF StreamTypes, StreamInv, ResponsesMatchPipeline, IdleStreamNotNeeded,
              StreamIsNeeded, IsStarted, IsOpen, StreamState, StartIfNeeded, Started
<1> QED BY <1>8, <1>9, <1>10, <1>11, <1>12

-----------------------------------------------------------------------------
(* A new write. *)

LEMMA WriteMutationsQueueInv ==
  ASSUME IInv, WriteMutations
  PROVE  /\ QueueInv' /\ mutationQueue' \in [User -> Seq(Batch)]
         /\ mutationCallbacks' \in [User -> SUBSET Batch]
         /\ nextBatchId' \in Nat \ {0} /\ submitted' \in 0..MaxWrites
         /\ mutationQueue'[currentUser] =
               Append(mutationQueue[currentUser],
                      [id |-> nextBatchId, write |-> submitted + 1])
         /\ \A u \in User : \A i \in DOMAIN mutationQueue'[u] :
               \/ i \in DOMAIN mutationQueue[u] /\ mutationQueue'[u][i] = mutationQueue[u][i]
               \/ u = currentUser /\ mutationQueue'[u][i].write = submitted + 1
         /\ \A u \in User : \A i \in DOMAIN mutationQueue[u] :
               i \in DOMAIN mutationQueue'[u] /\ mutationQueue'[u][i] = mutationQueue[u][i]
         /\ \E i \in DOMAIN mutationQueue'[currentUser] :
               mutationQueue'[currentUser][i].write = submitted + 1
<1> DEFINE batch == [id |-> nextBatchId, write |-> submitted + 1]
           old == mutationQueue[currentUser]
           queue == Append(old, batch)
<1>1. /\ submitted \in Nat /\ submitted < MaxWrites /\ submitted' = submitted + 1
      /\ nextBatchId \in Nat \ {0} /\ nextBatchId' = nextBatchId + 1
      /\ mutationQueue' = [mutationQueue EXCEPT ![currentUser] = queue]
      /\ mutationQueue \in [User -> Seq(Batch)]
      /\ mutationCallbacks \in [User -> SUBSET Batch]
      /\ currentUser' = currentUser /\ currentUser \in User
      /\ mutationCallbacks' \in {mutationCallbacks,
            [mutationCallbacks EXCEPT ![currentUser] = @ \cup {batch}]}
  BY DEF WriteMutations, IInv, TypeOK
<1>2. batch \in Batch /\ batch.id = nextBatchId /\ batch.write = submitted + 1
  BY <1>1, PipelineAssumption DEF Batch, WriteId
<1> HIDE DEF batch
<1>3. old \in Seq(Batch) /\ Len(old) \in Nat /\ DOMAIN old = 1..Len(old)
      /\ \A i \in 1..Len(old) : old[i].id \in Nat /\ old[i].write \in Nat
  BY <1>1, BatchesOfQueue DEF WriteId
<1>4. /\ queue \in Seq(Batch) /\ Len(queue) = Len(old) + 1
      /\ \A i \in 1..Len(old) : queue[i] = old[i]
      /\ queue[Len(old) + 1] = batch
  BY <1>2, <1>3, AppendProperties
<1>5. DOMAIN queue = 1..Len(old) + 1
  BY <1>4, LenProperties
<1> HIDE DEF queue, old
<1>6. /\ mutationQueue' \in [User -> Seq(Batch)]
      /\ mutationQueue'[currentUser] = queue
      /\ \A u \in User : u # currentUser => mutationQueue'[u] = mutationQueue[u]
  BY <1>1, <1>4
<1>7. \A u \in User : \A i \in DOMAIN mutationQueue'[u] :
         \/ i \in DOMAIN mutationQueue[u] /\ mutationQueue'[u][i] = mutationQueue[u][i]
         \/ u = currentUser /\ i = Len(old) + 1 /\ mutationQueue'[u][i] = batch
  <2> SUFFICES ASSUME NEW u \in User, NEW i \in DOMAIN mutationQueue'[u]
               PROVE  \/ i \in DOMAIN mutationQueue[u]
                         /\ mutationQueue'[u][i] = mutationQueue[u][i]
                      \/ u = currentUser /\ i = Len(old) + 1 /\ mutationQueue'[u][i] = batch
    OBVIOUS
  <2>1. CASE u # currentUser
    BY <1>6, <2>1
  <2>2. CASE u = currentUser
    <3>1. i \in 1..Len(old) \/ i = Len(old) + 1
      BY <1>3, <1>5, <1>6, <2>2
    <3> QED BY <1>3, <1>4, <1>6, <2>2, <3>1 DEF old
  <2> QED BY <2>1, <2>2
<1>8. \A u \in User : \A i \in DOMAIN mutationQueue[u] :
         i \in DOMAIN mutationQueue'[u] /\ mutationQueue'[u][i] = mutationQueue[u][i]
  <2> SUFFICES ASSUME NEW u \in User, NEW i \in DOMAIN mutationQueue[u]
               PROVE  i \in DOMAIN mutationQueue'[u]
                      /\ mutationQueue'[u][i] = mutationQueue[u][i]
    OBVIOUS
  <2>1. CASE u # currentUser
    BY <1>6, <2>1
  <2>2. CASE u = currentUser
    <3>1. i \in 1..Len(old)
      BY <1>3, <2>2 DEF old
    <3>2. i \in 1..Len(old) + 1
      BY <1>3, <3>1
    <3> QED BY <1>4, <1>5, <1>6, <2>2, <3>1, <3>2 DEF old
  <2> QED BY <2>1, <2>2
<1>9. \A u \in User : \A i \in DOMAIN mutationQueue[u] :
         /\ mutationQueue[u][i].id \in Nat /\ mutationQueue[u][i].write \in Nat
         /\ i \in 1..Len(mutationQueue[u]) /\ Len(mutationQueue[u]) \in Nat
         /\ mutationQueue[u][i].id <= submitted /\ mutationQueue[u][i].write <= submitted
  BY <1>1, BatchesOfQueue DEF IInv, QueueInv, IdsAreBounded, WritesInOrder, WriteId
<1>10. IdsAreBounded'
  <2>1. nextBatchId <= submitted + 1
    BY DEF IInv, QueueInv, IdsAreBounded
  <2>2. ASSUME NEW u \in User, NEW i \in DOMAIN mutationQueue'[u]
        PROVE  mutationQueue'[u][i].id <= submitted'
    <3>1. CASE i \in DOMAIN mutationQueue[u] /\ mutationQueue'[u][i] = mutationQueue[u][i]
      BY <1>1, <1>9, <3>1
    <3>2. CASE mutationQueue'[u][i] = batch
      BY <1>1, <1>2, <2>1, <3>2
    <3> QED BY <1>7, <3>1, <3>2
  <2>3. nextBatchId' <= submitted' + 1
    BY <1>1, <2>1
  <2> QED BY <2>2, <2>3 DEF IdsAreBounded
<1>11. WritesInOrder'
  <2>1. ASSUME NEW u \in User, NEW i \in DOMAIN mutationQueue'[u],
               NEW j \in DOMAIN mutationQueue'[u], i < j
        PROVE  mutationQueue'[u][i].write < mutationQueue'[u][j].write
    <3>1. CASE j \in DOMAIN mutationQueue[u]
               /\ mutationQueue'[u][j] = mutationQueue[u][j]
      <4>1. i \in DOMAIN mutationQueue[u] /\ mutationQueue'[u][i] = mutationQueue[u][i]
        BY <1>3, <1>7, <1>9, <2>1, <3>1 DEF old
      <4> QED BY <2>1, <3>1, <4>1 DEF IInv, QueueInv, WritesInOrder
    <3>2. CASE u = currentUser /\ j = Len(old) + 1 /\ mutationQueue'[u][j] = batch
      <4>1. i \in DOMAIN mutationQueue[u] /\ mutationQueue'[u][i] = mutationQueue[u][i]
        BY <1>3, <1>7, <2>1, <3>2
      <4> QED BY <1>1, <1>2, <1>9, <3>2, <4>1
    <3> QED BY <1>7, <2>1, <3>1, <3>2
  <2>2. ASSUME NEW u \in User, NEW i \in DOMAIN mutationQueue'[u]
        PROVE  mutationQueue'[u][i].write <= submitted'
    <3>1. CASE i \in DOMAIN mutationQueue[u] /\ mutationQueue'[u][i] = mutationQueue[u][i]
      BY <1>1, <1>9, <3>1
    <3>2. CASE mutationQueue'[u][i] = batch
      BY <1>1, <1>2, <3>2
    <3> QED BY <1>7, <3>1, <3>2
  <2>3. ASSUME NEW u \in User, NEW v \in User, NEW i \in DOMAIN mutationQueue'[u],
               NEW j \in DOMAIN mutationQueue'[v],
               mutationQueue'[u][i].write = mutationQueue'[v][j].write
        PROVE  u = v
    <3>1. CASE /\ i \in DOMAIN mutationQueue[u] /\ mutationQueue'[u][i] = mutationQueue[u][i]
               /\ j \in DOMAIN mutationQueue[v] /\ mutationQueue'[v][j] = mutationQueue[v][j]
      BY <2>3, <3>1 DEF IInv, QueueInv, WritesInOrder
    <3>2. CASE i \in DOMAIN mutationQueue[u] /\ mutationQueue'[u][i] = mutationQueue[u][i]
               /\ v = currentUser /\ mutationQueue'[v][j] = batch
      BY <1>1, <1>2, <1>9, <2>3, <3>2
    <3>3. CASE j \in DOMAIN mutationQueue[v] /\ mutationQueue'[v][j] = mutationQueue[v][j]
               /\ u = currentUser /\ mutationQueue'[u][i] = batch
      BY <1>1, <1>2, <1>9, <2>3, <3>3
    <3> QED BY <1>7, <2>3, <3>1, <3>2, <3>3
  <2> QED BY <2>1, <2>2, <2>3 DEF WritesInOrder
<1>12. QueueOrderedById'
  <2>1. \A i \in DOMAIN mutationQueue[currentUser] :
           mutationQueue[currentUser][i].id < nextBatchId
    BY DEF IInv, QueueInv, IdsIdentifyWrites, QueueOrderedById
  <2>2. ASSUME NEW u \in User, NEW i \in DOMAIN mutationQueue'[u],
               NEW j \in DOMAIN mutationQueue'[u], i < j
        PROVE  mutationQueue'[u][i].id < mutationQueue'[u][j].id
    <3>1. CASE j \in DOMAIN mutationQueue[u]
               /\ mutationQueue'[u][j] = mutationQueue[u][j]
      <4>1. i \in DOMAIN mutationQueue[u] /\ mutationQueue'[u][i] = mutationQueue[u][i]
        BY <1>3, <1>7, <1>9, <2>2, <3>1 DEF old
      <4> QED BY <2>2, <3>1, <4>1 DEF IInv, QueueInv, IdsIdentifyWrites, QueueOrderedById
    <3>2. CASE u = currentUser /\ j = Len(old) + 1 /\ mutationQueue'[u][j] = batch
      <4>1. i \in DOMAIN mutationQueue[u] /\ mutationQueue'[u][i] = mutationQueue[u][i]
        BY <1>3, <1>7, <2>2, <3>2
      <4> QED BY <1>2, <2>1, <3>2, <4>1
    <3> QED BY <1>7, <2>2, <3>1, <3>2
  <2>3. ASSUME NEW i \in DOMAIN mutationQueue'[currentUser]
        PROVE  mutationQueue'[currentUser][i].id < nextBatchId'
    BY <1>1, <1>2, <1>7, <1>9, <2>1, <2>3
  <2> QED BY <1>1, <2>2, <2>3 DEF QueueOrderedById
<1>13. CallbackBelongsToPendingWrite'
  <2> SUFFICES ASSUME NEW u \in User, NEW c \in mutationCallbacks'[u]
               PROVE  \E i \in DOMAIN mutationQueue'[u] : mutationQueue'[u][i] = c
    BY DEF CallbackBelongsToPendingWrite
  <2>1. CASE c \in mutationCallbacks[u]
    <3>1. PICK i \in DOMAIN mutationQueue[u] : mutationQueue[u][i] = c
      BY <2>1 DEF IInv, QueueInv, IdsIdentifyWrites, CallbackBelongsToPendingWrite
    <3> QED BY <1>8, <3>1
  <2>2. CASE u = currentUser /\ c = batch
    <3>1. Len(old) + 1 \in DOMAIN mutationQueue'[currentUser]
      BY <1>3, <1>5, <1>6
    <3> QED BY <1>4, <1>6, <2>2, <3>1
  <2> QED BY <1>1, <2>1, <2>2
<1>14. \E i \in DOMAIN mutationQueue'[currentUser] :
          mutationQueue'[currentUser][i].write = submitted + 1
  <2>1. Len(old) + 1 \in DOMAIN mutationQueue'[currentUser]
    BY <1>3, <1>5, <1>6
  <2> QED BY <1>2, <1>4, <1>6, <2>1
<1>15. mutationCallbacks' \in [User -> SUBSET Batch]
  BY <1>1, <1>2
<1>16. submitted' \in 0..MaxWrites /\ nextBatchId' \in Nat \ {0}
  BY <1>1, PipelineAssumption
<1>17. \A u \in User : \A i \in DOMAIN mutationQueue'[u] :
          \/ i \in DOMAIN mutationQueue[u] /\ mutationQueue'[u][i] = mutationQueue[u][i]
          \/ u = currentUser /\ mutationQueue'[u][i].write = submitted + 1
  BY <1>2, <1>7
<1>18. mutationQueue'[currentUser] =
          Append(mutationQueue[currentUser], [id |-> nextBatchId, write |-> submitted + 1])
  BY <1>6 DEF queue, old, batch
<1> QED BY <1>6, <1>8, <1>10, <1>11, <1>12, <1>13, <1>14, <1>15, <1>16, <1>17, <1>18
        DEF QueueInv, IdsIdentifyWrites

LEMMA WriteMutationsIInv ==
  ASSUME IInv, WriteMutations
  PROVE  IInv'
<1> DEFINE batch == [id |-> nextBatchId, write |-> submitted + 1]
           old == mutationQueue[currentUser]
           queue == Append(old, batch)
<1>1. /\ QueueInv' /\ mutationQueue' \in [User -> Seq(Batch)]
      /\ mutationCallbacks' \in [User -> SUBSET Batch]
      /\ nextBatchId' \in Nat \ {0} /\ submitted' \in 0..MaxWrites
      /\ mutationQueue'[currentUser] = queue
  BY WriteMutationsQueueInv
<1>2. /\ submitted \in Nat /\ submitted < MaxWrites /\ submitted' = submitted + 1
      /\ UNCHANGED <<currentUser, networkEnabled, responses, told, outcome,
                     committed, lastCommit>>
      /\ currentUser \in User /\ networkEnabled \in BOOLEAN
      /\ writePipeline \in Seq(Batch) /\ stream \in StreamState /\ idleTimer \in BOOLEAN
      /\ requests \in Seq(Batch) /\ responses \in Seq(Batch)
      /\ FillWritePipeline(networkEnabled', queue, writePipeline, stream,
                           requests, idleTimer)
  BY DEF WriteMutations, IInv, TypeOK
<1>3. batch \in Batch
  BY <1>2, PipelineAssumption DEF Batch, WriteId, IInv, TypeOK
<1>4. queue \in Seq(Batch) /\ Ordered(queue) /\ currentUser' \in User
      /\ mutationQueue'[currentUser'] = queue
  BY <1>1, <1>2 DEF QueueInv, IdsIdentifyWrites, QueueOrderedById, Ordered
<1>5. Heads(writePipeline, queue)
  <2>1. Heads(writePipeline, old) /\ old \in Seq(Batch) /\ Len(old) \in Nat
        /\ Len(writePipeline) \in Nat
    BY <1>2, CurrentQueue, LenProperties
  <2>2. Len(queue) = Len(old) + 1 /\ \A i \in 1..Len(old) : queue[i] = old[i]
    BY <1>3, <2>1, AppendProperties
  <2> HIDE DEF queue, old
  <2> QED BY <2>1, <2>2 DEF Heads
<1> HIDE DEF queue, old, batch
<1>6. /\ responses' \o requests = IF stream = "Ready" THEN writePipeline ELSE << >>
      /\ idleTimer => writePipeline = << >> /\ IsOpen(stream)
      /\ ~networkEnabled' => writePipeline = << >> /\ ~IsStarted(stream)
      /\ stream \in {"Starting", "Open", "Backoff"} => writePipeline # << >>
  BY <1>2 DEF IInv, StreamInv, ResponsesMatchPipeline, IdleStreamNotNeeded, StreamIsNeeded
<1>7. StreamTypes' /\ StreamInv'
  <2>1. networkEnabled' \in BOOLEAN /\ responses' \in Seq(Batch)
    BY <1>2
  <2> QED BY <1>1, <1>2, <1>4, <1>5, <1>6, <2>1, FilledStreamInv
<1>8. HistoryInv'
  <2>1. submitted + 1 \in WriteId /\ outcome[submitted + 1] = "pending"
    BY <1>2, PipelineAssumption DEF IInv, HistoryInv, WriteId
  <2>6. \A u \in User : \A i \in DOMAIN mutationQueue'[u] :
           \/ i \in DOMAIN mutationQueue[u] /\ mutationQueue'[u][i] = mutationQueue[u][i]
           \/ u = currentUser /\ mutationQueue'[u][i].write = submitted + 1
    BY WriteMutationsQueueInv
  <2>7. \A u \in User : \A i \in DOMAIN mutationQueue[u] :
           i \in DOMAIN mutationQueue'[u] /\ mutationQueue'[u][i] = mutationQueue[u][i]
    BY WriteMutationsQueueInv
  <2>2. SettledOnce'
    <3>1. ASSUME NEW w \in 1..submitted'
          PROVE  outcome'[w] = "pending" <=>
                    \E u \in User : \E i \in DOMAIN mutationQueue'[u] :
                        mutationQueue'[u][i].write = w
      <4>1. CASE w = submitted + 1
        BY <1>2, <2>1, <4>1, WriteMutationsQueueInv
      <4>2. CASE w # submitted + 1
        <5>1. w \in 1..submitted
          BY <1>2, <4>2
        <5>2. outcome[w] = "pending" <=>
                 \E u \in User : \E i \in DOMAIN mutationQueue[u] :
                     mutationQueue[u][i].write = w
          BY <5>1 DEF IInv, HistoryInv, SettledOnce
        <5>3. ASSUME NEW u \in User, NEW i \in DOMAIN mutationQueue'[u],
                     mutationQueue'[u][i].write = w
              PROVE  i \in DOMAIN mutationQueue[u] /\ mutationQueue[u][i].write = w
          BY <2>6, <4>2, <5>3
        <5>4. (\E u \in User : \E i \in DOMAIN mutationQueue[u] :
                   mutationQueue[u][i].write = w)
              <=> \E u \in User : \E i \in DOMAIN mutationQueue'[u] :
                     mutationQueue'[u][i].write = w
          BY <2>7, <5>3
        <5> QED BY <1>2, <5>2, <5>4
      <4> QED BY <4>1, <4>2
    <3> QED BY <1>2, <3>1 DEF IInv, HistoryInv, SettledOnce
  <2>3. (\A w \in WriteId : w > submitted => outcome[w] = "pending")'
    BY <1>2 DEF IInv, HistoryInv, WriteId
  <2>4. CommittedWrites'
    <3> SUFFICES ASSUME NEW u \in User, NEW w \in committed[u]
                 PROVE  /\ w <= submitted + 1
                        /\ \A v \in User : \A i \in DOMAIN mutationQueue'[v] :
                              mutationQueue'[v][i].write = w => u = v
                        /\ outcome[w] # "pending" =>
                              \A i \in DOMAIN mutationQueue'[u] :
                                  w < mutationQueue'[u][i].write
      BY <1>2 DEF CommittedWrites
    <3>1. /\ w \in Nat /\ w <= submitted
          /\ \A v \in User : \A i \in DOMAIN mutationQueue[v] :
                mutationQueue[v][i].write = w => u = v
          /\ outcome[w] # "pending" =>
                \A i \in DOMAIN mutationQueue[u] : w < mutationQueue[u][i].write
      BY DEF IInv, HistoryInv, CommittedWrites, TypeOK, WriteId
    <3>2. ASSUME NEW v \in User, NEW i \in DOMAIN mutationQueue'[v],
                 mutationQueue'[v][i].write = w
          PROVE  u = v
      <4>1. mutationQueue'[v][i].write # submitted + 1
        BY <1>2, <3>1, <3>2
      <4> QED BY <2>6, <3>1, <3>2, <4>1
    <3>3. ASSUME outcome[w] # "pending", NEW i \in DOMAIN mutationQueue'[u]
          PROVE  w < mutationQueue'[u][i].write
      <4>1. CASE i \in DOMAIN mutationQueue[u] /\ mutationQueue'[u][i] = mutationQueue[u][i]
        BY <3>1, <3>3, <4>1
      <4>2. CASE mutationQueue'[u][i].write = submitted + 1
        BY <1>2, <3>1, <4>2
      <4> QED BY <2>6, <4>1, <4>2
    <3> QED BY <1>2, <3>1, <3>2, <3>3
  <2>5. AnswersAreCommitted' /\ AcknowledgedInOrder'
    BY <1>2 DEF IInv, HistoryInv, AnswersAreCommitted, AcknowledgedInOrder
  <2> QED BY <2>2, <2>3, <2>4, <2>5 DEF HistoryInv
<1>9. TypeOK'
  BY <1>1, <1>2, <1>7 DEF IInv, TypeOK, StreamTypes
<1> QED BY <1>1, <1>7, <1>8, <1>9 DEF IInv

-----------------------------------------------------------------------------
(* The server. *)

(* Applying a request moves it from the requests to the answers. *)
LEMMA AppliedRequest ==
  ASSUME NEW r \in Seq(Batch), NEW sent \in Seq(Batch), sent # << >>
  PROVE  /\ Head(sent) \in Batch /\ Tail(sent) \in Seq(Batch)
         /\ Append(r, Head(sent)) \in Seq(Batch)
         /\ Append(r, Head(sent)) \o Tail(sent) = r \o sent
         /\ (r \o sent)[Len(r) + 1] = Head(sent)
         /\ Len(r) + 1 \in 1..Len(r \o sent)
<1>1. /\ Head(sent) \in Batch /\ Tail(sent) \in Seq(Batch)
      /\ Len(Tail(sent)) = Len(sent) - 1
      /\ \A i \in 1..Len(Tail(sent)) : Tail(sent)[i] = sent[i + 1]
  BY HeadTailProperties
<1>2. Len(sent) \in Nat \ {0} /\ Len(r) \in Nat /\ Head(sent) = sent[1]
  BY EmptySeq, LenProperties
<1> DEFINE answered == Append(r, Head(sent))
<1>3. /\ answered \in Seq(Batch) /\ Len(answered) = Len(r) + 1
      /\ \A i \in 1..Len(r) : answered[i] = r[i]
      /\ answered[Len(r) + 1] = Head(sent)
  BY <1>1, AppendProperties
<1> DEFINE rest == Tail(sent)
<1> HIDE DEF answered, rest
<1>4. /\ answered \o rest \in Seq(Batch)
      /\ Len(answered \o rest) = Len(answered) + Len(rest)
      /\ \A i \in 1..(Len(answered) + Len(rest)) :
            (answered \o rest)[i] = IF i <= Len(answered) THEN answered[i]
                                    ELSE rest[i - Len(answered)]
  BY <1>1, <1>3, ConcatProperties DEF rest
<1>5. /\ r \o sent \in Seq(Batch)
      /\ Len(r \o sent) = Len(r) + Len(sent)
      /\ \A i \in 1..(Len(r) + Len(sent)) :
            (r \o sent)[i] = IF i <= Len(r) THEN r[i] ELSE sent[i - Len(r)]
  BY ConcatProperties
<1>6. Len(answered) + Len(rest) = Len(r) + Len(sent) /\ Len(rest) = Len(sent) - 1
  BY <1>1, <1>2, <1>3 DEF rest
<1>7. ASSUME NEW i \in 1..(Len(r) + Len(sent)) PROVE (answered \o rest)[i] = (r \o sent)[i]
  <2>1. CASE i <= Len(r)
    BY <1>2, <1>3, <1>4, <1>5, <1>6, <2>1
  <2>2. CASE i = Len(r) + 1
    <3>1. i <= Len(answered) /\ ~(i <= Len(r)) /\ i - Len(r) = 1
      BY <1>2, <1>3, <2>2
    <3>2. (answered \o rest)[i] = answered[i] /\ (r \o sent)[i] = sent[1]
      BY <1>4, <1>5, <1>6, <3>1
    <3> QED BY <1>2, <1>3, <2>2, <3>2
  <2>3. CASE i > Len(r) + 1
    <3>1. /\ i - (Len(r) + 1) \in 1..Len(rest)
          /\ (i - (Len(r) + 1)) + 1 = i - Len(r)
          /\ ~(i <= Len(r) + 1) /\ ~(i <= Len(r))
      BY <1>2, <1>6, <2>3
    <3>2. rest[i - (Len(r) + 1)] = sent[i - Len(r)]
      BY <1>1, <3>1 DEF rest
    <3>3. ~(i <= Len(answered)) /\ i - Len(answered) = i - (Len(r) + 1)
      BY <1>3, <3>1
    <3>4. (answered \o rest)[i] = rest[i - Len(answered)]
      BY <1>4, <1>6, <3>3
    <3>5. (r \o sent)[i] = sent[i - Len(r)]
      BY <1>5, <3>1
    <3> QED BY <3>2, <3>3, <3>4, <3>5
  <2>4. i <= Len(r) \/ i = Len(r) + 1 \/ i > Len(r) + 1
    BY <1>2
  <2> QED BY <2>1, <2>2, <2>3, <2>4
<1>8. answered \o rest = r \o sent
  BY <1>4, <1>5, <1>6, <1>7, SeqEqual
<1>9. (r \o sent)[Len(r) + 1] = Head(sent) /\ Len(r) + 1 \in 1..Len(r \o sent)
  BY <1>2, <1>5
<1> QED BY <1>1, <1>3, <1>8, <1>9 DEF answered, rest

LEMMA ServerCommitIInv ==
  ASSUME IInv, ServerCommit
  PROVE  IInv'
<1> DEFINE batch == Head(requests)
           queue == mutationQueue[currentUser]
           n == Len(responses) + 1
<1>1. /\ stream = "Ready" /\ requests # << >> /\ requests' = Tail(requests)
      /\ responses' = Append(responses, batch)
      /\ committed' = [committed EXCEPT ![currentUser] = @ \cup {batch.write}]
      /\ lastCommit' = [lastCommit EXCEPT ![currentUser] = batch.write]
      /\ UNCHANGED <<currentUser, mutationQueue, nextBatchId, mutationCallbacks,
                     networkEnabled, writePipeline, stream, idleTimer,
                     submitted, told, outcome>>
  BY DEF ServerCommit, clientVars
<1>2. /\ requests \in Seq(Batch) /\ responses \in Seq(Batch)
      /\ writePipeline \in Seq(Batch) /\ currentUser \in User
      /\ queue \in Seq(Batch) /\ submitted \in Nat
      /\ committed \in [User -> SUBSET WriteId]
      /\ lastCommit \in [User -> 0..MaxWrites] /\ MaxWrites \in Nat
  BY PipelineAssumption DEF IInv, TypeOK
<1>3. responses \o requests = writePipeline
  BY <1>1 DEF IInv, StreamInv, ResponsesMatchPipeline
<1>4. /\ batch \in Batch /\ requests' \in Seq(Batch) /\ responses' \in Seq(Batch)
      /\ responses' \o requests' = writePipeline
      /\ writePipeline[n] = batch /\ n \in 1..Len(writePipeline)
  BY <1>1, <1>2, <1>3, AppliedRequest
<1>5. batch.write \in WriteId /\ batch.write \in Nat
  BY <1>4 DEF Batch, WriteId
<1>6. n \in DOMAIN queue /\ queue[n] = batch
  <2>1. Heads(writePipeline, queue)
    BY CurrentQueue
  <2>2. Len(writePipeline) \in Nat /\ Len(queue) \in Nat /\ DOMAIN queue = 1..Len(queue)
    BY <1>2, LenProperties
  <2> HIDE DEF n, queue, batch
  <2> QED BY <1>4, <2>1, <2>2 DEF Heads
<1> HIDE DEF n, batch
<1>7. /\ batch.write <= submitted /\ batch.write \in 1..submitted
      /\ outcome[batch.write] = "pending"
      /\ \A v \in User : \A j \in DOMAIN mutationQueue[v] :
            mutationQueue[v][j].write = batch.write => currentUser = v
  <2>1. batch.write <= submitted
        /\ \A v \in User : \A j \in DOMAIN mutationQueue[v] :
              mutationQueue[v][j].write = batch.write => currentUser = v
    BY <1>2, <1>6 DEF IInv, QueueInv, WritesInOrder
  <2>2. batch.write \in 1..submitted
    BY <1>2, <1>5, <2>1 DEF WriteId
  <2>3. outcome[batch.write] = "pending"
    BY <1>2, <1>6, <2>2 DEF IInv, HistoryInv, SettledOnce
  <2> QED BY <2>1, <2>2, <2>3
<1>8. /\ committed'[currentUser] = committed[currentUser] \cup {batch.write}
      /\ \A u \in User : u # currentUser => committed'[u] = committed[u]
      /\ \A u \in User : committed[u] \subseteq committed'[u]
      /\ lastCommit'[currentUser] = batch.write
      /\ \A u \in User : u # currentUser => lastCommit'[u] = lastCommit[u]
  BY <1>1, <1>2
<1>9. TypeOK'
  <2>1. committed' \in [User -> SUBSET WriteId] /\ lastCommit' \in [User -> 0..MaxWrites]
    BY <1>1, <1>2, <1>5 DEF WriteId
  <2> QED BY <1>1, <1>4, <2>1 DEF IInv, TypeOK
<1>10. QueueInv'
  BY <1>1 DEF IInv, QueueInv, IdsAreBounded, WritesInOrder, IdsIdentifyWrites,
              QueueOrderedById, CallbackBelongsToPendingWrite
<1>11. StreamInv'
  BY <1>1, <1>4 DEF IInv, StreamInv, PipelineHeadsQueue, ResponsesMatchPipeline,
                    IdleStreamNotNeeded, StreamIsNeeded
<1>12. SettledOnce'
  <2>1. \A w \in WriteId : told[w] = "acked" => \E u \in User : w \in committed'[u]
    BY <1>8 DEF IInv, HistoryInv, SettledOnce
  <2> QED BY <1>1, <2>1 DEF IInv, HistoryInv, SettledOnce
<1>13. (\A w \in WriteId : w > submitted => outcome[w] = "pending")'
  BY <1>1 DEF IInv, HistoryInv
<1>14. CommittedWrites'
  <2> SUFFICES ASSUME NEW u \in User, NEW w \in committed'[u]
               PROVE  /\ w <= submitted
                      /\ \A v \in User : \A i \in DOMAIN mutationQueue[v] :
                            mutationQueue[v][i].write = w => u = v
                      /\ outcome[w] # "pending" =>
                            \A i \in DOMAIN mutationQueue[u] : w < mutationQueue[u][i].write
    BY <1>1 DEF CommittedWrites
  <2>1. CASE w \in committed[u]
    BY <2>1 DEF IInv, HistoryInv, CommittedWrites
  <2>2. CASE u = currentUser /\ w = batch.write
    BY <1>7, <2>2
  <2> QED BY <1>8, <2>1, <2>2
<1>15. AnswersAreCommitted'
  <2>1. /\ responses' # << >> /\ Len(responses') = Len(responses) + 1
        /\ \A i \in 1..Len(responses) : responses'[i] = responses[i]
        /\ responses'[Len(responses) + 1] = batch
        /\ DOMAIN responses' = 1..Len(responses') /\ Len(responses) \in Nat
        /\ DOMAIN responses = 1..Len(responses)
    BY <1>1, <1>2, <1>4, AppendProperties, LenProperties
  <2>2. \A i \in DOMAIN responses : responses[i].write \in committed[currentUser]
    BY DEF IInv, HistoryInv, AnswersAreCommitted
  <2>3. ASSUME NEW i \in DOMAIN responses'
        PROVE  responses'[i].write \in committed'[currentUser]
    <3>1. CASE i \in 1..Len(responses)
      BY <1>8, <2>1, <2>2, <3>1
    <3>2. CASE i = Len(responses) + 1
      BY <1>8, <2>1, <3>2
    <3> QED BY <2>1, <3>1, <3>2
  <2> QED BY <1>1, <1>8, <2>1, <2>3 DEF AnswersAreCommitted
<1>16. AcknowledgedInOrder'
  <2> SUFFICES ASSUME NEW u \in User, NEW w \in committed'[u], outcome[w] = "acked"
               PROVE  w <= lastCommit'[u]
    BY <1>1 DEF AcknowledgedInOrder
  <2>1. w \in committed[u]
    BY <1>7, <1>8
  <2>2. CASE u # currentUser
    BY <1>8, <2>1, <2>2 DEF IInv, HistoryInv, AcknowledgedInOrder
  <2>3. CASE u = currentUser
    <3>1. w < batch.write
      BY <1>6, <2>1, <2>3 DEF IInv, HistoryInv, CommittedWrites
    <3>2. w \in Nat
      BY <1>2, <2>1 DEF WriteId
    <3> QED BY <1>5, <1>8, <2>3, <3>1, <3>2
  <2> QED BY <2>2, <2>3
<1>17. HistoryInv'
  BY <1>12, <1>13, <1>14, <1>15, <1>16 DEF HistoryInv
<1> QED BY <1>9, <1>10, <1>11, <1>17 DEF IInv

-----------------------------------------------------------------------------
(* A write is settled. *)

(* The answers under way are about the first batches of the queue. *)
LEMMA AnswersOfQueue ==
  ASSUME IInv, responses # << >>
  PROVE  /\ stream = "Ready" /\ writePipeline # << >>
         /\ Len(responses) \in 1..Len(mutationQueue[currentUser])
         /\ \A i \in 1..Len(responses) : responses[i] = mutationQueue[currentUser][i]
<1>1. responses \in Seq(Batch) /\ requests \in Seq(Batch) /\ writePipeline \in Seq(Batch)
  BY DEF IInv, TypeOK
<1>2. responses \o requests # << >>
  BY <1>1, ConcatEqualIffEmpty
<1>3. stream = "Ready" /\ responses \o requests = writePipeline
  BY <1>2 DEF IInv, StreamInv, ResponsesMatchPipeline
<1>4. /\ Len(responses) \in Nat \ {0} /\ Len(requests) \in Nat
      /\ Len(writePipeline) = Len(responses) + Len(requests)
      /\ \A i \in 1..(Len(responses) + Len(requests)) : writePipeline[i] =
            IF i <= Len(responses) THEN responses[i] ELSE requests[i - Len(responses)]
  BY <1>1, <1>3, EmptySeq, LenProperties, ConcatProperties
<1>5. \A i \in 1..Len(responses) :
         i \in 1..Len(writePipeline) /\ writePipeline[i] = responses[i]
  BY <1>4
<1>6. Heads(writePipeline, mutationQueue[currentUser]) /\ Len(mutationQueue[currentUser]) \in Nat
  BY CurrentQueue, LenProperties
<1>7. Len(responses) \in 1..Len(mutationQueue[currentUser])
  BY <1>4, <1>6 DEF Heads
<1>8. \A i \in 1..Len(responses) : responses[i] = mutationQueue[currentUser][i]
  BY <1>5, <1>6 DEF Heads
<1> QED BY <1>2, <1>3, <1>7, <1>8

(* The queue loses the front of the pipeline, which is its first batch. *)
LEMMA SettledQueue ==
  ASSUME IInv, writePipeline # << >>, NEW status, Settle(Head(writePipeline), status)
  PROVE  /\ Head(writePipeline) \in Batch
         /\ 1 \in DOMAIN mutationQueue[currentUser]
         /\ mutationQueue[currentUser][1] = Head(writePipeline)
         /\ mutationQueue' \in [User -> Seq(Batch)]
         /\ mutationQueue'[currentUser] = Tail(mutationQueue[currentUser])
         /\ mutationQueue[currentUser] # << >>
         /\ \A u \in User : u # currentUser => mutationQueue'[u] = mutationQueue[u]
         /\ \A i \in DOMAIN mutationQueue'[currentUser] :
               /\ i \in Nat \ {0}
               /\ i + 1 \in DOMAIN mutationQueue[currentUser]
               /\ mutationQueue'[currentUser][i] = mutationQueue[currentUser][i + 1]
         /\ \A k \in DOMAIN mutationQueue[currentUser] : k # 1 =>
               /\ k - 1 \in DOMAIN mutationQueue'[currentUser]
               /\ mutationQueue'[currentUser][k - 1] = mutationQueue[currentUser][k]
<1> DEFINE queue == mutationQueue[currentUser]
           batch == Head(writePipeline)
<1>1. /\ currentUser \in User /\ queue \in Seq(Batch) /\ Ordered(queue)
      /\ Heads(writePipeline, queue) /\ writePipeline \in Seq(Batch)
      /\ mutationQueue \in [User -> Seq(Batch)]
  BY CurrentQueue DEF IInv, TypeOK
<1>2. mutationQueue' = [mutationQueue EXCEPT ![currentUser] = WithoutBatch(queue, batch.id)]
  BY DEF Settle
<1> HIDE DEF queue
<1>3. /\ Len(writePipeline) \in Nat \ {0} /\ Len(queue) \in Nat
      /\ batch = writePipeline[1] /\ batch \in Batch
  BY <1>1, EmptySeq, LenProperties, HeadTailProperties
<1>4. 1 \in 1..Len(queue) /\ queue[1] = batch
  BY <1>1, <1>3 DEF Heads
<1>5. DOMAIN queue = 1..Len(queue) /\ queue # << >>
  BY <1>1, <1>4, LenProperties, EmptySeq
<1> HIDE DEF batch
<1>6. WithoutBatch(queue, batch.id) = Tail(queue)
  BY <1>1, <1>4, <1>5, RemovingTheFirst
<1>7. /\ Tail(queue) \in Seq(Batch) /\ Len(Tail(queue)) = Len(queue) - 1
      /\ \A i \in 1..Len(Tail(queue)) : Tail(queue)[i] = queue[i + 1]
  BY <1>1, <1>5, HeadTailProperties
<1>8. DOMAIN Tail(queue) = 1..(Len(queue) - 1)
  BY <1>7, LenProperties
<1>9. /\ mutationQueue' \in [User -> Seq(Batch)]
      /\ mutationQueue'[currentUser] = Tail(queue)
      /\ \A u \in User : u # currentUser => mutationQueue'[u] = mutationQueue[u]
  BY <1>1, <1>2, <1>6, <1>7
<1>10. ASSUME NEW i \in DOMAIN Tail(queue)
       PROVE  i \in Nat \ {0} /\ i + 1 \in DOMAIN queue /\ Tail(queue)[i] = queue[i + 1]
  BY <1>3, <1>5, <1>7, <1>8, <1>10
<1>11. ASSUME NEW k \in DOMAIN queue, k # 1
       PROVE  k - 1 \in DOMAIN Tail(queue) /\ Tail(queue)[k - 1] = queue[k]
  <2>1. k - 1 \in 1..(Len(queue) - 1) /\ (k - 1) + 1 = k
    BY <1>3, <1>5, <1>11
  <2>2. Tail(queue)[k - 1] = queue[(k - 1) + 1]
    BY <1>8, <1>10, <2>1
  <2> QED BY <1>8, <2>1, <2>2
<1> QED BY <1>3, <1>4, <1>5, <1>9, <1>10, <1>11 DEF queue, batch

(* What a batch that stays behind has to do with the one that goes. *)
LEMMA BatchesLeft ==
  ASSUME IInv, writePipeline # << >>, NEW status, Settle(Head(writePipeline), status)
  PROVE  /\ \A u \in User : \A i \in DOMAIN mutationQueue'[u] :
               \E k \in DOMAIN mutationQueue[u] :
                  /\ mutationQueue'[u][i] = mutationQueue[u][k]
                  /\ mutationQueue[u][k].write # Head(writePipeline).write
                  /\ u = currentUser => /\ Head(writePipeline).write < mutationQueue[u][k].write
                                        /\ Head(writePipeline).id < mutationQueue[u][k].id
         /\ \A u \in User : \A i, j \in DOMAIN mutationQueue'[u] : i < j =>
               \E k, l \in DOMAIN mutationQueue[u] :
                  /\ k < l
                  /\ mutationQueue'[u][i] = mutationQueue[u][k]
                  /\ mutationQueue'[u][j] = mutationQueue[u][l]
         /\ \A u \in User : \A k \in DOMAIN mutationQueue[u] :
               \/ mutationQueue[u][k] = Head(writePipeline) /\ u = currentUser
               \/ \E i \in DOMAIN mutationQueue'[u] : mutationQueue'[u][i] = mutationQueue[u][k]
<1> DEFINE batch == Head(writePipeline)
<1>1. /\ batch \in Batch /\ currentUser \in User
      /\ 1 \in DOMAIN mutationQueue[currentUser]
      /\ mutationQueue[currentUser][1] = batch
      /\ \A u \in User : u # currentUser => mutationQueue'[u] = mutationQueue[u]
      /\ \A i \in DOMAIN mutationQueue'[currentUser] :
            /\ i \in Nat \ {0}
            /\ i + 1 \in DOMAIN mutationQueue[currentUser]
            /\ mutationQueue'[currentUser][i] = mutationQueue[currentUser][i + 1]
      /\ \A k \in DOMAIN mutationQueue[currentUser] : k # 1 =>
            /\ k - 1 \in DOMAIN mutationQueue'[currentUser]
            /\ mutationQueue'[currentUser][k - 1] = mutationQueue[currentUser][k]
  BY SettledQueue, CurrentQueue
<1> HIDE DEF batch
<1>2. batch.write \in Nat /\ batch.id \in Nat
  BY <1>1 DEF Batch, WriteId
<1>3. ASSUME NEW k \in DOMAIN mutationQueue[currentUser], 1 < k
      PROVE  /\ batch.write < mutationQueue[currentUser][k].write
             /\ batch.id < mutationQueue[currentUser][k].id
  BY <1>1, <1>3 DEF IInv, QueueInv, WritesInOrder, IdsIdentifyWrites, QueueOrderedById
<1>4. \A u \in User : \A k \in DOMAIN mutationQueue[u] :
         mutationQueue[u][k].write = batch.write => u = currentUser
  BY <1>1 DEF IInv, QueueInv, WritesInOrder
<1>5. ASSUME NEW u \in User, NEW i \in DOMAIN mutationQueue'[u]
      PROVE  \E k \in DOMAIN mutationQueue[u] :
                /\ mutationQueue'[u][i] = mutationQueue[u][k]
                /\ mutationQueue[u][k].write # batch.write
                /\ u = currentUser => /\ batch.write < mutationQueue[u][k].write
                                      /\ batch.id < mutationQueue[u][k].id
  <2>1. CASE u # currentUser
    BY <1>1, <1>4, <2>1
  <2>2. CASE u = currentUser
    <3>1. /\ i + 1 \in DOMAIN mutationQueue[currentUser] /\ 1 < i + 1
          /\ mutationQueue'[currentUser][i] = mutationQueue[currentUser][i + 1]
      BY <1>1, <2>2
    <3>2. /\ batch.write < mutationQueue[currentUser][i + 1].write
          /\ batch.id < mutationQueue[currentUser][i + 1].id
      BY <1>3, <3>1
    <3>3. mutationQueue[currentUser][i + 1].write # batch.write
      BY <1>2, <3>2
    <3> QED BY <2>2, <3>1, <3>2, <3>3
  <2> QED BY <2>1, <2>2
<1>6. ASSUME NEW u \in User, NEW i \in DOMAIN mutationQueue'[u],
             NEW j \in DOMAIN mutationQueue'[u], i < j
      PROVE  \E k, l \in DOMAIN mutationQueue[u] :
                /\ k < l
                /\ mutationQueue'[u][i] = mutationQueue[u][k]
                /\ mutationQueue'[u][j] = mutationQueue[u][l]
  <2>1. CASE u # currentUser
    BY <1>1, <1>6, <2>1
  <2>2. CASE u = currentUser
    <3>1. /\ i + 1 \in DOMAIN mutationQueue[u] /\ j + 1 \in DOMAIN mutationQueue[u]
          /\ i + 1 < j + 1
          /\ mutationQueue'[u][i] = mutationQueue[u][i + 1]
          /\ mutationQueue'[u][j] = mutationQueue[u][j + 1]
      BY <1>1, <1>6, <2>2
    <3> QED BY <3>1
  <2> QED BY <2>1, <2>2
<1>7. ASSUME NEW u \in User, NEW k \in DOMAIN mutationQueue[u]
      PROVE  \/ mutationQueue[u][k] = batch /\ u = currentUser
             \/ \E i \in DOMAIN mutationQueue'[u] : mutationQueue'[u][i] = mutationQueue[u][k]
  <2>1. CASE u # currentUser
    BY <1>1, <2>1
  <2>2. CASE u = currentUser
    BY <1>1, <2>2
  <2> QED BY <2>1, <2>2
<1> QED BY <1>5, <1>6, <1>7 DEF batch

LEMMA SettleQueueInv ==
  ASSUME IInv, writePipeline # << >>, NEW status, Settle(Head(writePipeline), status),
         UNCHANGED <<currentUser, nextBatchId, submitted>>
  PROVE  QueueInv' /\ mutationCallbacks' \in [User -> SUBSET Batch]
<1> DEFINE batch == Head(writePipeline)
<1>1. /\ \A u \in User : \A i \in DOMAIN mutationQueue'[u] :
            \E k \in DOMAIN mutationQueue[u] : mutationQueue'[u][i] = mutationQueue[u][k]
      /\ \A u \in User : \A i, j \in DOMAIN mutationQueue'[u] : i < j =>
            \E k, l \in DOMAIN mutationQueue[u] :
               /\ k < l
               /\ mutationQueue'[u][i] = mutationQueue[u][k]
               /\ mutationQueue'[u][j] = mutationQueue[u][l]
      /\ \A u \in User : \A k \in DOMAIN mutationQueue[u] :
            \/ mutationQueue[u][k] = batch /\ u = currentUser
            \/ \E i \in DOMAIN mutationQueue'[u] : mutationQueue'[u][i] = mutationQueue[u][k]
  BY BatchesLeft
<1>2. /\ mutationCallbacks' = [mutationCallbacks EXCEPT ![currentUser] =
            @ \ {c \in mutationCallbacks[currentUser] : c.id = batch.id}]
      /\ mutationCallbacks \in [User -> SUBSET Batch] /\ currentUser \in User
  BY DEF Settle, NotifyUser, IInv, TypeOK
<1> HIDE DEF batch
<1>3. mutationCallbacks' \in [User -> SUBSET Batch]
  BY <1>2
<1>4. IdsAreBounded'
  BY <1>1 DEF IInv, QueueInv, IdsAreBounded
<1>5. WritesInOrder'
  <2>1. ASSUME NEW u \in User, NEW i \in DOMAIN mutationQueue'[u],
               NEW j \in DOMAIN mutationQueue'[u], i < j
        PROVE  mutationQueue'[u][i].write < mutationQueue'[u][j].write
    <3>1. PICK k, l \in DOMAIN mutationQueue[u] :
             /\ k < l
             /\ mutationQueue'[u][i] = mutationQueue[u][k]
             /\ mutationQueue'[u][j] = mutationQueue[u][l]
      BY <1>1, <2>1
    <3> QED BY <3>1 DEF IInv, QueueInv, WritesInOrder
  <2>2. ASSUME NEW u \in User, NEW i \in DOMAIN mutationQueue'[u]
        PROVE  mutationQueue'[u][i].write <= submitted
    BY <1>1 DEF IInv, QueueInv, WritesInOrder
  <2>3. ASSUME NEW u \in User, NEW v \in User, NEW i \in DOMAIN mutationQueue'[u],
               NEW j \in DOMAIN mutationQueue'[v],
               mutationQueue'[u][i].write = mutationQueue'[v][j].write
        PROVE  u = v
    <3>1. PICK k \in DOMAIN mutationQueue[u] : mutationQueue'[u][i] = mutationQueue[u][k]
      BY <1>1
    <3>2. PICK l \in DOMAIN mutationQueue[v] : mutationQueue'[v][j] = mutationQueue[v][l]
      BY <1>1
    <3> QED BY <2>3, <3>1, <3>2 DEF IInv, QueueInv, WritesInOrder
  <2> QED BY <2>1, <2>2, <2>3 DEF WritesInOrder
<1>6. QueueOrderedById'
  <2>1. ASSUME NEW u \in User, NEW i \in DOMAIN mutationQueue'[u],
               NEW j \in DOMAIN mutationQueue'[u], i < j
        PROVE  mutationQueue'[u][i].id < mutationQueue'[u][j].id
    <3>1. PICK k, l \in DOMAIN mutationQueue[u] :
             /\ k < l
             /\ mutationQueue'[u][i] = mutationQueue[u][k]
             /\ mutationQueue'[u][j] = mutationQueue[u][l]
      BY <1>1, <2>1
    <3> QED BY <3>1 DEF IInv, QueueInv, IdsIdentifyWrites, QueueOrderedById
  <2>2. \A i \in DOMAIN mutationQueue'[currentUser] :
           mutationQueue'[currentUser][i].id < nextBatchId
    BY <1>1, <1>2 DEF IInv, QueueInv, IdsIdentifyWrites, QueueOrderedById
  <2> QED BY <2>1, <2>2 DEF QueueOrderedById
<1>7. CallbackBelongsToPendingWrite'
  <2> SUFFICES ASSUME NEW u \in User, NEW c \in mutationCallbacks'[u]
               PROVE  \E i \in DOMAIN mutationQueue'[u] : mutationQueue'[u][i] = c
    BY DEF CallbackBelongsToPendingWrite
  <2>1. c \in mutationCallbacks[u] /\ (u = currentUser => c.id # batch.id)
    BY <1>2
  <2>2. PICK k \in DOMAIN mutationQueue[u] : mutationQueue[u][k] = c
    BY <2>1 DEF IInv, QueueInv, IdsIdentifyWrites, CallbackBelongsToPendingWrite
  <2> QED BY <1>1, <2>1, <2>2
<1> QED BY <1>3, <1>4, <1>5, <1>6, <1>7 DEF QueueInv, IdsIdentifyWrites

LEMMA SettleHistoryInv ==
  ASSUME IInv, writePipeline # << >>, NEW status \in {"acked", "rejected"},
         Settle(Head(writePipeline), status),
         status = "acked" => responses # << >>,
         \/ responses # << >> /\ responses' = Tail(responses)
         \/ responses = << >> /\ responses' = << >>,
         UNCHANGED <<currentUser, submitted, committed, lastCommit>>
  PROVE  /\ HistoryInv'
         /\ told' \in [WriteId -> {"untold", "acked", "rejected"}]
         /\ outcome' \in [WriteId -> {"pending", "acked", "rejected"}]
<1> DEFINE batch == Head(writePipeline)
           queue == mutationQueue[currentUser]
           called == {c \in mutationCallbacks[currentUser] : c.id = batch.id}
<1>1. /\ batch \in Batch /\ currentUser \in User /\ queue \in Seq(Batch)
      /\ 1 \in DOMAIN queue /\ queue[1] = batch /\ Ordered(queue)
  BY SettledQueue, CurrentQueue
<1>2. /\ told' = [w \in WriteId |-> IF \E c \in called : c.write = w THEN status ELSE told[w]]
      /\ outcome' = [outcome EXCEPT ![batch.write] = status]
      /\ told \in [WriteId -> {"untold", "acked", "rejected"}]
      /\ outcome \in [WriteId -> {"pending", "acked", "rejected"}]
      /\ submitted \in Nat /\ committed \in [User -> SUBSET WriteId]
  BY DEF Settle, NotifyUser, IInv, TypeOK
<1>3. /\ \A u \in User : \A i \in DOMAIN mutationQueue'[u] :
            \E k \in DOMAIN mutationQueue[u] :
               /\ mutationQueue'[u][i] = mutationQueue[u][k]
               /\ mutationQueue[u][k].write # batch.write
               /\ u = currentUser => /\ batch.write < mutationQueue[u][k].write
                                     /\ batch.id < mutationQueue[u][k].id
      /\ \A u \in User : \A k \in DOMAIN mutationQueue[u] :
            \/ mutationQueue[u][k] = batch /\ u = currentUser
            \/ \E i \in DOMAIN mutationQueue'[u] : mutationQueue'[u][i] = mutationQueue[u][k]
  BY BatchesLeft
<1> HIDE DEF batch
<1>4. ASSUME NEW c \in called PROVE c = batch
  <2>1. PICK k \in DOMAIN queue : queue[k] = c
    BY <1>1, <1>4 DEF IInv, QueueInv, IdsIdentifyWrites, CallbackBelongsToPendingWrite
  <2>2. DOMAIN queue = 1..Len(queue) /\ Len(queue) \in Nat
        /\ \A i \in 1..Len(queue) : queue[i].id \in Nat
    BY <1>1, BatchesOfQueue
  <2>3. c.id = batch.id
    BY <1>4
  <2> HIDE DEF queue
  <2>4. k = 1
    BY <1>1, <2>1, <2>2, <2>3 DEF Ordered
  <2> QED BY <1>1, <2>1, <2>4
<1>5. responses # << >> => /\ batch.write \in committed[currentUser]
                           /\ batch.write <= lastCommit[currentUser]
  <2> HAVE responses # << >>
  <2>1. /\ Len(responses) \in 1..Len(queue)
        /\ \A i \in 1..Len(responses) : responses[i] = queue[i]
    BY AnswersOfQueue
  <2>2. /\ DOMAIN responses = 1..Len(responses) /\ Len(responses) \in Nat
        /\ DOMAIN queue = 1..Len(queue) /\ Len(queue) \in Nat
        /\ \A i \in 1..Len(queue) : queue[i].write \in Nat
    BY <1>1, BatchesOfQueue DEF IInv, TypeOK, WriteId
  <2>3. /\ \A i \in DOMAIN responses : responses[i].write \in committed[currentUser]
        /\ lastCommit[currentUser] = responses[Len(responses)].write
    BY DEF IInv, HistoryInv, AnswersAreCommitted
  <2>4. \A i, j \in DOMAIN queue : i < j => queue[i].write < queue[j].write
    BY <1>1 DEF IInv, QueueInv, WritesInOrder
  <2> HIDE DEF queue
  <2>5. batch.write \in committed[currentUser]
    <3>1. responses[1] = batch /\ 1 \in DOMAIN responses
      BY <1>1, <2>1, <2>2
    <3> QED BY <2>3, <3>1
  <2>6. lastCommit[currentUser] = queue[Len(responses)].write
    BY <2>1, <2>2, <2>3
  <2>7. CASE Len(responses) = 1
    <3>1. lastCommit[currentUser] = batch.write /\ batch.write \in Nat
      BY <1>1, <2>2, <2>6, <2>7
    <3> QED BY <2>5, <3>1
  <2>8. CASE 1 < Len(responses)
    <3>1. queue[1].write < queue[Len(responses)].write
      BY <1>1, <2>1, <2>2, <2>4, <2>8
    <3>2. batch.write < lastCommit[currentUser] /\ batch.write \in Nat
          /\ lastCommit[currentUser] \in Nat
      BY <1>1, <2>1, <2>2, <2>6, <3>1
    <3> QED BY <2>5, <3>2
  <2>9. Len(responses) = 1 \/ 1 < Len(responses)
    BY <2>1, <2>2
  <2> QED BY <2>7, <2>8, <2>9
<1>6. /\ batch.write \in WriteId /\ batch.write \in Nat /\ batch.write <= submitted
      /\ outcome'[batch.write] = status
      /\ \A w \in WriteId : w # batch.write => outcome'[w] = outcome[w]
      /\ \A v \in User : batch.write \in committed[v] => v = currentUser
  <2>1. batch.write \in WriteId /\ batch.write \in Nat
    BY <1>1 DEF Batch, WriteId
  <2>2. batch.write <= submitted
    BY <1>1 DEF IInv, QueueInv, WritesInOrder
  <2>3. \A v \in User : batch.write \in committed[v] => v = currentUser
    BY <1>1 DEF IInv, HistoryInv, CommittedWrites
  <2> QED BY <1>2, <2>1, <2>2, <2>3
<1> HIDE DEF queue, called
<1>7. SettledOnce'
  <2>1. ASSUME NEW w \in WriteId, told'[w] = "acked"
        PROVE  \E u \in User : w \in committed[u]
    <3>1. CASE \E c \in called : c.write = w
      <4>1. status = "acked" /\ w = batch.write
        BY <1>2, <1>4, <2>1, <3>1
      <4> QED BY <1>1, <1>5, <4>1
    <3>2. CASE ~\E c \in called : c.write = w
      BY <1>2, <2>1, <3>2 DEF IInv, HistoryInv, SettledOnce
    <3> QED BY <3>1, <3>2
  <2>2. ASSUME NEW w \in 1..submitted
        PROVE  outcome'[w] = "pending" <=>
                  \E u \in User : \E i \in DOMAIN mutationQueue'[u] :
                      mutationQueue'[u][i].write = w
    <3>1. CASE w = batch.write
      BY <1>3, <1>6, <3>1
    <3>2. CASE w # batch.write
      <4>1. outcome[w] = "pending" <=>
               \E u \in User : \E i \in DOMAIN mutationQueue[u] :
                   mutationQueue[u][i].write = w
        BY DEF IInv, HistoryInv, SettledOnce
      <4>2. (\E u \in User : \E i \in DOMAIN mutationQueue[u] :
                 mutationQueue[u][i].write = w)
            <=> \E u \in User : \E i \in DOMAIN mutationQueue'[u] :
                   mutationQueue'[u][i].write = w
        BY <1>3, <3>2
      <4>3. w \in WriteId
        BY <1>2, PipelineAssumption DEF WriteId, IInv, TypeOK
      <4> QED BY <1>6, <3>2, <4>1, <4>2, <4>3
    <3> QED BY <3>1, <3>2
  <2> QED BY <2>1, <2>2 DEF SettledOnce
<1>8. (\A w \in WriteId : w > submitted => outcome[w] = "pending")'
  <2> SUFFICES ASSUME NEW w \in WriteId, w > submitted PROVE outcome'[w] = "pending"
    OBVIOUS
  <2>1. w # batch.write
    BY <1>2, <1>6 DEF WriteId
  <2> QED BY <1>6, <2>1 DEF IInv, HistoryInv
<1>9. CommittedWrites'
  <2> SUFFICES ASSUME NEW u \in User, NEW w \in committed[u]
               PROVE  /\ w <= submitted
                      /\ \A v \in User : \A i \in DOMAIN mutationQueue'[v] :
                            mutationQueue'[v][i].write = w => u = v
                      /\ outcome'[w] # "pending" =>
                            \A i \in DOMAIN mutationQueue'[u] : w < mutationQueue'[u][i].write
    BY DEF CommittedWrites
  <2>1. /\ w <= submitted /\ w \in WriteId
        /\ \A v \in User : \A i \in DOMAIN mutationQueue[v] :
              mutationQueue[v][i].write = w => u = v
        /\ outcome[w] # "pending" =>
              \A i \in DOMAIN mutationQueue[u] : w < mutationQueue[u][i].write
    BY <1>2 DEF IInv, HistoryInv, CommittedWrites
  <2>2. \A v \in User : \A i \in DOMAIN mutationQueue'[v] :
           mutationQueue'[v][i].write = w => u = v
    BY <1>3, <2>1
  <2>3. ASSUME outcome'[w] # "pending", NEW i \in DOMAIN mutationQueue'[u]
        PROVE  w < mutationQueue'[u][i].write
    <3>1. CASE w = batch.write
      <4>1. u = currentUser
        BY <1>6, <3>1
      <4> QED BY <1>3, <3>1, <4>1
    <3>2. CASE w # batch.write
      <4>1. outcome[w] # "pending"
        BY <1>6, <2>1, <2>3, <3>2
      <4> QED BY <1>3, <2>1, <4>1
    <3> QED BY <3>1, <3>2
  <2> QED BY <2>1, <2>2, <2>3
<1>10. AnswersAreCommitted'
  <2>1. CASE responses' = << >>
    BY <2>1 DEF AnswersAreCommitted
  <2>2. CASE responses # << >> /\ responses' = Tail(responses) /\ responses' # << >>
    <3>1. /\ responses \in Seq(Batch) /\ responses' \in Seq(Batch)
          /\ Len(responses') = Len(responses) - 1
          /\ \A i \in 1..Len(responses') : responses'[i] = responses[i + 1]
      BY <2>2, HeadTailProperties DEF IInv, TypeOK
    <3>2. /\ Len(responses) \in Nat /\ Len(responses') \in Nat \ {0}
          /\ DOMAIN responses = 1..Len(responses) /\ DOMAIN responses' = 1..Len(responses')
      BY <2>2, <3>1, EmptySeq, LenProperties
    <3>3. /\ \A i \in DOMAIN responses : responses[i].write \in committed[currentUser]
          /\ lastCommit[currentUser] = responses[Len(responses)].write
      BY <2>2 DEF IInv, HistoryInv, AnswersAreCommitted
    <3>4. ASSUME NEW i \in DOMAIN responses'
          PROVE  responses'[i].write \in committed[currentUser]
      BY <3>1, <3>2, <3>3
    <3>5. responses'[Len(responses')] = responses[Len(responses)]
      <4>1. Len(responses') \in 1..Len(responses') /\ Len(responses') + 1 = Len(responses)
        BY <3>1, <3>2
      <4> QED BY <3>1, <4>1
    <3> QED BY <3>3, <3>4, <3>5 DEF AnswersAreCommitted
  <2> QED BY <2>1, <2>2
<1>11. AcknowledgedInOrder'
  <2> SUFFICES ASSUME NEW u \in User, NEW w \in committed[u], outcome'[w] = "acked"
               PROVE  w <= lastCommit[u]
    BY DEF AcknowledgedInOrder
  <2>1. CASE w = batch.write
    BY <1>5, <1>6, <2>1
  <2>2. CASE w # batch.write
    <3>1. w \in WriteId
      BY <1>2
    <3> QED BY <1>6, <2>2, <3>1 DEF IInv, HistoryInv, AcknowledgedInOrder
  <2> QED BY <2>1, <2>2
<1>12. told' \in [WriteId -> {"untold", "acked", "rejected"}]
       /\ outcome' \in [WriteId -> {"pending", "acked", "rejected"}]
  BY <1>2
<1> QED BY <1>7, <1>8, <1>9, <1>10, <1>11, <1>12 DEF HistoryInv

(* Without their first batches the pipeline still heads the queue, and the    *)
(* answers still come before the requests.                                    *)
LEMMA HeadsOfTails ==
  ASSUME NEW q \in Seq(Batch), NEW p \in Seq(Batch), p # << >>, q # << >>, Heads(p, q)
  PROVE  Tail(p) \in Seq(Batch) /\ Heads(Tail(p), Tail(q))
<1>1. /\ Tail(p) \in Seq(Batch) /\ Len(Tail(p)) = Len(p) - 1
      /\ \A i \in 1..Len(Tail(p)) : Tail(p)[i] = p[i + 1]
      /\ Tail(q) \in Seq(Batch) /\ Len(Tail(q)) = Len(q) - 1
      /\ \A i \in 1..Len(Tail(q)) : Tail(q)[i] = q[i + 1]
      /\ Len(p) \in Nat \ {0} /\ Len(q) \in Nat \ {0} /\ MaxPendingWrites \in Nat
  BY HeadTailProperties, EmptySeq, PipelineAssumption
<1> DEFINE pt == Tail(p)
           qt == Tail(q)
<1> HIDE DEF pt, qt
<1>2. Len(pt) <= Len(qt) /\ Len(pt) <= MaxPendingWrites
  BY <1>1 DEF Heads, pt, qt
<1>3. ASSUME NEW i \in 1..Len(pt) PROVE pt[i] = qt[i]
  <2>1. i \in 1..Len(qt) /\ i + 1 \in 1..Len(p)
    BY <1>1, <1>2, <1>3 DEF pt, qt
  <2>2. p[i + 1] = q[i + 1]
    BY <2>1 DEF Heads
  <2> QED BY <1>1, <1>3, <2>1, <2>2 DEF pt, qt
<1> QED BY <1>1, <1>2, <1>3 DEF Heads, pt, qt

LEMMA TailOfConcat ==
  ASSUME NEW r \in Seq(Batch), NEW t \in Seq(Batch), r # << >>
  PROVE  Tail(r) \o t = Tail(r \o t) /\ Tail(r) \in Seq(Batch)
<1> DEFINE c == r \o t
           rt == Tail(r)
<1>1. /\ c \in Seq(Batch) /\ Len(c) = Len(r) + Len(t)
      /\ \A i \in 1..(Len(r) + Len(t)) : c[i] = IF i <= Len(r) THEN r[i] ELSE t[i - Len(r)]
  BY ConcatProperties
<1>2. c # << >>
  BY ConcatEqualIffEmpty
<1> HIDE DEF c
<1>3. /\ rt \in Seq(Batch) /\ Len(rt) = Len(r) - 1
      /\ \A i \in 1..Len(rt) : rt[i] = r[i + 1]
      /\ Tail(c) \in Seq(Batch) /\ Len(Tail(c)) = Len(c) - 1
      /\ \A i \in 1..Len(Tail(c)) : Tail(c)[i] = c[i + 1]
  BY <1>1, <1>2, HeadTailProperties
<1>4. Len(r) \in Nat \ {0} /\ Len(t) \in Nat
  BY EmptySeq, LenProperties
<1> HIDE DEF rt
<1>5. /\ rt \o t \in Seq(Batch) /\ Len(rt \o t) = Len(rt) + Len(t)
      /\ \A i \in 1..(Len(rt) + Len(t)) :
            (rt \o t)[i] = IF i <= Len(rt) THEN rt[i] ELSE t[i - Len(rt)]
  BY <1>3, ConcatProperties
<1>6. Len(rt \o t) = Len(Tail(c))
  BY <1>1, <1>3, <1>4, <1>5
<1>7. ASSUME NEW i \in 1..Len(rt \o t) PROVE (rt \o t)[i] = Tail(c)[i]
  <2>1. /\ i \in 1..(Len(rt) + Len(t)) /\ i + 1 \in 1..(Len(r) + Len(t))
        /\ i \in 1..Len(Tail(c))
    BY <1>3, <1>4, <1>5, <1>6, <1>7
  <2>2. Tail(c)[i] = IF i + 1 <= Len(r) THEN r[i + 1] ELSE t[(i + 1) - Len(r)]
    BY <1>1, <1>3, <2>1
  <2>3. (rt \o t)[i] = IF i <= Len(rt) THEN rt[i] ELSE t[i - Len(rt)]
    BY <1>5, <2>1
  <2>4. CASE i <= Len(rt)
    <3>1. i \in 1..Len(rt) /\ i + 1 <= Len(r)
      BY <1>3, <1>4, <2>4
    <3>2. rt[i] = r[i + 1]
      BY <1>3, <3>1
    <3>3. Tail(c)[i] = r[i + 1]
      BY <2>2, <3>1
    <3> QED BY <2>3, <2>4, <3>2, <3>3
  <2>5. CASE ~(i <= Len(rt))
    <3>1. ~(i + 1 <= Len(r)) /\ (i + 1) - Len(r) = i - Len(rt)
      BY <1>3, <1>4, <2>1, <2>5
    <3> QED BY <2>2, <2>3, <2>5, <3>1
  <2> QED BY <2>4, <2>5
<1>8. rt \o t = Tail(c)
  BY <1>3, <1>5, <1>6, <1>7, SeqEqual
<1> QED BY <1>3, <1>8 DEF rt, c

(* Both ways a write is settled: a result and a permanent error.              *)
LEMMA SettleIInv ==
  ASSUME IInv, OnWriteStreamMutationResult \/ HandleWriteError
  PROVE  IInv'
<1> DEFINE queue == mutationQueue'[currentUser]
           p == Tail(writePipeline)
           batch == Head(writePipeline)
<1>1. /\ writePipeline # << >>
      /\ UNCHANGED <<currentUser, nextBatchId, networkEnabled, submitted,
                     committed, lastCommit>>
      /\ \E status \in {"acked", "rejected"} :
            Settle(batch, status) /\ (status = "acked" => responses # << >>)
      /\ \/ responses # << >> /\ responses' = Tail(responses)
         \/ responses = << >> /\ responses' = << >>
  BY DEF OnWriteStreamMutationResult, HandleWriteError
<1>2. PICK status \in {"acked", "rejected"} :
         Settle(batch, status) /\ (status = "acked" => responses # << >>)
  BY <1>1
<1>3. QueueInv' /\ mutationCallbacks' \in [User -> SUBSET Batch]
  BY <1>1, <1>2, SettleQueueInv
<1>4. /\ HistoryInv'
      /\ told' \in [WriteId -> {"untold", "acked", "rejected"}]
      /\ outcome' \in [WriteId -> {"pending", "acked", "rejected"}]
  BY <1>1, <1>2, SettleHistoryInv
<1>5. /\ mutationQueue' \in [User -> Seq(Batch)]
      /\ queue = Tail(mutationQueue[currentUser]) /\ mutationQueue[currentUser] # << >>
  BY <1>1, <1>2, SettledQueue
<1>6. /\ writePipeline \in Seq(Batch) /\ mutationQueue[currentUser] \in Seq(Batch)
      /\ Heads(writePipeline, mutationQueue[currentUser])
      /\ currentUser \in User /\ currentUser' \in User /\ mutationQueue'[currentUser'] = queue
      /\ requests \in Seq(Batch) /\ responses \in Seq(Batch)
      /\ networkEnabled' = TRUE /\ stream \in StreamState
  BY <1>1, CurrentQueue DEF IInv, TypeOK, StreamInv, StreamIsNeeded
<1>7. queue \in Seq(Batch) /\ Ordered(queue) /\ p \in Seq(Batch) /\ Heads(p, queue)
  <2>1. queue \in Seq(Batch)
    BY <1>5, <1>6
  <2>2. Ordered(queue)
    BY <1>3, <1>6 DEF QueueInv, IdsIdentifyWrites, QueueOrderedById, Ordered
  <2>3. p \in Seq(Batch) /\ Heads(p, Tail(mutationQueue[currentUser]))
    BY <1>1, <1>5, <1>6, HeadsOfTails
  <2> QED BY <1>5, <2>1, <2>2, <2>3
<1>8. StreamTypes' /\ StreamInv'
  <2>1. CASE OnWriteStreamMutationResult
    <3>1. /\ responses # << >> /\ responses' = Tail(responses)
          /\ FillWritePipeline(networkEnabled, queue, p, stream, requests, idleTimer)
      BY <2>1 DEF OnWriteStreamMutationResult
    <3>2. stream = "Ready" /\ responses \o requests = writePipeline /\ ~idleTimer
          /\ idleTimer \in BOOLEAN
      BY <1>1, <3>1, AnswersOfQueue DEF IInv, TypeOK, StreamInv, ResponsesMatchPipeline,
                                        IdleStreamNotNeeded
    <3>3. responses' \in Seq(Batch) /\ responses' \o requests = p
      BY <1>6, <3>1, <3>2, TailOfConcat
    <3>4. networkEnabled' = networkEnabled
      BY <1>1
    <3> HIDE DEF queue, p
    <3> QED BY <1>5, <1>6, <1>7, <3>1, <3>2, <3>3, <3>4, FilledStreamInv
  <2>2. CASE HandleWriteError
    <3>1. /\ responses' = << >>
          /\ FillWritePipeline(networkEnabled, queue, p, "Initial", << >>, FALSE)
      BY <2>2 DEF HandleWriteError
    <3>2. << >> \in Seq(Batch) /\ << >> \o << >> = << >> /\ "Initial" \in StreamState
      BY <1>7, EmptyPipeline DEF StreamState
    <3>3. networkEnabled' = networkEnabled
      BY <1>1
    <3> HIDE DEF queue, p
    <3> QED BY <1>5, <1>6, <1>7, <3>1, <3>2, <3>3, FilledStreamInv
  <2> QED BY <2>1, <2>2
<1>9. TypeOK'
  BY <1>1, <1>3, <1>4, <1>5, <1>8 DEF IInv, TypeOK, StreamTypes
<1> QED BY <1>3, <1>4, <1>8, <1>9 DEF IInv

-----------------------------------------------------------------------------
(* The theorems. *)

LEMMA InitIInv == Init => IInv
<1> SUFFICES ASSUME Init PROVE IInv
  OBVIOUS
<1>1. TypeOK
  <2>1. << >> \in Seq(Batch)
    BY EmptySeq
  <2>2. mutationQueue \in [User -> Seq(Batch)] /\ mutationCallbacks \in [User -> SUBSET Batch]
    BY <2>1 DEF Init
  <2>3. /\ told \in [WriteId -> {"untold", "acked", "rejected"}]
        /\ outcome \in [WriteId -> {"pending", "acked", "rejected"}]
    BY DEF Init
  <2>4. committed \in [User -> SUBSET WriteId] /\ lastCommit \in [User -> 0..MaxWrites]
    BY PipelineAssumption DEF Init
  <2>5. submitted \in 0..MaxWrites /\ nextBatchId \in Nat \ {0}
    BY PipelineAssumption DEF Init
  <2> QED BY <2>1, <2>2, <2>3, <2>4, <2>5 DEF Init, TypeOK, StreamState
<1>2. /\ DOMAIN << >> = {} /\ Len(<< >>) = 0 /\ << >> \o << >> = << >>
      /\ currentUser \in User
  <2>1. << >> \in Seq(Batch) /\ << >> \o << >> = << >> /\ Len(<< >>) = 0
    BY EmptySeq, ConcatEmptySeq
  <2>2. DOMAIN << >> = 1..Len(<< >>)
    BY <2>1, LenProperties
  <2> QED BY <2>1, <2>2 DEF Init
<1>3. QueueInv
  BY <1>2 DEF Init, QueueInv, IdsAreBounded, WritesInOrder, IdsIdentifyWrites,
              QueueOrderedById, CallbackBelongsToPendingWrite
<1>4. StreamInv
  BY <1>2, PipelineAssumption
     DEF Init, StreamInv, PipelineHeadsQueue, ResponsesMatchPipeline,
         IdleStreamNotNeeded, StreamIsNeeded, IsStarted, Smaller
<1>5. HistoryInv
  BY <1>2 DEF Init, HistoryInv, SettledOnce, CommittedWrites, AnswersAreCommitted,
              AcknowledgedInOrder
<1> QED BY <1>1, <1>3, <1>4, <1>5 DEF IInv

LEMMA NextIInv == IInv /\ [Next]_vars => IInv'
<1> SUFFICES ASSUME IInv, [Next]_vars PROVE IInv'
  OBVIOUS
<1>1. CASE WriteMutations
  BY <1>1, WriteMutationsIInv
<1>2. CASE (\E u \in User : HandleCredentialChange(u)) \/ ConnectivityChanged \/ Relaunch
  BY <1>2, RestartIInv
<1>3. CASE EnableNetwork \/ DisableNetwork
  BY <1>3, NetworkSwitchIInv
<1>4. CASE \/ BackoffElapsed \/ OnWriteStreamOpen \/ OnWriteStreamHandshakeComplete
           \/ OnStreamError \/ IdleTimeout
  BY <1>4, StreamStepIInv
<1>5. CASE ServerCommit
  BY <1>5, ServerCommitIInv
<1>6. CASE OnWriteStreamMutationResult \/ HandleWriteError
  BY <1>6, SettleIInv
<1>7. CASE UNCHANGED vars
  <2>1. /\ UNCHANGED <<currentUser, mutationQueue, nextBatchId, mutationCallbacks>>
        /\ UNCHANGED <<networkEnabled, writePipeline, stream, idleTimer>>
        /\ UNCHANGED <<requests, responses, submitted, told, outcome, committed, lastCommit>>
    BY <1>7 DEF vars, clientVars, wireVars, historyVars
  <2>2. TypeOK'
    BY <2>1 DEF IInv, TypeOK
  <2>3. QueueInv'
    BY <2>1 DEF IInv, QueueInv, IdsAreBounded, WritesInOrder, IdsIdentifyWrites,
                QueueOrderedById, CallbackBelongsToPendingWrite
  <2>4. StreamInv'
    BY <2>1 DEF IInv, StreamInv, PipelineHeadsQueue, ResponsesMatchPipeline,
                IdleStreamNotNeeded, StreamIsNeeded
  <2>5. HistoryInv'
    BY <2>1 DEF IInv, HistoryInv, SettledOnce, CommittedWrites, AnswersAreCommitted,
                AcknowledgedInOrder
  <2> QED BY <2>2, <2>3, <2>4, <2>5 DEF IInv
<1> QED BY <1>1, <1>2, <1>3, <1>4, <1>5, <1>6, <1>7 DEF Next

(* The inductive invariant holds of every behaviour, whatever the number of   *)
(* accounts, of writes and the length of the pipeline.                        *)
THEOREM Invariance == Spec => []IInv
BY InitIInv, NextIInv, PTL DEF Spec

(* The queues, the pipeline, the stream and the callbacks keep their types.   *)
THEOREM TypeCorrect == Spec => []TypeOK
<1>1. IInv => TypeOK
  BY DEF IInv
<1> QED BY <1>1, Invariance, PTL

(* The write pipeline of RemoteStore is always the head of the mutation queue *)
(* of the account that is signed in, across account switches and restarts.    *)
THEOREM PipelineIsHead == Spec => []PipelineHeadsQueue
<1>1. IInv => PipelineHeadsQueue
  BY DEF IInv, StreamInv
<1> QED BY <1>1, Invariance, PTL

(* Taking the front of the pipeline for the write that a response of the      *)
(* write stream is about is always right.                                     *)
THEOREM AnswersMatch == Spec => []ResponsesMatchPipeline
<1>1. IInv => ResponsesMatchPipeline
  BY DEF IInv, StreamInv
<1> QED BY <1>1, Invariance, PTL

(* Batch ids, although reloaded from the database and reused, stand for one   *)
(* write at any time: no callback is completed for the write of another.      *)
THEOREM IdsAreSound == Spec => []IdsIdentifyWrites
<1>1. IInv => IdsIdentifyWrites
  BY DEF IInv, QueueInv
<1> QED BY <1>1, Invariance, PTL

(* No write is lost from its queue or settled twice, and none is reported as  *)
(* done that the server did not apply.                                        *)
THEOREM NothingLost == Spec => []SettledOnce
<1>1. IInv => SettledOnce
  BY DEF IInv, HistoryInv
<1> QED BY <1>1, Invariance, PTL

(* Sending the pipeline again after a failure never leaves an older write of  *)
(* an account on top of a newer acknowledged one.                             *)
THEOREM NewestOnTop == Spec => []NewestWriteOnTop
<1>1. IInv => NewestWriteOnTop
  BY DEF IInv, HistoryInv, AcknowledgedInOrder, NewestWriteOnTop
<1> QED BY <1>1, Invariance, PTL

(* What OnWriteStreamClose asserts of a graceful stop: the idle timer only    *)
(* runs on an open stream that nothing waits for.                             *)
THEOREM IdleIsIdle == Spec => []IdleStreamNotNeeded
<1>1. IInv => IdleStreamNotNeeded
  BY DEF IInv, StreamInv
<1> QED BY <1>1, Invariance, PTL

-----------------------------------------------------------------------------
(* The client implements the contract of WriteLog. *)

WritesOf(queue) == [i \in 1..Len(queue) |-> queue[i].write]

LEMMA WritesOfQueue ==
  ASSUME NEW q \in Seq(Batch)
  PROVE  /\ WritesOf(q) \in Seq(WriteId)
         /\ Len(WritesOf(q)) = Len(q)
         /\ \A i \in 1..Len(q) : WritesOf(q)[i] = q[i].write
<1>1. Len(q) \in Nat /\ \A i \in 1..Len(q) : q[i].write \in WriteId
  BY BatchesOfQueue
<1>2. WritesOf(q) \in [1..Len(q) -> WriteId]
  BY <1>1 DEF WritesOf
<1>3. WritesOf(q) \in Seq(WriteId)
  BY <1>1, <1>2, SeqDef
<1>4. Len(WritesOf(q)) \in Nat /\ 1..Len(WritesOf(q)) = 1..Len(q)
  BY <1>2, <1>3, LenProperties
<1>5. Len(WritesOf(q)) = Len(q)
  BY <1>1, <1>4
<1> QED BY <1>3, <1>5 DEF WritesOf

LEMMA WritesOfAppend ==
  ASSUME NEW q \in Seq(Batch), NEW b \in Batch
  PROVE  WritesOf(Append(q, b)) = Append(WritesOf(q), b.write)
<1> DEFINE long == Append(q, b)
           s == WritesOf(q)
           t == Append(s, b.write)
<1>1. /\ long \in Seq(Batch) /\ Len(long) = Len(q) + 1 /\ Len(q) \in Nat
      /\ \A i \in 1..Len(q) : long[i] = q[i]
      /\ long[Len(q) + 1] = b
  BY AppendProperties, LenProperties
<1>2. /\ s \in Seq(WriteId) /\ Len(s) = Len(q) /\ \A i \in 1..Len(q) : s[i] = q[i].write
      /\ b.write \in WriteId
  BY WritesOfQueue DEF Batch
<1> HIDE DEF long, s
<1>3. /\ t \in Seq(WriteId) /\ Len(t) = Len(q) + 1
      /\ \A i \in 1..Len(q) : t[i] = s[i]
      /\ t[Len(q) + 1] = b.write
  BY <1>2, AppendProperties
<1>4. /\ WritesOf(long) \in Seq(WriteId) /\ Len(WritesOf(long)) = Len(long)
      /\ \A i \in 1..Len(long) : WritesOf(long)[i] = long[i].write
  BY <1>1, WritesOfQueue
<1> HIDE DEF t
<1>5. ASSUME NEW i \in 1..(Len(q) + 1) PROVE WritesOf(long)[i] = t[i]
  <2>1. CASE i \in 1..Len(q)
    BY <1>1, <1>2, <1>3, <1>4, <2>1
  <2>2. CASE i = Len(q) + 1
    BY <1>1, <1>3, <1>4, <2>2
  <2>3. i \in 1..Len(q) \/ i = Len(q) + 1
    BY <1>1
  <2> QED BY <2>1, <2>2, <2>3
<1>6. WritesOf(long) = t
  BY <1>1, <1>3, <1>4, <1>5, SeqEqual
<1> QED BY <1>6 DEF long, s, t

LEMMA WritesOfTail ==
  ASSUME NEW q \in Seq(Batch), q # << >>
  PROVE  WritesOf(Tail(q)) = Tail(WritesOf(q))
<1> DEFINE qt == Tail(q)
           s == WritesOf(q)
           st == Tail(s)
<1>1. /\ qt \in Seq(Batch) /\ Len(qt) = Len(q) - 1 /\ Len(q) \in Nat \ {0}
      /\ \A i \in 1..Len(qt) : qt[i] = q[i + 1]
  BY HeadTailProperties, EmptySeq
<1>2. /\ s \in Seq(WriteId) /\ Len(s) = Len(q) /\ \A i \in 1..Len(q) : s[i] = q[i].write
  BY WritesOfQueue
<1>3. s # << >>
  BY <1>1, <1>2, EmptySeq
<1> HIDE DEF qt, s
<1>4. /\ st \in Seq(WriteId) /\ Len(st) = Len(s) - 1
      /\ \A i \in 1..Len(st) : st[i] = s[i + 1]
  BY <1>2, <1>3, HeadTailProperties
<1>5. /\ WritesOf(qt) \in Seq(WriteId) /\ Len(WritesOf(qt)) = Len(qt)
      /\ \A i \in 1..Len(qt) : WritesOf(qt)[i] = qt[i].write
  BY <1>1, WritesOfQueue
<1> HIDE DEF st
<1>6. ASSUME NEW i \in 1..Len(qt) PROVE WritesOf(qt)[i] = st[i]
  <2>1. i + 1 \in 1..Len(q) /\ i \in 1..Len(st)
    BY <1>1, <1>2, <1>4
  <2> QED BY <1>1, <1>2, <1>4, <1>5, <2>1
<1>7. WritesOf(qt) = st
  BY <1>1, <1>2, <1>4, <1>5, <1>6, SeqEqual
<1> QED BY <1>7 DEF qt, s, st

LEMMA PendingOfUser ==
  PendingWrites = [u \in User |-> WritesOf(mutationQueue[u])]
BY DEF PendingWrites, WritesOf

(* Answers under way belong to a network that is enabled. *)
LEMMA NoAnswersOffline ==
  ASSUME IInv, ~networkEnabled
  PROVE  responses = << >>
<1>1. stream # "Ready"
  BY DEF IInv, StreamInv, StreamIsNeeded, IsStarted
<1> QED BY <1>1, AnswersOfQueue

LEMMA NoneApplied ==
  ASSUME TypeOK, responses = << >>
  PROVE  AppliedWrites = [u \in User |-> 0]
<1>1. Len(<< >>) = 0
  BY EmptySeq
<1> QED BY <1>1 DEF AppliedWrites

(* A step that changes no queue, and leaves no answer or the ones there were. *)
LEMMA QuietKeepsContract ==
  ASSUME IInv, IInv', UNCHANGED mutationQueue,
         UNCHANGED <<currentUser, responses>> \/ responses' = << >>
  PROVE  [Contract!LogNext]_(Contract!logVars)
<1>1. UNCHANGED PendingWrites
  BY DEF PendingWrites
<1>2. CASE UNCHANGED <<currentUser, responses>>
  <2>1. UNCHANGED AppliedWrites
    BY <1>2 DEF AppliedWrites
  <2> QED BY <1>1, <2>1 DEF Contract!logVars
<1>3. CASE responses' = << >>
  <2>1. AppliedWrites' = [u \in User |-> 0]
    <3>1. Len(<< >>) = 0
      BY EmptySeq
    <3> QED BY <1>3, <3>1 DEF AppliedWrites
  <2>2. CASE responses = << >>
    <3>1. AppliedWrites = [u \in User |-> 0]
      BY <2>2, NoneApplied DEF IInv
    <3> QED BY <1>1, <2>1, <3>1 DEF Contract!logVars
  <2>3. CASE responses # << >>
    <3>1. currentUser \in User /\ Len(responses) \in Nat \ {0}
      BY <2>3, EmptySeq DEF IInv, TypeOK
    <3>2. AppliedWrites[currentUser] > 0
      BY <3>1 DEF AppliedWrites
    <3>3. AppliedWrites' = [AppliedWrites EXCEPT ![currentUser] = 0]
      BY <2>1, <3>1 DEF AppliedWrites
    <3>4. Contract!Reconnect(currentUser)
      BY <1>1, <3>2, <3>3 DEF Contract!Reconnect
    <3> QED BY <3>1, <3>4 DEF Contract!LogNext
  <2> QED BY <2>2, <2>3
<1> QED BY <1>2, <1>3

LEMMA WriteMutationsSubmits ==
  ASSUME IInv, WriteMutations
  PROVE  Contract!LogNext
<1> DEFINE batch == [id |-> nextBatchId, write |-> submitted + 1]
           queue == mutationQueue[currentUser]
<1>1. /\ currentUser \in User /\ queue \in Seq(Batch) /\ submitted + 1 \in WriteId
      /\ mutationQueue \in [User -> Seq(Batch)]
      /\ mutationQueue' = [mutationQueue EXCEPT ![currentUser] = Append(queue, batch)]
      /\ UNCHANGED <<currentUser, responses>>
      /\ nextBatchId \in Nat \ {0}
  BY PipelineAssumption DEF WriteMutations, IInv, TypeOK, WriteId
<1>2. batch \in Batch /\ batch.write = submitted + 1
  BY <1>1 DEF Batch
<1>3. WritesOf(Append(queue, batch)) = Append(WritesOf(queue), submitted + 1)
  BY <1>1, <1>2, WritesOfAppend
<1>4. PendingWrites = [u \in User |-> WritesOf(mutationQueue[u])]
  BY PendingOfUser
<1>5. PendingWrites' = [u \in User |-> WritesOf(mutationQueue'[u])]
  BY DEF PendingWrites, WritesOf
<1>6. PendingWrites' = [PendingWrites EXCEPT ![currentUser] = Append(@, submitted + 1)]
  BY <1>1, <1>3, <1>4, <1>5
<1>7. UNCHANGED AppliedWrites
  BY <1>1 DEF AppliedWrites
<1>8. Contract!Submit(currentUser, submitted + 1)
  BY <1>6, <1>7 DEF Contract!Submit
<1> QED BY <1>1, <1>8 DEF Contract!LogNext

LEMMA ServerCommitApplies ==
  ASSUME IInv, ServerCommit
  PROVE  Contract!LogNext
<1> DEFINE queue == mutationQueue[currentUser]
<1>1. /\ currentUser \in User /\ queue \in Seq(Batch)
      /\ requests \in Seq(Batch) /\ responses \in Seq(Batch) /\ requests # << >>
      /\ stream = "Ready" /\ responses' = Append(responses, Head(requests))
      /\ UNCHANGED <<currentUser, mutationQueue>>
      /\ Heads(writePipeline, queue)
  BY CurrentQueue DEF ServerCommit, clientVars, IInv, TypeOK
<1>2. responses \o requests = writePipeline
  BY <1>1 DEF IInv, StreamInv, ResponsesMatchPipeline
<1>3. /\ Len(responses) + 1 \in 1..Len(writePipeline)
      /\ Head(requests) \in Batch
  BY <1>1, <1>2, AppliedRequest
<1>4. Len(responses') = Len(responses) + 1 /\ Len(responses) \in Nat
  BY <1>1, <1>3, AppendProperties, LenProperties
<1>5. /\ Len(WritesOf(queue)) = Len(queue) /\ Len(queue) \in Nat
      /\ Len(writePipeline) \in Nat
  BY <1>1, WritesOfQueue, LenProperties DEF IInv, TypeOK
<1>6. UNCHANGED PendingWrites
  BY <1>1 DEF PendingWrites
<1>7. PendingWrites[currentUser] = WritesOf(queue)
  BY <1>1, PendingOfUser
<1>8. AppliedWrites[currentUser] = Len(responses)
  BY <1>1 DEF AppliedWrites
<1>9. AppliedWrites[currentUser] < Len(PendingWrites[currentUser])
  <2>1. Len(responses) + 1 <= Len(queue)
    BY <1>1, <1>3, <1>4, <1>5 DEF Heads
  <2> HIDE DEF queue
  <2> QED BY <1>4, <1>5, <1>7, <1>8, <2>1
<1>10. AppliedWrites' = [AppliedWrites EXCEPT ![currentUser] = @ + 1]
  BY <1>1, <1>4 DEF AppliedWrites
<1>11. Contract!Apply(currentUser)
  BY <1>6, <1>9, <1>10 DEF Contract!Apply, Contract!HasNext
<1> QED BY <1>1, <1>11 DEF Contract!LogNext

LEMMA SettlingTakesTheHead ==
  ASSUME IInv, OnWriteStreamMutationResult \/ HandleWriteError
  PROVE  Contract!LogNext
<1> DEFINE queue == mutationQueue[currentUser]
<1>1. writePipeline # << >> /\ UNCHANGED currentUser
      /\ \E status : Settle(Head(writePipeline), status)
  BY DEF OnWriteStreamMutationResult, HandleWriteError
<1>2. /\ mutationQueue'[currentUser] = Tail(queue) /\ queue # << >>
      /\ \A u \in User : u # currentUser => mutationQueue'[u] = mutationQueue[u]
  BY <1>1, SettledQueue
<1>3. currentUser \in User /\ queue \in Seq(Batch) /\ responses \in Seq(Batch)
  BY CurrentQueue DEF IInv, TypeOK
<1>4. WritesOf(Tail(queue)) = Tail(WritesOf(queue))
  BY <1>2, <1>3, WritesOfTail
<1>5. PendingWrites = [u \in User |-> WritesOf(mutationQueue[u])]
  BY PendingOfUser
<1>6. PendingWrites' = [u \in User |-> WritesOf(mutationQueue'[u])]
  BY DEF PendingWrites, WritesOf
<1>7. PendingWrites' = [PendingWrites EXCEPT ![currentUser] = Tail(@)]
  BY <1>2, <1>3, <1>4, <1>5, <1>6
<1>8. CASE OnWriteStreamMutationResult
  <2>1. responses # << >> /\ responses' = Tail(responses)
    BY <1>8 DEF OnWriteStreamMutationResult
  <2>2. Len(responses) \in Nat \ {0} /\ Len(responses') = Len(responses) - 1
    BY <1>3, <2>1, EmptySeq, HeadTailProperties
  <2>3. AppliedWrites[currentUser] > 0
    BY <1>3, <2>2 DEF AppliedWrites
  <2>4. AppliedWrites' = [AppliedWrites EXCEPT ![currentUser] = @ - 1]
    BY <1>1, <1>3, <2>2 DEF AppliedWrites
  <2>5. Contract!Acknowledge(currentUser)
    BY <1>7, <2>3, <2>4 DEF Contract!Acknowledge
  <2> QED BY <1>3, <2>5 DEF Contract!LogNext
<1>9. CASE HandleWriteError
  <2>1. responses = << >> /\ responses' = responses
    BY <1>9 DEF HandleWriteError
  <2>2. AppliedWrites = [u \in User |-> 0] /\ UNCHANGED AppliedWrites
    BY <1>1, <2>1, NoneApplied DEF IInv, AppliedWrites
  <2>3. PendingWrites[currentUser] # << >>
    <3>1. PendingWrites[currentUser] = WritesOf(queue)
      BY <1>3, <1>5
    <3>2. Len(queue) \in Nat \ {0} /\ Len(WritesOf(queue)) = Len(queue) /\ Len(<< >>) = 0
      BY <1>2, <1>3, EmptySeq, WritesOfQueue
    <3> QED BY <3>1, <3>2
  <2>4. Contract!Reject(currentUser)
    BY <1>3, <1>7, <2>2, <2>3 DEF Contract!Reject
  <2> QED BY <1>3, <2>4 DEF Contract!LogNext
<1> QED BY <1>8, <1>9

LEMMA StepKeepsContract ==
  IInv /\ IInv' /\ [Next]_vars => [Contract!LogNext]_(Contract!logVars)
<1> SUFFICES ASSUME IInv, IInv', [Next]_vars
             PROVE  [Contract!LogNext]_(Contract!logVars)
  OBVIOUS
<1>1. CASE WriteMutations
  BY <1>1, WriteMutationsSubmits
<1>2. CASE ServerCommit
  BY <1>2, ServerCommitApplies
<1>3. CASE OnWriteStreamMutationResult \/ HandleWriteError
  BY <1>3, SettlingTakesTheHead
<1>4. CASE \E u \in User : HandleCredentialChange(u)
  <2>1. PICK u \in User : HandleCredentialChange(u)
    BY <1>4
  <2>2. UNCHANGED mutationQueue /\ responses' = << >>
    <3>1. CASE networkEnabled
      BY <2>1, <3>1 DEF HandleCredentialChange, FreshNetwork
    <3>2. CASE ~networkEnabled
      BY <2>1, <3>2, NoAnswersOffline DEF HandleCredentialChange, wireVars
    <3> QED BY <3>1, <3>2
  <2> QED BY <2>2, QuietKeepsContract
<1>5. CASE \/ ConnectivityChanged \/ EnableNetwork \/ DisableNetwork \/ Relaunch
           \/ BackoffElapsed \/ OnWriteStreamOpen \/ OnWriteStreamHandshakeComplete
           \/ OnStreamError \/ IdleTimeout \/ UNCHANGED vars
  <2>1. /\ UNCHANGED mutationQueue
        /\ UNCHANGED <<currentUser, responses>> \/ responses' = << >>
    BY <1>5 DEF ConnectivityChanged, EnableNetwork, DisableNetwork, Relaunch,
                BackoffElapsed, OnWriteStreamOpen, OnWriteStreamHandshakeComplete,
                OnStreamError, IdleTimeout, FreshNetwork, vars, clientVars, wireVars
  <2> QED BY <2>1, QuietKeepsContract
<1> QED BY <1>1, <1>2, <1>3, <1>4, <1>5 DEF Next

(* The write path keeps the contract the rest of the app is built on: every   *)
(* step of the queue, pipeline and stream is a step of the writer's log, or   *)
(* none that the app could notice.                                            *)
THEOREM Refinement == Spec => KeepsTheContract
<1>1. Init => Contract!LogInit
  <2> SUFFICES ASSUME Init PROVE Contract!LogInit
    OBVIOUS
  <2>1. IInv
    BY InitIInv
  <2>2. AppliedWrites = [u \in User |-> 0]
    BY <2>1, NoneApplied DEF IInv, Init
  <2>3. WritesOf(<< >>) = << >>
    <3>1. << >> \in Seq(Batch) /\ Len(<< >>) = 0
      BY EmptySeq
    <3>2. WritesOf(<< >>) \in Seq(WriteId) /\ Len(WritesOf(<< >>)) = 0
      BY <3>1, WritesOfQueue
    <3> QED BY <3>2, EmptySeq
  <2>4. PendingWrites = [u \in User |-> << >>]
    BY <2>3, PendingOfUser DEF Init
  <2> QED BY <2>2, <2>4 DEF Contract!LogInit
<1>2. IInv /\ IInv' /\ [Next]_vars => [Contract!LogNext]_(Contract!logVars)
  BY StepKeepsContract
<1> QED BY <1>1, <1>2, Invariance, PTL
        DEF Spec, KeepsTheContract, Contract!LogSpec
=============================================================================
