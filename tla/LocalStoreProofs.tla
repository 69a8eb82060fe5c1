-------------------------- MODULE LocalStoreProofs --------------------------
(***************************************************************************)
(* Theorems about LocalStore, for any fields and masks and any number of   *)
(* writes and of states on the server.                                     *)
(***************************************************************************)
EXTENDS LocalStore, SequenceTheorems, TLAPS

-----------------------------------------------------------------------------
(* The inductive invariant. *)

(* A committed write can be seen in the state its commit made: what it sets is *)
(* its alone, and what a plain set leaves out is gone.                         *)
Committed(m, version) ==
    /\ version \in DOMAIN history
    /\ \A f \in Field :
          /\ f \in m.fields /\ m.kind # "union" => history[version][f] = {m.id}
          /\ f \notin m.fields /\ m.kind = "set" => history[version][f] = {}

(* From that version on the write disappears from fields and never comes back. *)
OnlyLeaves(id, version) ==
    \A x, y \in DOMAIN history, f \in Field :
        version <= x /\ x <= y /\ id \in history[y][f] => id \in history[x][f]

QueueInv ==
    /\ Len(history) <= MaxVersion
    /\ \A i \in DOMAIN mutationQueue : mutationQueue[i].id <= writes
    /\ \A i, j \in DOMAIN mutationQueue :
          i < j => mutationQueue[i].id < mutationQueue[j].id

AcksInv ==
    /\ \A k \in DOMAIN acks : /\ Committed(mutationQueue[k], acks[k])
                              /\ OnlyLeaves(mutationQueue[k].id, acks[k])
    /\ \A k, l \in DOMAIN acks : k < l => acks[k] <= acks[l]

(* What watch has reported is in the cache, and a document marked as awaiting  *)
(* the server is newer than that.                                              *)
CacheInv ==
    /\ remoteDocument.type = "none" => remoteDocument.version = 0
    /\ remoteDocument.type = "unknown" => remoteDocument.pending
    /\ remoteDocument.type # "none" => remoteDocument.version \in DOMAIN history
    /\ seen <= remoteDocument.version
    /\ seen # 0 /\ seen = remoteDocument.version =>
          remoteDocument.type = "document" /\ ~remoteDocument.pending
    /\ SyncedCopyIsTheServers

AcknowledgedInv ==
    /\ acknowledged # {} => remoteDocument.type = "document"
    /\ \A w \in acknowledged :
          /\ w.version <= remoteDocument.version
          /\ w.id <= writes
          /\ \A i \in DOMAIN mutationQueue : w.id < mutationQueue[i].id
          /\ \A k \in DOMAIN acks : w.version <= acks[k]
          /\ OnlyLeaves(w.id, w.version)
    /\ remoteDocument.type = "document" /\ remoteDocument.pending =>
          \E w \in acknowledged : w.version = remoteDocument.version
    /\ DistinctWritesAreApplied

IInv == TypeOK /\ QueueInv /\ AcksInv /\ CacheInv /\ AcknowledgedInv

-----------------------------------------------------------------------------

(* The view of an empty queue is the cached document. *)
LEMMA EmptyQueueView ==
  ASSUME mutationQueue = << >>
  PROVE  LocalDocument = remoteDocument
<1> DEFINE Step(g) == [s \in SUBSET {} |->
                          IF s = {} THEN remoteDocument
                          ELSE LET x == Max(s)
                               IN  ApplyToLocalView(mutationQueue[x], g[s \ {x}])]
           nothing == [s \in SUBSET {} |-> remoteDocument]
           fold == CHOOSE g : g = Step(g)
<1>1. nothing = Step(nothing)
  OBVIOUS
<1>2. fold = Step(fold)
  BY <1>1
<1>3. fold[{}] = remoteDocument
  BY <1>2
<1>4. DOMAIN mutationQueue = {}
  OBVIOUS
<1>5. LocalDocument = fold[{}]
  BY <1>4, Zenon DEF LocalDocument, FoldLeft, MapThenFoldSet
<1> QED BY <1>3, <1>5

-----------------------------------------------------------------------------
(* What a commit on the server leaves alone. *)

LEMMA SeqFacts ==
  ASSUME TypeOK
  PROVE  /\ history \in Seq(Data) /\ mutationQueue \in Seq([id : Write, kind : Kind, fields : Masks])
         /\ acks \in Seq(Version)
         /\ Len(history) \in Nat /\ DOMAIN history = 1..Len(history)
         /\ Len(mutationQueue) \in Nat /\ DOMAIN mutationQueue = 1..Len(mutationQueue)
         /\ Len(acks) \in Nat /\ DOMAIN acks = 1..Len(acks)
         /\ Len(acks) <= Len(mutationQueue)
         /\ \A x \in DOMAIN history : history[x] \in Data
         /\ \A i \in DOMAIN mutationQueue :
                mutationQueue[i] \in [id : Write, kind : Kind, fields : Masks]
         /\ \A k \in DOMAIN acks : acks[k] \in Version
         /\ MaxWrites \in Nat /\ MaxVersion \in Nat
<1>1. /\ history \in Seq(Data) /\ acks \in Seq(Version)
      /\ mutationQueue \in Seq([id : Write, kind : Kind, fields : Masks])
      /\ Len(acks) <= Len(mutationQueue)
  BY DEF TypeOK
<1>2. /\ Len(history) \in Nat /\ DOMAIN history = 1..Len(history)
      /\ \A x \in DOMAIN history : history[x] \in Data
  BY <1>1, LenProperties, ElementOfSeq
<1>3. /\ Len(mutationQueue) \in Nat /\ DOMAIN mutationQueue = 1..Len(mutationQueue)
      /\ \A i \in DOMAIN mutationQueue :
            mutationQueue[i] \in [id : Write, kind : Kind, fields : Masks]
  BY <1>1, LenProperties, ElementOfSeq
<1>4. /\ Len(acks) \in Nat /\ DOMAIN acks = 1..Len(acks)
      /\ \A k \in DOMAIN acks : acks[k] \in Version
  BY <1>1, LenProperties, ElementOfSeq
<1> QED BY <1>1, <1>2, <1>3, <1>4, StoreAssumption

(* The write a commit is made of. *)
IsWrite(m) == m \in [id : Nat, kind : Kind, fields : SUBSET Field]

LEMMA MutatedFields ==
  ASSUME NEW m, IsWrite(m), NEW data \in [Field -> SUBSET Nat], NEW f \in Field
  PROVE  /\ f \in m.fields /\ m.kind = "union" => Mutated(m, data)[f] = data[f] \cup {m.id}
         /\ f \in m.fields /\ m.kind # "union" => Mutated(m, data)[f] = {m.id}
         /\ f \notin m.fields /\ m.kind = "set" => Mutated(m, data)[f] = {}
         /\ f \notin m.fields /\ m.kind # "set" => Mutated(m, data)[f] = data[f]
<1>1. Mutated(m, data)[f] =
        CASE f \in m.fields /\ m.kind = "union" -> data[f] \cup {m.id}
          [] f \in m.fields /\ m.kind # "union" -> {m.id}
          [] f \notin m.fields -> IF m.kind = "set" THEN {} ELSE data[f]
  BY DEF Mutated
<1> QED BY <1>1

LEMMA MutatedType ==
  ASSUME NEW m, IsWrite(m), m.id \in Write, NEW data \in Data
  PROVE  Mutated(m, data) \in Data
<1>1. MaxWrites \in Nat
  BY StoreAssumption
<1>2. data \in [Field -> SUBSET Nat]
  BY <1>1 DEF Data, Write
<1>3. ASSUME NEW f \in Field  PROVE Mutated(m, data)[f] \in SUBSET Write
  BY <1>2, <1>3, MutatedFields DEF Data
<1>4. Mutated(m, data) = [f \in Field |-> Mutated(m, data)[f]]
  BY DEF Mutated
<1> QED BY <1>3, <1>4 DEF Data

(* The state a commit made or confirmed. *)
Latest == IF history # << >> THEN Last(history) ELSE Empty

LEMMA LatestType ==
  ASSUME TypeOK
  PROVE  /\ Latest \in Data
         /\ Len(history) > 0 => Latest = history[Len(history)]
         /\ Len(history) = 0 => history = << >>
         /\ history = << >> => Len(history) = 0
<1>1. history = << >> <=> Len(history) = 0
  BY SeqFacts, EmptySeq
<1>2. CASE history = << >>
  BY <1>1, <1>2 DEF Latest, Empty, Data
<1>3. CASE history # << >>
  <2>1. Len(history) > 0 /\ Latest = history[Len(history)]
    BY <1>1, <1>3, SeqFacts DEF Latest, Last
  <2> QED BY <1>1, <2>1, SeqFacts
<1> QED BY <1>2, <1>3

(* Each state of the server stays what it was; a commit adds one, or the last *)
(* state has the write in it already.                                        *)
LEMMA CommitMakes ==
  ASSUME TypeOK, QueueInv, NEW m, IsWrite(m), m.id \in Write, Commit(m)
  PROVE  /\ history' \in Seq(Data) /\ DOMAIN history' = 1..Len(history')
         /\ Len(history') \in {Len(history), Len(history) + 1}
         /\ Len(history') \in Nat \ {0} /\ Len(history') <= MaxVersion
         /\ \A x \in DOMAIN history : x \in DOMAIN history' /\ history'[x] = history[x]
         /\ history'[Len(history')] = Mutated(m, Latest)
<1>1. Mutated(m, Latest) \in Data
  BY LatestType, MutatedType
<1>2. CASE history # << >> /\ Mutated(m, Latest) = Latest
  <2>1. history' = history
    BY <1>2 DEF Commit, Latest
  <2> QED BY <1>2, <2>1, LatestType, SeqFacts DEF QueueInv
<1>3. CASE ~(history # << >> /\ Mutated(m, Latest) = Latest)
  <2>1. Len(history) < MaxVersion /\ history' = Append(history, Mutated(m, Latest))
    BY <1>3 DEF Commit, Latest
  <2> QED BY <1>1, <2>1, SeqFacts, AppendProperties
<1> QED BY <1>2, <1>3

LEMMA Positions ==
  ASSUME NEW n \in Nat, NEW len \in {n, n + 1}, NEW x \in 1..len, NEW y \in 1..len, x <= y
  PROVE  /\ y \in 1..n => x \in 1..n
         /\ y \notin 1..n => y = n + 1 /\ len = n + 1
         /\ y \notin 1..n /\ x # y => n > 0 /\ x \in 1..n /\ n \in 1..n /\ x <= n
OBVIOUS

(* A commit of another write brings no write back. *)
LEMMA CommitOnlyLeaves ==
  ASSUME TypeOK, QueueInv, NEW m, IsWrite(m), m.id \in Write, Commit(m),
         NEW id \in Nat, NEW version \in Nat, id # m.id, OnlyLeaves(id, version)
  PROVE  OnlyLeaves(id, version)'
<1> SUFFICES ASSUME NEW x \in DOMAIN history', NEW y \in DOMAIN history', NEW f \in Field,
                    version <= x, x <= y, id \in history'[y][f]
             PROVE  id \in history'[x][f]
  BY DEF OnlyLeaves
<1> DEFINE n == Len(history)
<1>1. /\ n \in Nat /\ DOMAIN history = 1..n
      /\ DOMAIN history' = 1..Len(history') /\ Len(history') \in {n, n + 1}
      /\ \A k \in DOMAIN history : history'[k] = history[k]
      /\ history'[Len(history')] = Mutated(m, Latest)
  BY SeqFacts, CommitMakes
<1>2. x \in 1..Len(history') /\ y \in 1..Len(history')
  BY <1>1
<1>3. CASE y \in 1..n
  <2>1. x \in 1..n
    BY <1>1, <1>2, <1>3, Positions
  <2>2. id \in history[y][f]
    BY <1>1, <1>3
  <2>3. id \in history[x][f]
    BY <1>1, <1>3, <2>1, <2>2 DEF OnlyLeaves
  <2> QED BY <1>1, <2>1, <2>3
<1>4. CASE y \notin 1..n
  <2>1. y = n + 1 /\ Len(history') = n + 1
    BY <1>1, <1>2, <1>4, Positions
  <2>2. CASE x = y
    BY <2>2
  <2>3. CASE x # y
    <3>1. n > 0 /\ x \in 1..n /\ x <= n /\ n \in 1..n
      BY <1>1, <1>2, <1>4, <2>3, Positions
    <3>2. Latest \in [Field -> SUBSET Nat]
      BY LatestType, SeqFacts DEF Data, Write
    <3>3. id \in Mutated(m, Latest)[f]
      BY <1>1, <2>1
    <3>4. id \in Latest[f]
      BY <3>2, <3>3, MutatedFields
    <3>5. id \in history[n][f]
      BY <3>1, <3>4, LatestType
    <3>6. id \in history[x][f]
      BY <1>1, <3>1, <3>5 DEF OnlyLeaves
    <3> QED BY <1>1, <3>1, <3>6
  <2> QED BY <2>2, <2>3
<1> QED BY <1>3, <1>4

(* And it is itself in the state it made. *)
LEMMA CommitCommitted ==
  ASSUME TypeOK, QueueInv, NEW m, IsWrite(m), m.id \in Write, Commit(m),
         NEW version, version = Len(history')
  PROVE  Committed(m, version)' /\ OnlyLeaves(m.id, version)'
<1>1. /\ DOMAIN history' = 1..version /\ version \in Nat \ {0}
      /\ history'[version] = Mutated(m, Latest)
  BY CommitMakes
<1>2. Latest \in [Field -> SUBSET Nat]
  BY LatestType, SeqFacts DEF Data, Write
<1>3. ASSUME NEW f \in Field
      PROVE  /\ f \in m.fields /\ m.kind # "union" => history'[version][f] = {m.id}
             /\ f \notin m.fields /\ m.kind = "set" => history'[version][f] = {}
  BY <1>1, <1>2, MutatedFields
<1>4. Committed(m, version)'
  BY <1>1, <1>3 DEF Committed
<1>5. OnlyLeaves(m.id, version)'
  <2> SUFFICES ASSUME NEW x \in DOMAIN history', NEW y \in DOMAIN history', NEW f \in Field,
                      version <= x, x <= y, m.id \in history'[y][f]
               PROVE  m.id \in history'[x][f]
    BY DEF OnlyLeaves
  <2>1. x \in 1..version /\ y \in 1..version
    BY <1>1
  <2>2. x = y
    BY <1>1, <2>1
  <2> QED BY <2>2
<1> QED BY <1>4, <1>5

(* An earlier commit is still where it was. *)
LEMMA CommitStays ==
  ASSUME TypeOK, QueueInv, NEW m, IsWrite(m), m.id \in Write, Commit(m),
         NEW other, NEW version, Committed(other, version)
  PROVE  Committed(other, version)'
BY CommitMakes DEF Committed

(* What the cache holds of the server is in place. *)
LEMMA CommitKeepsCache ==
  ASSUME TypeOK, QueueInv, CacheInv, AcknowledgedInv,
         NEW m, IsWrite(m), m.id \in Write, Commit(m),
         UNCHANGED <<remoteDocument, seen, acknowledged>>
  PROVE  CacheInv' /\ DistinctWritesAreApplied'
<1>1. /\ DOMAIN history \subseteq DOMAIN history'
      /\ \A x \in DOMAIN history : history'[x] = history[x]
  BY CommitMakes
<1>2. CacheInv'
  BY <1>1 DEF CacheInv, SyncedCopyIsTheServers
<1>3. DistinctWritesAreApplied'
  <2> SUFFICES ASSUME OneWriteEachVersion', NEW w \in acknowledged'
               PROVE  Holds(remoteDocument, w)'
    BY DEF DistinctWritesAreApplied, AcknowledgedWritesAreApplied
  <2>1. OneWriteEachVersion
    BY DEF OneWriteEachVersion
  <2>2. Holds(remoteDocument, w)
    BY <2>1 DEF AcknowledgedInv, DistinctWritesAreApplied, AcknowledgedWritesAreApplied
  <2>3. remoteDocument.version \in DOMAIN history
    BY DEF AcknowledgedInv, CacheInv
  <2> QED BY <1>1, <2>2, <2>3 DEF Holds
<1> QED BY <1>2, <1>3

-----------------------------------------------------------------------------
(* Steps of the server. *)

LEMMA QueuedIsWrite ==
  ASSUME NEW m \in [id : Write, kind : Kind, fields : Masks]
  PROVE  IsWrite(m) /\ m.id \in Write
BY StoreAssumption DEF IsWrite, Write

LEMMA ServerCommitKeeps ==
  ASSUME IInv, ServerCommit
  PROVE  IInv'
<1> USE DEF IInv
<1>1. PICK n, m, version : n = Len(acks) /\ m = mutationQueue[n + 1] /\ version = Len(history')
  OBVIOUS
<1>2. /\ n \in Nat /\ DOMAIN acks = 1..n
      /\ Len(mutationQueue) \in Nat /\ DOMAIN mutationQueue = 1..Len(mutationQueue)
      /\ n < Len(mutationQueue)
  BY <1>1, SeqFacts DEF ServerCommit
<1>3. n + 1 \in DOMAIN mutationQueue /\ \A k \in 1..n : k \in DOMAIN mutationQueue /\ k < n + 1
  BY <1>2
<1>4. IsWrite(m) /\ m.id \in Write /\ Commit(m)
  BY <1>1, <1>3, SeqFacts, QueuedIsWrite DEF ServerCommit
<1>5. /\ history' \in Seq(Data) /\ version \in Nat \ {0} /\ version <= MaxVersion
      /\ Len(history) \in Nat /\ version >= Len(history)
      /\ DOMAIN history = 1..Len(history) /\ MaxVersion \in Nat /\ MaxWrites \in Nat
  BY <1>1, <1>4, CommitMakes, SeqFacts
<1>6. Committed(m, version)' /\ OnlyLeaves(m.id, version)'
  BY <1>1, <1>4, CommitCommitted
<1>7. UNCHANGED <<mutationQueue, remoteDocument, seen, writes, acknowledged>>
  BY DEF ServerCommit
<1>8. acks' = Append(acks, version) /\ acks \in Seq(Version) /\ version \in Version
  BY <1>1, <1>5, SeqFacts DEF ServerCommit, Version
<1>9. /\ acks' \in Seq(Version) /\ Len(acks') = n + 1 /\ DOMAIN acks' = 1..(n + 1)
      /\ acks'[n + 1] = version
      /\ \A k \in 1..n : acks'[k] = acks[k]
  BY <1>1, <1>2, <1>8, AppendProperties
<1>10. TypeOK'
  <2>1. Len(acks') <= Len(mutationQueue)'
    BY <1>2, <1>7, <1>9
  <2>2. seen' \in 0..Len(history')
    BY <1>1, <1>5, <1>7 DEF TypeOK
  <2> QED BY <1>5, <1>7, <1>9, <2>1, <2>2 DEF TypeOK
<1>11. QueueInv'
  BY <1>1, <1>5, <1>7 DEF QueueInv
<1>12. CacheInv' /\ DistinctWritesAreApplied'
  BY <1>4, <1>7, CommitKeepsCache
<1>13. AcksInv'
  <2>1. ASSUME NEW k \in 1..n
        PROVE  Committed(mutationQueue[k], acks[k])' /\ OnlyLeaves(mutationQueue[k].id, acks[k])'
    <3>1. PICK w, v : w = mutationQueue[k] /\ v = acks[k]
      OBVIOUS
    <3>2. w.id \in Nat /\ w.id < m.id /\ v \in Nat /\ m.id \in Nat
      <4>1. k \in DOMAIN mutationQueue /\ n + 1 \in DOMAIN mutationQueue /\ k < n + 1
        BY <1>3
      <4>2. w.id < m.id
        BY <1>1, <3>1, <4>1 DEF QueueInv
      <4>3. v \in Version /\ w \in [id : Write, kind : Kind, fields : Masks]
        BY <1>2, <3>1, <4>1, SeqFacts
      <4> QED BY <1>4, <1>5, <4>2, <4>3 DEF Version, Write
    <3>3. Committed(w, v) /\ OnlyLeaves(w.id, v)
      BY <1>2, <3>1 DEF AcksInv
    <3>4. Committed(w, v)' /\ OnlyLeaves(w.id, v)'
      BY <1>4, <3>2, <3>3, CommitStays, CommitOnlyLeaves
    <3>5. (w = mutationQueue[k] /\ v = acks[k])'
      BY <1>7, <1>9, <3>1
    <3> QED BY <3>4, <3>5
  <2>2. Committed(mutationQueue[n + 1], acks[n + 1])' /\ OnlyLeaves(mutationQueue[n + 1].id, acks[n + 1])'
    BY <1>1, <1>6, <1>7, <1>9
  <2>3. ASSUME NEW k \in 1..n PROVE acks'[k] <= version
    <3>1. acks[k] \in 1..Len(history)
      BY <1>2, <1>5 DEF AcksInv, Committed
    <3> QED BY <1>5, <1>9, <3>1
  <2>4. ASSUME NEW k \in DOMAIN acks', NEW l \in DOMAIN acks', k < l
        PROVE  acks'[k] <= acks'[l]
    <3>1. k \in 1..n /\ (l \in 1..n \/ l = n + 1)
      BY <1>2, <1>9, <2>4
    <3>2. CASE l \in 1..n
      BY <1>2, <1>9, <2>4, <3>1, <3>2 DEF AcksInv
    <3>3. CASE l = n + 1
      BY <1>9, <2>3, <3>1, <3>3
    <3> QED BY <3>1, <3>2, <3>3
  <2>5. \A k \in DOMAIN acks' : k \in 1..n \/ k = n + 1
    BY <1>2, <1>9
  <2> QED BY <2>1, <2>2, <2>4, <2>5 DEF AcksInv
<1>14. AcknowledgedInv'
  <2>1. ASSUME NEW w \in acknowledged
        PROVE  OnlyLeaves(w.id, w.version)' /\ \A k \in DOMAIN acks' : w.version <= acks'[k]
    <3>1. w \in [id : Write, fields : Masks, version : Version]
      BY DEF TypeOK
    <3>2. w.id \in Nat /\ m.id \in Nat /\ w.version \in Nat
      BY <1>4, <1>5, <3>1 DEF Write, Version
    <3>3. w.id < m.id /\ OnlyLeaves(w.id, w.version)
      BY <1>1, <1>3 DEF AcknowledgedInv
    <3>4. OnlyLeaves(w.id, w.version)'
      <4>1. PICK id, v : id = w.id /\ v = w.version
        OBVIOUS
      <4>2. OnlyLeaves(id, v)'
        BY <1>4, <3>2, <3>3, <4>1, CommitOnlyLeaves
      <4> QED BY <4>1, <4>2
    <3>5. w.version <= version
      <4>1. w.version <= remoteDocument.version /\ remoteDocument.version \in 1..Len(history)
        BY <1>5 DEF AcknowledgedInv, CacheInv
      <4> QED BY <1>5, <3>2, <4>1
    <3> QED BY <1>2, <1>9, <3>4, <3>5 DEF AcknowledgedInv
  <2> QED BY <1>7, <1>12, <2>1 DEF AcknowledgedInv
<1> QED BY <1>10, <1>11, <1>12, <1>13, <1>14

LEMMA ForeignWriteKeeps ==
  ASSUME IInv, NEW kind \in Kind, NEW fields \in Masks, ForeignWrite(kind, fields)
  PROVE  IInv'
<1> USE DEF IInv
<1>1. PICK m : m = [id |-> writes + 1, kind |-> kind, fields |-> fields]
  OBVIOUS
<1>2. /\ writes \in Nat /\ MaxWrites \in Nat /\ writes < MaxWrites /\ writes' = writes + 1
      /\ Commit(m)
      /\ UNCHANGED <<mutationQueue, remoteDocument, acks, seen, acknowledged>>
  BY <1>1, StoreAssumption DEF ForeignWrite, TypeOK
<1>3. m \in [id : Write, kind : Kind, fields : Masks] /\ m.id = writes + 1
  BY <1>1, <1>2 DEF Write
<1>4. IsWrite(m) /\ m.id \in Write
  BY <1>3, QueuedIsWrite
<1>5. /\ history' \in Seq(Data) /\ Len(history') \in Nat /\ Len(history') <= MaxVersion
      /\ Len(history) \in Nat /\ Len(history') >= Len(history)
  BY <1>2, <1>4, CommitMakes, SeqFacts
<1>6. TypeOK'
  <2>1. seen' \in 0..Len(history')
    BY <1>2, <1>5 DEF TypeOK
  <2>2. writes' \in 0..MaxWrites
    BY <1>2
  <2> QED BY <1>2, <1>5, <2>1, <2>2 DEF TypeOK
<1>7. /\ DOMAIN mutationQueue = 1..Len(mutationQueue) /\ Len(mutationQueue) \in Nat
      /\ DOMAIN acks = 1..Len(acks) /\ Len(acks) \in Nat /\ Len(acks) <= Len(mutationQueue)
      /\ \A i \in DOMAIN mutationQueue : mutationQueue[i].id \in Nat
      /\ \A k \in DOMAIN acks : acks[k] \in Nat
  BY <1>2, SeqFacts DEF Write, Version
<1>8. QueueInv'
  <2>1. ASSUME NEW i \in DOMAIN mutationQueue  PROVE mutationQueue[i].id <= writes + 1
    <3>1. mutationQueue[i].id <= writes
      BY DEF QueueInv
    <3> QED BY <1>2, <1>7, <3>1
  <2> QED BY <1>2, <1>5, <2>1 DEF QueueInv
<1>9. CacheInv' /\ DistinctWritesAreApplied'
  BY <1>2, <1>4, CommitKeepsCache
<1>10. AcksInv'
  <2>1. ASSUME NEW k \in DOMAIN acks
        PROVE  Committed(mutationQueue[k], acks[k])' /\ OnlyLeaves(mutationQueue[k].id, acks[k])'
    <3>1. PICK w, v : w = mutationQueue[k] /\ v = acks[k]
      OBVIOUS
    <3>2. k \in DOMAIN mutationQueue
      BY <1>7
    <3>3. w.id \in Nat /\ w.id <= writes /\ v \in Nat
      BY <1>7, <3>1, <3>2 DEF QueueInv
    <3>4. w.id # m.id
      BY <1>2, <1>3, <3>3
    <3>5. Committed(w, v) /\ OnlyLeaves(w.id, v)
      BY <3>1 DEF AcksInv
    <3>6. Committed(w, v)' /\ OnlyLeaves(w.id, v)'
      BY <1>2, <1>4, <3>3, <3>4, <3>5, CommitStays, CommitOnlyLeaves
    <3>7. (w = mutationQueue[k] /\ v = acks[k])'
      BY <1>2, <3>1
    <3> QED BY <3>6, <3>7
  <2> QED BY <1>2, <2>1 DEF AcksInv
<1>11. AcknowledgedInv'
  <2>1. ASSUME NEW w \in acknowledged
        PROVE  OnlyLeaves(w.id, w.version)' /\ w.id <= writes + 1
    <3>1. w \in [id : Write, fields : Masks, version : Version]
      BY DEF TypeOK
    <3>2. PICK id, v : id = w.id /\ v = w.version /\ id \in Nat /\ v \in Nat
      BY <3>1 DEF Write, Version
    <3>3. id <= writes /\ OnlyLeaves(id, v)
      BY <3>2 DEF AcknowledgedInv
    <3>4. id # m.id /\ id <= writes + 1
      BY <1>2, <1>3, <3>2, <3>3
    <3>5. OnlyLeaves(id, v)'
      BY <1>2, <1>4, <3>2, <3>3, <3>4, CommitOnlyLeaves
    <3> QED BY <3>2, <3>4, <3>5
  <2> QED BY <1>2, <1>9, <2>1 DEF AcknowledgedInv
<1> QED BY <1>6, <1>8, <1>9, <1>10, <1>11

-----------------------------------------------------------------------------
(* Steps of the client. *)

LEMMA WriteLocallyKeeps ==
  ASSUME IInv, NEW kind \in Kind, NEW fields \in Masks, WriteLocally(kind, fields)
  PROVE  IInv'
<1> USE DEF IInv
<1>1. PICK m, n : /\ m = [id |-> writes + 1, kind |-> kind, fields |-> fields]
                  /\ n = Len(mutationQueue)
  OBVIOUS
<1>2. /\ writes \in Nat /\ MaxWrites \in Nat /\ writes < MaxWrites /\ writes' = writes + 1
      /\ mutationQueue' = Append(mutationQueue, m)
      /\ UNCHANGED <<remoteDocument, history, acks, seen, acknowledged>>
  BY <1>1, StoreAssumption DEF WriteLocally, TypeOK
<1>3. m \in [id : Write, kind : Kind, fields : Masks] /\ m.id = writes + 1
  BY <1>1, <1>2 DEF Write
<1>4. /\ n \in Nat /\ DOMAIN mutationQueue = 1..n
      /\ DOMAIN acks = 1..Len(acks) /\ Len(acks) \in Nat /\ Len(acks) <= n
      /\ \A i \in 1..n : mutationQueue[i].id \in Nat
      /\ \A k \in DOMAIN acks : k \in 1..n
  <2>1. /\ n \in Nat /\ DOMAIN mutationQueue = 1..n
        /\ DOMAIN acks = 1..Len(acks) /\ Len(acks) \in Nat /\ Len(acks) <= n
    BY <1>1, SeqFacts
  <2>2. \A i \in 1..n : mutationQueue[i] \in [id : Write, kind : Kind, fields : Masks]
    BY <2>1, SeqFacts
  <2>3. \A i \in 1..n : mutationQueue[i].id \in Nat
    BY <1>2, <2>2 DEF Write
  <2> QED BY <2>1, <2>3
<1>5. /\ mutationQueue' \in Seq([id : Write, kind : Kind, fields : Masks])
      /\ Len(mutationQueue') = n + 1 /\ DOMAIN mutationQueue' = 1..(n + 1)
      /\ mutationQueue'[n + 1] = m
      /\ \A i \in 1..n : mutationQueue'[i] = mutationQueue[i]
  BY <1>1, <1>2, <1>3, <1>4, SeqFacts, AppendProperties
<1>6. TypeOK'
  <2>1. writes' \in 0..MaxWrites /\ Len(acks) <= Len(mutationQueue')
    BY <1>2, <1>4, <1>5
  <2> QED BY <1>2, <1>5, <2>1 DEF TypeOK
<1>7. \A i \in 1..n : mutationQueue[i].id <= writes
  BY <1>4 DEF QueueInv
<1>8. \A i \in DOMAIN mutationQueue' : i \in 1..n \/ i = n + 1
  BY <1>4, <1>5
<1>9. QueueInv'
  <2>1. ASSUME NEW i \in DOMAIN mutationQueue'  PROVE mutationQueue'[i].id <= writes + 1
    BY <1>2, <1>3, <1>4, <1>5, <1>7, <1>8
  <2>2. ASSUME NEW i \in DOMAIN mutationQueue', NEW j \in DOMAIN mutationQueue', i < j
        PROVE  mutationQueue'[i].id < mutationQueue'[j].id
    <3>1. i \in 1..n
      BY <1>4, <1>5, <2>2
    <3>2. CASE j \in 1..n
      BY <1>4, <1>5, <2>2, <3>1, <3>2 DEF QueueInv
    <3>3. CASE j = n + 1
      BY <1>2, <1>3, <1>4, <1>5, <1>7, <3>1, <3>3
    <3> QED BY <1>8, <3>2, <3>3
  <2> QED BY <1>2, <2>1, <2>2 DEF QueueInv
<1>10. AcksInv'
  <2>1. ASSUME NEW k \in DOMAIN acks
        PROVE  Committed(mutationQueue[k], acks[k])' /\ OnlyLeaves(mutationQueue[k].id, acks[k])'
    BY <1>2, <1>4, <1>5 DEF AcksInv, Committed, OnlyLeaves
  <2> QED BY <1>2, <2>1 DEF AcksInv
<1>11. CacheInv'
  BY <1>2 DEF CacheInv, SyncedCopyIsTheServers
<1>12. AcknowledgedInv'
  <2>1. ASSUME NEW w \in acknowledged
        PROVE  /\ w.id <= writes + 1 /\ OnlyLeaves(w.id, w.version)'
               /\ \A i \in DOMAIN mutationQueue' : w.id < mutationQueue'[i].id
    <3>1. w.id <= writes /\ w.id \in Nat
      BY <1>2 DEF AcknowledgedInv, TypeOK, Write
    <3>2. \A i \in 1..n : w.id < mutationQueue[i].id
      BY <1>4 DEF AcknowledgedInv
    <3>3. OnlyLeaves(w.id, w.version)'
      BY <1>2 DEF AcknowledgedInv, OnlyLeaves
    <3>4. w.id < writes + 1
      BY <1>2, <3>1
    <3> QED BY <1>2, <1>3, <1>5, <1>8, <3>1, <3>2, <3>3, <3>4
  <2>2. DistinctWritesAreApplied'
    BY <1>2 DEF AcknowledgedInv, DistinctWritesAreApplied, AcknowledgedWritesAreApplied,
                OneWriteEachVersion, Holds
  <2> QED BY <1>2, <2>1, <2>2 DEF AcknowledgedInv
<1> QED BY <1>6, <1>9, <1>10, <1>11, <1>12

LEMMA TailFacts ==
  ASSUME NEW S, NEW q \in Seq(S), q # << >>
  PROVE  /\ Tail(q) \in Seq(S) /\ Head(q) = q[1] /\ 1 \in DOMAIN q
         /\ Len(q) \in Nat \ {0} /\ Len(Tail(q)) = Len(q) - 1
         /\ DOMAIN Tail(q) = 1..(Len(q) - 1)
         /\ \A i \in DOMAIN Tail(q) : i \in Nat /\ i + 1 \in DOMAIN q /\ Tail(q)[i] = q[i + 1]
                                      /\ 1 < i + 1
<1>1. /\ Len(q) \in Nat \ {0} /\ DOMAIN q = 1..Len(q)
  BY LenProperties, EmptySeq
<1>2. /\ Tail(q) \in Seq(S) /\ Head(q) = q[1] /\ Len(Tail(q)) = Len(q) - 1
      /\ \A i \in 1..Len(Tail(q)) : Tail(q)[i] = q[i + 1]
  BY HeadTailProperties
<1>3. DOMAIN Tail(q) = 1..Len(Tail(q))
  BY <1>2, LenProperties
<1> QED BY <1>1, <1>2, <1>3

(* The oldest batch leaves the queue, the order of the rest is what it was. *)
LEMMA QueueTail ==
  ASSUME TypeOK, QueueInv, mutationQueue # << >>, mutationQueue' = Tail(mutationQueue),
         writes' = writes, history' = history
  PROVE  /\ QueueInv'
         /\ mutationQueue' \in Seq([id : Write, kind : Kind, fields : Masks])
         /\ Len(mutationQueue) \in Nat /\ Len(mutationQueue') = Len(mutationQueue) - 1
         /\ \A i \in DOMAIN mutationQueue' :
               /\ i \in Nat /\ i + 1 \in DOMAIN mutationQueue /\ 1 < i + 1
               /\ mutationQueue'[i] = mutationQueue[i + 1]
<1>1. mutationQueue \in Seq([id : Write, kind : Kind, fields : Masks])
  BY SeqFacts
<1>2. /\ mutationQueue' \in Seq([id : Write, kind : Kind, fields : Masks])
      /\ Len(mutationQueue) \in Nat /\ Len(mutationQueue') = Len(mutationQueue) - 1
      /\ \A i \in DOMAIN mutationQueue' :
               /\ i \in Nat /\ i + 1 \in DOMAIN mutationQueue /\ 1 < i + 1
               /\ mutationQueue'[i] = mutationQueue[i + 1]
  BY <1>1, TailFacts
<1>3. ASSUME NEW i \in DOMAIN mutationQueue'  PROVE mutationQueue'[i].id <= writes
  BY <1>2 DEF QueueInv
<1>4. ASSUME NEW i \in DOMAIN mutationQueue', NEW j \in DOMAIN mutationQueue', i < j
      PROVE  mutationQueue'[i].id < mutationQueue'[j].id
  <2>1. i + 1 < j + 1
    BY <1>2, <1>4
  <2> QED BY <1>2, <2>1 DEF QueueInv
<1> QED BY <1>2, <1>3, <1>4 DEF QueueInv

LEMMA RejectBatchKeeps ==
  ASSUME IInv, RejectBatch
  PROVE  IInv'
<1> USE DEF IInv
<1>1. /\ mutationQueue # << >> /\ mutationQueue' = Tail(mutationQueue) /\ acks = << >>
      /\ UNCHANGED <<remoteDocument, history, acks, seen, writes, acknowledged>>
  BY DEF RejectBatch
<1>2. QueueInv'
  BY <1>1, QueueTail
<1>3. /\ mutationQueue' \in Seq([id : Write, kind : Kind, fields : Masks])
      /\ Len(mutationQueue) \in Nat /\ Len(mutationQueue') = Len(mutationQueue) - 1
      /\ \A i \in DOMAIN mutationQueue' :
               /\ i \in Nat /\ i + 1 \in DOMAIN mutationQueue /\ 1 < i + 1
               /\ mutationQueue'[i] = mutationQueue[i + 1]
  BY <1>1, QueueTail
<1>4. Len(acks) = 0 /\ DOMAIN acks = {} /\ Len(mutationQueue) # 0
  BY <1>1, SeqFacts, EmptySeq
<1>5. TypeOK'
  <2>1. Len(acks)' <= Len(mutationQueue')
    BY <1>1, <1>3, <1>4
  <2> QED BY <1>1, <1>3, <2>1 DEF TypeOK
<1>6. AcksInv'
  BY <1>1, <1>4 DEF AcksInv
<1>7. CacheInv'
  BY <1>1 DEF CacheInv, SyncedCopyIsTheServers
<1>8. AcknowledgedInv'
  <2>1. ASSUME NEW w \in acknowledged, NEW i \in DOMAIN mutationQueue'
        PROVE  w.id < mutationQueue'[i].id
    BY <1>3 DEF AcknowledgedInv
  <2>2. ASSUME NEW w \in acknowledged PROVE OnlyLeaves(w.id, w.version)'
    BY <1>1 DEF AcknowledgedInv, OnlyLeaves
  <2>3. DistinctWritesAreApplied'
    BY <1>1 DEF AcknowledgedInv, DistinctWritesAreApplied, AcknowledgedWritesAreApplied,
                OneWriteEachVersion, Holds
  <2> QED BY <1>1, <1>4, <2>1, <2>2, <2>3 DEF AcknowledgedInv
<1> QED BY <1>2, <1>5, <1>6, <1>7, <1>8

(* A state of the server replaces what was acknowledged up to its version. *)
LEMMA ApplyRemoteEventKeeps ==
  ASSUME IInv, NEW version \in DOMAIN history, ApplyRemoteEvent(version)
  PROVE  /\ IInv'
         /\ remoteDocument'.version >= remoteDocument.version
<1> USE DEF IInv
<1>1. /\ seen < version /\ seen' = version
      /\ remoteDocument' = IF ShouldCache(version)
                           THEN Document(history[version], version, FALSE)
                           ELSE remoteDocument
      /\ UNCHANGED <<mutationQueue, history, acks, writes, acknowledged>>
  BY DEF ApplyRemoteEvent
<1>2. /\ Len(history) \in Nat /\ DOMAIN history = 1..Len(history)
      /\ Len(history) <= MaxVersion /\ MaxVersion \in Nat /\ history[version] \in Data
  BY SeqFacts DEF QueueInv
<1>3. /\ version \in Nat \ {0} /\ version \in Version /\ seen' \in 0..Len(history)
      /\ remoteDocument.version \in Nat
  BY <1>1, <1>2 DEF Version, TypeOK
<1>4. QueueInv' /\ AcksInv'
  BY <1>1 DEF QueueInv, AcksInv, Committed, OnlyLeaves
<1>5. ASSUME NEW w \in acknowledged
      PROVE  /\ OnlyLeaves(w.id, w.version)' /\ w.version \in Nat
             /\ w.version <= remoteDocument.version
  BY <1>1, <1>2 DEF AcknowledgedInv, OnlyLeaves, TypeOK, Version
<1>6. CASE ShouldCache(version)
  <2>1. /\ remoteDocument'.type = "document" /\ ~remoteDocument'.pending
        /\ remoteDocument'.version = version /\ remoteDocument'.data = history[version]
        /\ remoteDocument' \in [type : {"none", "document", "unknown"}, version : Version,
                                data : Data, pending : BOOLEAN]
    BY <1>1, <1>2, <1>3, <1>6 DEF Document
  <2>2. remoteDocument.version <= version
    BY <1>3, <1>6 DEF ShouldCache, CacheInv
  <2>3. TypeOK'
    BY <1>1, <1>3, <2>1 DEF TypeOK
  <2>4. CacheInv'
    <3>1. SyncedCopyIsTheServers'
      BY <1>1, <2>1 DEF SyncedCopyIsTheServers
    <3>2. remoteDocument'.type # "none" /\ remoteDocument'.type # "unknown"
      BY <2>1
    <3>3. remoteDocument'.version \in DOMAIN history'
      BY <1>1, <2>1
    <3>4. seen' = version /\ version <= version
      BY <1>1, <1>3
    <3>5. seen' <= remoteDocument'.version
      BY <2>1, <3>4
    <3> QED BY <2>1, <3>1, <3>2, <3>3, <3>5 DEF CacheInv
  <2>5. AcknowledgedInv'
    <3>1. DistinctWritesAreApplied'
      BY <1>1, <2>1 DEF DistinctWritesAreApplied, AcknowledgedWritesAreApplied, Holds
    <3>2. ASSUME NEW w \in acknowledged PROVE w.version <= version
      BY <1>3, <1>5, <2>2
    <3> QED BY <1>1, <1>5, <2>1, <3>1, <3>2 DEF AcknowledgedInv
  <2> QED BY <1>3, <1>4, <2>1, <2>2, <2>3, <2>4, <2>5
<1>7. CASE ~ShouldCache(version)
  <2>1. /\ remoteDocument' = remoteDocument /\ remoteDocument.type # "none"
        /\ version <= remoteDocument.version
        /\ version = remoteDocument.version => ~remoteDocument.pending
    BY <1>1, <1>3, <1>7 DEF ShouldCache
  <2>2. remoteDocument.type \in {"document", "unknown"}
    BY <2>1 DEF TypeOK
  <2>3. TypeOK'
    BY <1>1, <1>3, <2>1 DEF TypeOK
  <2>4. CacheInv'
    BY <1>1, <1>3, <2>1, <2>2 DEF CacheInv, SyncedCopyIsTheServers
  <2>5. AcknowledgedInv'
    <3>1. DistinctWritesAreApplied'
      BY <1>1, <2>1 DEF AcknowledgedInv, DistinctWritesAreApplied,
                        AcknowledgedWritesAreApplied, OneWriteEachVersion, Holds
    <3> QED BY <1>1, <1>5, <2>1, <3>1 DEF AcknowledgedInv
  <2> QED BY <1>3, <1>4, <2>1, <2>3, <2>4, <2>5
<1> QED BY <1>6, <1>7

(* A closed stream or a new launch loses answers, and no state. *)
LEMMA LostAnswersKeep ==
  ASSUME IInv, acks' = << >>, seen' \in 0..seen,
         UNCHANGED <<mutationQueue, remoteDocument, history, writes, acknowledged>>
  PROVE  IInv'
<1> USE DEF IInv
<1>1. /\ Len(acks') = 0 /\ DOMAIN acks' = {} /\ acks' \in Seq(Version)
      /\ Len(mutationQueue) \in Nat
  BY SeqFacts, EmptySeq
<1>2. /\ seen \in Nat /\ seen' \in Nat /\ seen' <= seen /\ seen' \in 0..Len(history)
      /\ remoteDocument.version \in Nat
  BY SeqFacts DEF TypeOK, Version
<1>3. TypeOK'
  BY <1>1, <1>2 DEF TypeOK
<1>4. QueueInv' /\ AcksInv'
  BY <1>1 DEF QueueInv, AcksInv
<1>5. CacheInv'
  <2>1. seen <= remoteDocument.version
    BY DEF CacheInv
  <2>2. /\ seen' <= remoteDocument.version
        /\ seen' # 0 /\ seen' = remoteDocument.version => seen # 0 /\ seen = remoteDocument.version
    BY <1>2, <2>1
  <2>3. remoteDocument' = remoteDocument /\ history' = history
    OBVIOUS
  <2>4. SyncedCopyIsTheServers'
    BY <2>3 DEF CacheInv, SyncedCopyIsTheServers
  <2>5. seen' # 0 /\ seen' = remoteDocument'.version =>
          remoteDocument'.type = "document" /\ ~remoteDocument'.pending
    BY <2>2, <2>3 DEF CacheInv
  <2>6. /\ remoteDocument'.type = "none" => remoteDocument'.version = 0
        /\ remoteDocument'.type = "unknown" => remoteDocument'.pending
        /\ remoteDocument'.type # "none" => remoteDocument'.version \in DOMAIN history'
    BY <2>3 DEF CacheInv
  <2>7. seen' <= remoteDocument'.version
    BY <2>2, <2>3
  <2> QED BY <2>4, <2>5, <2>6, <2>7 DEF CacheInv
<1>6. AcknowledgedInv'
  <2>1. DistinctWritesAreApplied'
    BY DEF AcknowledgedInv, DistinctWritesAreApplied,
           AcknowledgedWritesAreApplied, OneWriteEachVersion, Holds
  <2>2. ASSUME NEW w \in acknowledged PROVE OnlyLeaves(w.id, w.version)'
    BY DEF AcknowledgedInv, OnlyLeaves
  <2> QED BY <1>1, <2>1, <2>2 DEF AcknowledgedInv
<1> QED BY <1>3, <1>4, <1>5, <1>6

LEMMA CollectGarbageKeeps ==
  ASSUME IInv, CollectGarbage
  PROVE  IInv'
<1> USE DEF IInv
<1>1. /\ mutationQueue = << >> /\ remoteDocument' = NoDocument /\ seen' = 0
      /\ acknowledged' = {} /\ UNCHANGED <<mutationQueue, history, acks, writes>>
  BY DEF CollectGarbage
<1>2. /\ remoteDocument'.type = "none" /\ remoteDocument'.version = 0
      /\ remoteDocument' \in [type : {"none", "document", "unknown"}, version : Version,
                              data : Data, pending : BOOLEAN]
  BY <1>1, StoreAssumption DEF NoDocument, Empty, Data, Version
<1>3. TypeOK'
  BY <1>1, <1>2, SeqFacts DEF TypeOK
<1>4. QueueInv' /\ AcksInv'
  BY <1>1 DEF QueueInv, AcksInv, Committed, OnlyLeaves
<1>5. CacheInv'
  BY <1>1, <1>2 DEF CacheInv, SyncedCopyIsTheServers
<1>6. AcknowledgedInv'
  BY <1>1, <1>2 DEF AcknowledgedInv, DistinctWritesAreApplied, AcknowledgedWritesAreApplied
<1> QED BY <1>3, <1>4, <1>5, <1>6

-----------------------------------------------------------------------------
(* An acknowledgement. *)

(* A write acknowledged earlier outlives the change a later one makes to the  *)
(* cached document, unless the later one took it away on the server as well.  *)
LEMMA EarlierWriteStays ==
  ASSUME NEW m, IsWrite(m), NEW version \in Nat, Committed(m, version),
         NEW w, w.id \in Nat, w.version \in Nat, w.fields \in SUBSET Field,
         w.id # m.id, OnlyLeaves(w.id, w.version),
         remoteDocument.data \in [Field -> SUBSET Nat],
         remoteDocument.version \in DOMAIN history, remoteDocument.version \in Nat,
         w.version <= remoteDocument.version, remoteDocument.version <= version,
         Holds(remoteDocument, w),
         NEW f \in w.fields, w.id \in history[version][f]
  PROVE  w.id \in Mutated(m, remoteDocument.data)[f]
<1>1. f \in Field /\ version \in DOMAIN history
  BY DEF Committed
<1>2. w.id \in history[remoteDocument.version][f]
  BY <1>1 DEF OnlyLeaves
<1>3. w.id \in remoteDocument.data[f]
  BY <1>2 DEF Holds
<1>4. /\ ~(f \in m.fields /\ m.kind # "union")
      /\ ~(f \notin m.fields /\ m.kind = "set")
  BY <1>1 DEF Committed
<1> QED BY <1>1, <1>3, <1>4, MutatedFields

(* The acknowledged batch is the oldest one, and its version is on the server. *)
LEMMA AnsweredBatch ==
  ASSUME IInv, AcknowledgeBatch,
         NEW m, m = Head(mutationQueue), NEW version, version = Head(acks)
  PROVE  /\ m \in [id : Write, kind : Kind, fields : Masks] /\ IsWrite(m)
         /\ m.id \in Nat /\ m.id <= writes
         /\ version \in DOMAIN history /\ version \in Version /\ version \in Nat \ {0}
         /\ Committed(m, version) /\ OnlyLeaves(m.id, version)
         /\ acks \in Seq(Version) /\ acks # << >> /\ mutationQueue # << >>
         /\ \A w \in acknowledged : w.id < m.id /\ w.version <= version
         /\ \A i \in DOMAIN mutationQueue : 1 < i => m.id < mutationQueue[i].id
         /\ \A k \in DOMAIN acks : 1 < k => version <= acks[k]
<1> USE DEF IInv
<1>1. acks # << >> /\ acks \in Seq(Version) /\ Len(acks) \in Nat /\ Len(acks) # 0
  BY SeqFacts, EmptySeq DEF AcknowledgeBatch
<1>2. mutationQueue # << >> /\ mutationQueue \in Seq([id : Write, kind : Kind, fields : Masks])
  <2>1. Len(mutationQueue) # 0
    BY <1>1, SeqFacts
  <2> QED BY <2>1, SeqFacts, EmptySeq
<1>3. m = mutationQueue[1] /\ version = acks[1] /\ 1 \in DOMAIN acks /\ 1 \in DOMAIN mutationQueue
  BY <1>1, <1>2, TailFacts
<1>4. m \in [id : Write, kind : Kind, fields : Masks] /\ version \in Version
  BY <1>3, SeqFacts
<1>5. IsWrite(m) /\ m.id \in Nat /\ m.id <= writes
  BY <1>3, <1>4, QueuedIsWrite DEF QueueInv, IsWrite
<1>6. Committed(m, version) /\ OnlyLeaves(m.id, version)
  BY <1>3 DEF AcksInv
<1>7. version \in DOMAIN history /\ version \in Nat \ {0}
  BY <1>6, SeqFacts DEF Committed
<1>8. \A w \in acknowledged : w.id < m.id /\ w.version <= version
  BY <1>3 DEF AcknowledgedInv
<1>9. \A i \in DOMAIN mutationQueue : 1 < i => m.id < mutationQueue[i].id
  BY <1>3 DEF QueueInv
<1>10. \A k \in DOMAIN acks : 1 < k => version <= acks[k]
  BY <1>3 DEF AcksInv
<1> QED BY <1>1, <1>2, <1>4, <1>5, <1>6, <1>7, <1>8, <1>9, <1>10

(* What every acknowledgement does to queue and answers. *)
LEMMA AnsweredQueue ==
  ASSUME IInv, AcknowledgeBatch
  PROVE  /\ QueueInv' /\ AcksInv'
         /\ mutationQueue' \in Seq([id : Write, kind : Kind, fields : Masks])
         /\ acks' \in Seq(Version) /\ Len(acks') <= Len(mutationQueue')
         /\ \A i \in DOMAIN mutationQueue' :
               /\ i + 1 \in DOMAIN mutationQueue /\ 1 < i + 1
               /\ mutationQueue'[i] = mutationQueue[i + 1]
         /\ \A k \in DOMAIN acks' :
               /\ k + 1 \in DOMAIN acks /\ 1 < k + 1 /\ acks'[k] = acks[k + 1]
<1> USE DEF IInv
<1>1. PICK m, version : m = Head(mutationQueue) /\ version = Head(acks)
  OBVIOUS
<1>2. acks \in Seq(Version) /\ acks # << >> /\ mutationQueue # << >>
  BY <1>1, AnsweredBatch
<1>3. /\ mutationQueue' = Tail(mutationQueue) /\ acks' = Tail(acks)
      /\ UNCHANGED <<history, seen, writes>>
  BY DEF AcknowledgeBatch
<1>4. /\ QueueInv'
      /\ mutationQueue' \in Seq([id : Write, kind : Kind, fields : Masks])
      /\ Len(mutationQueue) \in Nat /\ Len(mutationQueue') = Len(mutationQueue) - 1
      /\ \A i \in DOMAIN mutationQueue' :
               /\ i \in Nat /\ i + 1 \in DOMAIN mutationQueue /\ 1 < i + 1
               /\ mutationQueue'[i] = mutationQueue[i + 1]
  BY <1>2, <1>3, QueueTail
<1>5. /\ acks' \in Seq(Version) /\ Len(acks) \in Nat /\ Len(acks') = Len(acks) - 1
      /\ DOMAIN acks' = 1..(Len(acks) - 1)
      /\ \A k \in DOMAIN acks' :
               /\ k \in Nat /\ k + 1 \in DOMAIN acks /\ 1 < k + 1 /\ acks'[k] = acks[k + 1]
  BY <1>2, <1>3, TailFacts
<1>6. Len(acks') <= Len(mutationQueue')
  BY <1>4, <1>5, SeqFacts
<1>7. AcksInv'
  <2>1. ASSUME NEW k \in DOMAIN acks'
        PROVE  Committed(mutationQueue[k], acks[k])' /\ OnlyLeaves(mutationQueue[k].id, acks[k])'
    <3>1. PICK w, v : w = mutationQueue[k + 1] /\ v = acks[k + 1]
      OBVIOUS
    <3>2. Committed(w, v) /\ OnlyLeaves(w.id, v)
      BY <1>5, <3>1 DEF AcksInv
    <3>3. Committed(w, v)' /\ OnlyLeaves(w.id, v)'
      BY <1>3, <3>2 DEF Committed, OnlyLeaves
    <3>4. k \in DOMAIN mutationQueue'
      <4>1. DOMAIN mutationQueue' = 1..Len(mutationQueue')
        BY <1>4, LenProperties
      <4> QED BY <1>4, <1>5, <1>6, <4>1
    <3>5. (w = mutationQueue[k] /\ v = acks[k])'
      BY <1>4, <1>5, <3>1, <3>4
    <3> QED BY <3>3, <3>5
  <2>2. ASSUME NEW k \in DOMAIN acks', NEW l \in DOMAIN acks', k < l
        PROVE  acks'[k] <= acks'[l]
    <3>1. k + 1 < l + 1
      BY <1>5, <2>2
    <3> QED BY <1>5, <3>1 DEF AcksInv
  <2> QED BY <2>1, <2>2 DEF AcksInv
<1> QED BY <1>4, <1>5, <1>6, <1>7

LEMMA AcknowledgeBatchKeeps ==
  ASSUME IInv, AcknowledgeBatch
  PROVE  IInv' /\ remoteDocument'.version >= remoteDocument.version
<1> USE DEF IInv
<1>1. PICK m, version : m = Head(mutationQueue) /\ version = Head(acks)
  OBVIOUS
<1>2. /\ m \in [id : Write, kind : Kind, fields : Masks] /\ IsWrite(m)
      /\ m.id \in Nat /\ m.id <= writes
      /\ version \in DOMAIN history /\ version \in Version /\ version \in Nat \ {0}
      /\ Committed(m, version) /\ OnlyLeaves(m.id, version)
      /\ \A w \in acknowledged : w.id < m.id /\ w.version <= version
      /\ \A i \in DOMAIN mutationQueue : 1 < i => m.id < mutationQueue[i].id
      /\ \A k \in DOMAIN acks : 1 < k => version <= acks[k]
  BY <1>1, AnsweredBatch
<1>3. PICK wm : wm = [id |-> m.id, fields |-> m.fields, version |-> version]
  OBVIOUS
<1>4. /\ remoteDocument' = ApplyBatchResult(m, version)
      /\ acknowledged' = IF remoteDocument'.type = "document"
                         THEN acknowledged \cup {wm} ELSE {}
      /\ UNCHANGED <<history, seen, writes>>
  BY <1>1, <1>3 DEF AcknowledgeBatch
<1>5. /\ QueueInv' /\ AcksInv'
      /\ mutationQueue' \in Seq([id : Write, kind : Kind, fields : Masks])
      /\ acks' \in Seq(Version) /\ Len(acks') <= Len(mutationQueue')
      /\ \A i \in DOMAIN mutationQueue' :
               /\ i + 1 \in DOMAIN mutationQueue /\ 1 < i + 1
               /\ mutationQueue'[i] = mutationQueue[i + 1]
      /\ \A k \in DOMAIN acks' :
               /\ k + 1 \in DOMAIN acks /\ 1 < k + 1 /\ acks'[k] = acks[k + 1]
  BY AnsweredQueue
<1>6. /\ wm \in [id : Write, fields : Masks, version : Version]
      /\ wm.id = m.id /\ wm.version = version /\ wm.fields = m.fields
  BY <1>2, <1>3
<1>7. /\ remoteDocument.version \in Nat /\ remoteDocument.version \in Version
      /\ seen \in Nat /\ seen <= remoteDocument.version
      /\ remoteDocument.data \in Data /\ MaxWrites \in Nat
      /\ DOMAIN history = 1..Len(history) /\ Len(history) \in Nat
  BY SeqFacts, StoreAssumption DEF TypeOK, CacheInv, Version
<1>8. ASSUME NEW w \in acknowledged \cup {wm}
      PROVE  /\ w \in [id : Write, fields : Masks, version : Version]
             /\ w.version <= version /\ w.id <= writes
             /\ \A i \in DOMAIN mutationQueue' : w.id < mutationQueue'[i].id
             /\ \A k \in DOMAIN acks' : w.version <= acks'[k]
             /\ OnlyLeaves(w.id, w.version)'
  <2>1. CASE w = wm
    <3>1. OnlyLeaves(m.id, version)'
      BY <1>2, <1>4 DEF OnlyLeaves
    <3> QED BY <1>2, <1>5, <1>6, <2>1, <3>1
  <2>2. CASE w \in acknowledged
    <3>1. OnlyLeaves(w.id, w.version)'
      BY <1>4, <2>2 DEF AcknowledgedInv, OnlyLeaves
    <3>2. w \in [id : Write, fields : Masks, version : Version] /\ w.id <= writes
      BY <2>2 DEF TypeOK, AcknowledgedInv
    <3> QED BY <1>2, <1>5, <2>2, <3>1, <3>2 DEF AcknowledgedInv
  <2> QED BY <2>1, <2>2
<1>9. CASE remoteDocument.type = "none" \/ remoteDocument.version < version
  <2>1. remoteDocument' = ApplyToRemoteDocument(m, remoteDocument, version)
    BY <1>4, <1>9 DEF ApplyBatchResult
  <2>2. remoteDocument.version < version /\ seen < version
    BY <1>2, <1>7, <1>9 DEF CacheInv
  <2>3. CASE PreconditionHolds(m, remoteDocument.type = "document")
    <3>1. remoteDocument' = Document(Mutated(m, remoteDocument.data), version, TRUE)
      BY <2>1, <2>3 DEF ApplyToRemoteDocument
    <3>2. /\ remoteDocument'.type = "document" /\ remoteDocument'.version = version
          /\ remoteDocument'.data = Mutated(m, remoteDocument.data) /\ remoteDocument'.pending = TRUE
          /\ acknowledged' = acknowledged \cup {wm}
      BY <1>4, <3>1 DEF Document
    <3>3. Mutated(m, remoteDocument.data) \in Data
      BY <1>2, <1>7, MutatedType, QueuedIsWrite
    <3>4. remoteDocument' \in [type : {"none", "document", "unknown"}, version : Version,
                               data : Data, pending : BOOLEAN]
      BY <1>2, <3>1, <3>3 DEF Document
    <3>5. TypeOK'
      BY <1>4, <1>5, <1>8, <3>2, <3>4 DEF TypeOK
    <3>6. CacheInv'
      <4>1. seen' # version /\ seen' <= version
        BY <1>2, <1>4, <1>7, <2>2
      <4>2. SyncedCopyIsTheServers'
        BY <3>2 DEF SyncedCopyIsTheServers
      <4> QED BY <1>2, <1>4, <3>2, <4>1, <4>2 DEF CacheInv
    <3>7. DistinctWritesAreApplied'
      <4> SUFFICES ASSUME OneWriteEachVersion', NEW w \in acknowledged \cup {wm}, NEW f \in w.fields,
                          w.id \in history[version][f]
                   PROVE  w.id \in Mutated(m, remoteDocument.data)[f]
        BY <1>4, <3>2 DEF DistinctWritesAreApplied, AcknowledgedWritesAreApplied, Holds
      <4>1. remoteDocument.data \in [Field -> SUBSET Nat]
        BY <1>7 DEF Data, Write
      <4>2. CASE w = wm
        <5>1. f \in m.fields /\ f \in Field
          BY <1>2, <1>6, <4>2 DEF IsWrite
        <5> QED BY <1>2, <1>6, <4>1, <4>2, <5>1, MutatedFields
      <4>3. CASE w \in acknowledged
        <5>1. OneWriteEachVersion
          BY <3>2 DEF OneWriteEachVersion
        <5>2. Holds(remoteDocument, w)
          BY <4>3, <5>1 DEF AcknowledgedInv, DistinctWritesAreApplied,
                            AcknowledgedWritesAreApplied
        <5>3. /\ remoteDocument.version \in DOMAIN history
              /\ w.version <= remoteDocument.version /\ OnlyLeaves(w.id, w.version)
              /\ w.id < m.id
          BY <1>2, <4>3 DEF AcknowledgedInv, CacheInv
        <5>4. /\ w.id \in Nat /\ w.version \in Nat /\ w.fields \in SUBSET Field
          <6>1. w \in [id : Write, fields : Masks, version : Version]
            BY <1>8
          <6> QED BY <1>7, <6>1, StoreAssumption DEF Write, Version
        <5>5. w.id # m.id /\ remoteDocument.version <= version /\ version \in Nat
          BY <1>2, <1>7, <2>2, <5>3, <5>4
        <5> QED BY <1>2, <1>7, <4>1, <5>2, <5>3, <5>4, <5>5, EarlierWriteStays
      <4> QED BY <4>2, <4>3
    <3>8. AcknowledgedInv'
      BY <1>4, <1>6, <1>8, <3>2, <3>7 DEF AcknowledgedInv
    <3> QED BY <1>2, <1>5, <1>7, <2>2, <3>2, <3>5, <3>6, <3>8
  <2>4. CASE ~PreconditionHolds(m, remoteDocument.type = "document")
    <3>1. /\ remoteDocument'.type = "unknown" /\ remoteDocument'.version = version
          /\ remoteDocument'.pending = TRUE /\ acknowledged' = {}
          /\ remoteDocument' \in [type : {"none", "document", "unknown"}, version : Version,
                                  data : Data, pending : BOOLEAN]
      BY <1>2, <1>4, <2>1, <2>4 DEF ApplyToRemoteDocument, UnknownDocument, Empty, Data
    <3>2. TypeOK'
      BY <1>4, <1>5, <3>1 DEF TypeOK
    <3>3. CacheInv'
      <4>1. seen' # version /\ seen' <= version
        BY <1>2, <1>4, <1>7, <2>2
      <4>2. SyncedCopyIsTheServers'
        BY <3>1 DEF SyncedCopyIsTheServers
      <4> QED BY <1>2, <1>4, <3>1, <4>1, <4>2 DEF CacheInv
    <3>4. AcknowledgedInv'
      BY <3>1 DEF AcknowledgedInv, DistinctWritesAreApplied, AcknowledgedWritesAreApplied
    <3> QED BY <1>2, <1>5, <1>7, <2>2, <3>1, <3>2, <3>3, <3>4
  <2> QED BY <2>3, <2>4
<1>10. CASE ~(remoteDocument.type = "none" \/ remoteDocument.version < version)
  <2>1. remoteDocument' = remoteDocument /\ remoteDocument.type # "none"
    BY <1>4, <1>10 DEF ApplyBatchResult
  <2>2. version <= remoteDocument.version
    BY <1>2, <1>7, <1>10
  <2>3. acknowledged' \subseteq acknowledged \cup {wm}
    BY <1>4
  <2>4. TypeOK'
    BY <1>4, <1>5, <1>8, <2>1, <2>3 DEF TypeOK
  <2>5. CacheInv'
    BY <1>4, <2>1 DEF CacheInv, SyncedCopyIsTheServers
  <2>6. AcknowledgedInv'
    <3>1. CASE remoteDocument.type # "document"
      <4>1. acknowledged' = {} /\ remoteDocument'.type # "document"
        BY <1>4, <2>1, <3>1
      <4> QED BY <4>1 DEF AcknowledgedInv, DistinctWritesAreApplied, AcknowledgedWritesAreApplied
    <3>2. CASE remoteDocument.type = "document"
      <4>1. acknowledged' = acknowledged \cup {wm}
        BY <1>4, <2>1, <3>2
      <4>2. ASSUME NEW w \in acknowledged \cup {wm}  PROVE w.version <= remoteDocument.version
        BY <1>6, <2>2, <4>2 DEF AcknowledgedInv
      <4>3. DistinctWritesAreApplied'
        <5> SUFFICES ASSUME OneWriteEachVersion', NEW w \in acknowledged \cup {wm}, NEW f \in w.fields,
                            w.id \in history[remoteDocument.version][f]
                     PROVE  w.id \in remoteDocument.data[f]
          BY <1>4, <2>1, <4>1 DEF DistinctWritesAreApplied, AcknowledgedWritesAreApplied, Holds
        <5>1. CASE w \in acknowledged
          <6>1. OneWriteEachVersion
            BY <4>1 DEF OneWriteEachVersion
          <6> QED BY <5>1, <6>1 DEF AcknowledgedInv, DistinctWritesAreApplied,
                                    AcknowledgedWritesAreApplied, Holds
        <5>2. CASE w = wm
          <6>1. CASE ~remoteDocument.pending
            BY <3>2, <6>1 DEF CacheInv, SyncedCopyIsTheServers
          <6>2. CASE remoteDocument.pending
            <7>1. PICK other \in acknowledged : other.version = remoteDocument.version
              BY <3>2, <6>2 DEF AcknowledgedInv
            <7>2. other.version <= version /\ other.id < m.id
              BY <1>2
            <7>3. other.version = wm.version
              BY <1>2, <1>6, <1>7, <2>2, <7>1, <7>2
            <7>4. other = wm
              BY <4>1, <7>3 DEF OneWriteEachVersion
            <7> QED BY <1>2, <1>6, <7>2, <7>4
          <6> QED BY <6>1, <6>2
        <5> QED BY <5>1, <5>2
      <4>4. remoteDocument.pending => \E w \in acknowledged : w.version = remoteDocument.version
        BY <3>2 DEF AcknowledgedInv
      <4> QED BY <1>4, <1>8, <2>1, <3>2, <4>1, <4>2, <4>3, <4>4 DEF AcknowledgedInv
    <3> QED BY <3>1, <3>2
  <2> QED BY <1>5, <1>7, <2>1, <2>4, <2>5, <2>6
<1> QED BY <1>9, <1>10

-----------------------------------------------------------------------------
(* The theorems. *)

LEMMA Initially ==
  ASSUME Init
  PROVE  IInv
<1>1. TypeOK
  BY StoreAssumption, EmptySeq DEF Init, TypeOK, NoDocument, Empty, Data, Version
<1>2. QueueInv
  BY StoreAssumption, EmptySeq DEF Init, QueueInv
<1>3. AcksInv
  BY EmptySeq DEF Init, AcksInv
<1>4. CacheInv
  BY DEF Init, NoDocument, CacheInv, SyncedCopyIsTheServers
<1>5. AcknowledgedInv
  BY DEF Init, NoDocument, AcknowledgedInv, DistinctWritesAreApplied,
         AcknowledgedWritesAreApplied
<1> QED BY <1>1, <1>2, <1>3, <1>4, <1>5 DEF IInv

LEMMA Step ==
  ASSUME IInv, [Next]_vars
  PROVE  /\ IInv'
         /\ [remoteDocument'.version >= remoteDocument.version \/ CollectGarbage]_vars
<1>0. remoteDocument.version \in Nat
  BY StoreAssumption DEF IInv, TypeOK, Version
<1>1. ASSUME NEW kind \in Kind, NEW fields \in Masks, WriteLocally(kind, fields)
      PROVE  IInv' /\ remoteDocument'.version >= remoteDocument.version
  BY <1>0, <1>1, WriteLocallyKeeps DEF WriteLocally
<1>2. ASSUME NEW kind \in Kind, NEW fields \in Masks, ForeignWrite(kind, fields)
      PROVE  IInv' /\ remoteDocument'.version >= remoteDocument.version
  BY <1>0, <1>2, ForeignWriteKeeps DEF ForeignWrite
<1>3. CASE AcknowledgeBatch
  BY <1>3, AcknowledgeBatchKeeps
<1>4. CASE RejectBatch
  BY <1>0, <1>4, RejectBatchKeeps DEF RejectBatch
<1>5. ASSUME NEW version \in DOMAIN history, ApplyRemoteEvent(version)
      PROVE  IInv' /\ remoteDocument'.version >= remoteDocument.version
  BY <1>5, ApplyRemoteEventKeeps
<1>6. CASE WriteStreamClosed
  <2>1. seen' \in 0..seen
    BY <1>6 DEF WriteStreamClosed, IInv, TypeOK
  <2> QED BY <1>0, <1>6, <2>1, LostAnswersKeep DEF WriteStreamClosed
<1>7. CASE Relaunch
  BY <1>0, <1>7, LostAnswersKeep DEF Relaunch
<1>8. CASE CollectGarbage
  BY <1>8, CollectGarbageKeeps
<1>9. CASE ServerCommit
  BY <1>0, <1>9, ServerCommitKeeps DEF ServerCommit
<1>10. CASE UNCHANGED vars
  <2>1. TypeOK'
    BY <1>10 DEF IInv, vars, TypeOK
  <2>2. QueueInv' /\ AcksInv' /\ CacheInv'
    BY <1>10 DEF IInv, vars, QueueInv, AcksInv, Committed, OnlyLeaves, CacheInv,
                 SyncedCopyIsTheServers
  <2>3. AcknowledgedInv'
    BY <1>10 DEF IInv, vars, AcknowledgedInv, OnlyLeaves, DistinctWritesAreApplied,
                 AcknowledgedWritesAreApplied, OneWriteEachVersion, Holds
  <2> QED BY <1>10, <2>1, <2>2, <2>3 DEF IInv
<1> QED BY <1>1, <1>2, <1>3, <1>4, <1>5, <1>6, <1>7, <1>8, <1>9, <1>10 DEF Next

(* The invariant holds in every reachable state. *)
THEOREM Invariance == Spec => []IInv
<1>1. Init => IInv
  BY Initially
<1>2. IInv /\ [Next]_vars => IInv'
  BY Step
<1> QED BY <1>1, <1>2, PTL DEF Spec

(* Every variable keeps its type, and no answer is without its batch.         *)
THEOREM TypeCorrect == Spec => []TypeOK
<1>1. IInv => TypeOK
  BY DEF IInv
<1> QED BY <1>1, Invariance, PTL

(* A document that is not marked as awaiting the server never differs from    *)
(* what the server had at its version (ApplyToRemoteDocument marks what it    *)
(* computed itself).                                                          *)
THEOREM SyncedCopy == Spec => []SyncedCopyIsTheServers
<1>1. IInv => SyncedCopyIsTheServers
  BY DEF IInv, CacheInv
<1> QED BY <1>1, Invariance, PTL

(* With nothing pending and every change of the server seen, the view of the  *)
(* app is the state of the server, whatever the order the two streams spoke in.*)
THEOREM SettledView == Spec => []ViewSettles
<1>1. IInv => ViewSettles
  <2> SUFFICES ASSUME IInv, mutationQueue = << >>, seen = Len(history), seen # 0
               PROVE  LocalDocument = Document(Last(history), Len(history), FALSE)
    BY DEF ViewSettles
  <2>1. /\ Len(history) \in Nat /\ DOMAIN history = 1..Len(history)
        /\ remoteDocument \in [type : {"none", "document", "unknown"}, version : Version,
                               data : Data, pending : BOOLEAN]
    BY SeqFacts DEF IInv, TypeOK
  <2>2. /\ remoteDocument.type = "none" => remoteDocument.version = 0
        /\ remoteDocument.type # "none" => remoteDocument.version \in 1..Len(history)
        /\ seen <= remoteDocument.version
    BY <2>1 DEF IInv, CacheInv
  <2>3. remoteDocument.version = Len(history) /\ remoteDocument.type # "none"
    BY <2>1, <2>2
  <2>4. remoteDocument.type = "document" /\ ~remoteDocument.pending
    BY <2>3 DEF IInv, CacheInv
  <2>5. remoteDocument.data = Last(history)
    BY <2>3, <2>4 DEF IInv, CacheInv, SyncedCopyIsTheServers, Last
  <2>6. remoteDocument = Document(Last(history), Len(history), FALSE)
    BY <2>1, <2>3, <2>4, <2>5 DEF Document
  <2> QED BY <2>6, EmptyQueueView
<1> QED BY <1>1, Invariance, PTL

(* Unless two writes were acknowledged with one version, the cached document   *)
(* holds every acknowledged write that the server holds at its version.        *)
THEOREM WritesAreApplied == Spec => []DistinctWritesAreApplied
<1>1. IInv => DistinctWritesAreApplied
  BY DEF IInv, AcknowledgedInv
<1> QED BY <1>1, Invariance, PTL

(* Neither an acknowledgement nor a snapshot ever puts an older document in    *)
(* the place of a newer one.                                                   *)
THEOREM NeverBack == Spec => CacheNeverGoesBack
<1>1. IInv /\ [Next]_vars =>
        [remoteDocument'.version >= remoteDocument.version \/ CollectGarbage]_vars
  BY Step
<1> QED BY <1>1, Invariance, PTL DEF Spec, CacheNeverGoesBack
=============================================================================
