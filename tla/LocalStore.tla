----------------------------- MODULE LocalStore -----------------------------
(***************************************************************************)
(* LocalStore of the Firestore client and the model it computes with, for  *)
(* one document: the mutation queue, the remote document cache and the     *)
(* latency compensated view of the two.  Acknowledgements come on the      *)
(* write stream, server states on the watch stream, and nothing orders the *)
(* one against the other.                                                  *)
(*                                                                         *)
(* A write is a number, and a field holds the set of the writes whose      *)
(* value it has: one for a plain value, several for an array of messages.  *)
(* A version counts the states of the document on the server (external):   *)
(* it is the update_time of a write, and a write that changes nothing is   *)
(* given the one there was.                                                *)
(***************************************************************************)
EXTENDS Naturals, SequencesExt

CONSTANTS
    Field,          \* the fields of the document
    Masks,          \* the sets of fields a write may name
    MaxWrites,      \* bound: writes of the client and of others together
    MaxVersion      \* bound: states of the document on the server

ASSUME StoreAssumption ==
    /\ Field # {} /\ Masks \subseteq (SUBSET Field) \ {{}}
    /\ MaxWrites \in Nat /\ MaxVersion \in Nat

VARIABLES
    mutationQueue,  \* persisted: mutation_queue_, one mutation batch each
    remoteDocument, \* persisted: the document in remote_document_cache_
    history,        \* external: the states of the document on the server
    acks,           \* the versions of the batches committed, not yet read
    seen,           \* where the watch stream would resume
    writes,         \* writes so far
    acknowledged    \* history: acknowledged writes the cache should hold

vars == <<mutationQueue, remoteDocument, history, acks, seen, writes, acknowledged>>

Empty == [f \in Field |-> {}]

-----------------------------------------------------------------------------
(* MaybeDocument and Mutation. *)

(* No entry in the cache, or one that says that there is no document: no      *)
(* version is older, and no precondition holds of either.                     *)
NoDocument ==
    [type |-> "none", version |-> 0, data |-> Empty, pending |-> FALSE]

(* kSynced, or (pending) kCommittedMutations or kLocalMutations.              *)
Document(data, version, pending) ==
    [type |-> "document", version |-> version, data |-> data, pending |-> pending]

UnknownDocument(version) ==
    [type |-> "unknown", version |-> version, data |-> Empty, pending |-> TRUE]

(* setData, setData with merge, updateData, updateData with arrayUnion (an    *)
(* empty patch and a transform, both for a document that exists).             *)
Kind == {"set", "merge", "update", "union"}

(* Precondition::IsValidFor. *)
PreconditionHolds(m, exists) == m.kind \in {"update", "union"} => exists

(* SetMutation, PatchMutation or TransformMutation on the fields it names.    *)
Mutated(m, data) ==
    [f \in Field |->
        CASE f \in m.fields /\ m.kind = "union" -> data[f] \cup {m.id}
          [] f \in m.fields /\ m.kind # "union" -> {m.id}
          [] f \notin m.fields -> IF m.kind = "set" THEN {} ELSE data[f]]

(* Mutant: the document is taken for what the server holds.                  *)
AppliedAsSynced(m, doc, version) ==
    IF PreconditionHolds(m, doc.type = "document")
    THEN Document(Mutated(m, doc.data), version, FALSE)
    ELSE UnknownDocument(version)

(* The server accepted it: when the cache says it could not, what the         *)
(* document is now is not known.                                              *)
ApplyToRemoteDocument(m, doc, version) ==
    IF PreconditionHolds(m, doc.type = "document")
    THEN Document(Mutated(m, doc.data), version, TRUE)
    ELSE UnknownDocument(version)

ApplyToLocalView(m, doc) ==
    IF PreconditionHolds(m, doc.type = "document")
    THEN Document(Mutated(m, doc.data),
                  IF doc.type = "document" THEN doc.version ELSE 0, TRUE)
    ELSE doc

(* LocalDocumentsView::GetDocument. *)
LocalDocument ==
    FoldLeft(LAMBDA doc, m : ApplyToLocalView(m, doc), remoteDocument, mutationQueue)

-----------------------------------------------------------------------------

Init ==
    /\ mutationQueue = << >>
    /\ remoteDocument = NoDocument
    /\ history = << >>
    /\ acks = << >>
    /\ seen = 0
    /\ writes = 0
    /\ acknowledged = {}

WriteLocally(kind, fields) ==
    /\ writes < MaxWrites
    /\ writes' = writes + 1
    /\ mutationQueue' =
          Append(mutationQueue, [id |-> writes + 1, kind |-> kind, fields |-> fields])
    /\ UNCHANGED <<remoteDocument, history, acks, seen, acknowledged>>

(* Mutant: an acknowledgement is applied whatever the cache holds.           *)
CacheAnyway(m, version) == ApplyToRemoteDocument(m, remoteDocument, version)

(* ApplyBatchResult: an acknowledgement older than the cached document is in  *)
(* it already.                                                                *)
ApplyBatchResult(m, version) ==
    IF remoteDocument.type = "none" \/ remoteDocument.version < version
    THEN ApplyToRemoteDocument(m, remoteDocument, version)
    ELSE remoteDocument

AcknowledgeBatch ==
    /\ acks # << >>
    /\ acks' = Tail(acks)
    /\ remoteDocument' = ApplyBatchResult(Head(mutationQueue), Head(acks))
    /\ mutationQueue' = Tail(mutationQueue)
    /\ acknowledged' =
          IF remoteDocument'.type = "document"
          THEN acknowledged \cup
                  {[id |-> Head(mutationQueue).id, fields |-> Head(mutationQueue).fields,
                    version |-> Head(acks)]}
          ELSE {}
    /\ UNCHANGED <<history, seen, writes>>

(* Mutant: the answers that came before the error are not waited for.        *)
RejectAtOnce ==
    /\ mutationQueue # << >>
    /\ mutationQueue' = Tail(mutationQueue)
    /\ UNCHANGED <<remoteDocument, history, acks, seen, writes, acknowledged>>

(* The server refuses the oldest batch, for its precondition or its rights,   *)
(* and closes the stream; the answers to earlier ones came first.             *)
RejectBatch ==
    /\ mutationQueue # << >>
    /\ acks = << >>
    /\ mutationQueue' = Tail(mutationQueue)
    /\ UNCHANGED <<remoteDocument, history, acks, seen, writes, acknowledged>>

(* Mutant: a version that is cached already is never taken again.            *)
NewerOnly(version) ==
    remoteDocument.type = "none" \/ version > remoteDocument.version

(* Mutant: whatever watch sends is taken.                                    *)
AnyState(version) == TRUE

(* A state from the server is taken when it is newer, or when it is what an   *)
(* acknowledged document was waiting for.                                     *)
ShouldCache(version) ==
    \/ remoteDocument.type = "none"
    \/ version > remoteDocument.version
    \/ version = remoteDocument.version /\ remoteDocument.pending

(* ApplyRemoteEvent, with a snapshot in which the document has changed since  *)
(* the resume token.                                                          *)
ApplyRemoteEvent(version) ==
    /\ seen < version
    /\ seen' = version
    /\ remoteDocument' = IF ShouldCache(version)
                         THEN Document(history[version], version, FALSE)
                         ELSE remoteDocument
    /\ UNCHANGED <<mutationQueue, history, acks, writes, acknowledged>>

(* The write stream is closed: what it still carried is lost, and the batches *)
(* it answered are sent again.                                                *)
WriteStreamClosed ==
    /\ acks # << >>
    /\ acks' = << >>
    /\ UNCHANGED <<mutationQueue, remoteDocument, history, seen, writes, acknowledged>>

(* The app is launched again, from LevelDB, where the resume token may be old.*)
Relaunch ==
    /\ acks' = << >>
    /\ seen' \in 0..seen
    /\ UNCHANGED <<mutationQueue, remoteDocument, history, writes, acknowledged>>

(* The document and the targets it is in are dropped; a document with a       *)
(* pending mutation is pinned.                                                *)
CollectGarbage ==
    /\ mutationQueue = << >>
    /\ remoteDocument' = NoDocument
    /\ seen' = 0
    /\ acknowledged' = {}
    /\ UNCHANGED <<mutationQueue, history, acks, writes>>

-----------------------------------------------------------------------------
(* External: the server. *)

(* The document after a write that the precondition allows. *)
Commit(m) ==
    LET exists == history # << >>
        data == IF exists THEN Last(history) ELSE Empty
        new == Mutated(m, data)
    IN  /\ PreconditionHolds(m, exists)
        /\ IF exists /\ new = data
           THEN UNCHANGED history
           ELSE /\ Len(history) < MaxVersion
                /\ history' = Append(history, new)

ServerCommit ==
    /\ Len(acks) < Len(mutationQueue)
    /\ Commit(mutationQueue[Len(acks) + 1])
    /\ acks' = Append(acks, Len(history'))
    /\ UNCHANGED <<mutationQueue, remoteDocument, seen, writes, acknowledged>>

(* A write of another client. *)
ForeignWrite(kind, fields) ==
    /\ writes < MaxWrites
    /\ writes' = writes + 1
    /\ Commit([id |-> writes + 1, kind |-> kind, fields |-> fields])
    /\ UNCHANGED <<mutationQueue, remoteDocument, acks, seen, acknowledged>>

Next ==
    \/ \E kind \in Kind, fields \in Masks :
          WriteLocally(kind, fields) \/ ForeignWrite(kind, fields)
    \/ AcknowledgeBatch
    \/ RejectBatch
    \/ \E version \in DOMAIN history : ApplyRemoteEvent(version)
    \/ WriteStreamClosed
    \/ Relaunch
    \/ CollectGarbage
    \/ ServerCommit

Spec == Init /\ [][Next]_vars

-----------------------------------------------------------------------------
(* Type invariant. *)
Write == 1..MaxWrites
Version == 0..MaxVersion
Data == [Field -> SUBSET Write]

TypeOK ==
    /\ mutationQueue \in Seq([id : Write, kind : Kind, fields : Masks])
    /\ remoteDocument \in [type : {"none", "document", "unknown"}, version : Version,
                           data : Data, pending : BOOLEAN]
    /\ history \in Seq(Data)
    /\ acks \in Seq(Version)
    /\ Len(acks) <= Len(mutationQueue)
    /\ seen \in 0..Len(history)
    /\ writes \in 0..MaxWrites
    /\ acknowledged \subseteq [id : Write, fields : Masks, version : Version]

(* A document that is not marked as awaiting the server is, at its version,   *)
(* what the server had: no acknowledged or queued write is mixed into it.     *)
SyncedCopyIsTheServers ==
    (remoteDocument.type = "document" /\ ~remoteDocument.pending) =>
        remoteDocument.data = history[remoteDocument.version]

(* Nothing pending and every change on the server seen: what the app reads is *)
(* what the server holds, whichever way acknowledgements and snapshots came.  *)
ViewSettles ==
    (mutationQueue = << >> /\ seen = Len(history) /\ seen # 0) =>
        LocalDocument = Document(Last(history), Len(history), FALSE)

(* RemoteDocument + Acknowledged(LocalMutations) of local_store.h: the cached *)
(* document holds every acknowledged write that the server holds at its       *)
(* version.                                                                   *)
Holds(doc, w) ==
    \A f \in w.fields : w.id \in history[doc.version][f] => w.id \in doc.data[f]

AcknowledgedWritesAreApplied ==
    \A w \in acknowledged : Holds(remoteDocument, w)

(* So it does as long as no two were acknowledged with the same version.      *)
OneWriteEachVersion ==
    \A w, other \in acknowledged : w.version = other.version => w = other

DistinctWritesAreApplied == OneWriteEachVersion => AcknowledgedWritesAreApplied

(* The cached document is never replaced by an older one, only collected.     *)
CacheNeverGoesBack ==
    [][remoteDocument'.version >= remoteDocument.version \/ CollectGarbage]_vars
=============================================================================
