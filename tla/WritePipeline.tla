--------------------------- MODULE WritePipeline ----------------------------
(***************************************************************************)
(* The write path of one Firestore client: SyncEngine::WriteMutations, the *)
(* mutation queues LocalStore keeps in LevelDB (one per account), the      *)
(* pipeline of RemoteStore and the state machine of WriteStream/Stream.    *)
(*                                                                         *)
(* All of it runs on one serial AsyncQueue, so a queued task is one        *)
(* action.  A write is the number of its WriteMutations call; what it      *)
(* writes plays no part here.  The gRPC stream delivers in order, and the  *)
(* server (external) handles the requests of a stream one by one and is    *)
(* done with a closed stream before it accepts a new one of the client.    *)
(***************************************************************************)
EXTENDS Naturals, Sequences

CONSTANTS
    User,               \* the accounts that sign in on this device
    MaxPendingWrites,   \* kMaxPendingWrites
    MaxWrites           \* bound: WriteMutations calls in a behaviour

ASSUME PipelineAssumption ==
    /\ User # {}
    /\ MaxPendingWrites \in Nat \ {0}
    /\ MaxWrites \in Nat

VARIABLES
    currentUser,        \* SyncEngine::current_user_
    mutationQueue,      \* persisted: [User -> Seq(Batch)], in batch id order
    nextBatchId,        \* next_batch_id_ of the queue in use
    mutationCallbacks,  \* SyncEngine::mutation_callbacks_, the write in place
                        \* of the callback that belongs to it
    networkEnabled,     \* RemoteStore::is_network_enabled_
    writePipeline,      \* RemoteStore::write_pipeline_
    stream,             \* Stream::state_ ("Ready": Open and handshake_complete)
    idleTimer,          \* Stream::idleness_timer_ is running
    requests,           \* sent on the open stream, not yet handled by the server
    responses,          \* handled by the server, answer not yet read
    submitted,          \* number of WriteMutations calls so far
    told,               \* what the callback of each write was called with
    outcome,            \* history: how each write left the mutation queue
    committed,          \* history: per account, the writes the server applied
    lastCommit          \* history: per account, the write it applied last

clientVars == <<currentUser, mutationQueue, nextBatchId, mutationCallbacks,
                networkEnabled, writePipeline, stream, idleTimer>>
wireVars   == <<requests, responses>>
historyVars == <<submitted, told, outcome, committed, lastCommit>>
vars == <<clientVars, wireVars, historyVars>>

WriteId == 1..MaxWrites

Batch == [id : Nat \ {0}, write : WriteId]

StreamState == {"Initial", "Starting", "Open", "Ready", "Error", "Backoff"}

-----------------------------------------------------------------------------
(* The mutation queue. *)

(* The first batch after id, as LevelDB's seek finds it, and all that follow. *)
BatchesAfter(queue, id) ==
    LET later == {i \in DOMAIN queue : queue[i].id > id}
        first == CHOOSE i \in later : \A j \in later : i <= j
    IN  IF later = {} THEN << >> ELSE SubSeq(queue, first, Len(queue))

(* Mutant: the batches behind the removed one go with it. *)
WithoutBatchAndLater(queue, id) ==
    SubSeq(queue, 1, (CHOOSE k \in DOMAIN queue : queue[k].id = id) - 1)

(* RemoveMutationBatch deletes by key. *)
WithoutBatch(queue, id) ==
    LET i == CHOOSE k \in DOMAIN queue : queue[k].id = id
    IN  SubSeq(queue, 1, i - 1) \o SubSeq(queue, i + 1, Len(queue))

(* Mutant: the greatest id itself. *)
GreatestBatchId(queues) ==
    LET used == {0} \cup UNION {{queues[u][i].id : i \in DOMAIN queues[u]} : u \in User}
    IN  CHOOSE m \in used : \A k \in used : k <= m

(* One more than the greatest id that any account has in the database. *)
LoadNextBatchId(queues) ==
    LET used == {0} \cup UNION {{queues[u][i].id : i \in DOMAIN queues[u]} : u \in User}
    IN  (CHOOSE m \in used : \A k \in used : k <= m) + 1

-----------------------------------------------------------------------------
(* The pipeline and the stream. *)

IsStarted(s) == s \in {"Starting", "Open", "Ready", "Backoff"}
IsOpen(s) == s \in {"Open", "Ready"}

Smaller(a, b) == IF a <= b THEN a ELSE b

LastBatchId(pipeline) == IF pipeline = << >> THEN 0 ELSE pipeline[Len(pipeline)].id

(* Mutant: the newest batches are taken first. *)
FreshNewestFirst(pipeline, queue) ==
    LET waiting == BatchesAfter(queue, LastBatchId(pipeline))
        n == Smaller(Len(waiting), MaxPendingWrites - Len(pipeline))
    IN  [i \in 1..n |-> waiting[Len(waiting) + 1 - i]]

(* What the loop of FillWritePipeline appends to the pipeline. *)
Fresh(pipeline, queue) ==
    LET waiting == BatchesAfter(queue, LastBatchId(pipeline))
    IN  SubSeq(waiting, 1, Smaller(Len(waiting), MaxPendingWrites - Len(pipeline)))

(* Stream::Start: a stream that failed backs off first. *)
Started(s) == IF s = "Error" THEN "Backoff" ELSE "Starting"

(* Mutant: a failed stream is not started again. *)
StartUnlessFailed(net, pipeline, s) ==
    IF net /\ s = "Initial" /\ pipeline # << >> THEN "Starting" ELSE s

StartIfNeeded(net, pipeline, s) ==
    IF net /\ ~IsStarted(s) /\ pipeline # << >> THEN Started(s) ELSE s

(* Mutants: batches are sent on any open stream; a send leaves the idle timer *)
(* running.                                                                   *)
FillAndSendWhenOpen(net, queue, pipeline, s, sent, idle) ==
    LET added == IF net THEN Fresh(pipeline, queue) ELSE << >>
    IN  /\ writePipeline' = pipeline \o added
        /\ stream' = StartIfNeeded(net, pipeline \o added, s)
        /\ requests' = IF IsOpen(s) THEN sent \o added ELSE sent
        /\ idleTimer' = (idle \/ (net /\ IsOpen(s) /\ pipeline \o added = << >>))

FillAndStayIdle(net, queue, pipeline, s, sent, idle) ==
    LET added == IF net THEN Fresh(pipeline, queue) ELSE << >>
    IN  /\ writePipeline' = pipeline \o added
        /\ stream' = StartIfNeeded(net, pipeline \o added, s)
        /\ requests' = IF s = "Ready" THEN sent \o added ELSE sent
        /\ idleTimer' = (idle \/ (net /\ IsOpen(s) /\ pipeline \o added = << >>))

(* FillWritePipeline: batches are appended, sent at once on a ready stream,   *)
(* and the stream is started when it is needed.  With nothing at all to send  *)
(* an open stream is marked idle; a send stops the idle timer.                *)
FillWritePipeline(net, queue, pipeline, s, sent, idle) ==
    LET added == IF net THEN Fresh(pipeline, queue) ELSE << >>
    IN  /\ writePipeline' = pipeline \o added
        /\ stream' = StartIfNeeded(net, pipeline \o added, s)
        /\ requests' = IF s = "Ready" THEN sent \o added ELSE sent
        /\ idleTimer' = \/ net /\ IsOpen(s) /\ pipeline \o added = << >>
                        \/ idle /\ ~(s = "Ready" /\ added # << >>)

(* RestartNetwork / EnableNetwork after DisableNetworkInternal: everything of *)
(* the old stream is dropped and the pipeline is built anew from the queue.   *)
FreshNetwork(queue) ==
    /\ networkEnabled' = TRUE
    /\ responses' = << >>
    /\ FillWritePipeline(TRUE, queue, << >>, "Initial", << >>, FALSE)

-----------------------------------------------------------------------------

Init ==
    /\ currentUser \in User
    /\ mutationQueue = [u \in User |-> << >>]
    /\ nextBatchId = 1
    /\ mutationCallbacks = [u \in User |-> {}]
    /\ networkEnabled = TRUE
    /\ writePipeline = << >>
    /\ stream = "Initial"
    /\ idleTimer = FALSE
    /\ requests = << >>
    /\ responses = << >>
    /\ submitted = 0
    /\ told = [w \in WriteId |-> "untold"]
    /\ outcome = [w \in WriteId |-> "pending"]
    /\ committed = [u \in User |-> {}]
    /\ lastCommit = [u \in User |-> 0]

(* SyncEngine::WriteMutations: persist the batch, remember the callback       *)
(* (insert keeps an older callback of the same id), fill the pipeline.        *)
WriteMutations ==
    LET batch == [id |-> nextBatchId, write |-> submitted + 1]
        queue == Append(mutationQueue[currentUser], batch)
    IN  /\ submitted < MaxWrites
        /\ submitted' = submitted + 1
        /\ nextBatchId' = nextBatchId + 1
        /\ mutationQueue' = [mutationQueue EXCEPT ![currentUser] = queue]
        /\ mutationCallbacks' =
              IF \E c \in mutationCallbacks[currentUser] : c.id = nextBatchId
              THEN mutationCallbacks
              ELSE [mutationCallbacks EXCEPT ![currentUser] = @ \cup {batch}]
        /\ FillWritePipeline(networkEnabled, queue, writePipeline, stream,
                             requests, idleTimer)
        /\ UNCHANGED <<currentUser, networkEnabled, responses, told, outcome,
                       committed, lastCommit>>

(* Mutant: the streams, and with them the pipeline, are not restarted. *)
SwitchAccountOnly(u) ==
    /\ u # currentUser
    /\ currentUser' = u
    /\ nextBatchId' = LoadNextBatchId(mutationQueue)
    /\ UNCHANGED <<mutationQueue, mutationCallbacks, networkEnabled, writePipeline,
                   stream, idleTimer, wireVars, historyVars>>

(* HandleCredentialChange of SyncEngine, LocalStore and RemoteStore: the      *)
(* queue of the new account takes over and the network restarts.              *)
HandleCredentialChange(u) ==
    /\ u # currentUser
    /\ currentUser' = u
    /\ nextBatchId' = LoadNextBatchId(mutationQueue)
    /\ IF networkEnabled
       THEN FreshNetwork(mutationQueue[u])
       ELSE UNCHANGED <<networkEnabled, writePipeline, stream, idleTimer, wireVars>>
    /\ UNCHANGED <<mutationQueue, mutationCallbacks, historyVars>>

(* The connectivity callback of RemoteStore::Start. *)
ConnectivityChanged ==
    /\ networkEnabled
    /\ FreshNetwork(mutationQueue[currentUser])
    /\ UNCHANGED <<currentUser, mutationQueue, nextBatchId, mutationCallbacks,
                   historyVars>>

EnableNetwork ==
    /\ networkEnabled' = TRUE
    /\ FillWritePipeline(TRUE, mutationQueue[currentUser], writePipeline, stream,
                         requests, idleTimer)
    /\ UNCHANGED <<currentUser, mutationQueue, nextBatchId, mutationCallbacks,
                   responses, historyVars>>

(* DisableNetwork stops the streams and clears the pipeline.  A stream that   *)
(* is not started stays as it is (Stop is idempotent).                        *)
DisableNetwork ==
    /\ networkEnabled' = FALSE
    /\ writePipeline' = << >>
    /\ stream' = IF IsStarted(stream) THEN "Initial" ELSE stream
    /\ idleTimer' = FALSE
    /\ requests' = << >>
    /\ responses' = << >>
    /\ UNCHANGED <<currentUser, mutationQueue, nextBatchId, mutationCallbacks,
                   historyVars>>

(* The process dies and the app is launched again: what is in LevelDB and the *)
(* signed-in account survive, the callbacks and the pipeline do not.          *)
Relaunch ==
    /\ nextBatchId' = LoadNextBatchId(mutationQueue)
    /\ mutationCallbacks' = [u \in User |-> {}]
    /\ FreshNetwork(mutationQueue[currentUser])
    /\ UNCHANGED <<currentUser, mutationQueue, historyVars>>

-----------------------------------------------------------------------------
(* The stream. *)

(* The timer of BackoffAndTryRestarting: Initial, then Start. *)
BackoffElapsed ==
    /\ stream = "Backoff"
    /\ stream' = "Starting"
    /\ UNCHANGED <<currentUser, mutationQueue, nextBatchId, mutationCallbacks,
                   networkEnabled, writePipeline, idleTimer, wireVars, historyVars>>

(* OnStreamStart: the handshake is written (any Write stops the idle timer). *)
OnWriteStreamOpen ==
    /\ stream = "Starting"
    /\ stream' = "Open"
    /\ idleTimer' = FALSE
    /\ UNCHANGED <<currentUser, mutationQueue, nextBatchId, mutationCallbacks,
                   networkEnabled, writePipeline, wireVars, historyVars>>

(* The whole pipeline is sent, whether or not it was sent before. *)
OnWriteStreamHandshakeComplete ==
    /\ stream = "Open"
    /\ stream' = "Ready"
    /\ requests' = writePipeline
    /\ idleTimer' = (idleTimer /\ writePipeline = << >>)
    /\ UNCHANGED <<currentUser, mutationQueue, nextBatchId, mutationCallbacks,
                   networkEnabled, writePipeline, responses, historyVars>>

(* A transient failure; the pipeline is kept and sent again. *)
OnStreamError ==
    /\ stream \in {"Starting", "Open", "Ready"}
    /\ stream' = StartIfNeeded(networkEnabled, writePipeline, "Error")
    /\ idleTimer' = FALSE
    /\ requests' = << >>
    /\ responses' = << >>
    /\ UNCHANGED <<currentUser, mutationQueue, nextBatchId, mutationCallbacks,
                   networkEnabled, writePipeline, historyVars>>

(* The idle timer stops the stream gracefully. *)
IdleTimeout ==
    /\ idleTimer
    /\ stream' = StartIfNeeded(networkEnabled, writePipeline, "Initial")
    /\ idleTimer' = FALSE
    /\ requests' = << >>
    /\ responses' = << >>
    /\ UNCHANGED <<currentUser, mutationQueue, nextBatchId, mutationCallbacks,
                   networkEnabled, writePipeline, historyVars>>

(* External: the server applies the next request of the stream. *)
ServerCommit ==
    LET batch == Head(requests)
    IN  /\ stream = "Ready"
        /\ requests # << >>
        /\ requests' = Tail(requests)
        /\ responses' = Append(responses, batch)
        /\ committed' = [committed EXCEPT ![currentUser] = @ \cup {batch.write}]
        /\ lastCommit' = [lastCommit EXCEPT ![currentUser] = batch.write]
        /\ UNCHANGED <<clientVars, submitted, told, outcome>>

(* Mutant: the callback is called and kept. *)
NotifyAndKeep(id, status) ==
    LET called == {c \in mutationCallbacks[currentUser] : c.id = id}
    IN  /\ told' = [w \in WriteId |->
                      IF \E c \in called : c.write = w THEN status ELSE told[w]]
        /\ UNCHANGED mutationCallbacks

(* NotifyUser: calls and erases the callback of the id, when there is one. *)
NotifyUser(id, status) ==
    LET called == {c \in mutationCallbacks[currentUser] : c.id = id}
    IN  /\ told' = [w \in WriteId |->
                      IF \E c \in called : c.write = w THEN status ELSE told[w]]
        /\ mutationCallbacks' = [mutationCallbacks EXCEPT ![currentUser] = @ \ called]

(* HandleSuccessfulWrite and HandleRejectedWrite: callback and queue. *)
Settle(batch, status) ==
    /\ NotifyUser(batch.id, status)
    /\ mutationQueue' = [mutationQueue EXCEPT ![currentUser] =
                            WithoutBatch(@, batch.id)]
    /\ outcome' = [outcome EXCEPT ![batch.write] = status]

(* A response is taken to answer the front of the pipeline, whatever write    *)
(* the server answered.                                                       *)
OnWriteStreamMutationResult ==
    LET batch == Head(writePipeline)
    IN  /\ responses # << >>
        /\ writePipeline # << >>
        /\ Settle(batch, "acked")
        /\ responses' = Tail(responses)
        /\ FillWritePipeline(networkEnabled, mutationQueue'[currentUser],
                             Tail(writePipeline), stream, requests, idleTimer)
        /\ UNCHANGED <<currentUser, nextBatchId, networkEnabled, submitted,
                       committed, lastCommit>>

(* Mutant: the newest pipelined write is dropped instead of the refused one. *)
DropLastOnWriteError ==
    LET last == Len(writePipeline)
    IN  /\ stream = "Ready"
        /\ responses = << >>
        /\ requests # << >>
        /\ Settle(writePipeline[last], "rejected")
        /\ UNCHANGED responses
        /\ FillWritePipeline(networkEnabled, mutationQueue'[currentUser],
                             SubSeq(writePipeline, 1, last - 1), "Initial", << >>, FALSE)
        /\ UNCHANGED <<currentUser, nextBatchId, networkEnabled, submitted,
                       committed, lastCommit>>

(* The server refuses the request it is handling: the stream closes with a    *)
(* permanent error, the front of the pipeline is dropped without backoff.     *)
HandleWriteError ==
    LET batch == Head(writePipeline)
    IN  /\ stream = "Ready"
        /\ responses = << >>
        /\ requests # << >>
        /\ writePipeline # << >>
        /\ Settle(batch, "rejected")
        /\ UNCHANGED responses
        /\ FillWritePipeline(networkEnabled, mutationQueue'[currentUser],
                             Tail(writePipeline), "Initial", << >>, FALSE)
        /\ UNCHANGED <<currentUser, nextBatchId, networkEnabled, submitted,
                       committed, lastCommit>>

Next ==
    \/ WriteMutations
    \/ \E u \in User : HandleCredentialChange(u)
    \/ ConnectivityChanged
    \/ EnableNetwork
    \/ DisableNetwork
    \/ Relaunch
    \/ BackoffElapsed
    \/ OnWriteStreamOpen
    \/ OnWriteStreamHandshakeComplete
    \/ OnStreamError
    \/ IdleTimeout
    \/ ServerCommit
    \/ OnWriteStreamMutationResult
    \/ HandleWriteError

Spec == Init /\ [][Next]_vars

(* The stream is retried with backoff for ever, so whatever it keeps being     *)
(* able to do it does in the end, however often the connection fails before.   *)
Fairness ==
    /\ WF_vars(BackoffElapsed)
    /\ SF_vars(OnWriteStreamOpen)
    /\ SF_vars(OnWriteStreamHandshakeComplete)
    /\ SF_vars(ServerCommit)
    /\ SF_vars(OnWriteStreamMutationResult)

FairSpec == Spec /\ Fairness

-----------------------------------------------------------------------------
(* Type invariant. *)
TypeOK ==
    /\ currentUser \in User
    /\ mutationQueue \in [User -> Seq(Batch)]
    /\ nextBatchId \in Nat \ {0}
    /\ mutationCallbacks \in [User -> SUBSET Batch]
    /\ networkEnabled \in BOOLEAN
    /\ writePipeline \in Seq(Batch)
    /\ stream \in StreamState
    /\ idleTimer \in BOOLEAN
    /\ requests \in Seq(Batch)
    /\ responses \in Seq(Batch)
    /\ submitted \in 0..MaxWrites
    /\ told \in [WriteId -> {"untold", "acked", "rejected"}]
    /\ outcome \in [WriteId -> {"pending", "acked", "rejected"}]
    /\ committed \in [User -> SUBSET WriteId]
    /\ lastCommit \in [User -> 0..MaxWrites]

(* The pipeline is the head of the queue of the account that is signed in,    *)
(* whatever account switches, restarts, rejections and refills came before:   *)
(* RemoveMutationBatch and RejectBatch assert that the batch is there, and a  *)
(* write of another account would be sent under the wrong identity.           *)
PipelineHeadsQueue ==
    LET queue == mutationQueue[currentUser]
    IN  /\ Len(writePipeline) <= Smaller(Len(queue), MaxPendingWrites)
        /\ \A i \in DOMAIN writePipeline : writePipeline[i] = queue[i]

(* On a ready stream every pipelined write was sent exactly once and is       *)
(* answered in pipeline order, so taking the front of the pipeline for the    *)
(* write a response is about is right; a stream that is not ready holds       *)
(* nothing that could be mistaken for an answer after it is opened again.     *)
ResponsesMatchPipeline ==
    responses \o requests = IF stream = "Ready" THEN writePipeline ELSE << >>

(* The queue of an account is ordered by id (LevelDB's key order) and the     *)
(* next id is beyond it, although ids are reloaded from the database, and     *)
(* reused, at every account switch and launch.                                *)
QueueOrderedById ==
    /\ \A u \in User : \A i, j \in DOMAIN mutationQueue[u] :
          i < j => mutationQueue[u][i].id < mutationQueue[u][j].id
    /\ \A i \in DOMAIN mutationQueue[currentUser] :
          mutationQueue[currentUser][i].id < nextBatchId

(* A callback is only kept for a write that is still in the queue of its      *)
(* account, so a batch that gets a used id again never completes the callback *)
(* of another write.                                                          *)
CallbackBelongsToPendingWrite ==
    \A u \in User : \A c \in mutationCallbacks[u] :
        \E i \in DOMAIN mutationQueue[u] : mutationQueue[u][i] = c

(* So an id stands for one write at any time, in the queue and in the          *)
(* callbacks, whatever was reloaded and reused.                               *)
IdsIdentifyWrites == QueueOrderedById /\ CallbackBelongsToPendingWrite

(* Success is reported only for a write the server applied, and a write stays *)
(* in its queue until it is settled: none is dropped and none settled twice.  *)
SettledOnce ==
    /\ \A w \in WriteId : told[w] = "acked" => \E u \in User : w \in committed[u]
    /\ \A w \in 1..submitted :
          (outcome[w] = "pending") <=>
              \E u \in User : \E i \in DOMAIN mutationQueue[u] :
                  mutationQueue[u][i].write = w

(* Resending never leaves an older write of an account on top of a newer one: *)
(* once its queue is empty, no acknowledged write of the account is newer than *)
(* the one the server applied last.  (A write that was applied, lost its       *)
(* answer and was refused when it was sent again is not counted.)              *)
NewestWriteOnTop ==
    \A u \in User : mutationQueue[u] = << >> =>
        \A w \in committed[u] : outcome[w] = "acked" => w <= lastCommit[u]

(* The idle timer only ever stops a stream that is not needed, which          *)
(* OnWriteStreamClose asserts of a graceful stop.                             *)
IdleStreamNotNeeded == idleTimer => (writePipeline = << >> /\ IsOpen(stream))

(* While an account stays signed in with the network on, all its writes are   *)
(* settled in the end, across any number of failures and relaunches.          *)
WritesSettle ==
    \A u \in User :
        <>[](networkEnabled /\ currentUser = u) => <>[](mutationQueue[u] = << >>)

(* The client implements the contract of WriteLog.                            *)
PendingWrites == [u \in User |->
    [i \in 1..Len(mutationQueue[u]) |-> mutationQueue[u][i].write]]

AppliedWrites == [u \in User |-> IF u = currentUser THEN Len(responses) ELSE 0]

Contract == INSTANCE WriteLog WITH
    Writer <- User, Write <- WriteId, pending <- PendingWrites, applied <- AppliedWrites

KeepsTheContract == Contract!LogSpec
=============================================================================
