---------------------------- MODULE OneShotReads ----------------------------
(***************************************************************************)
(* The read path of one Firestore client: getDocument as the app calls it, *)
(* which is a listener that is removed after its first event.              *)
(* EventManager and QueryListener decide when that event is raised,        *)
(* SyncEngine and View whether it is in sync, RemoteStore,                 *)
(* WatchChangeAggregator, WatchStream and OnlineStateTracker what is known *)
(* of the server, LocalStore what is kept in LevelDB.                      *)
(*                                                                         *)
(* A target is the query for one document, named by that document.  The    *)
(* versions of a document count the server's writes to it, 0 before the    *)
(* first; a resume token stands for the version of its document at the     *)
(* snapshot the token was issued for.  All of the client runs on one       *)
(* serial queue, so a queued task is one action.  The server (external)    *)
(* takes a request when it is sent and answers it in its own time, in the  *)
(* order of the requests; what a closed stream still carried is lost.      *)
(***************************************************************************)
EXTENDS Naturals, SequencesExt

CONSTANTS
    Reader,         \* calls of getDocument that may be under way at once
    Target,         \* the documents they read
    MaxVersion,     \* bound: writes of the server to one document
    MaxFaults,      \* bound: lost connections and changes of network
    MaxUnderWay     \* bound: answers under way when a listen is sent

ASSUME ReadAssumption ==
    /\ Reader # {} /\ Target # {} /\ IsFiniteSet(Target)
    /\ MaxVersion \in Nat /\ MaxFaults \in Nat /\ MaxUnderWay \in Nat

VARIABLES
    reader,         \* each call: its phase, its target and what it was told
    current,        \* View::current_ of the view of each target
    resumeToken,    \* the token in listen_targets_ and target_data_by_target_
    savedToken,     \* persisted: the token in target_cache_
    remoteDocuments,\* persisted: remote_document_cache_
    aggregator,     \* the WatchChangeAggregator of the stream
    stream,         \* Stream::state_ of the watch stream
    idleTimer,      \* Stream::idleness_timer_ is running
    online,         \* the OnlineStateTracker
    watched,        \* external: what the server knows of each target
    unannounced,    \* external: changes were sent since the last snapshot
    responses,      \* sent by the server, not yet read
    serverDocument, \* external: the version of each document
    listenedFrom,   \* history: the server's version when the listen began
    faults

viewVars   == <<reader, current>>
storeVars  == <<resumeToken, savedToken, remoteDocuments>>
streamVars == <<stream, idleTimer>>
serverVars == <<watched, unannounced, responses>>
vars == <<viewVars, storeVars, aggregator, streamVars, online, serverVars,
          serverDocument, listenedFrom, faults>>

Version == 0..MaxVersion
StreamState == {"Initial", "Starting", "Open", "Error", "Backoff"}
Each(value) == [t \in Target |-> value]

Idle == [phase |-> "idle"]

(* The targets with a listener: queries_ of EventManager, the views of        *)
(* SyncEngine and listen_targets_ of RemoteStore are kept in step.            *)
TargetsOf(calls) == {calls[r].target : r \in {q \in Reader : calls[q] # Idle}}
ListenTargets == TargetsOf(reader)

IsStarted == stream \in {"Starting", "Open", "Backoff"}

-----------------------------------------------------------------------------
(* OnlineStateTracker. *)

UpdateState(state) == [state |-> state, failures |-> 0, timer |-> FALSE]

(* A first attempt starts the timeout. *)
HandleWatchStreamStart(o) ==
    IF o.failures # 0 THEN o
    ELSE [state |-> "Unknown", failures |-> 0, timer |-> TRUE]

(* Mutant: the timeout of the first attempt is left running.                 *)
FailureKeepsTimer(o) ==
    IF o.state = "Online" THEN UpdateState("Unknown")
    ELSE [state |-> "Offline", failures |-> 1, timer |-> o.timer]

(* kMaxWatchStreamFailures is 1, so only whether there were any is kept.      *)
HandleWatchStreamFailure(o) ==
    IF o.state = "Online" THEN UpdateState("Unknown")
    ELSE [state |-> "Offline", failures |-> 1, timer |-> FALSE]

(* QueryListener::ShouldRaiseInitialEvent with wait_for_sync_when_online: in  *)
(* sync, or offline.                                                          *)
ShouldRaise(call, inSync, o) ==
    call.phase = "waiting" /\ (inSync[call.target] \/ o.state = "Offline")

(* The listeners that get their first event from the views as they now are;   *)
(* what a listener is told after that ListenOnce does not pass on.            *)
Notified(calls, inSync, docs, o) ==
    [r \in Reader |->
        IF ShouldRaise(calls[r], inSync, o)
        THEN [phase |-> "answered", target |-> calls[r].target,
              doc |-> docs[calls[r].target], fromCache |-> ~inSync[calls[r].target]]
        ELSE calls[r]]

(* SyncEngine and EventManager::HandleOnlineStateChange: going offline, every *)
(* view falls back to the cache.                                              *)
Broadcast(o, calls, inSync) ==
    /\ online' = o
    /\ current' = IF o.state = "Offline" THEN Each(FALSE) ELSE inSync
    /\ reader' = Notified(calls, current', remoteDocuments, o)

-----------------------------------------------------------------------------
(* The requests. *)

FreshAggregator ==
    [outstanding |-> Each(0), current |-> Each(FALSE), updates |-> Each(0)]

NotWatched == [on |-> FALSE]
Watching(token) == [on |-> TRUE, current |-> FALSE, doc |-> token]

Added(t)   == [type |-> "added", target |-> t]
Removed(t) == [type |-> "removed", target |-> t]

(* Mutant: one answer is awaited, however many requests were sent.           *)
SendAndAwaitOne(targets) ==
    /\ aggregator' = [aggregator EXCEPT !.outstanding =
          [t \in Target |-> IF t \in targets THEN 1 ELSE @[t]]]
    /\ watched' = [t \in Target |->
          IF t \in targets THEN Watching(resumeToken[t]) ELSE watched[t]]
    /\ responses' = responses \o [i \in DOMAIN SetToSeq(targets) |->
                                     Added(SetToSeq(targets)[i])]
    /\ UNCHANGED unannounced

(* SendWatchRequest for every target of the set, on an open stream. *)
SendWatchRequests(targets) ==
    /\ aggregator' = [aggregator EXCEPT !.outstanding =
          [t \in Target |-> IF t \in targets THEN @[t] + 1 ELSE @[t]]]
    /\ watched' = [t \in Target |->
          IF t \in targets THEN Watching(resumeToken[t]) ELSE watched[t]]
    /\ responses' = responses \o [i \in DOMAIN SetToSeq(targets) |->
                                     Added(SetToSeq(targets)[i])]
    /\ UNCHANGED unannounced

SendUnwatchRequest(t) ==
    /\ aggregator' = [aggregator EXCEPT !.outstanding[t] = @ + 1]
    /\ watched' = [watched EXCEPT ![t] = NotWatched]
    /\ responses' = Append(responses, Removed(t))
    /\ UNCHANGED unannounced

(* Mutant: answers of the closed stream are read on the next one.            *)
CleanUpAggregatorOnly ==
    /\ aggregator' = FreshAggregator
    /\ watched' = Each(NotWatched)
    /\ unannounced' = FALSE
    /\ UNCHANGED responses

(* The stream is gone, and the aggregator with it. *)
CleanUpWatchStreamState ==
    /\ aggregator' = FreshAggregator
    /\ watched' = Each(NotWatched)
    /\ unannounced' = FALSE
    /\ responses' = << >>

-----------------------------------------------------------------------------

Init ==
    /\ reader = [r \in Reader |-> Idle]
    /\ current = Each(FALSE)
    /\ resumeToken = Each(0)
    /\ savedToken = Each(0)
    /\ remoteDocuments = Each(0)
    /\ aggregator = FreshAggregator
    /\ stream = "Initial"
    /\ idleTimer = FALSE
    /\ online = UpdateState("Unknown")
    /\ watched = Each(NotWatched)
    /\ unannounced = FALSE
    /\ responses = << >>
    /\ serverDocument = Each(0)
    /\ listenedFrom = Each(0)
    /\ faults = 0

Waiting(t) == [phase |-> "waiting", target |-> t]

(* Mutant: the listener waits for the next snapshot of the view.             *)
JoinWithoutSnapshot(r, t) ==
    /\ reader[r] = Idle
    /\ t \in ListenTargets
    /\ reader' = [reader EXCEPT ![r] = Waiting(t)]
    /\ UNCHANGED <<current, storeVars, aggregator, streamVars, online, serverVars,
                   serverDocument, listenedFrom, faults>>

(* GetDocument of a document that is being listened to: the listener joins    *)
(* the view and is given its last snapshot.                                   *)
JoinView(r, t) ==
    /\ reader[r] = Idle
    /\ t \in ListenTargets
    /\ reader' = Notified([reader EXCEPT ![r] = Waiting(t)], current,
                          remoteDocuments, online)
    /\ UNCHANGED <<current, storeVars, aggregator, streamVars, online, serverVars,
                   serverDocument, listenedFrom, faults>>

(* GetDocument of another: SyncEngine::Listen makes a view from the cache,    *)
(* then RemoteStore::Listen starts the stream, or sends on it when it is open.*)
Listen(r, t) ==
    /\ reader[r] = Idle
    /\ t \notin ListenTargets
    /\ Len(responses) <= MaxUnderWay
    /\ reader' = Notified([reader EXCEPT ![r] = Waiting(t)],
                          [current EXCEPT ![t] = FALSE], remoteDocuments, online)
    /\ current' = [current EXCEPT ![t] = FALSE]
    /\ listenedFrom' = [listenedFrom EXCEPT ![t] = serverDocument[t]]
    /\ IF IsStarted
       THEN UNCHANGED <<stream, online>>
       ELSE /\ stream' = IF stream = "Error" THEN "Backoff" ELSE "Starting"
            /\ online' = HandleWatchStreamStart(online)
    /\ IF stream = "Open"
       THEN /\ SendWatchRequests({t})
            /\ idleTimer' = FALSE
       ELSE UNCHANGED <<aggregator, serverVars, idleTimer>>
    /\ UNCHANGED <<storeVars, serverDocument, faults>>

(* ListenOnce removes the listener of an answered call; with the last one of  *)
(* a target SyncEngine::StopListening forgets the view, saves the token       *)
(* (ReleaseTarget) and unwatches.                                             *)
RemoveQueryListener(r) ==
    LET t == reader[r].target
        left == [reader EXCEPT ![r] = Idle]
        last == t \notin TargetsOf(left)
        none == TargetsOf(left) = {}
    IN  /\ reader[r] # Idle
        /\ reader[r].phase = "answered"
        /\ reader' = left
        /\ IF last
           THEN /\ current' = [current EXCEPT ![t] = FALSE]
                /\ savedToken' = [savedToken EXCEPT ![t] = resumeToken[t]]
                /\ listenedFrom' = [listenedFrom EXCEPT ![t] = 0]
                /\ online' = IF none /\ stream # "Open" THEN UpdateState("Unknown")
                                                        ELSE online
           ELSE UNCHANGED <<current, savedToken, listenedFrom, online>>
        /\ IF last /\ stream = "Open"
           THEN /\ SendUnwatchRequest(t)
                /\ idleTimer' = none
           ELSE UNCHANGED <<aggregator, serverVars, idleTimer>>
        /\ UNCHANGED <<resumeToken, remoteDocuments, stream, serverDocument, faults>>

-----------------------------------------------------------------------------
(* The stream. *)

OnWatchStreamOpen ==
    /\ stream = "Starting"
    /\ stream' = "Open"
    /\ SendWatchRequests(ListenTargets)
    /\ UNCHANGED <<viewVars, storeVars, idleTimer, online, serverDocument,
                   listenedFrom, faults>>

(* OnWatchStreamClose with an error: retried, after a backoff, as long as a   *)
(* target needs the stream.                                                   *)
OnWatchStreamClose ==
    /\ CleanUpWatchStreamState
    /\ idleTimer' = FALSE
    /\ IF ListenTargets # {}
       THEN /\ stream' = "Backoff"
            /\ Broadcast(HandleWatchStreamStart(HandleWatchStreamFailure(online)),
                         reader, current)
       ELSE /\ stream' = "Error"
            /\ Broadcast(UpdateState("Unknown"), reader, current)
    /\ UNCHANGED <<storeVars, serverDocument, listenedFrom>>

AttemptFails ==
    /\ stream = "Starting"
    /\ OnWatchStreamClose
    /\ UNCHANGED faults

ConnectionLost ==
    /\ stream = "Open"
    /\ faults < MaxFaults
    /\ faults' = faults + 1
    /\ OnWatchStreamClose

BackoffElapsed ==
    /\ stream = "Backoff"
    /\ stream' = "Starting"
    /\ UNCHANGED <<viewVars, storeVars, aggregator, idleTimer, online, serverVars,
                   serverDocument, listenedFrom, faults>>

(* The idle timer stops the stream; nothing needs it (else it is asserted).   *)
IdleTimeout ==
    /\ idleTimer
    /\ idleTimer' = FALSE
    /\ stream' = "Initial"
    /\ CleanUpWatchStreamState
    /\ Broadcast(UpdateState("Unknown"), reader, current)
    /\ UNCHANGED <<storeVars, serverDocument, listenedFrom, faults>>

(* The timeout of the tracker. *)
OnlineStateTimeout ==
    /\ online.timer
    /\ Broadcast([online EXCEPT !.state = "Offline", !.timer = FALSE], reader, current)
    /\ UNCHANGED <<storeVars, aggregator, streamVars, serverVars, serverDocument,
                   listenedFrom, faults>>

(* RestartNetwork, when the connectivity or the credentials change.           *)
RestartNetwork ==
    /\ faults < MaxFaults
    /\ faults' = faults + 1
    /\ CleanUpWatchStreamState
    /\ idleTimer' = FALSE
    /\ stream' = IF ListenTargets = {} THEN "Initial" ELSE "Starting"
    /\ Broadcast(IF ListenTargets = {} THEN UpdateState("Unknown")
                 ELSE HandleWatchStreamStart(UpdateState("Unknown")), reader, current)
    /\ UNCHANGED <<storeVars, serverDocument, listenedFrom>>

(* The process dies and the app is launched again: LevelDB is all that is left.*)
Relaunch ==
    /\ reader' = [r \in Reader |-> Idle]
    /\ current' = Each(FALSE)
    /\ resumeToken' = savedToken
    /\ CleanUpWatchStreamState
    /\ stream' = "Initial"
    /\ idleTimer' = FALSE
    /\ online' = UpdateState("Unknown")
    /\ listenedFrom' = Each(0)
    /\ UNCHANGED <<savedToken, remoteDocuments, serverDocument, faults>>

(* Mutant: the document goes and the target stays.                           *)
CollectDocument(t) ==
    /\ t \notin ListenTargets
    /\ remoteDocuments' = [remoteDocuments EXCEPT ![t] = 0]
    /\ UNCHANGED <<viewVars, resumeToken, savedToken, aggregator, streamVars, online,
                   serverVars, serverDocument, listenedFrom, faults>>

(* The collector drops a target nobody listens to, and the document too       *)
(* unless something else refers to it.                                        *)
CollectGarbage(t) ==
    /\ t \notin ListenTargets
    /\ resumeToken' = [resumeToken EXCEPT ![t] = 0]
    /\ savedToken' = [savedToken EXCEPT ![t] = 0]
    /\ \E left \in {0, remoteDocuments[t]} :
          remoteDocuments' = [remoteDocuments EXCEPT ![t] = left]
    /\ UNCHANGED <<viewVars, aggregator, streamVars, online, serverVars,
                   serverDocument, listenedFrom, faults>>

-----------------------------------------------------------------------------
(* External: the server. *)

ServerWrite(t) ==
    /\ serverDocument[t] < MaxVersion
    /\ serverDocument' = [serverDocument EXCEPT ![t] = @ + 1]
    /\ UNCHANGED <<viewVars, storeVars, aggregator, streamVars, online, serverVars,
                   listenedFrom, faults>>

(* It sends a watched document when it is newer than the resume token or than *)
(* what was sent last (0: nothing to send), at first with the note that the   *)
(* target is current.                                                         *)
ServerSendTarget(t) ==
    LET w == watched[t]
        newer == serverDocument[t] > w.doc
    IN  /\ w.on
        /\ ~w.current \/ newer
        /\ responses' = Append(responses,
              [type |-> IF w.current THEN "document" ELSE "current", target |-> t,
               doc |-> IF newer THEN serverDocument[t] ELSE 0])
        /\ watched' = [watched EXCEPT ![t].current = TRUE, ![t].doc = serverDocument[t]]
        /\ unannounced' = TRUE
        /\ UNCHANGED <<viewVars, storeVars, aggregator, streamVars, online,
                       serverDocument, listenedFrom, faults>>

(* A consistent snapshot of the whole stream, with the resume token for it:   *)
(* only when every watched target is current and up to date.                  *)
ServerSnapshot ==
    /\ unannounced
    /\ \A t \in Target : watched[t].on =>
          watched[t].current /\ watched[t].doc = serverDocument[t]
    /\ responses' = Append(responses, [type |-> "snapshot", token |-> serverDocument])
    /\ unannounced' = FALSE
    /\ UNCHANGED <<viewVars, storeVars, aggregator, streamVars, online, watched,
                   serverDocument, listenedFrom, faults>>

-----------------------------------------------------------------------------
(* OnWatchStreamChange.  Any message proves the client to be online. *)

(* Mutant: answers to requests still under way are not waited for.           *)
IsListenedTo(t) == t \in ListenTargets

IsActiveTarget(t) == t \in ListenTargets /\ aggregator.outstanding[t] = 0

NextResponse(type) ==
    /\ responses # << >>
    /\ Head(responses).type = type
    /\ responses' = Tail(responses)
    /\ UNCHANGED <<streamVars, watched, unannounced, serverDocument, listenedFrom,
                   faults>>

(* HandleTargetChange, Added: one answer less outstanding.  The pending       *)
(* changes of the target are cleared; its current_ is not.                    *)
OnTargetAdded ==
    /\ NextResponse("added")
    /\ aggregator' = [aggregator EXCEPT !.outstanding[Head(responses).target] = @ - 1]
    /\ Broadcast(UpdateState("Online"), reader, current)
    /\ UNCHANGED storeVars

(* HandleTargetChange, Removed: the state goes with the last answer.          *)
OnTargetRemoved ==
    LET t == Head(responses).target
        pending == aggregator.outstanding[t] > 1
    IN  /\ NextResponse("removed")
        /\ aggregator' = [aggregator EXCEPT !.outstanding[t] = @ - 1,
                                            !.current[t] = pending /\ @]
        /\ Broadcast(UpdateState("Online"), reader, current)
        /\ UNCHANGED storeVars

(* HandleDocumentChange and Current: only for a target that is active.        *)
OnTargetChange(type) ==
    LET m == Head(responses)
        t == m.target
    IN  /\ NextResponse(type)
        /\ aggregator' =
              IF IsActiveTarget(t)
              THEN [aggregator EXCEPT
                      !.updates[t] = IF m.doc = 0 THEN @ ELSE m.doc,
                      !.current[t] = @ \/ type = "current"]
              ELSE aggregator
        /\ Broadcast(UpdateState("Online"), reader, current)
        /\ UNCHANGED storeVars

OnDocumentChange == OnTargetChange("document")
OnTargetCurrent  == OnTargetChange("current")

(* RaiseWatchSnapshot: CreateRemoteEvent, the tokens, ApplyRemoteEvent of     *)
(* LocalStore and the views.  A document goes into the cache when it is newer *)
(* than what is there; a token is saved with a changed document, otherwise    *)
(* only when the saved one is missing or old.                                 *)
OnSnapshot ==
    LET token == Head(responses).token
        active == {t \in Target : IsActiveTarget(t)}
        updates == aggregator.updates
    IN  /\ NextResponse("snapshot")
        /\ remoteDocuments' = [t \in Target |->
              IF updates[t] > remoteDocuments[t] THEN updates[t] ELSE remoteDocuments[t]]
        /\ resumeToken' = [t \in Target |->
              IF t \in active THEN token[t] ELSE resumeToken[t]]
        /\ \E old \in SUBSET active :
              savedToken' = [t \in Target |->
                 IF t \in active /\ (updates[t] # 0 \/ resumeToken[t] = 0 \/ t \in old)
                 THEN token[t] ELSE savedToken[t]]
        /\ aggregator' = [aggregator EXCEPT !.updates = Each(0)]
        /\ online' = UpdateState("Online")
        /\ current' = [t \in Target |->
              IF t \in active THEN aggregator.current[t] ELSE current[t]]
        /\ reader' = Notified(reader, current', remoteDocuments', online')

OnWatchStreamChange ==
    \/ OnTargetAdded
    \/ OnTargetRemoved
    \/ OnDocumentChange
    \/ OnTargetCurrent
    \/ OnSnapshot

Next ==
    \/ \E r \in Reader, t \in Target : JoinView(r, t) \/ Listen(r, t)
    \/ \E r \in Reader : RemoveQueryListener(r)
    \/ OnWatchStreamOpen
    \/ AttemptFails
    \/ ConnectionLost
    \/ BackoffElapsed
    \/ IdleTimeout
    \/ OnlineStateTimeout
    \/ RestartNetwork
    \/ Relaunch
    \/ \E t \in Target : CollectGarbage(t)
    \/ \E t \in Target : ServerWrite(t)
    \/ \E t \in Target : ServerSendTarget(t)
    \/ ServerSnapshot
    \/ OnWatchStreamChange

Spec == Init /\ [][Next]_vars

(* The queue runs its tasks and timers. *)
QueueFairness ==
    /\ \A r \in Reader : WF_vars(RemoveQueryListener(r))
    /\ WF_vars(BackoffElapsed)
    /\ WF_vars(OnlineStateTimeout)
    /\ WF_vars(OnWatchStreamChange)

(* An attempt to connect succeeds or fails in the end, and the server answers *)
(* on an open stream.                                                         *)
NetworkFairness ==
    /\ WF_vars(OnWatchStreamOpen \/ AttemptFails)
    /\ \A t \in Target : WF_vars(ServerSendTarget(t))
    /\ WF_vars(ServerSnapshot)

FairSpec == Spec /\ QueueFairness /\ NetworkFairness

(* The same client when an attempt to connect may hang. *)
HangingSpec == Spec /\ QueueFairness

-----------------------------------------------------------------------------
(* Type invariant. *)
Message ==
    [type : {"added", "removed"}, target : Target]
      \cup [type : {"document", "current"}, target : Target, doc : Version]
      \cup [type : {"snapshot"}, token : [Target -> Version]]

TypeOK ==
    /\ reader \in [Reader -> {Idle} \cup {Waiting(t) : t \in Target}
          \cup [phase : {"answered"}, target : Target, doc : Version,
                fromCache : BOOLEAN]]
    /\ current \in [Target -> BOOLEAN]
    /\ resumeToken \in [Target -> Version]
    /\ savedToken \in [Target -> Version]
    /\ remoteDocuments \in [Target -> Version]
    /\ aggregator \in [outstanding : [Target -> Nat], current : [Target -> BOOLEAN],
                       updates : [Target -> Version]]
    /\ stream \in StreamState
    /\ idleTimer \in BOOLEAN
    /\ online \in [state : {"Unknown", "Online", "Offline"}, failures : 0..1,
                   timer : BOOLEAN]
    /\ watched \in [Target -> {NotWatched}
          \cup [on : {TRUE}, current : BOOLEAN, doc : Version]]
    /\ unannounced \in BOOLEAN
    /\ responses \in Seq(Message)
    /\ serverDocument \in [Target -> Version]
    /\ listenedFrom \in [Target -> Version]
    /\ faults \in 0..MaxFaults

(* An answer that does not say it is from the cache is no older than the      *)
(* document was when the client began to listen to it, although the stream    *)
(* may still carry snapshots of an earlier listen to the same document.       *)
SyncedAnswerIsFresh ==
    \A r \in Reader :
        (reader[r].phase = "answered" /\ ~reader[r].fromCache) =>
            reader[r].doc >= listenedFrom[reader[r].target]

(* A resume token is never ahead of the cache: the server sends only what     *)
(* changed after it, so what is missing before it would never be sent again.  *)
TokenCoversCache ==
    \A t \in Target : /\ resumeToken[t] <= remoteDocuments[t]
                      /\ savedToken[t] <= remoteDocuments[t]

AnswersTo(t, messages) ==
    {i \in DOMAIN messages : messages[i].type \in {"added", "removed"}
                             /\ messages[i].target = t}

(* The count of outstanding answers of a target is that of the answers under  *)
(* way on the stream: a target is not ignored for ever.                       *)
OutstandingIsUnderWay ==
    \A t \in Target :
        aggregator.outstanding[t] = Cardinality(AnswersTo(t, responses))

(* The timeout runs only while a first attempt is under way, so it never      *)
(* fires in another state than Unknown and is never started twice: what the   *)
(* tracker asserts.                                                           *)
TimeoutIsOfFirstAttempt ==
    online.timer => online.state = "Unknown" /\ online.failures = 0 /\ IsStarted

(* The idle timer only stops a stream that no target needs, which             *)
(* OnWatchStreamClose asserts of a graceful stop.                             *)
IdleStreamNotNeeded == idleTimer => stream = "Open" /\ ListenTargets = {}

(* So no timer outlives what it was started for.                              *)
TimersAreNeeded == TimeoutIsOfFirstAttempt /\ IdleStreamNotNeeded

(* Every read is answered: from the server or, when there is no connection,   *)
(* from the cache.                                                            *)
ReadsAreAnswered ==
    \A r \in Reader : (reader[r].phase = "waiting") ~> (reader[r].phase # "waiting")

(* As online_state_tracker.cc has it: when a read waits and the connection    *)
(* does not succeed or fail in a timely manner, the state leaves Unknown by   *)
(* the timeout rather than waiting indefinitely.                              *)
UnknownTimesOut ==
    (online.state = "Unknown" /\ ListenTargets # {})
        ~> (online.state # "Unknown" \/ ListenTargets = {})
=============================================================================
