---------------------------- MODULE ErrandMarket ----------------------------
(***************************************************************************)
(* The life of an errand in Tasker: a client posts it, an employee finds   *)
(* it in the feed and accepts it, the client opens Recent Tasks, confirms  *)
(* the payment and rates the employee.                                     *)
(*                                                                         *)
(* Every account uses one phone.  A phone shows one page at a time; the    *)
(* page keeps what its queries returned when they returned, so what a tap  *)
(* uses may be long out of date.  Writes go through the Firestore client:  *)
(* WriteLog says what becomes of them.  Reads are answered with the        *)
(* server's document overlaid with the phone's own pending writes          *)
(* (LocalDocumentsView); a read from the offline cache returns what an     *)
(* earlier read would have.  The repository has no security rules: the     *)
(* server accepts every write.                                             *)
(***************************************************************************)
EXTENDS Rating, Sequences

CONSTANTS
    User,           \* accounts (uids, and the ids of their documents in "users")
    Employees,      \* the accounts whose `employee` field is true
    Clients,        \* bound: the accounts that post errands and open Recent Tasks
    Task,           \* ids that addDocument may generate in "tasks"
    NoOne,          \* "", the employeeID of an errand nobody accepted
    StarChoices,    \* bound: the star sums tried for a rating
    MaxPending      \* bound: unacknowledged writes of an account that accepts

ASSUME MarketAssumption ==
    /\ Employees \subseteq User
    /\ Clients \subseteq User
    /\ NoOne \notin User
    /\ User \cap Task = {}
    /\ StarChoices \subseteq StarSums
    /\ MaxPending \in Nat

VARIABLES
    documents,      \* the server: documents[d] maps the fields of d to values
    pending,        \* WriteLog: the writes of each account's client
    applied,        \* WriteLog
    page,           \* the page each phone shows, with what it holds
    timesRated,     \* history: completed ratings for each errand
    ratingsGiven    \* history: completed ratings for each employee

logVars == <<pending, applied>>
vars == <<documents, logVars, page, timesRated, ratingsGiven>>

-----------------------------------------------------------------------------
(* Documents. *)

NoDocument == << >>

Errand == [clientID : User, employeeID : User \cup {NoOne}, isCompleted : BOOLEAN,
           hasPaid : BOOLEAN, employeeRated : BOOLEAN]

RatingFields == [num_ratings : Nat, rating : Nat]

(* navigateToSubmitVC: an errand as it is posted. *)
NewErrand(client) ==
    [clientID |-> client, employeeID |-> NoOne, isCompleted |-> FALSE,
     hasPaid |-> FALSE, employeeRated |-> FALSE]

(* A write sets some fields of one document and leaves the others (addDocument *)
(* sets all of them).                                                          *)
PostWrite(t, u)   == [doc |-> t, set |-> NewErrand(u)]
AcceptWrite(t, u) == [doc |-> t, set |-> [employeeID |-> u]]
PayWrite(t)       == [doc |-> t, set |-> [hasPaid |-> TRUE]]
RatedWrite(t)     == [doc |-> t, set |-> [employeeRated |-> TRUE]]
RatingWrite(e, n, r) == [doc |-> e, set |-> [num_ratings |-> n, rating |-> r]]

Write == [doc : Task, set : Errand]
    \cup [doc : Task, set : [employeeID : User]]
    \cup [doc : Task, set : [hasPaid : {TRUE}]]
    \cup [doc : Task, set : [employeeRated : {TRUE}]]
    \cup [doc : User, set : RatingFields]

Merged(old, new) ==
    [f \in DOMAIN old \cup DOMAIN new |-> IF f \in DOMAIN new THEN new[f] ELSE old[f]]

Log == INSTANCE WriteLog WITH Writer <- User

Exists(t) == documents[t] # NoDocument

-----------------------------------------------------------------------------
(* What a phone sees. *)

(* The pending writes of u that set field f of document d. *)
Setting(u, d, f) ==
    {i \in DOMAIN pending[u] : pending[u][i].doc = d /\ f \in DOMAIN pending[u][i].set}

(* Mutant: once the server has the document, pending writes do not show. *)
ServerValue(u, d, f) ==
    LET setting == Setting(u, d, f)
        newest == CHOOSE i \in setting : \A j \in setting : j <= i
    IN  IF documents[d] # NoDocument THEN documents[d][f] ELSE pending[u][newest].set[f]

(* LocalDocumentsView::GetDocument: pending writes are laid over the server's  *)
(* document, oldest first, so the newest that sets a field decides.            *)
LocalValue(u, d, f) ==
    LET setting == Setting(u, d, f)
        newest == CHOOSE i \in setting : \A j \in setting : j <= i
    IN  IF setting = {} THEN documents[d][f] ELSE pending[u][newest].set[f]

LocallyExists(u, t) == Exists(t) \/ Setting(u, t, "clientID") # {}

-----------------------------------------------------------------------------
(* Pages. *)

Row == [docID : Task, employeeID : User, hasPaid : BOOLEAN, employeeRated : BOOLEAN]

HomePage == [name |-> "home"]
FeedPage(tasks, loaded) == [name |-> "feed", tasks |-> tasks, loaded |-> loaded]
AcceptPage(t) == [name |-> "accept", docID |-> t]
RecentPage(rows, loaded) == [name |-> "recent", rows |-> rows, loaded |-> loaded]
(* `under`: the rows of the Recent Tasks page that dismiss returns to. *)
PayPage(t, rows) == [name |-> "pay", docID |-> t, under |-> rows]
RatePage(t, e, num, rating, loaded, rows) ==
    [name |-> "rate", docID |-> t, employeeID |-> e, numOfRatings |-> num,
     currentRating |-> rating, loaded |-> loaded, under |-> rows]

Page == [name : {"home"}]
   \cup [name : {"feed"}, tasks : SUBSET Task, loaded : BOOLEAN]
   \cup [name : {"accept"}, docID : Task]
   \cup [name : {"recent"}, rows : SUBSET Row, loaded : BOOLEAN]
   \cup [name : {"pay"}, docID : Task, under : SUBSET Row]
   \cup [name : {"rate"}, docID : Task, employeeID : User, numOfRatings : Nat,
         currentRating : Nat, loaded : BOOLEAN, under : SUBSET Row]

On(u, name) == page[u].name = name

Show(u, p) == page' = [page EXCEPT ![u] = p]

history == <<timesRated, ratingsGiven>>

Navigate(u, p) == Show(u, p) /\ UNCHANGED <<documents, logVars, history>>

-----------------------------------------------------------------------------

Init ==
    /\ documents = [d \in Task \cup User |->
                      IF d \in User THEN [num_ratings |-> 0, rating |-> 0]
                      ELSE NoDocument]
    /\ Log!LogInit
    /\ page = [u \in User |-> HomePage]
    /\ timesRated = [t \in Task |-> 0]
    /\ ratingsGiven = [u \in User |-> 0]

-----------------------------------------------------------------------------
(* Posting. *)

(* postTaskButtonPressed: addDocument picks an id nobody has used; the form    *)
(* is dismissed to the client's home page.                                     *)
PostTask(u, t) ==
    /\ u \in Clients
    /\ On(u, "home")
    /\ ~Exists(t)
    /\ \A v \in User : Setting(v, t, "clientID") = {}
    /\ Log!Submit(u, PostWrite(t, u))
    /\ UNCHANGED <<documents, page, history>>

-----------------------------------------------------------------------------
(* The employee's side. *)

(* employeeProfileTapped: the button is hidden unless the account is an        *)
(* employee.  The page starts its query and shows nothing yet.                 *)
OpenFeed(u) ==
    /\ u \in Employees
    /\ On(u, "home")
    /\ Navigate(u, FeedPage({}, FALSE))

(* Mutant: errands whose posting is still on its way from another phone show. *)
FeedArrivesEarly(u) ==
    /\ On(u, "feed")
    /\ ~page[u].loaded
    /\ Navigate(u, FeedPage({t \in Task : \E v \in User : LocallyExists(v, t)}, TRUE))

(* The query on "tasks" returns: all of them, the filter on employeeID is      *)
(* commented out.                                                              *)
FeedArrives(u) ==
    /\ On(u, "feed")
    /\ ~page[u].loaded
    /\ Navigate(u, FeedPage({t \in Task : LocallyExists(u, t)}, TRUE))

OpenTask(u, t) ==
    /\ On(u, "feed")
    /\ t \in page[u].tasks
    /\ Navigate(u, AcceptPage(t))

(* acceptClicked: whatever the errand looks like by now. *)
AcceptTask(u) ==
    /\ On(u, "accept")
    /\ Len(pending[u]) < MaxPending
    /\ Log!Submit(u, AcceptWrite(page[u].docID, u))
    /\ Show(u, FeedPage({}, FALSE))
    /\ UNCHANGED <<documents, history>>

(* Mutant: cancel takes the errand from whoever has it. *)
CancelAndRelease(u) ==
    /\ On(u, "accept")
    /\ Len(pending[u]) < MaxPending
    /\ Log!Submit(u, AcceptWrite(page[u].docID, NoOne))
    /\ Show(u, FeedPage({}, FALSE))
    /\ UNCHANGED <<documents, history>>

CancelAccept(u) ==
    /\ On(u, "accept")
    /\ Navigate(u, FeedPage({}, FALSE))

(* clientProfileTapped *)
LeaveFeed(u) ==
    /\ On(u, "feed")
    /\ Navigate(u, HomePage)

-----------------------------------------------------------------------------
(* The client's side. *)

OpenRecentTasks(u) ==
    /\ u \in Clients
    /\ On(u, "home")
    /\ Navigate(u, RecentPage({}, FALSE))

RowOf(u, t) ==
    [docID |-> t, employeeID |-> LocalValue(u, t, "employeeID"),
     hasPaid |-> LocalValue(u, t, "hasPaid"),
     employeeRated |-> LocalValue(u, t, "employeeRated")]

(* Mutant: the errands are searched by employee. *)
RecentRowsByEmployee(u) ==
    {RowOf(u, t) : t \in {t \in Task :
        /\ LocallyExists(u, t)
        /\ LocalValue(u, t, "employeeID") = u}}

(* The rows of Recent Tasks: the errands of the client that someone accepted,  *)
(* as the phone sees them.                                                     *)
RecentRows(u) ==
    {RowOf(u, t) : t \in {t \in Task :
        /\ LocallyExists(u, t)
        /\ LocalValue(u, t, "clientID") = u
        /\ LocalValue(u, t, "employeeID") # NoOne}}

RecentTasksArrive(u) ==
    /\ On(u, "recent")
    /\ ~page[u].loaded
    /\ Navigate(u, RecentPage(RecentRows(u), TRUE))

LeaveRecentTasks(u) ==
    /\ On(u, "recent")
    /\ Navigate(u, HomePage)

(* didPayButtonPressed / didRateButtonPressed; a button whose row is paid or   *)
(* rated does not react.                                                       *)
PressPay(u) ==
    /\ On(u, "recent")
    /\ \E row \in page[u].rows :
          /\ ~row.hasPaid
          /\ Navigate(u, PayPage(row.docID, page[u].rows))

(* Mutant: the rate button always reacts. *)
PressRateAnyRow(u) ==
    /\ On(u, "recent")
    /\ \E row \in page[u].rows :
          Navigate(u, RatePage(row.docID, row.employeeID, 0, 0, FALSE, page[u].rows))

PressRate(u) ==
    /\ On(u, "recent")
    /\ \E row \in page[u].rows :
          /\ ~row.employeeRated
          /\ Navigate(u, RatePage(row.docID, row.employeeID, 0, 0, FALSE, page[u].rows))

(* confirmButtonTapped: a new Recent Tasks page is opened. *)
ConfirmPayment(u) ==
    /\ On(u, "pay")
    /\ Log!Submit(u, PayWrite(page[u].docID))
    /\ Show(u, RecentPage({}, FALSE))
    /\ UNCHANGED <<documents, history>>

(* retriveEmployeeRatings returns; until then the page holds 0 and 0. *)
RatingArrives(u) ==
    LET p == page[u]
    IN  /\ On(u, "rate")
        /\ ~p.loaded
        /\ Navigate(u, RatePage(p.docID, p.employeeID,
                                LocalValue(u, p.employeeID, "num_ratings"),
                                LocalValue(u, p.employeeID, "rating"), TRUE, p.under))

(* Mutant: the errand is not marked. *)
CompleteRatingUnmarked(u, stars) ==
    LET p == page[u]
        given == RatingWrite(p.employeeID, p.numOfRatings + 1,
                             NewUserRating(p.currentRating, p.numOfRatings, stars))
    IN  /\ On(u, "rate")
        /\ pending' = [pending EXCEPT ![u] = Append(@, given)]
        /\ Show(u, RecentPage({}, FALSE))
        /\ timesRated' = [timesRated EXCEPT ![p.docID] = @ + 1]
        /\ ratingsGiven' = [ratingsGiven EXCEPT ![p.employeeID] = @ + 1]
        /\ UNCHANGED <<documents, applied>>

(* completeButtonTapped with every category rated: the employee's new rating,  *)
(* then the mark on the errand, are written; a new Recent Tasks page opens.    *)
CompleteRating(u, stars) ==
    LET p == page[u]
        given == RatingWrite(p.employeeID, p.numOfRatings + 1,
                             NewUserRating(p.currentRating, p.numOfRatings, stars))
    IN  /\ On(u, "rate")
        /\ pending' = [pending EXCEPT ![u] = @ \o <<given, RatedWrite(p.docID)>>]
        /\ Show(u, RecentPage({}, FALSE))
        /\ timesRated' = [timesRated EXCEPT ![p.docID] = @ + 1]
        /\ ratingsGiven' = [ratingsGiven EXCEPT ![p.employeeID] = @ + 1]
        /\ UNCHANGED <<documents, applied>>

(* Back of the pay and the rate page: the rows below are as they were. *)
BackToRecentTasks(u) ==
    /\ On(u, "pay") \/ On(u, "rate")
    /\ Navigate(u, RecentPage(page[u].under, TRUE))

-----------------------------------------------------------------------------
(* The Firestore client and the server. *)

(* Mutant: a write replaces the document instead of merging into it. *)
ServerReplaces(u) ==
    LET x == Log!NextToApply(u)
    IN  /\ Log!Apply(u)
        /\ documents' = [documents EXCEPT ![x.doc] = x.set]
        /\ UNCHANGED <<page, history>>

ServerApplies(u) ==
    LET x == Log!NextToApply(u)
    IN  /\ Log!Apply(u)
        /\ documents' = [documents EXCEPT ![x.doc] = Merged(@, x.set)]
        /\ UNCHANGED <<page, history>>

Acknowledged(u) == Log!Acknowledge(u) /\ UNCHANGED <<documents, page, history>>

ConnectionLost(u) == Log!Reconnect(u) /\ UNCHANGED <<documents, page, history>>

(* The app is killed and started again: it opens on the home page. *)
Relaunch(u) == page[u] # HomePage /\ Navigate(u, HomePage)

-----------------------------------------------------------------------------

ClientStep(u) ==
    \/ \E t \in Task : PostTask(u, t)
    \/ OpenRecentTasks(u)
    \/ RecentTasksArrive(u)
    \/ LeaveRecentTasks(u)
    \/ PressPay(u)
    \/ PressRate(u)
    \/ ConfirmPayment(u)
    \/ RatingArrives(u)
    \/ \E stars \in StarChoices : CompleteRating(u, stars)
    \/ BackToRecentTasks(u)

EmployeeStep(u) ==
    \/ OpenFeed(u)
    \/ FeedArrives(u)
    \/ \E t \in Task : OpenTask(u, t)
    \/ AcceptTask(u)
    \/ CancelAccept(u)
    \/ LeaveFeed(u)

NetworkStep(u) ==
    \/ ServerApplies(u)
    \/ Acknowledged(u)
    \/ ConnectionLost(u)
    \/ Relaunch(u)

Next == \E u \in User : ClientStep(u) \/ EmployeeStep(u) \/ NetworkStep(u)

Spec == Init /\ [][Next]_vars

(* What WritePipeline guarantees of the log: it keeps trying (WritesSettle).   *)
Fairness == \A u \in User : SF_vars(ServerApplies(u)) /\ SF_vars(Acknowledged(u))

FairSpec == Spec /\ Fairness

-----------------------------------------------------------------------------
(* Type invariant. *)
TypeOK ==
    /\ documents \in [Task \cup User -> Errand \cup RatingFields \cup {NoDocument}]
    /\ \A t \in Task : documents[t] \in Errand \cup {NoDocument}
    /\ \A u \in User : documents[u] \in RatingFields
    /\ pending \in [User -> Seq(Write)]
    /\ applied \in [User -> Nat]
    /\ page \in [User -> Page]
    /\ timesRated \in [Task -> Nat]
    /\ ratingsGiven \in [User -> Nat]

(* A write for an errand finds the errand's document, which updateData needs   *)
(* and which a merge would else create with no other field: the document is    *)
(* there, or the posting is ahead of the write in the same log; also after a   *)
(* lost connection has taken the log back to its head.                         *)
WritesFindTheirErrand ==
    \A u \in User :
        /\ applied[u] <= Len(pending[u])
        /\ \A i \in DOMAIN pending[u], t \in Task : pending[u][i].doc = t =>
              \/ Exists(t)
              \/ i > applied[u] /\ \E j \in Setting(u, t, "clientID") : j <= i

Settled(t) == Exists(t) /\ (documents[t].hasPaid \/ documents[t].employeeRated)

(* An errand is marked paid or rated only if it has an employee, even though   *)
(* a posting whose answer was lost is sent again and then clears the employee  *)
(* somebody else has set meanwhile.                                            *)
SettledErrandIsAssigned ==
    \A t \in Task : Settled(t) => documents[t].employeeID # NoOne

(* A client completes at most one rating for an errand, however often Recent   *)
(* Tasks is left, reopened or shown with old rows, and however late the mark   *)
(* reaches the server.                                                         *)
RatedOnce == \A t \in Task : timesRated[t] <= 1

(* The stored rating is that of somebody who was rated, or nobody rated yet,   *)
(* also when it is computed from data that never arrived.                      *)
RatingInRange ==
    \A u \in User :
        IF documents[u].num_ratings = 0 THEN documents[u].rating = 0
        ELSE documents[u].rating \in RatingRange

(* Only the client of an errand has a payment or a rating mark for it on its   *)
(* way to the server.                                                          *)
OnlyTheClientSettles ==
    \A u \in User : \A i \in DOMAIN pending[u] :
        LET x == pending[u][i]
        IN  (x.doc \in Task /\ DOMAIN x.set \in {{"hasPaid"}, {"employeeRated"}})
               => LocalValue(u, x.doc, "clientID") = u

(* What a client has paid or rated never looks unpaid or unrated on the phone  *)
(* again: not while the writes travel, not when they are acknowledged one by   *)
(* one, and not when a posting that is sent again resets the server's errand.  *)
SettledOnPhone(u, t, mark) ==
    LocallyExists(u, t) /\ LocalValue(u, t, "clientID") = u /\ LocalValue(u, t, mark)

SettlementIsFinal ==
    [][\A u \in User, t \in Task, mark \in {"hasPaid", "employeeRated"} :
          SettledOnPhone(u, t, mark) => SettledOnPhone(u, t, mark)']_vars

(* Every completed rating ends as a mark on its errand. *)
RatingIsRecorded ==
    \A t \in Task : (timesRated[t] > 0) ~> (Exists(t) /\ documents[t].employeeRated)

-----------------------------------------------------------------------------
(* What comments and texts of the repository say and the code does not do. *)

AllAcknowledged == \A u \in User : pending[u] = << >>

(* "retrieve the user's current data for their rating" and "Calculating the    *)
(* users new rating that will be updated on the database": once all writes     *)
(* have arrived, the employee's num_ratings counts every rating given.         *)
EveryRatingCounts ==
    AllAcknowledged => \A u \in User : documents[u].num_ratings = ratingsGiven[u]
=============================================================================
