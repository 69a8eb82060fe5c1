---------------------------- MODULE Registration ----------------------------
(***************************************************************************)
(* How an account comes to be on one phone and how its profile is edited   *)
(* later: the login page, the first registration page, the set-up page,    *)
(* the page that edits the profile, and three services that fail one by    *)
(* one, the accounts (Auth), the pictures (Storage) and the profiles       *)
(* (Firestore).                                                            *)
(*                                                                         *)
(* A request to Auth or Storage is handled and answered at moments of its  *)
(* own; its callback runs whatever page is shown by then.  Pages are       *)
(* sheets that the user may swipe down, and UIKit ignores present from a   *)
(* page that is not on top.  A profile is a Firestore write: it is         *)
(* accepted at once and arrives in the end (WriteLog).                     *)
(***************************************************************************)
EXTENDS Naturals

CONSTANTS
    Emails,         \* identities that register with a password
    ThirdParties,   \* identities that Google or Facebook vouch for
    MaxUid,         \* bound: accounts that Auth creates
    Slot            \* bound: requests under way at a time

ASSUME RegistrationAssumption ==
    /\ Emails \cap ThirdParties = {}
    /\ MaxUid \in Nat

VARIABLES
    accountOf,      \* Auth: the account of each identity
    lastUid,        \* Auth: accounts created so far
    pictures,       \* Storage: whose picture is there
    profile,        \* Firestore: the profile of each account
    currentUser,    \* the account signed in on the phone; survives a restart
    page,           \* the page on top
    requests,       \* requests whose callback has not run
    timesSetUp,     \* history: calls of setUserData for each account
    lostUploads,    \* history: accounts an edited picture of which did not get there
    interrupted     \* history: accounts without a profile one step of which failed
                    \* or found its page gone, or that were under way when the
                    \* app was killed or set-up left

services == <<accountOf, lastUid, pictures, profile>>
history == <<timesSetUp, lostUploads, interrupted>>
vars == <<services, currentUser, page, requests, history>>

Identity == Emails \cup ThirdParties
NoUid == 0
Uid == 1..MaxUid

-----------------------------------------------------------------------------
(* Pages and requests. *)

LoggedOut == [name |-> "loggedOut"]
Login == [name |-> "login"]
Step1 == [name |-> "step1"]
SetupPage(i, from) == [name |-> "setup", identity |-> i, from |-> from]
Home == [name |-> "home"]
Gone == [name |-> "gone"]

(* The profile of `uid` as the page shows it: what it waits for, whether there  *)
(* is a picture on it or the symbol it starts with, and whether its fields can  *)
(* be edited.                                                                  *)
EditPage(u) == [name |-> "edit", uid |-> u, awaits |-> "profile",
                pictured |-> FALSE, editing |-> FALSE]

(* The pages that are, or can come back, on top. *)
Stack(p) == IF p.name = "setup" THEN {p, p.from} ELSE {p}

Page == {LoggedOut, Login, Step1, Home}
   \cup [name : {"setup"}, identity : Identity, from : {Login, Step1}]
   \cup [name : {"edit"}, uid : Uid \cup {NoUid}, awaits : {"profile", "picture", "nothing"},
         pictured : BOOLEAN, editing : BOOLEAN]

Kind == {"signInEmail", "signIn", "createUser", "signInAgain", "putData", "delete"}

Idle == [kind |-> "idle"]

(* `page`: the page that asks; `uid`: the account it is about, once known.     *)
NewRequest(kind, i) ==
    [kind |-> kind, identity |-> i, page |-> page, uid |-> NoUid,
     isNewUser |-> FALSE, handled |-> FALSE]

(* Its callback does not look at the page. *)
DeleteRequest(r) == [r EXCEPT !.kind = "delete", !.page = Gone, !.isNewUser = FALSE,
                              !.handled = FALSE]

(* uploadData of StorageManagager; its callback only shows a message.          *)
UploadRequest(u) == [kind |-> "uploadData", page |-> Gone, uid |-> u, handled |-> FALSE]

Request == [kind : Kind, identity : Identity, page : Page \cup {Gone},
            uid : Uid \cup {NoUid}, isNewUser : BOOLEAN, handled : BOOLEAN]
     \cup [kind : {"uploadData"}, page : {Gone}, uid : Uid, handled : BOOLEAN]

Underway == {s \in Slot : requests[s] # Idle}

Send(request) ==
    LET free == Slot \ Underway
    IN  /\ free # {}
        /\ requests' = [requests EXCEPT ![CHOOSE s \in free : TRUE] = request]

Become(s, request) == requests' = [requests EXCEPT ![s] = request]

(* When p is shown, a request of a page that will not come back has lost it.   *)
Kept(r, p) == IF r = Idle \/ r.page \in Stack(p) THEN r ELSE [r EXCEPT !.page = Gone]

Turn(p) ==
    /\ page' = p
    /\ requests' = [s \in Slot |-> Kept(requests[s], p)]

(* The listener of the logged-out page, which hears of a change of the account *)
(* before the callback does.                                                   *)
AfterListener(p) == IF p = LoggedOut /\ currentUser' # NoUid THEN Home ELSE p

(* The callback of s is over and presents p, which works from the page on top  *)
(* only; `request` is what it asks for next.                                   *)
Proceed(s, request, p) ==
    LET shown == IF page = requests[s].page THEN p
                 ELSE IF currentUser' # currentUser THEN AfterListener(page)
                 ELSE page
    IN  /\ page' = shown
        /\ requests' = [t \in Slot |-> Kept(IF t = s THEN request ELSE requests[t], shown)]

-----------------------------------------------------------------------------

Init ==
    /\ accountOf = [i \in Identity |-> NoUid]
    /\ lastUid = 0
    /\ pictures = {}
    /\ profile = [u \in Uid |-> "none"]
    /\ currentUser = NoUid
    /\ page = LoggedOut
    /\ requests = [s \in Slot |-> Idle]
    /\ timesSetUp = [u \in Uid |-> 0]
    /\ lostUploads = {}
    /\ interrupted = {}

-----------------------------------------------------------------------------
(* Taps. *)

(* Something came between these accounts and their set-up. *)
Interrupt(uids) ==
    interrupted' = interrupted \cup {u \in uids \ {NoUid} : profile[u] = "none"}

Go(p) == Turn(p) /\ UNCHANGED <<services, currentUser, history>>

Ask(request) ==
    /\ Send(request)
    /\ UNCHANGED <<services, currentUser, page, history>>

loginPressed == page = LoggedOut /\ Go(Login)
registerPressed == page = LoggedOut /\ Go(Step1)

(* The user leaves a page for the one below.                                  *)
SwipeDown ==
    \/ page \in {Login, Step1} /\ Go(LoggedOut)
    \/ /\ page.name = "setup"
       /\ Turn(page.from)
       /\ Interrupt({currentUser} \cup {requests[s].uid : s \in Underway})
       /\ UNCHANGED <<services, currentUser, timesSetUp, lostUploads>>

(* continueTapped of the login page and of the first registration page. *)
SignInWithEmail(i) ==
    /\ page = Login
    /\ Ask(NewRequest("signInEmail", i))

RegisterWithEmail(i) ==
    /\ page = Step1
    /\ Go(SetupPage(i, Step1))

(* ...WithGoogleTapped and ...WithFacebookTapped of both pages, at the moment  *)
(* Google or Facebook has vouched for the user.  Their dialogue takes its time: *)
(* the answer to an earlier sign-in is there before it is over.                *)
SignInWithThirdParty(i) ==
    /\ page \in {Login, Step1}
    /\ \A s \in Underway : requests[s].kind # "signIn"
    /\ Ask(NewRequest("signIn", i))

(* Mutant: the account of an e-mail is signed in to, not created. *)
AlwaysSignIn(i) == "signInAgain"

(* password is set, or there is a credential. *)
SetupRequest(i) == IF i \in Emails THEN "createUser" ELSE "signInAgain"

(* The button stays enabled while a request is under way. *)
continuePressed ==
    /\ page.name = "setup"
    /\ Ask(NewRequest(SetupRequest(page.identity), page.identity))

logoutTapped ==
    /\ page = Home
    /\ Turn(LoggedOut)
    /\ currentUser' = NoUid
    /\ UNCHANGED <<services, history>>

-----------------------------------------------------------------------------
(* The page that edits the profile. *)

EditProfile ==
    /\ page = Home
    /\ Go(EditPage(currentUser))

BackFromEditing == page.name = "edit" /\ Go(Home)

(* viewDidLoad's read of the user's document: a link makes the page ask for    *)
(* the picture.                                                                *)
ProfileArrives ==
    /\ page.name = "edit"
    /\ page.awaits = "profile"
    /\ page.uid # NoUid
    /\ Go([page EXCEPT !.awaits =
             IF profile[page.uid] = "pictured" THEN "picture" ELSE "nothing"])

(* An answer without data is unwrapped by force and crashes the app, as Killed. *)
StoredPictureArrives ==
    /\ page.name = "edit"
    /\ page.awaits = "picture"
    /\ page.uid \in pictures
    /\ Go([page EXCEPT !.awaits = "nothing", !.pictured = TRUE])

EditPressed ==
    /\ page.name = "edit"
    /\ ~page.editing
    /\ Go([page EXCEPT !.editing = TRUE])

PickImage ==
    /\ page.name = "edit"
    /\ page.editing
    /\ Go([page EXCEPT !.pictured = TRUE])

(* updateUserInfo: linkToImg names the user once there is a picture on the     *)
(* page and is empty before.  There has to be a profile.                       *)
UpdateUserInfo(u, pictured) ==
    profile' = IF profile[u] = "none" THEN profile
               ELSE [profile EXCEPT ![u] = IF pictured THEN "pictured" ELSE "plain"]

(* saveChangesTapped, when the fields are valid: what picture there is on the  *)
(* page goes to the storage, the profile is written beside it.                 *)
SaveChanges ==
    /\ page.name = "edit"
    /\ page.editing
    /\ currentUser # NoUid
    /\ page' = [page EXCEPT !.editing = FALSE]
    /\ UpdateUserInfo(currentUser, page.pictured)
    /\ IF page.pictured THEN Send(UploadRequest(currentUser)) ELSE UNCHANGED requests
    /\ UNCHANGED <<accountOf, lastUid, pictures, currentUser, history>>

-----------------------------------------------------------------------------
(* The services (external). *)

CreateAccount(s, i) ==
    /\ lastUid < MaxUid
    /\ lastUid' = lastUid + 1
    /\ accountOf' = [accountOf EXCEPT ![i] = lastUid + 1]
    /\ Become(s, [requests[s] EXCEPT !.uid = lastUid + 1, !.handled = TRUE,
                                     !.isNewUser = requests[s].kind = "signIn"])
    /\ UNCHANGED pictures

FindAccount(s, i) ==
    /\ Become(s, [requests[s] EXCEPT !.uid = accountOf[i], !.handled = TRUE])
    /\ UNCHANGED <<accountOf, lastUid, pictures>>

DeleteAccount(s, i) ==
    /\ accountOf' = [accountOf EXCEPT ![i] = NoUid]
    /\ Become(s, [requests[s] EXCEPT !.handled = TRUE])
    /\ UNCHANGED <<lastUid, pictures>>

StorePicture(s) ==
    /\ pictures' = pictures \cup {requests[s].uid}
    /\ Become(s, [requests[s] EXCEPT !.handled = TRUE])
    /\ UNCHANGED <<accountOf, lastUid>>

(* What Auth answers with an error: the account exists already, or not (any   *)
(* more).                                                                      *)
Refused(r) ==
    \/ r.kind = "createUser" /\ accountOf[r.identity] # NoUid
    \/ r.kind = "signInEmail" /\ accountOf[r.identity] = NoUid
    \/ r.kind = "delete" /\ accountOf[r.identity] # r.uid

ServiceHandles(s) ==
    LET r == requests[s]
        i == r.identity
    IN  /\ r # Idle
        /\ ~r.handled
        /\ ~Refused(r)
        /\ CASE r.kind \in {"putData", "uploadData"} -> StorePicture(s)
             [] r.kind = "delete" -> DeleteAccount(s, i)
             [] OTHER -> IF accountOf[i] = NoUid THEN CreateAccount(s, i)
                         ELSE FindAccount(s, i)
        /\ UNCHANGED <<profile, currentUser, page, history>>

-----------------------------------------------------------------------------
(* Callbacks. *)

Answered(s, kinds) ==
    requests[s] # Idle /\ requests[s].kind \in kinds /\ requests[s].handled

SignedIn(u) == currentUser' = u

(* The callback may come when its page is gone. *)
LateIn(r) == Interrupt(IF page = r.page THEN {} ELSE {r.uid})

SignInEmailArrives(s) ==
    LET r == requests[s]
    IN  /\ Answered(s, {"signInEmail"})
        /\ SignedIn(r.uid)
        /\ Proceed(s, Idle, Home)
        /\ LateIn(r)
        /\ UNCHANGED <<services, timesSetUp, lostUploads>>

(* Uploads of an edited picture that end before the picture is stored.         *)
LoseUploads(slots) ==
    lostUploads' = lostUploads \cup
        {requests[s].uid : s \in {q \in slots : /\ requests[q].kind = "uploadData"
                                               /\ ~requests[q].handled}}

(* Everything the process holds is lost, what the services hold is not, and    *)
(* the app starts with the logged-out page.                                    *)
Restarted(u) ==
    /\ SignedIn(u)
    /\ page' = AfterListener(LoggedOut)
    /\ requests' = [s \in Slot |-> Idle]
    /\ Interrupt({u} \cup {requests[s].uid : s \in Underway})
    /\ LoseUploads(Underway)
    /\ UNCHANGED <<services, timesSetUp>>

(* Mutant: a new user is taken home like any other. *)
EveryoneArrives(s) ==
    LET r == requests[s]
    IN  /\ Answered(s, {"signIn"})
        /\ SignedIn(r.uid)
        /\ Proceed(s, Idle, Home)
        /\ LateIn(r)
        /\ UNCHANGED <<services, timesSetUp, lostUploads>>

(* A new user gets the set-up page, and the account is to be deleted at once; *)
(* another one goes home.  If the page is gone when a new user is signed in,   *)
(* the outlets of the set-up page, which is not presented, are nil (or self    *)
(* is: it is unowned), and the app crashes.                                    *)
SignInArrives(s) ==
    LET r == requests[s]
    IN  /\ Answered(s, {"signIn"})
        /\ IF r.isNewUser /\ page # r.page THEN Restarted(r.uid)
           ELSE /\ SignedIn(r.uid)
                /\ IF r.isNewUser
                   THEN Proceed(s, DeleteRequest(r), SetupPage(r.identity, page))
                   ELSE Proceed(s, Idle, Home)
                /\ LateIn(r)
                /\ UNCHANGED <<services, timesSetUp, lostUploads>>

(* Mutant: whether there is a picture is stored in place of the profile. *)
FlagStored(u, picked) ==
    /\ profile' = [profile EXCEPT ![u] = IF picked THEN "yes" ELSE "no"]
    /\ timesSetUp' = [timesSetUp EXCEPT ![u] = @ + 1]
    /\ interrupted' = interrupted \ {u}

(* setUserData replaces the document, rating fields included. *)
SetUserData(u, picked) ==
    /\ profile' = [profile EXCEPT ![u] = IF picked THEN "pictured" ELSE "plain"]
    /\ timesSetUp' = [timesSetUp EXCEPT ![u] = @ + 1]
    /\ interrupted' = interrupted \ {u}

(* The next request of r's set-up: the picture. *)
Upload(r) == [r EXCEPT !.kind = "putData", !.handled = FALSE]

(* Mutant: the profile is stored while the picture is being uploaded. *)
AccountArrivesAndStores(s, picked) ==
    LET r == requests[s]
    IN  /\ Answered(s, {"createUser", "signInAgain"})
        /\ SignedIn(r.uid)
        /\ SetUserData(r.uid, picked)
        /\ Proceed(s, IF picked THEN Upload(r) ELSE Idle, Home)
        /\ UNCHANGED <<accountOf, lastUid, pictures, lostUploads>>

(* The account is there: upload the picture if one has been picked by now,     *)
(* else store the profile and go home.                                         *)
AccountArrives(s, picked) ==
    LET r == requests[s]
    IN  /\ Answered(s, {"createUser", "signInAgain"})
        /\ SignedIn(r.uid)
        /\ IF picked
           THEN /\ Proceed(s, Upload(r), page)
                /\ LateIn(r)
                /\ UNCHANGED <<profile, timesSetUp>>
           ELSE /\ SetUserData(r.uid, FALSE)
                /\ Proceed(s, Idle, Home)
        /\ UNCHANGED <<accountOf, lastUid, pictures, lostUploads>>

(* Mutant: the callback ends where it checks the metadata. *)
PictureArrivesAndReturns(s) ==
    /\ Answered(s, {"putData"})
    /\ Become(s, Idle)
    /\ UNCHANGED <<services, currentUser, page, history>>

PictureArrives(s) ==
    LET r == requests[s]
    IN  /\ Answered(s, {"putData"})
        /\ UNCHANGED <<accountOf, lastUid, pictures, currentUser, lostUploads>>
        /\ SetUserData(r.uid, TRUE)
        /\ Proceed(s, Idle, Home)

UploadArrives(s) ==
    /\ Answered(s, {"uploadData"})
    /\ Become(s, Idle)
    /\ UNCHANGED <<services, currentUser, page, history>>

(* The SDK signs out whoever is deleted. *)
DeleteArrives(s) ==
    /\ Answered(s, {"delete"})
    /\ SignedIn(IF currentUser = requests[s].uid THEN NoUid ELSE currentUser)
    /\ Become(s, Idle)
    /\ UNCHANGED <<services, page, history>>

(* An error: the service refuses, was not reached, or its answer is lost.  At  *)
(* most a message is shown.                                                    *)
RequestFails(s) ==
    /\ requests[s] # Idle
    /\ Become(s, Idle)
    /\ Interrupt({requests[s].uid})
    /\ LoseUploads({s})
    /\ UNCHANGED <<services, currentUser, page, timesSetUp>>

Killed ==
    /\ page # LoggedOut \/ Underway # {}
    /\ Restarted(currentUser)

-----------------------------------------------------------------------------

Tap ==
    \/ loginPressed
    \/ registerPressed
    \/ SwipeDown
    \/ \E i \in Emails : SignInWithEmail(i) \/ RegisterWithEmail(i)
    \/ \E i \in ThirdParties : SignInWithThirdParty(i)
    \/ continuePressed
    \/ logoutTapped

Editing ==
    \/ EditProfile
    \/ BackFromEditing
    \/ ProfileArrives
    \/ StoredPictureArrives
    \/ EditPressed
    \/ PickImage
    \/ SaveChanges

Callback(s) ==
    \/ SignInEmailArrives(s)
    \/ SignInArrives(s)
    \/ \E picked \in BOOLEAN : AccountArrives(s, picked)
    \/ PictureArrives(s)
    \/ UploadArrives(s)
    \/ DeleteArrives(s)

Next ==
    \/ Tap
    \/ Editing
    \/ \E s \in Slot : ServiceHandles(s) \/ Callback(s) \/ RequestFails(s)
    \/ Killed

Spec == Init /\ [][Next]_vars

-----------------------------------------------------------------------------
(* Type invariant. *)
TypeOK ==
    /\ accountOf \in [Identity -> Uid \cup {NoUid}]
    /\ lastUid \in 0..MaxUid
    /\ pictures \subseteq Uid
    /\ profile \in [Uid -> {"none", "plain", "pictured"}]
    /\ currentUser \in Uid \cup {NoUid}
    /\ page \in Page
    /\ requests \in [Slot -> Request \cup {Idle}]
    /\ timesSetUp \in [Uid -> Nat]
    /\ lostUploads \subseteq Uid
    /\ interrupted \subseteq Uid

(* The home page and the profile pages unwrap the picture behind a profile's   *)
(* link by force: a profile has a link to a picture that is not there only     *)
(* between a save and the upload beside it, for good if that upload is lost;   *)
(* set-up, whichever of its steps fails or comes late, never stores one.       *)
LinkedPictureUploaded ==
    \A u \in Uid : profile[u] = "pictured" =>
        \/ u \in pictures
        \/ \E s \in Underway : requests[s].kind = "uploadData" /\ requests[s].uid = u
        \/ u \in lostUploads

(* setUserData resets rating and num_ratings.  An account made with a password *)
(* is set up at most once, however often continue is pressed and although the  *)
(* button stays enabled: createUser refuses the second time.                   *)
PasswordAccountSetUpOnce ==
    \A i \in Emails : accountOf[i] # NoUid => timesSetUp[accountOf[i]] <= 1

(* The set-up of u is still under way. *)
BeingSetUp(u) ==
    \E s \in Underway : /\ requests[s].kind \in {"createUser", "signInAgain", "putData"}
                        /\ requests[s].uid = u

(* segueToHomeVC: whoever is at home has a profile, or set-up is about to give *)
(* one, unless a step failed or came after its page was gone, or the app was   *)
(* killed or the set-up page left meanwhile.                                   *)
HomeNeedsProfile ==
    (page = Home /\ currentUser # NoUid) =>
        \/ profile[currentUser] # "none"
        \/ BeingSetUp(currentUser)
        \/ currentUser \in interrupted

(* An account that signIn or createUser made, and that has no profile, is being *)
(* set up or deleted: the callbacks leave none behind, unless it was           *)
(* interrupted.                                                                *)
NoAccountForgotten ==
    \A i \in Identity : accountOf[i] # NoUid =>
        \/ profile[accountOf[i]] # "none"
        \/ \E s \in Underway : requests[s].uid = accountOf[i]
        \/ accountOf[i] \in interrupted

(* The comment of the sign-in callbacks, "Delete user from database if they do *)
(* not complete the setup page.": once set-up was left and nothing is under    *)
(* way, no third-party account is there without a profile.                     *)
UnfinishedAccountsAreDeleted ==
    (page.name # "setup" /\ Underway = {}) =>
        \A i \in ThirdParties :
            accountOf[i] # NoUid => profile[accountOf[i]] # "none"
=============================================================================
