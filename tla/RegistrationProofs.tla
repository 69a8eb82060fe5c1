------------------------- MODULE RegistrationProofs -------------------------
(***************************************************************************)
(* Theorems about Registration, for any identities, any number of accounts *)
(* and of requests under way.                                              *)
(***************************************************************************)
EXTENDS Registration, TLAPS

-----------------------------------------------------------------------------
(* The inductive invariant. *)

(* Whoever is accounted for has a profile, or set-up is about to give one, or  *)
(* something came between.                                                     *)
Accounted(u) == profile[u] # "none" \/ BeingSetUp(u) \/ u \in interrupted

(* Who asks for what, and from which page. *)
KindSound(r) ==
    /\ r.page \in Stack(page) \cup {Gone}
    /\ r.kind \in {"signInEmail", "signIn"} => r.page \in {Login, Step1, Gone}
    /\ r.kind \in {"createUser", "signInAgain", "putData"} =>
          \/ r.page = Gone
          \/ r.page.name = "setup" /\ r.page.identity = r.identity
    /\ r.kind \in {"delete", "uploadData"} => r.page = Gone
    /\ r.kind \in {"signInEmail", "createUser"} => r.identity \in Emails
    /\ r.kind \in {"signIn", "signInAgain", "delete"} => r.identity \in ThirdParties

(* The account a request is about: of its identity alone, and of an e-mail for *)
(* good; a deleted account never comes back.                                   *)
UidSound(r) ==
    /\ r.kind \in {"signInEmail", "signIn", "createUser", "signInAgain"} =>
          (r.uid # NoUid <=> r.handled)
    /\ r.kind \in {"putData", "delete", "uploadData"} => r.uid # NoUid
    /\ r.uid <= lastUid
    /\ r.kind # "uploadData" /\ r.uid # NoUid =>
          /\ \A i \in Identity : accountOf[i] = r.uid => i = r.identity
          /\ r.identity \in Emails => accountOf[r.identity] = r.uid
    /\ r.kind = "delete" /\ r.handled => accountOf[r.identity] # r.uid
    /\ r.kind \in {"putData", "uploadData"} /\ r.handled => r.uid \in pictures

RequestsInv ==
    /\ \A s \in Underway : KindSound(requests[s]) /\ UidSound(requests[s])
    /\ \A s, t \in Underway :
          requests[s].kind = "signIn" /\ requests[t].kind = "signIn" => s = t

AccountsInv ==
    /\ \A i \in Identity : accountOf[i] <= lastUid
    /\ \A i, j \in Identity : accountOf[i] = accountOf[j] /\ accountOf[i] # NoUid => i = j
    /\ \A u \in Uid : u > lastUid => timesSetUp[u] = 0
    /\ currentUser <= lastUid

(* The slot whose request will store the first profile of a password account.  *)
WillSetUp(s) ==
    /\ s \in Underway
    /\ requests[s].kind \in {"createUser", "putData"}
    /\ requests[s].identity \in Emails
    /\ requests[s].uid # NoUid

SetUpInv ==
    /\ \A s \in Slot : WillSetUp(s) => timesSetUp[requests[s].uid] = 0
    /\ \A s, t \in Slot :
          WillSetUp(s) /\ WillSetUp(t) /\ requests[s].uid = requests[t].uid => s = t
    /\ PasswordAccountSetUpOnce

(* An account that is not accounted for was made by a sign-in whose callback   *)
(* has not run, or is about to be deleted while its set-up page is shown.      *)
OnlySignIns ==
    \A i \in Identity : accountOf[i] # NoUid /\ ~Accounted(accountOf[i]) =>
        \E s \in Underway : /\ requests[s].uid = accountOf[i]
                            /\ requests[s].kind \in {"signIn", "delete"}
                            /\ requests[s].kind = "signIn" => requests[s].isNewUser

FoundAreAccounted ==
    \A s \in Underway :
        requests[s].kind = "signIn" /\ requests[s].handled /\ ~requests[s].isNewUser =>
            Accounted(requests[s].uid)

DeletedFromSetup ==
    \A s \in Underway :
        /\ requests[s].kind = "delete"
        /\ accountOf[requests[s].identity] = requests[s].uid
        /\ ~Accounted(requests[s].uid)
        => /\ page.name = "setup" /\ page.identity = requests[s].identity
           /\ \A t \in Underway : /\ requests[t].kind # "signIn"
                                  /\ requests[t].page = page => requests[t].uid = NoUid

UserIsAccounted ==
    currentUser # NoUid /\ ~Accounted(currentUser) =>
        /\ page.name = "setup"
        /\ \A t \in Underway : requests[t].page = page => requests[t].kind # "putData"

AccountedInv ==
    OnlySignIns /\ FoundAreAccounted /\ DeletedFromSetup /\ UserIsAccounted

IInv == TypeOK /\ RequestsInv /\ AccountsInv /\ SetUpInv /\ AccountedInv
            /\ LinkedPictureUploaded

-----------------------------------------------------------------------------
(* Pages and requests. *)

LEMMA PageFacts ==
  ASSUME NEW p \in Page
  PROVE  /\ p # Gone
         /\ p.name = "setup" => /\ p.identity \in Identity /\ p.from \in {Login, Step1}
                                /\ Stack(p) = {p, p.from}
         /\ p.name # "setup" => Stack(p) = {p}
         /\ p \in Stack(p) /\ Gone \notin Stack(p) /\ Stack(p) \subseteq Page
         /\ p.name = "edit" =>
               p \in [name : {"edit"}, uid : Uid \cup {NoUid},
                      awaits : {"profile", "picture", "nothing"},
                      pictured : BOOLEAN, editing : BOOLEAN]
<1>1. Gone.name = "gone" /\ LoggedOut.name = "loggedOut" /\ Login.name = "login"
      /\ Step1.name = "step1" /\ Home.name = "home"
  BY DEF Gone, LoggedOut, Login, Step1, Home
<1>2. CASE p \in {LoggedOut, Login, Step1, Home}
  BY <1>1, <1>2 DEF Stack, Page
<1>3. CASE p \in [name : {"setup"}, identity : Identity, from : {Login, Step1}]
  BY <1>1, <1>3 DEF Stack, Page
<1>4. CASE p \in [name : {"edit"}, uid : Uid \cup {NoUid},
                  awaits : {"profile", "picture", "nothing"},
                  pictured : BOOLEAN, editing : BOOLEAN]
  BY <1>1, <1>4 DEF Stack, Page
<1> QED BY <1>2, <1>3, <1>4 DEF Page

(* The same request, possibly without its page. *)
Alike(r, q) ==
    \/ r = Idle /\ q = Idle
    \/ /\ r # Idle /\ q # Idle
       /\ q.kind = r.kind /\ q.uid = r.uid /\ q.handled = r.handled
       /\ r.kind # "uploadData" => q.identity = r.identity /\ q.isNewUser = r.isNewUser
       /\ q.page \in {r.page, Gone}

SlotType == Request \cup {Idle}

LEMMA RequestFacts ==
  ASSUME NEW r \in Request
  PROVE  /\ r # Idle
         /\ r.kind \in Kind \cup {"uploadData"} /\ r.uid \in Uid \cup {NoUid}
         /\ r.handled \in BOOLEAN /\ r.page \in Page \cup {Gone}
         /\ r.kind # "uploadData" => r.identity \in Identity /\ r.isNewUser \in BOOLEAN
         /\ r.kind # "uploadData" =>
               r \in [kind : Kind, identity : Identity, page : Page \cup {Gone},
                      uid : Uid \cup {NoUid}, isNewUser : BOOLEAN, handled : BOOLEAN]
<1>1. Idle.kind = "idle"
  BY DEF Idle
<1>2. CASE r \in [kind : Kind, identity : Identity, page : Page \cup {Gone},
                  uid : Uid \cup {NoUid}, isNewUser : BOOLEAN, handled : BOOLEAN]
  BY <1>1, <1>2 DEF Kind
<1>3. CASE r \in [kind : {"uploadData"}, page : {Gone}, uid : Uid, handled : BOOLEAN]
  BY <1>1, <1>3 DEF Kind
<1> QED BY <1>2, <1>3 DEF Request

LEMMA KeptFacts ==
  ASSUME NEW r \in SlotType, NEW p
  PROVE  /\ Kept(r, p) \in SlotType /\ Alike(r, Kept(r, p))
         /\ Kept(r, p) # Idle => Kept(r, p).page \in Stack(p) \cup {Gone}
<1>1. CASE r = Idle
  BY <1>1 DEF Kept, Alike, SlotType
<1>2. CASE r \in Request /\ r.page \in Stack(p)
  BY <1>2, RequestFacts DEF Kept, Alike, SlotType
<1>3. CASE r \in Request /\ r.page \notin Stack(p)
  <2> DEFINE q == [r EXCEPT !.page = Gone]
  <2>1. Kept(r, p) = q
    BY <1>3, RequestFacts DEF Kept
  <2>2. /\ q \in Request /\ q.page = Gone /\ q.kind = r.kind /\ q.uid = r.uid
        /\ q.handled = r.handled
        /\ r.kind # "uploadData" => q.identity = r.identity /\ q.isNewUser = r.isNewUser
    <3>1. CASE r \in [kind : Kind, identity : Identity, page : Page \cup {Gone},
                      uid : Uid \cup {NoUid}, isNewUser : BOOLEAN, handled : BOOLEAN]
      BY <3>1 DEF Request
    <3>2. CASE r \in [kind : {"uploadData"}, page : {Gone}, uid : Uid, handled : BOOLEAN]
      BY <3>2 DEF Request
    <3> QED BY <1>3, <3>1, <3>2 DEF Request
  <2> HIDE DEF q
  <2>3. r # Idle
    BY <1>3, RequestFacts
  <2>4. q # Idle
    BY <2>2, RequestFacts
  <2>5. Alike(r, q)
    BY <2>2, <2>3, <2>4 DEF Alike
  <2> QED BY <2>1, <2>2, <2>5 DEF SlotType
<1> QED BY <1>1, <1>2, <1>3 DEF SlotType

(* All requests but those of S are what they were. *)
Rest(S) ==
    \A t \in Slot \ S :
        /\ Alike(requests[t], requests'[t])
        /\ requests'[t] # Idle => requests'[t].page \in Stack(page') \cup {Gone}

LEMMA SlotFacts ==
  ASSUME TypeOK, NEW s \in Slot
  PROVE  /\ requests[s] \in SlotType
         /\ s \in Underway <=> requests[s] # Idle
         /\ s \in Underway => requests[s] \in Request
BY DEF TypeOK, SlotType, Underway

LEMMA BecomeFacts ==
  ASSUME TypeOK, RequestsInv, NEW s \in Slot, NEW q, Become(s, q), page' = page
  PROVE  /\ Rest({s}) /\ requests'[s] = q
         /\ q \in SlotType => requests' \in [Slot -> SlotType]
<1>1. requests' = [requests EXCEPT ![s] = q] /\ requests \in [Slot -> SlotType]
  BY DEF Become, TypeOK, SlotType
<1>2. requests'[s] = q /\ (q \in SlotType => requests' \in [Slot -> SlotType])
  BY <1>1
<1>3. ASSUME NEW t \in Slot \ {s}
      PROVE  /\ Alike(requests[t], requests'[t])
             /\ requests'[t] # Idle => requests'[t].page \in Stack(page') \cup {Gone}
  <2>1. requests'[t] = requests[t]
    BY <1>1
  <2>2. requests[t] # Idle => requests[t].page \in Stack(page) \cup {Gone}
    BY SlotFacts DEF RequestsInv, KindSound
  <2> QED BY <2>1, <2>2 DEF Alike
<1> QED BY <1>2, <1>3 DEF Rest

LEMMA TurnFacts ==
  ASSUME TypeOK, NEW p, Turn(p)
  PROVE  page' = p /\ requests' \in [Slot -> SlotType] /\ Rest({})
<1>1. ASSUME NEW t \in Slot
      PROVE  /\ requests'[t] \in SlotType /\ Alike(requests[t], requests'[t])
             /\ requests'[t] # Idle => requests'[t].page \in Stack(p) \cup {Gone}
  <2>1. requests'[t] = Kept(requests[t], p)
    BY DEF Turn
  <2> QED BY <2>1, SlotFacts, KeptFacts
<1>2. page' = p /\ requests' = [t \in Slot |-> requests'[t]]
  BY DEF Turn
<1> QED BY <1>1, <1>2 DEF Rest

LEMMA ProceedFacts ==
  ASSUME TypeOK, NEW s \in Slot, NEW q \in SlotType, NEW p \in Page, Proceed(s, q, p)
  PROVE  /\ page' \in Page /\ requests' \in [Slot -> SlotType] /\ Rest({s})
         /\ Alike(q, requests'[s])
         /\ requests'[s] # Idle => requests'[s].page \in Stack(page') \cup {Gone}
         /\ page = requests[s].page => page' = p
         /\ page # requests[s].page =>
               \/ page' = page
               \/ page = LoggedOut /\ page' = Home /\ currentUser' # currentUser
<1> DEFINE shown == IF page = requests[s].page THEN p
                    ELSE IF currentUser' # currentUser THEN AfterListener(page)
                    ELSE page
           next(t) == IF t = s THEN q ELSE requests[t]
<1>1. page' = shown /\ requests' = [t \in Slot |-> Kept(next(t), shown)]
  BY DEF Proceed
<1>2. /\ page = requests[s].page => shown = p
      /\ page # requests[s].page =>
            \/ shown = page
            \/ page = LoggedOut /\ shown = Home /\ currentUser' # currentUser
      /\ shown \in Page
  BY DEF AfterListener, TypeOK, Page
<1> HIDE DEF shown
<1>3. ASSUME NEW t \in Slot
      PROVE  /\ requests'[t] \in SlotType /\ Alike(next(t), requests'[t])
             /\ requests'[t] # Idle => requests'[t].page \in Stack(page') \cup {Gone}
  <2>1. next(t) \in SlotType
    BY SlotFacts
  <2>2. requests'[t] = Kept(next(t), shown)
    BY <1>1
  <2> QED BY <1>1, <2>1, <2>2, KeptFacts
<1>4. requests' = [t \in Slot |-> requests'[t]]
  BY <1>1
<1>5. requests' \in [Slot -> SlotType]
  BY <1>3, <1>4
<1>6. Rest({s})
  BY <1>3 DEF Rest
<1>7. Alike(q, requests'[s]) /\ (requests'[s] # Idle => requests'[s].page \in Stack(page') \cup {Gone})
  BY <1>3
<1> QED BY <1>1, <1>2, <1>5, <1>6, <1>7

-----------------------------------------------------------------------------
(* The requests that stay. *)

LEMMA AlikeKind ==
  ASSUME NEW r, NEW q, Alike(r, q), r # Idle, KindSound(r),
         q.page \in Stack(page') \cup {Gone}, r \in Request
  PROVE  KindSound(q)'
<1>1. /\ q.kind = r.kind /\ q.page \in {r.page, Gone}
      /\ r.kind # "uploadData" => q.identity = r.identity
  BY DEF Alike
<1> QED BY <1>1 DEF KindSound

(* What happens to accounts and pictures: an account is made or deleted, one    *)
(* of an e-mail never.                                                         *)
AccountsStep ==
    /\ lastUid <= lastUid' /\ lastUid' \in Nat
    /\ pictures \subseteq pictures'
    /\ \A i \in Identity : accountOf'[i] \in {accountOf[i], NoUid} \/ accountOf'[i] > lastUid
    /\ \A i \in Emails : accountOf[i] # NoUid => accountOf'[i] = accountOf[i]

LEMMA AlikeUid ==
  ASSUME TypeOK, NEW r \in Request, NEW q, Alike(r, q), UidSound(r), AccountsStep
  PROVE  UidSound(q)'
<1>1. /\ q.kind = r.kind /\ q.uid = r.uid /\ q.handled = r.handled
      /\ r.kind # "uploadData" => q.identity = r.identity /\ r.identity \in Identity
      /\ r.uid \in Nat /\ lastUid \in Nat
  BY RequestFacts DEF Alike, TypeOK, Uid, NoUid
<1>2. r.uid <= lastUid'
  BY <1>1 DEF UidSound, AccountsStep
<1>3. \A i \in Identity : r.uid # NoUid /\ accountOf'[i] = r.uid => accountOf[i] = r.uid
  BY <1>1 DEF UidSound, AccountsStep
<1>4. /\ r.kind # "uploadData" /\ r.uid # NoUid /\ r.identity \in Emails
      => accountOf'[r.identity] = r.uid
  BY <1>1 DEF UidSound, AccountsStep
<1>5. r.kind \in {"putData", "uploadData"} /\ r.handled => r.uid \in pictures'
  BY DEF UidSound, AccountsStep
<1> QED BY <1>1, <1>2, <1>3, <1>4, <1>5 DEF UidSound

LEMMA RestFacts ==
  ASSUME TypeOK, NEW S, Rest(S), NEW t \in Slot \ S
  PROVE  /\ requests'[t] # Idle <=> requests[t] # Idle
         /\ t \in Underway <=> (t \in Underway)'
         /\ requests[t] # Idle =>
               /\ requests'[t].kind = requests[t].kind /\ requests'[t].uid = requests[t].uid
               /\ requests'[t].handled = requests[t].handled
               /\ requests[t].kind # "uploadData" =>
                     /\ requests'[t].identity = requests[t].identity
                     /\ requests'[t].isNewUser = requests[t].isNewUser
               /\ requests'[t].page \in {requests[t].page, Gone}
               /\ requests'[t].page \in Stack(page') \cup {Gone}
BY DEF Rest, Alike, Underway

LEMMA RestKind ==
  ASSUME TypeOK, RequestsInv, NEW S, Rest(S), NEW t \in Slot \ S, requests'[t] # Idle
  PROVE  KindSound(requests[t])'
<1>1. PICK r, q : r = requests[t] /\ q = requests'[t]
  OBVIOUS
<1>2. Alike(r, q) /\ q.page \in Stack(page') \cup {Gone}
  BY <1>1 DEF Rest
<1>3. r # Idle
  BY <1>1, <1>2 DEF Alike
<1>4. KindSound(r) /\ r \in Request
  BY <1>1, <1>3, SlotFacts DEF RequestsInv
<1>5. KindSound(q)'
  BY <1>2, <1>3, <1>4, AlikeKind
<1> QED BY <1>1, <1>5

LEMMA RestUidStep ==
  ASSUME TypeOK, RequestsInv, NEW S, Rest(S), NEW t \in Slot \ S, requests'[t] # Idle,
         AccountsStep
  PROVE  UidSound(requests[t])'
<1>1. PICK r, q : r = requests[t] /\ q = requests'[t]
  OBVIOUS
<1>2. Alike(r, q)
  BY <1>1 DEF Rest
<1>3. r # Idle
  BY <1>1, <1>2 DEF Alike
<1>4. UidSound(r) /\ r \in Request
  BY <1>1, <1>3, SlotFacts DEF RequestsInv
<1>5. UidSound(q)'
  BY <1>2, <1>4, AlikeUid
<1> QED BY <1>1, <1>5

LEMMA RestUid ==
  ASSUME TypeOK, RequestsInv, NEW S, Rest(S), NEW t \in Slot \ S, requests'[t] # Idle,
         UNCHANGED <<accountOf, lastUid, pictures>>
  PROVE  UidSound(requests[t])'
<1>1. AccountsStep
  BY DEF AccountsStep, TypeOK
<1> QED BY <1>1, RestUidStep

(* What has to be shown of the requests that change. *)
LEMMA RequestsStep ==
  ASSUME TypeOK, RequestsInv, NEW S \in SUBSET Slot, Rest(S),
         \A s \in S : requests'[s] # Idle =>
            /\ KindSound(requests[s])' /\ UidSound(requests[s])'
            /\ requests'[s].kind = "signIn" =>
                  \/ requests[s] # Idle /\ requests[s].kind = "signIn"
                  \/ S = {s} /\ \A t \in Underway : requests[t].kind # "signIn",
         \A t \in Slot \ S : requests'[t] # Idle => UidSound(requests[t])'
  PROVE  RequestsInv'
<1>1. ASSUME NEW t \in Slot, requests'[t] # Idle
      PROVE  /\ KindSound(requests[t])' /\ UidSound(requests[t])'
             /\ requests'[t].kind = "signIn" =>
                  \/ requests[t] # Idle /\ requests[t].kind = "signIn"
                  \/ S = {t} /\ \A u \in Underway : requests[u].kind # "signIn"
  <2>1. CASE t \in S
    BY <1>1, <2>1
  <2>2. CASE t \in Slot \ S
    BY <1>1, <2>2, RestKind, RestFacts
  <2> QED BY <2>1, <2>2
<1>2. ASSUME NEW t \in Slot, NEW u \in Slot, requests'[t] # Idle, requests'[u] # Idle,
             requests'[t].kind = "signIn", requests'[u].kind = "signIn", t # u
      PROVE  FALSE
  <2>1. ASSUME NEW v \in Slot, NEW w \in Slot, v # w, requests'[w] # Idle,
               requests'[w].kind = "signIn",
               S = {v}, \A q \in Underway : requests[q].kind # "signIn"
        PROVE  FALSE
    BY <2>1, RestFacts DEF Underway
  <2>2. /\ requests[t] # Idle /\ requests[t].kind = "signIn"
        /\ requests[u] # Idle /\ requests[u].kind = "signIn"
    BY <1>1, <1>2, <2>1
  <2> QED BY <1>2, <2>2, SlotFacts DEF RequestsInv
<1> QED BY <1>1, <1>2 DEF RequestsInv, Underway

-----------------------------------------------------------------------------
(* Set-up of password accounts. *)

LEMMA SetUpStep ==
  ASSUME TypeOK, SetUpInv, NEW S \in SUBSET Slot, Rest(S),
         UNCHANGED timesSetUp,
         \A i \in Emails : accountOf'[i] # accountOf[i] /\ accountOf'[i] # NoUid =>
            timesSetUp[accountOf'[i]] = 0,
         \A s \in S : WillSetUp(s)' =>
            \/ WillSetUp(s) /\ requests'[s].uid = requests[s].uid
            \/ /\ S = {s} /\ timesSetUp[requests'[s].uid] = 0
               /\ \A t \in Slot : WillSetUp(t) => requests[t].uid # requests'[s].uid
  PROVE  SetUpInv'
<1>1. ASSUME NEW t \in Slot, WillSetUp(t)'
      PROVE  \/ WillSetUp(t) /\ requests'[t].uid = requests[t].uid
             \/ /\ S = {t} /\ timesSetUp[requests'[t].uid] = 0
                /\ \A u \in Slot : WillSetUp(u) => requests[u].uid # requests'[t].uid
  <2>1. CASE t \in S
    BY <1>1, <2>1
  <2>2. CASE t \in Slot \ S
    <3>1. requests'[t] # Idle /\ requests'[t].kind \in {"createUser", "putData"}
      BY <1>1 DEF WillSetUp, Underway
    <3> QED BY <1>1, <2>2, <3>1, RestFacts DEF WillSetUp, Underway
  <2> QED BY <2>1, <2>2
<1>2. PasswordAccountSetUpOnce'
  BY DEF SetUpInv, PasswordAccountSetUpOnce
<1>3. ASSUME NEW t \in Slot, WillSetUp(t)' PROVE timesSetUp'[requests'[t].uid] = 0
  BY <1>1, <1>3 DEF SetUpInv
<1>4. ASSUME NEW t \in Slot, NEW u \in Slot, WillSetUp(t)', WillSetUp(u)',
             requests'[t].uid = requests'[u].uid
      PROVE  t = u
  BY <1>1, <1>4 DEF SetUpInv
<1> QED BY <1>2, <1>3, <1>4 DEF SetUpInv

(* A request that is over has set its account up, for the first time if it is  *)
(* one with a password.                                                        *)
LEMMA SetUpDone ==
  ASSUME TypeOK, RequestsInv, SetUpInv, NEW s \in Underway, Rest({s}),
         requests[s].kind \in {"createUser", "signInAgain", "putData"},
         requests[s].uid # NoUid,
         UNCHANGED accountOf,
         timesSetUp' = [timesSetUp EXCEPT ![requests[s].uid] = @ + 1],
         requests'[s] = Idle
  PROVE  SetUpInv'
<1> DEFINE r == requests[s]
<1>1. /\ s \in Slot /\ r \in Request /\ r.identity \in Identity /\ r.uid \in Uid
      /\ KindSound(r) /\ UidSound(r)
  BY SlotFacts, RequestFacts DEF Underway, RequestsInv
<1>2. timesSetUp \in [Uid -> Nat] /\ accountOf \in [Identity -> Uid \cup {NoUid}]
  BY DEF TypeOK
<1>3. /\ timesSetUp'[r.uid] = timesSetUp[r.uid] + 1
      /\ \A u \in Uid \ {r.uid} : timesSetUp'[u] = timesSetUp[u]
  BY <1>1, <1>2
<1>4. r.identity \in Emails => WillSetUp(s) /\ timesSetUp[r.uid] = 0
  <2>1. r.identity \in Emails => r.kind # "signInAgain"
    BY <1>1, RegistrationAssumption DEF KindSound
  <2>2. r.identity \in Emails => WillSetUp(s)
    BY <2>1 DEF WillSetUp
  <2> QED BY <1>1, <2>2 DEF SetUpInv
<1>5. \A i \in Identity : accountOf[i] = r.uid => i = r.identity
  BY <1>1 DEF UidSound
<1> HIDE DEF r
<1>6. ASSUME NEW t \in Slot, WillSetUp(t)'
      PROVE  /\ WillSetUp(t) /\ requests'[t].uid = requests[t].uid
             /\ requests[t].uid \in Uid \ {r.uid}
  <2>1. requests'[t] # Idle /\ requests'[t].kind \in {"createUser", "putData"}
    BY <1>6 DEF WillSetUp, Underway
  <2>2. t \in Slot \ {s}
    BY <2>1
  <2>3. WillSetUp(t) /\ requests'[t].uid = requests[t].uid
    BY <1>6, <2>1, <2>2, RestFacts DEF WillSetUp, Underway
  <2>4. /\ requests[t].uid \in Uid /\ requests[t].identity \in Emails
        /\ accountOf[requests[t].identity] = requests[t].uid
    <3>1. requests[t] \in Request /\ UidSound(requests[t]) /\ requests[t].kind # "uploadData"
      BY <2>3, SlotFacts DEF WillSetUp, RequestsInv
    <3> QED BY <2>3, <3>1, RequestFacts DEF WillSetUp, UidSound
  <2>5. requests[t].uid # r.uid
    <3>1. SUFFICES ASSUME requests[t].uid = r.uid PROVE FALSE
      OBVIOUS
    <3>2. r.identity \in Emails
      BY <1>5, <2>4, <3>1 DEF Identity
    <3> QED BY <1>1, <1>4, <2>2, <2>3, <3>1, <3>2 DEF SetUpInv, r
  <2> QED BY <2>3, <2>4, <2>5
<1>7. \A t \in Slot : WillSetUp(t)' => timesSetUp'[requests'[t].uid] = 0
  BY <1>3, <1>6 DEF SetUpInv
<1>8. PasswordAccountSetUpOnce'
  <2> SUFFICES ASSUME NEW i \in Emails, accountOf[i] # NoUid
               PROVE  timesSetUp'[accountOf[i]] <= 1
    BY DEF PasswordAccountSetUpOnce
  <2>1. accountOf[i] \in Uid /\ timesSetUp[accountOf[i]] <= 1
    BY <1>2 DEF SetUpInv, PasswordAccountSetUpOnce, Identity
  <2>2. CASE accountOf[i] = r.uid
    BY <1>3, <1>4, <1>5, <2>2 DEF Identity
  <2>3. CASE accountOf[i] # r.uid
    BY <1>3, <2>1, <2>3
  <2> QED BY <2>2, <2>3
<1> QED BY <1>6, <1>7, <1>8 DEF SetUpInv

-----------------------------------------------------------------------------
(* Whom the app has accounted for. *)

SetUpKind == {"createUser", "signInAgain", "putData"}

LEMMA AccountedStep ==
  ASSUME TypeOK, NEW S \in SUBSET Slot, Rest(S), NEW u \in Uid, Accounted(u),
         profile[u] # "none" => profile'[u] # "none",
         u \in interrupted => u \in interrupted' \/ profile'[u] # "none",
         \A s \in S : s \in Underway /\ requests[s].kind \in SetUpKind /\ requests[s].uid = u =>
            \/ profile'[u] # "none"
            \/ u \in interrupted'
            \/ requests'[s] # Idle /\ requests'[s].kind \in SetUpKind /\ requests'[s].uid = u
  PROVE  Accounted(u)'
<1>1. CASE BeingSetUp(u)
  <2>1. PICK s \in Underway : requests[s].kind \in SetUpKind /\ requests[s].uid = u
    BY <1>1 DEF BeingSetUp, SetUpKind
  <2>2. s \in Slot /\ requests[s] # Idle
    BY DEF Underway
  <2>3. CASE s \in S
    BY <2>1, <2>2, <2>3 DEF Accounted, BeingSetUp, SetUpKind, Underway
  <2>4. CASE s \in Slot \ S
    BY <2>1, <2>2, <2>4, RestFacts DEF Accounted, BeingSetUp, SetUpKind, Underway
  <2> QED BY <2>2, <2>3, <2>4
<1>2. CASE ~BeingSetUp(u)
  BY <1>2 DEF Accounted
<1> QED BY <1>1, <1>2

(* Nobody is forgotten by the step. *)
StillAccounted == \A u \in Uid : Accounted(u) => Accounted(u)'

LEMMA OnlySignInsStep ==
  ASSUME TypeOK, TypeOK', OnlySignIns, StillAccounted, NEW S \in SUBSET Slot, Rest(S),
         \A i \in Identity :
            \/ accountOf'[i] \in {accountOf[i], NoUid}
            \/ \E u \in Uid : accountOf'[i] = u /\ Accounted(u)'
            \/ \E s \in S : /\ requests'[s] # Idle /\ requests'[s].uid = accountOf'[i]
                            /\ requests'[s].kind = "signIn" /\ requests'[s].isNewUser,
         \A s \in S, u \in Uid :
            /\ s \in Underway /\ requests[s].kind \in {"signIn", "delete"}
            /\ requests[s].kind = "signIn" => requests[s].isNewUser
            /\ requests[s].uid = u
            => \/ \A i \in Identity : accountOf'[i] # u
               \/ Accounted(u)'
               \/ /\ requests'[s] # Idle /\ requests'[s].uid = u
                  /\ requests'[s].kind = "delete"
  PROVE  OnlySignIns'
<1> SUFFICES ASSUME NEW i \in Identity, NEW u \in Uid, accountOf'[i] = u, ~Accounted(u)'
             PROVE  \E s \in Underway' : /\ requests'[s].uid = u
                                         /\ requests'[s].kind \in {"signIn", "delete"}
                                         /\ requests'[s].kind = "signIn" => requests'[s].isNewUser
  BY DEF OnlySignIns, Accounted, BeingSetUp, TypeOK
<1>1. u # NoUid
  BY DEF Uid, NoUid
<1>2. CASE \E s \in S : /\ requests'[s] # Idle /\ requests'[s].uid = accountOf'[i]
                        /\ requests'[s].kind = "signIn" /\ requests'[s].isNewUser
  BY <1>2 DEF Underway
<1>3. CASE accountOf'[i] = accountOf[i]
  <2>1. ~Accounted(u)
    BY DEF StillAccounted
  <2>2. PICK s \in Underway : /\ requests[s].uid = u /\ requests[s].kind \in {"signIn", "delete"}
                              /\ requests[s].kind = "signIn" => requests[s].isNewUser
    BY <1>1, <1>3, <2>1 DEF OnlySignIns
  <2>3. s \in Slot /\ requests[s] # Idle
    BY DEF Underway
  <2>4. CASE s \in Slot \ S
    BY <2>2, <2>3, <2>4, RestFacts DEF Underway
  <2>5. CASE s \in S
    <3>1. requests'[s] # Idle /\ requests'[s].uid = u /\ requests'[s].kind = "delete"
      BY <2>2, <2>5
    <3> QED BY <2>3, <3>1 DEF Underway
  <2> QED BY <2>3, <2>4, <2>5
<1> QED BY <1>1, <1>2, <1>3

LEMMA FoundStep ==
  ASSUME TypeOK, RequestsInv, FoundAreAccounted, StillAccounted,
         NEW S \in SUBSET Slot, Rest(S),
         \A s \in S : /\ requests'[s] # Idle /\ requests'[s].kind = "signIn"
                      /\ requests'[s].handled /\ ~requests'[s].isNewUser
                      => \E u \in Uid : requests'[s].uid = u /\ Accounted(u)'
  PROVE  FoundAreAccounted'
<1> SUFFICES ASSUME NEW s \in Underway', requests'[s].kind = "signIn",
                    requests'[s].handled, ~requests'[s].isNewUser
             PROVE  \E u \in Uid : requests'[s].uid = u /\ Accounted(u)'
  BY DEF FoundAreAccounted, Accounted, BeingSetUp
<1>1. s \in Slot /\ requests'[s] # Idle
  BY DEF Underway
<1>2. CASE s \in S
  BY <1>1, <1>2
<1>3. CASE s \in Slot \ S
  <2>1. /\ s \in Underway /\ requests[s].kind = "signIn" /\ requests[s].handled
        /\ ~requests[s].isNewUser /\ requests'[s].uid = requests[s].uid
    BY <1>1, <1>3, RestFacts DEF Underway
  <2>2. requests[s].uid \in Uid
    BY <1>1, <2>1, SlotFacts, RequestFacts DEF RequestsInv, UidSound
  <2>3. PICK u \in Uid : u = requests[s].uid
    BY <2>2
  <2>4. Accounted(u)
    BY <2>1, <2>3 DEF FoundAreAccounted
  <2>5. Accounted(u)'
    BY <2>4 DEF StillAccounted
  <2> QED BY <2>1, <2>3, <2>5
<1> QED BY <1>1, <1>2, <1>3

(* No deletion begins. *)
NoNewDelete(S) ==
    \A s \in S : requests'[s] # Idle /\ requests'[s].kind = "delete" =>
        /\ s \in Underway /\ requests[s].kind = "delete"
        /\ requests'[s].uid = requests[s].uid /\ requests'[s].identity = requests[s].identity

LEMMA DeleteBefore ==
  ASSUME TypeOK, RequestsInv, NEW S \in SUBSET Slot, Rest(S), NoNewDelete(S),
         NEW s \in Underway', requests'[s].kind = "delete"
  PROVE  /\ s \in Underway /\ requests[s].kind = "delete"
         /\ requests'[s].uid = requests[s].uid /\ requests'[s].identity = requests[s].identity
         /\ requests[s].uid \in Uid /\ requests[s].identity \in Identity
<1>1. s \in Slot /\ requests'[s] # Idle
  BY DEF Underway
<1>2. /\ s \in Underway /\ requests[s].kind = "delete"
      /\ requests'[s].uid = requests[s].uid /\ requests'[s].identity = requests[s].identity
  <2>1. CASE s \in S
    BY <1>1, <2>1 DEF NoNewDelete
  <2>2. CASE s \in Slot \ S
    BY <1>1, <2>2, RestFacts DEF Underway
  <2> QED BY <1>1, <2>1, <2>2
<1> QED BY <1>1, <1>2, SlotFacts, RequestFacts DEF RequestsInv, UidSound

LEMMA DeletedStays ==
  ASSUME TypeOK, RequestsInv, DeletedFromSetup, StillAccounted, page' = page,
         NEW S \in SUBSET Slot, Rest(S), NoNewDelete(S),
         \A s \in Underway, u \in Uid :
            /\ requests[s].kind = "delete" /\ requests[s].uid = u
            /\ accountOf'[requests[s].identity] = u
            => accountOf[requests[s].identity] = u,
         \A s \in S : requests'[s] # Idle =>
            /\ requests'[s].kind = "signIn" => s \in Underway /\ requests[s].kind = "signIn"
            /\ requests'[s].page = page /\ requests'[s].uid # NoUid =>
                  \/ s \in Underway /\ requests[s].page = page /\ requests[s].uid # NoUid
                  \/ page.name = "setup" =>
                        \A u \in Uid : accountOf[page.identity] = u => Accounted(u)'
  PROVE  DeletedFromSetup'
<1> SUFFICES ASSUME NEW s \in Underway', requests'[s].kind = "delete",
                    accountOf'[requests'[s].identity] = requests'[s].uid,
                    NEW u \in Uid, u = requests'[s].uid, ~Accounted(u)',
                    NEW t \in Underway'
             PROVE  /\ page.name = "setup" /\ page.identity = requests'[s].identity
                    /\ requests'[t].kind # "signIn"
                    /\ requests'[t].page = page => requests'[t].uid = NoUid
  <2>1. ASSUME NEW s \in Underway', requests'[s].kind = "delete"
        PROVE  requests'[s].uid \in Uid
    BY <2>1, DeleteBefore
  <2> QED BY <2>1 DEF DeletedFromSetup, Accounted, BeingSetUp
<1>1. /\ s \in Underway /\ requests[s].kind = "delete"
      /\ requests'[s].uid = requests[s].uid /\ requests'[s].identity = requests[s].identity
  BY DeleteBefore
<1>2. ~Accounted(u) /\ ~Accounted(requests[s].uid)
  BY <1>1 DEF StillAccounted
<1>3. /\ page.name = "setup" /\ page.identity = requests[s].identity
      /\ accountOf[page.identity] = u
      /\ \A q \in Underway : /\ requests[q].kind # "signIn"
                             /\ requests[q].page = page => requests[q].uid = NoUid
  BY <1>1, <1>2 DEF DeletedFromSetup
<1>4. t \in Slot /\ requests'[t] # Idle /\ page # Gone
  BY PageFacts DEF Underway, TypeOK
<1>5. CASE t \in S
  BY <1>1, <1>3, <1>4, <1>5
<1>6. CASE t \in Slot \ S
  BY <1>1, <1>3, <1>4, <1>6, RestFacts DEF Underway
<1> QED BY <1>4, <1>5, <1>6

LEMMA DeletedAccounted ==
  ASSUME TypeOK, RequestsInv, NEW S \in SUBSET Slot, Rest(S), NoNewDelete(S),
         UNCHANGED accountOf,
         \A s \in Underway, u \in Uid :
            /\ requests[s].kind = "delete" /\ requests[s].uid = u
            /\ accountOf[requests[s].identity] = u
            => Accounted(u)'
  PROVE  DeletedFromSetup'
<1> SUFFICES ASSUME NEW s \in Underway', requests'[s].kind = "delete",
                    accountOf'[requests'[s].identity] = requests'[s].uid,
                    NEW u \in Uid, u = requests'[s].uid
             PROVE  Accounted(u)'
  <2>1. ASSUME NEW s \in Underway', requests'[s].kind = "delete"
        PROVE  requests'[s].uid \in Uid
    BY <2>1, DeleteBefore
  <2> QED BY <2>1 DEF DeletedFromSetup, Accounted, BeingSetUp
<1> QED BY DeleteBefore

LEMMA OffSetupAccounted ==
  ASSUME TypeOK, DeletedFromSetup, StillAccounted, page.name # "setup",
         NEW s \in Underway, NEW u \in Uid, requests[s].kind = "delete",
         requests[s].uid = u, accountOf[requests[s].identity] = u
  PROVE  Accounted(u)'
BY DEF DeletedFromSetup, StillAccounted

LEMMA UserStays ==
  ASSUME TypeOK, RequestsInv, UserIsAccounted, StillAccounted, page' = page,
         currentUser' = currentUser, NEW S \in SUBSET Slot, Rest(S),
         \A s \in S : /\ requests'[s] # Idle /\ requests'[s].kind = "putData"
                      /\ requests'[s].page = page
                      => s \in Underway /\ requests[s].kind = "putData" /\ requests[s].page = page
  PROVE  UserIsAccounted'
<1> SUFFICES ASSUME NEW u \in Uid, u = currentUser, ~Accounted(u)'
             PROVE  /\ page.name = "setup"
                    /\ \A t \in Underway' : requests'[t].page = page =>
                                               requests'[t].kind # "putData"
  BY DEF UserIsAccounted, TypeOK, Accounted, BeingSetUp
<1>1. ~Accounted(u) /\ u # NoUid
  BY DEF StillAccounted, Uid, NoUid
<1>2. /\ page.name = "setup"
      /\ \A t \in Underway : requests[t].page = page => requests[t].kind # "putData"
  BY <1>1 DEF UserIsAccounted
<1>3. ASSUME NEW t \in Underway', requests'[t].page = page, requests'[t].kind = "putData"
      PROVE  FALSE
  <2>1. t \in Slot /\ requests'[t] # Idle /\ page # Gone
    BY PageFacts DEF Underway, TypeOK
  <2>2. CASE t \in S
    BY <1>2, <1>3, <2>1, <2>2
  <2>3. CASE t \in Slot \ S
    BY <1>2, <1>3, <2>1, <2>3, RestFacts DEF Underway
  <2> QED BY <2>1, <2>2, <2>3
<1> QED BY <1>2, <1>3

LEMMA UserAccounted ==
  ASSUME currentUser' \in Uid \cup {NoUid},
         \A u \in Uid : currentUser' = u => Accounted(u)'
  PROVE  UserIsAccounted'
BY DEF UserIsAccounted, Accounted, BeingSetUp

-----------------------------------------------------------------------------
(* Links and pictures. *)

LEMMA PictureStep ==
  ASSUME TypeOK, LinkedPictureUploaded, NEW S \in SUBSET Slot, Rest(S),
         pictures \subseteq pictures', lostUploads \subseteq lostUploads',
         \A u \in Uid : profile'[u] = "pictured" =>
            \/ profile[u] = "pictured"
            \/ u \in pictures'
            \/ \E s \in Underway' : requests'[s].kind = "uploadData" /\ requests'[s].uid = u,
         \A s \in S : s \in Underway /\ requests[s].kind = "uploadData" =>
            \/ requests[s].uid \in pictures'
            \/ requests[s].uid \in lostUploads'
            \/ /\ requests'[s] # Idle /\ requests'[s].kind = "uploadData"
               /\ requests'[s].uid = requests[s].uid
  PROVE  LinkedPictureUploaded'
<1> SUFFICES ASSUME NEW u \in Uid, profile'[u] = "pictured", u \notin pictures',
                    u \notin lostUploads'
             PROVE  \E s \in Underway' : requests'[s].kind = "uploadData" /\ requests'[s].uid = u
  BY DEF LinkedPictureUploaded
<1>1. CASE profile[u] # "pictured"
  BY <1>1
<1>2. CASE profile[u] = "pictured"
  <2>1. PICK s \in Underway : requests[s].kind = "uploadData" /\ requests[s].uid = u
    BY <1>2 DEF LinkedPictureUploaded
  <2>2. s \in Slot /\ requests[s] # Idle
    BY DEF Underway
  <2>3. CASE s \in S
    BY <2>1, <2>2, <2>3 DEF Underway
  <2>4. CASE s \in Slot \ S
    BY <2>1, <2>2, <2>4, RestFacts DEF Underway
  <2> QED BY <2>2, <2>3, <2>4
<1> QED BY <1>1, <1>2

-----------------------------------------------------------------------------
(* Steps that leave the services and the accounts of the phone alone. *)

(* Another page is shown, and nothing is asked for. *)
LEMMA TurnKeeps ==
  ASSUME IInv, NEW p \in Page, Turn(p),
         UNCHANGED <<services, timesSetUp, lostUploads>>,
         interrupted \subseteq interrupted', interrupted' \subseteq Uid,
         currentUser' \in {currentUser, NoUid},
         page.name = "setup" =>
            \A s \in Underway, u \in Uid : requests[s].uid = u => Accounted(u)',
         \A u \in Uid : currentUser' = u => Accounted(u) \/ u \in interrupted'
  PROVE  IInv'
<1> USE DEF IInv
<1>1. /\ page' = p /\ requests' \in [Slot -> SlotType] /\ Rest({})
      /\ UNCHANGED <<accountOf, lastUid, pictures, profile, timesSetUp, lostUploads>>
  BY TurnFacts DEF services
<1>2. TypeOK'
  BY <1>1 DEF TypeOK, SlotType
<1>3. RequestsInv'
  <2>1. \A t \in Slot : requests'[t] # Idle => UidSound(requests[t])'
    BY <1>1, RestUid
  <2> QED BY <1>1, <2>1, RequestsStep
<1>4. AccountsInv'
  BY <1>1 DEF AccountsInv, NoUid, TypeOK
<1>5. SetUpInv'
  BY <1>1, SetUpStep
<1>6. StillAccounted
  <2>1. ASSUME NEW u \in Uid, Accounted(u) PROVE Accounted(u)'
    BY <1>1, <2>1, AccountedStep
  <2> QED BY <2>1 DEF StillAccounted
<1>7. OnlySignIns'
  BY <1>1, <1>2, <1>6, OnlySignInsStep DEF AccountedInv
<1>8. FoundAreAccounted'
  BY <1>1, <1>6, FoundStep DEF AccountedInv
<1>9. DeletedFromSetup'
  <2>1. NoNewDelete({})
    BY DEF NoNewDelete
  <2>2. \A s \in Underway, u \in Uid :
            /\ requests[s].kind = "delete" /\ requests[s].uid = u
            /\ accountOf[requests[s].identity] = u
            => Accounted(u)'
    BY <1>6, OffSetupAccounted DEF AccountedInv
  <2> QED BY <1>1, <2>1, <2>2, DeletedAccounted
<1>10. UserIsAccounted'
  <2>1. currentUser' \in Uid \cup {NoUid}
    BY DEF TypeOK
  <2>2. ASSUME NEW u \in Uid, currentUser' = u PROVE Accounted(u)'
    <3>1. CASE Accounted(u)
      BY <1>6, <3>1 DEF StillAccounted
    <3>2. CASE u \in interrupted'
      BY <3>2 DEF Accounted
    <3> QED BY <2>2, <3>1, <3>2
  <2> QED BY <2>1, <2>2, UserAccounted
<1>11. LinkedPictureUploaded'
  BY <1>1, PictureStep
<1> QED BY <1>2, <1>3, <1>4, <1>5, <1>7, <1>8, <1>9, <1>10, <1>11 DEF AccountedInv

(* Off the set-up page the user of the phone is accounted for. *)
LEMMA UserOffSetup ==
  ASSUME IInv, page.name # "setup", NEW u \in Uid, currentUser = u
  PROVE  Accounted(u)
BY DEF IInv, AccountedInv, UserIsAccounted, Uid, NoUid

LEMMA GoKeeps ==
  ASSUME IInv, NEW p \in Page, page.name # "setup", Go(p)
  PROVE  IInv'
<1>1. /\ Turn(p) /\ interrupted' = interrupted /\ currentUser' = currentUser
      /\ UNCHANGED <<services, timesSetUp, lostUploads>>
  BY DEF Go, history
<1>2. interrupted' \subseteq Uid
  BY <1>1 DEF IInv, TypeOK
<1>3. \A u \in Uid : currentUser' = u => Accounted(u) \/ u \in interrupted'
  BY <1>1, UserOffSetup
<1> QED BY <1>1, <1>2, <1>3, TurnKeeps

LEMMA logoutTappedKeeps ==
  ASSUME IInv, logoutTapped
  PROVE  IInv'
<1>1. /\ Turn(LoggedOut) /\ interrupted' = interrupted /\ currentUser' = NoUid
      /\ UNCHANGED <<services, timesSetUp, lostUploads>> /\ page.name # "setup"
      /\ LoggedOut \in Page
  BY DEF logoutTapped, history, Home, Page
<1>2. interrupted' \subseteq Uid
  BY <1>1 DEF IInv, TypeOK
<1>3. \A u \in Uid : currentUser' # u
  BY <1>1 DEF Uid, NoUid
<1> QED BY <1>1, <1>2, <1>3, TurnKeeps

(* What Interrupt puts down. *)
LEMMA InterruptFacts ==
  ASSUME TypeOK, NEW uids, uids \subseteq Uid \cup {NoUid}, Interrupt(uids)
  PROVE  /\ interrupted \subseteq interrupted' /\ interrupted' \subseteq Uid
         /\ \A u \in Uid : u \in uids => profile[u] # "none" \/ u \in interrupted'
<1> DEFINE more == {u \in uids \ {NoUid} : profile[u] = "none"}
<1>1. interrupted' = interrupted \cup more
  BY DEF Interrupt
<1>2. more \subseteq Uid /\ interrupted \subseteq Uid
  BY DEF TypeOK
<1>3. \A u \in Uid : u # NoUid
  BY DEF Uid, NoUid
<1>4. \A u \in Uid : u \in uids => profile[u] # "none" \/ u \in more
  BY <1>3
<1> QED BY <1>1, <1>2, <1>4

LEMMA UidsUnderway ==
  ASSUME TypeOK
  PROVE  {requests[s].uid : s \in Underway} \subseteq Uid \cup {NoUid}
<1>1. ASSUME NEW s \in Underway PROVE requests[s].uid \in Uid \cup {NoUid}
  BY SlotFacts, RequestFacts DEF Underway
<1> QED BY <1>1

LEMMA SwipeDownKeeps ==
  ASSUME IInv, SwipeDown
  PROVE  IInv'
<1>1. CASE page \in {Login, Step1} /\ Go(LoggedOut)
  <2>1. page.name # "setup" /\ LoggedOut \in Page
    BY <1>1 DEF Login, Step1, Page
  <2> QED BY <1>1, <2>1, GoKeeps
<1>2. CASE /\ page.name = "setup" /\ Turn(page.from)
           /\ Interrupt({currentUser} \cup {requests[s].uid : s \in Underway})
           /\ UNCHANGED <<services, currentUser, timesSetUp, lostUploads>>
  <2>1. PICK uids : uids = {currentUser} \cup {requests[s].uid : s \in Underway}
    OBVIOUS
  <2>2. PICK p : p = page.from
    OBVIOUS
  <2>3. p \in Page /\ Turn(p)
    BY <1>2, <2>2, PageFacts DEF IInv, TypeOK, Page
  <2>4. currentUser \in uids /\ \A s \in Underway : requests[s].uid \in uids
    BY <2>1
  <2>5. Interrupt(uids) /\ uids \subseteq Uid \cup {NoUid}
    BY <1>2, <2>1, UidsUnderway DEF IInv, TypeOK
  <2>6. /\ interrupted \subseteq interrupted' /\ interrupted' \subseteq Uid
        /\ \A u \in Uid : u \in uids => profile[u] # "none" \/ u \in interrupted'
    <3>1. TypeOK
      BY DEF IInv
    <3> QED BY <2>5, <3>1, InterruptFacts, Zenon
  <2>7. \A s \in Underway, u \in Uid : requests[s].uid = u => Accounted(u)'
    BY <1>2, <2>4, <2>6 DEF Accounted, services
  <2>8. \A u \in Uid : currentUser' = u => Accounted(u) \/ u \in interrupted'
    BY <1>2, <2>4, <2>6 DEF Accounted
  <2> QED BY <1>2, <2>3, <2>6, <2>7, <2>8, TurnKeeps
<1> QED BY <1>1, <1>2 DEF SwipeDown

-----------------------------------------------------------------------------
(* Something is asked for. *)

LEMMA SendFacts ==
  ASSUME TypeOK, RequestsInv, NEW q \in Request, Send(q), page' = page
  PROVE  \E s \in Slot : /\ requests[s] = Idle /\ requests'[s] = q /\ Rest({s})
                         /\ requests' \in [Slot -> SlotType]
<1>1. PICK s : /\ s = CHOOSE t \in Slot \ Underway : TRUE
               /\ requests' = [requests EXCEPT ![s] = q]
  BY DEF Send
<1>2. s \in Slot \ Underway
  BY <1>1 DEF Send
<1>3. Become(s, q)
  BY <1>1 DEF Become
<1>4. q \in SlotType
  BY DEF SlotType
<1> QED BY <1>2, <1>3, <1>4, BecomeFacts, SlotFacts

LEMMA AskKeeps ==
  ASSUME IInv, NEW r \in Request, Ask(r),
         r.kind \in {"signInEmail", "signIn", "createUser", "signInAgain"},
         r.uid = NoUid, r.handled = FALSE, KindSound(r),
         r.kind = "signIn" => /\ page.name # "setup"
                              /\ \A t \in Underway : requests[t].kind # "signIn"
  PROVE  IInv'
<1> USE DEF IInv
<1>1. /\ UNCHANGED <<services, accountOf, lastUid, pictures, profile, currentUser, page>>
      /\ UNCHANGED <<timesSetUp, lostUploads, interrupted>> /\ Send(r)
  BY DEF Ask, services, history
<1>2. PICK s \in Slot : /\ requests[s] = Idle /\ requests'[s] = r /\ Rest({s})
                        /\ requests' \in [Slot -> SlotType]
  BY <1>1, SendFacts
<1>3. s \notin Underway /\ r # Idle
  BY <1>2, RequestFacts DEF Underway
<1>4. TypeOK'
  BY <1>1, <1>2 DEF TypeOK, SlotType
<1>5. RequestsInv'
  <2>1. \A t \in Slot \ {s} : requests'[t] # Idle => UidSound(requests[t])'
    BY <1>1, <1>2, RestUid
  <2>2. KindSound(r)'
    BY <1>1 DEF KindSound
  <2>3. UidSound(r)'
    BY <1>1 DEF UidSound, TypeOK, NoUid
  <2>4. KindSound(requests[s])' /\ UidSound(requests[s])'
    BY <1>2, <2>2, <2>3
  <2> QED BY <1>2, <2>1, <2>4, RequestsStep
<1>6. AccountsInv'
  BY <1>1 DEF AccountsInv
<1>7. SetUpInv'
  <2>1. ~WillSetUp(s)'
    BY <1>2 DEF WillSetUp
  <2> QED BY <1>1, <1>2, <2>1, SetUpStep
<1>8. StillAccounted
  <2>1. ASSUME NEW u \in Uid, Accounted(u) PROVE Accounted(u)'
    BY <1>1, <1>2, <1>3, <2>1, AccountedStep
  <2> QED BY <2>1 DEF StillAccounted
<1>9. OnlySignIns'
  BY <1>1, <1>2, <1>3, <1>4, <1>8, OnlySignInsStep DEF AccountedInv
<1>10. FoundAreAccounted'
  BY <1>1, <1>2, <1>8, FoundStep DEF AccountedInv
<1>11. DeletedFromSetup'
  <2>1. NoNewDelete({s})
    BY <1>2 DEF NoNewDelete
  <2>2. CASE r.kind = "signIn"
    <3>1. \A t \in Underway, u \in Uid :
            /\ requests[t].kind = "delete" /\ requests[t].uid = u
            /\ accountOf[requests[t].identity] = u
            => Accounted(u)'
      BY <1>8, <2>2, OffSetupAccounted DEF AccountedInv
    <3> QED BY <1>1, <1>2, <2>1, <3>1, DeletedAccounted
  <2>3. CASE r.kind # "signIn"
    BY <1>1, <1>2, <1>8, <2>1, <2>3, DeletedStays DEF AccountedInv
  <2> QED BY <2>2, <2>3
<1>12. UserIsAccounted'
  BY <1>1, <1>2, <1>8, UserStays DEF AccountedInv
<1>13. LinkedPictureUploaded'
  BY <1>1, <1>2, <1>3, PictureStep
<1> QED BY <1>4, <1>5, <1>6, <1>7, <1>9, <1>10, <1>11, <1>12, <1>13 DEF AccountedInv

LEMMA SignInsKeep ==
  ASSUME IInv, NEW i \in Identity,
         \/ i \in Emails /\ SignInWithEmail(i)
         \/ i \in ThirdParties /\ SignInWithThirdParty(i)
  PROVE  IInv'
<1>1. PICK k \in Kind : /\ \/ k = "signInEmail" /\ i \in Emails
                           \/ k = "signIn" /\ i \in ThirdParties
                        /\ page \in {Login, Step1} /\ Ask(NewRequest(k, i))
                        /\ k = "signIn" => \A t \in Underway : requests[t].kind # "signIn"
  BY DEF SignInWithEmail, SignInWithThirdParty, Kind
<1>2. PICK r : r = NewRequest(k, i)
  OBVIOUS
<1>3. /\ r \in Request /\ r.kind = k /\ r.identity = i /\ r.page = page
      /\ r.uid = NoUid /\ r.handled = FALSE
  BY <1>1, <1>2 DEF NewRequest, Request, IInv, TypeOK
<1>4. page.name # "setup" /\ page \in Stack(page)
  BY <1>1, PageFacts DEF IInv, TypeOK, Login, Step1
<1>5. KindSound(r)
  BY <1>1, <1>3, <1>4 DEF KindSound
<1> QED BY <1>1, <1>2, <1>3, <1>4, <1>5, AskKeeps

LEMMA continuePressedKeeps ==
  ASSUME IInv, continuePressed
  PROVE  IInv'
<1>1. PICK i, k : i = page.identity /\ k = SetupRequest(i)
  OBVIOUS
<1>2. i \in Identity /\ page \in Stack(page) /\ page.name = "setup"
  BY <1>1, PageFacts DEF IInv, TypeOK, continuePressed
<1>3. /\ k \in Kind
      /\ \/ k = "createUser" /\ i \in Emails
         \/ k = "signInAgain" /\ i \in ThirdParties
  BY <1>1, <1>2 DEF SetupRequest, Kind, Identity
<1>4. PICK r : r = NewRequest(k, i)
  OBVIOUS
<1>5. /\ r \in Request /\ r.kind = k /\ r.identity = i /\ r.page = page
      /\ r.uid = NoUid /\ r.handled = FALSE
  BY <1>2, <1>3, <1>4 DEF NewRequest, Request, IInv, TypeOK
<1>6. KindSound(r)
  BY <1>1, <1>2, <1>3, <1>5 DEF KindSound
<1>7. Ask(r)
  BY <1>1, <1>4 DEF continuePressed
<1> QED BY <1>3, <1>5, <1>6, <1>7, AskKeeps

-----------------------------------------------------------------------------
(* The services. *)

(* What has to be shown when a service handles the request of s. *)
LEMMA ServiceStep ==
  ASSUME IInv, NEW s \in Underway, NEW q \in Request, Become(s, q), ~requests[s].handled,
         q.kind = requests[s].kind, q.page = requests[s].page,
         q.kind # "uploadData" => q.identity = requests[s].identity,
         q.kind \in {"putData", "delete", "uploadData"} => q.uid = requests[s].uid,
         UNCHANGED <<profile, currentUser, page, timesSetUp, lostUploads, interrupted>>,
         TypeOK', AccountsInv', AccountsStep, UidSound(q)',
         q.kind \in {"createUser", "putData"} =>
            \/ q.uid = requests[s].uid
            \/ q.uid \in Uid /\ q.uid > lastUid,
         q.kind = "uploadData" => q.uid \in pictures',
         \A i \in Identity :
            \/ accountOf'[i] \in {accountOf[i], NoUid}
            \/ accountOf'[i] = q.uid /\ q.kind \in SetUpKind
            \/ accountOf'[i] = q.uid /\ q.kind = "signIn" /\ q.isNewUser,
         q.kind = "signIn" /\ ~q.isNewUser =>
            \E u \in Uid : q.uid = u /\ Accounted(u),
         q.kind \in {"createUser", "signInAgain"} =>
            accountOf[q.identity] \in {NoUid, q.uid},
         q.kind = "delete" => \A i \in Identity : accountOf'[i] # q.uid
  PROVE  IInv'
<1> USE DEF IInv
<1>1. /\ s \in Slot /\ Rest({s}) /\ requests'[s] = q /\ requests[s] # Idle /\ q # Idle
      /\ KindSound(requests[s]) /\ UidSound(requests[s]) /\ requests[s] \in Request
  <2>1. q \in SlotType
    BY DEF SlotType
  <2> QED BY <2>1, BecomeFacts, SlotFacts, RequestFacts DEF Underway, RequestsInv
<1>2. requests[s].kind \in {"signInEmail", "signIn", "createUser", "signInAgain"} =>
         requests[s].uid = NoUid
  BY <1>1 DEF UidSound
<1>3. RequestsInv'
  <2>1. \A t \in Slot \ {s} : requests'[t] # Idle => UidSound(requests[t])'
    BY <1>1, RestUidStep
  <2>2. KindSound(q)'
    BY <1>1 DEF KindSound
  <2>3. KindSound(requests[s])' /\ UidSound(requests[s])'
    BY <1>1, <2>2
  <2> QED BY <1>1, <2>1, <2>3, RequestsStep
<1>4. StillAccounted
  <2>1. ASSUME NEW u \in Uid, Accounted(u) PROVE Accounted(u)'
    <3>1. u # NoUid
      BY DEF Uid, NoUid
    <3> QED BY <1>1, <1>2, <2>1, <3>1, AccountedStep DEF SetUpKind
  <2> QED BY <2>1 DEF StillAccounted
<1>5. SetUpInv'
  <2>1. ASSUME NEW u \in Uid, u > lastUid PROVE timesSetUp[u] = 0
    BY <2>1 DEF AccountsInv
  <2>2. \A i \in Emails : accountOf'[i] # accountOf[i] /\ accountOf'[i] # NoUid =>
            timesSetUp[accountOf'[i]] = 0
    <3>1. \A i \in Emails : i \in Identity
      BY DEF Identity
    <3>2. \A i \in Identity : accountOf'[i] \in Uid \cup {NoUid}
      BY DEF TypeOK
    <3> QED BY <2>1, <3>1, <3>2 DEF AccountsStep
  <2>3. WillSetUp(s)' =>
            \/ WillSetUp(s) /\ requests'[s].uid = requests[s].uid
            \/ /\ timesSetUp[requests'[s].uid] = 0
               /\ \A t \in Slot : WillSetUp(t) => requests[t].uid # requests'[s].uid
    <3> SUFFICES ASSUME WillSetUp(s)', q.uid # requests[s].uid
                 PROVE  /\ timesSetUp[q.uid] = 0
                        /\ \A t \in Slot : WillSetUp(t) => requests[t].uid # q.uid
      BY <1>1 DEF WillSetUp
    <3>1. q.uid \in Uid /\ q.uid > lastUid
      BY <1>1 DEF WillSetUp
    <3>2. \A t \in Slot : WillSetUp(t) => requests[t].uid <= lastUid /\ requests[t].uid \in Nat
      <4>1. ASSUME NEW t \in Slot, WillSetUp(t)
            PROVE  requests[t].uid <= lastUid /\ requests[t].uid \in Uid \cup {NoUid}
        BY <4>1, SlotFacts, RequestFacts DEF WillSetUp, RequestsInv, UidSound
      <4> QED BY <4>1 DEF Uid, NoUid
    <3>3. lastUid \in Nat /\ q.uid \in Nat
      BY <3>1 DEF TypeOK, Uid
    <3> QED BY <2>1, <3>1, <3>2, <3>3
  <2> QED BY <1>1, <2>2, <2>3, SetUpStep
<1>6. OnlySignIns'
  <2>1. q.kind \in SetUpKind /\ q.uid \in Uid => Accounted(q.uid)'
    BY <1>1 DEF Accounted, BeingSetUp, SetUpKind, Underway
  <2>2. \A i \in Identity : accountOf'[i] \in Uid \cup {NoUid}
    BY DEF TypeOK
  <2>3. \A i \in Identity :
            \/ accountOf'[i] \in {accountOf[i], NoUid}
            \/ \E u \in Uid : accountOf'[i] = u /\ Accounted(u)'
            \/ /\ requests'[s] # Idle /\ requests'[s].uid = accountOf'[i]
               /\ requests'[s].kind = "signIn" /\ requests'[s].isNewUser
    <3>1. ASSUME NEW i \in Identity, accountOf'[i] = q.uid, q.kind \in SetUpKind, q.uid \in Uid
          PROVE  \E u \in Uid : accountOf'[i] = u /\ Accounted(u)'
      BY <1>1, <3>1 DEF Accounted, BeingSetUp, SetUpKind, Underway
    <3> QED BY <1>1, <2>2, <3>1
  <2>4. ASSUME NEW u \in Uid, requests[s].kind \in {"signIn", "delete"}, requests[s].uid = u
        PROVE  \A i \in Identity : accountOf'[i] # u
    BY <1>2, <2>4 DEF Uid, NoUid
  <2> QED BY <1>1, <1>4, <2>3, <2>4, OnlySignInsStep DEF AccountedInv
<1>7. FoundAreAccounted'
  <2>1. q.kind = "signIn" /\ ~q.isNewUser => \E u \in Uid : q.uid = u /\ Accounted(u)'
    BY <1>4 DEF StillAccounted
  <2> QED BY <1>1, <1>4, <2>1, FoundStep DEF AccountedInv
<1>8. DeletedFromSetup'
  <2>1. NoNewDelete({s})
    BY <1>1 DEF NoNewDelete
  <2>2. \A t \in Underway, u \in Uid :
            /\ requests[t].kind = "delete" /\ requests[t].uid = u
            /\ accountOf'[requests[t].identity] = u
            => accountOf[requests[t].identity] = u
    <3>1. ASSUME NEW t \in Underway, NEW u \in Uid, requests[t].kind = "delete",
                 requests[t].uid = u, accountOf'[requests[t].identity] = u
          PROVE  accountOf[requests[t].identity] = u
      <4>1. requests[t].identity \in Identity /\ u <= lastUid /\ u # NoUid
            /\ lastUid \in Nat /\ u \in Nat
        BY <3>1, SlotFacts, RequestFacts DEF RequestsInv, UidSound, Underway, TypeOK, Uid, NoUid
      <4> QED BY <3>1, <4>1 DEF AccountsStep
    <3> QED BY <3>1
  <2>3. requests'[s].page = page /\ requests'[s].uid # NoUid =>
            \/ requests[s].page = page /\ requests[s].uid # NoUid
            \/ page.name = "setup" =>
                  \A u \in Uid : accountOf[page.identity] = u => Accounted(u)'
    <3> SUFFICES ASSUME q.page = page, requests[s].uid = NoUid, page.name = "setup",
                        NEW u \in Uid, accountOf[page.identity] = u
                 PROVE  Accounted(u)'
      BY <1>1
    <3>0. page # Gone /\ u # NoUid
      BY PageFacts DEF TypeOK, Uid, NoUid
    <3>1. q.kind \in {"createUser", "signInAgain"} /\ page.identity = q.identity
      <4>1. q.kind \notin {"putData", "delete", "uploadData"}
        BY <1>1 DEF UidSound
      <4>2. q.kind \notin {"signInEmail", "signIn"}
        BY <1>1, <3>0 DEF KindSound, Login, Step1
      <4>3. q.kind \in Kind \cup {"uploadData"}
        BY RequestFacts
      <4> QED BY <1>1, <3>0, <4>1, <4>2, <4>3 DEF KindSound, Kind
    <3>2. q.uid = u
      BY <3>0, <3>1
    <3> QED BY <1>1, <3>1, <3>2 DEF Accounted, BeingSetUp, Underway
  <2> QED BY <1>1, <1>4, <2>1, <2>2, <2>3, DeletedStays DEF AccountedInv
<1>9. UserIsAccounted'
  BY <1>1, <1>4, UserStays DEF AccountedInv
<1>10. LinkedPictureUploaded'
  BY <1>1, PictureStep DEF AccountsStep
<1> QED BY <1>3, <1>5, <1>6, <1>7, <1>8, <1>9, <1>10 DEF AccountedInv

LEMMA CreateAccountKeeps ==
  ASSUME IInv, NEW s \in Underway, ~requests[s].handled, accountOf[requests[s].identity] = NoUid,
         requests[s].kind \in {"signIn", "createUser", "signInAgain"},
         CreateAccount(s, requests[s].identity),
         UNCHANGED <<profile, currentUser, page, history>>
  PROVE  IInv'
<1> DEFINE r == requests[s]
           i == requests[s].identity
           u == lastUid + 1
<1>0. PICK q : q = [r EXCEPT !.uid = u, !.handled = TRUE, !.isNewUser = r.kind = "signIn"]
  OBVIOUS
<1> USE DEF IInv
<1>1. /\ s \in Slot /\ r \in Request /\ i \in Identity
      /\ KindSound(r) /\ UidSound(r)
      /\ r \in [kind : Kind, identity : Identity, page : Page \cup {Gone},
                uid : Uid \cup {NoUid}, isNewUser : BOOLEAN, handled : BOOLEAN]
  BY SlotFacts, RequestFacts DEF Underway, RequestsInv
<1>2. /\ lastUid' = u /\ accountOf' = [accountOf EXCEPT ![i] = u] /\ pictures' = pictures
      /\ Become(s, q)
      /\ UNCHANGED <<profile, currentUser, page, timesSetUp, lostUploads, interrupted>>
  BY <1>0 DEF CreateAccount, history
<1>3. lastUid \in Nat /\ u \in Uid /\ lastUid' \in 0..MaxUid /\ u > lastUid
  BY <1>2, RegistrationAssumption DEF CreateAccount, TypeOK, Uid
<1>4. /\ q \in Request /\ q.kind = r.kind /\ q.page = r.page /\ q.identity = i /\ q.uid = u
      /\ q.handled /\ q.isNewUser = (r.kind = "signIn")
  BY <1>0, <1>1, <1>3 DEF Request
<1>5. /\ accountOf'[i] = u /\ \A j \in Identity \ {i} : accountOf'[j] = accountOf[j]
      /\ \A j \in Identity : accountOf[j] \in Nat
  BY <1>1, <1>2 DEF TypeOK, Uid, NoUid
<1>6. TypeOK'
  <2>1. accountOf' \in [Identity -> Uid \cup {NoUid}]
    BY <1>2, <1>3 DEF TypeOK
  <2>2. requests' \in [Slot -> Request \cup {Idle}]
    BY <1>2, <1>4 DEF TypeOK, Become
  <2> QED BY <1>2, <1>3, <2>1, <2>2 DEF TypeOK
<1>7. AccountsStep
  BY <1>1, <1>2, <1>3, <1>5 DEF AccountsStep, Identity
<1>8. AccountsInv'
  <2>1. \A j \in Identity : accountOf'[j] <= lastUid'
    BY <1>2, <1>3, <1>5 DEF AccountsInv
  <2>2. ASSUME NEW j \in Identity, NEW k \in Identity, accountOf'[j] = accountOf'[k],
               accountOf'[j] # NoUid
        PROVE  j = k
    BY <1>3, <1>5, <2>2 DEF AccountsInv
  <2>3. \A v \in Uid : v > lastUid' => timesSetUp'[v] = 0
    BY <1>2, <1>3 DEF AccountsInv, Uid
  <2>4. currentUser' <= lastUid'
    BY <1>2, <1>3 DEF AccountsInv, TypeOK, Uid, NoUid
  <2> QED BY <2>1, <2>2, <2>3, <2>4 DEF AccountsInv
<1>9. UidSound(q)'
  <2>1. \A j \in Identity : accountOf'[j] = q.uid => j = q.identity
    BY <1>3, <1>4, <1>5 DEF AccountsInv
  <2> QED BY <1>2, <1>3, <1>4, <1>5, <2>1 DEF UidSound, Uid, NoUid
<1> QED BY <1>1, <1>2, <1>3, <1>4, <1>5, <1>6, <1>7, <1>8, <1>9, ServiceStep DEF SetUpKind

(* A third-party account that a sign-in found is accounted for: it is not one  *)
(* whose deletion is under way.                                                *)
LEMMA FoundIsAccounted ==
  ASSUME IInv, NEW s \in Underway, requests[s].kind = "signIn", ~requests[s].handled,
         NEW u \in Uid, accountOf[requests[s].identity] = u
  PROVE  Accounted(u)
<1> USE DEF IInv, AccountedInv
<1> SUFFICES ASSUME ~Accounted(u) PROVE FALSE
  OBVIOUS
<1>1. requests[s].identity \in Identity /\ requests[s].uid = NoUid /\ u # NoUid
  BY SlotFacts, RequestFacts DEF Underway, RequestsInv, UidSound, Uid, NoUid
<1>2. PICK t \in Underway : requests[t].uid = u /\ requests[t].kind \in {"signIn", "delete"}
  BY <1>1 DEF OnlySignIns
<1>3. requests[t].kind = "delete"
  BY <1>1, <1>2 DEF RequestsInv
<1>4. accountOf[requests[t].identity] = u
  BY <1>1, <1>2, <1>3 DEF RequestsInv, UidSound
<1> QED BY <1>2, <1>3, <1>4 DEF DeletedFromSetup

LEMMA FindAccountKeeps ==
  ASSUME IInv, NEW s \in Underway, ~requests[s].handled, accountOf[requests[s].identity] # NoUid,
         requests[s].kind \in {"signInEmail", "signIn", "signInAgain"},
         FindAccount(s, requests[s].identity),
         UNCHANGED <<profile, currentUser, page, history>>
  PROVE  IInv'
<1> DEFINE r == requests[s]
           i == requests[s].identity
           u == accountOf[i]
<1>0. PICK q : q = [r EXCEPT !.uid = u, !.handled = TRUE]
  OBVIOUS
<1> USE DEF IInv
<1>1. /\ s \in Slot /\ r \in Request /\ i \in Identity
      /\ KindSound(r) /\ UidSound(r)
      /\ r \in [kind : Kind, identity : Identity, page : Page \cup {Gone},
                uid : Uid \cup {NoUid}, isNewUser : BOOLEAN, handled : BOOLEAN]
  BY SlotFacts, RequestFacts DEF Underway, RequestsInv
<1>2. /\ UNCHANGED <<accountOf, lastUid, pictures>> /\ Become(s, q)
      /\ UNCHANGED <<profile, currentUser, page, timesSetUp, lostUploads, interrupted>>
  BY <1>0 DEF FindAccount, history
<1>3. u \in Uid /\ u # NoUid
  BY <1>1 DEF TypeOK
<1>4. /\ q \in Request /\ q.kind = r.kind /\ q.page = r.page /\ q.identity = i /\ q.uid = u
      /\ q.handled /\ q.isNewUser = r.isNewUser
  BY <1>0, <1>1, <1>3 DEF Request
<1>5. TypeOK'
  <2>1. requests' \in [Slot -> Request \cup {Idle}]
    BY <1>2, <1>4 DEF TypeOK, Become
  <2> QED BY <1>2, <2>1 DEF TypeOK
<1>6. AccountsStep /\ AccountsInv'
  BY <1>2 DEF AccountsStep, AccountsInv, TypeOK
<1>7. UidSound(q)'
  <2>1. \A j \in Identity : accountOf[j] = q.uid => j = q.identity
    BY <1>1, <1>3, <1>4 DEF AccountsInv
  <2>2. q.uid <= lastUid
    BY <1>1, <1>4 DEF AccountsInv
  <2> QED BY <1>2, <1>3, <1>4, <2>1, <2>2 DEF UidSound
<1>8. q.kind = "signIn" => Accounted(u)
  BY <1>3, <1>4, FoundIsAccounted
<1>9. q.kind = "signIn" => \E v \in Uid : q.uid = v /\ Accounted(v)
  BY <1>3, <1>4, <1>8
<1> QED BY <1>1, <1>2, <1>4, <1>5, <1>6, <1>7, <1>9, ServiceStep DEF SetUpKind

LEMMA DeleteAccountKeeps ==
  ASSUME IInv, NEW s \in Underway, ~requests[s].handled, requests[s].kind = "delete",
         accountOf[requests[s].identity] = requests[s].uid,
         DeleteAccount(s, requests[s].identity),
         UNCHANGED <<profile, currentUser, page, history>>
  PROVE  IInv'
<1> DEFINE r == requests[s]
           i == requests[s].identity
<1>0. PICK q : q = [r EXCEPT !.handled = TRUE]
  OBVIOUS
<1> USE DEF IInv
<1>1. /\ s \in Slot /\ r \in Request /\ i \in Identity /\ i \notin Emails
      /\ KindSound(r) /\ UidSound(r) /\ r.uid \in Uid /\ r.uid # NoUid
      /\ r \in [kind : Kind, identity : Identity, page : Page \cup {Gone},
                uid : Uid \cup {NoUid}, isNewUser : BOOLEAN, handled : BOOLEAN]
  BY SlotFacts, RequestFacts, RegistrationAssumption
     DEF Underway, RequestsInv, KindSound, UidSound
<1>2. /\ accountOf' = [accountOf EXCEPT ![i] = NoUid] /\ UNCHANGED <<lastUid, pictures>>
      /\ Become(s, q)
      /\ UNCHANGED <<profile, currentUser, page, timesSetUp, lostUploads, interrupted>>
  BY <1>0 DEF DeleteAccount, history
<1>3. /\ q \in Request /\ q.kind = r.kind /\ q.page = r.page /\ q.identity = i /\ q.uid = r.uid
      /\ q.handled
  BY <1>0, <1>1 DEF Request
<1>4. accountOf'[i] = NoUid /\ \A j \in Identity \ {i} : accountOf'[j] = accountOf[j]
  BY <1>1, <1>2 DEF TypeOK
<1>5. TypeOK'
  <2>1. accountOf' \in [Identity -> Uid \cup {NoUid}]
    BY <1>2 DEF TypeOK
  <2>2. requests' \in [Slot -> Request \cup {Idle}]
    BY <1>2, <1>3 DEF TypeOK, Become
  <2> QED BY <1>2, <2>1, <2>2 DEF TypeOK
<1>6. AccountsStep
  BY <1>1, <1>2, <1>4 DEF AccountsStep, TypeOK
<1>7. AccountsInv'
  BY <1>2, <1>4 DEF AccountsInv, NoUid, TypeOK
<1>8. \A j \in Identity : accountOf'[j] # r.uid
  BY <1>1, <1>4 DEF UidSound
<1>9. UidSound(q)'
  BY <1>1, <1>2, <1>3, <1>4, <1>8 DEF UidSound
<1>10. \A j \in Identity : accountOf'[j] \in {accountOf[j], NoUid}
  BY <1>4
<1> QED BY <1>1, <1>2, <1>3, <1>5, <1>6, <1>7, <1>8, <1>9, <1>10, ServiceStep

LEMMA StorePictureKeeps ==
  ASSUME IInv, NEW s \in Underway, ~requests[s].handled,
         requests[s].kind \in {"putData", "uploadData"}, StorePicture(s),
         UNCHANGED <<profile, currentUser, page, history>>
  PROVE  IInv'
<1> DEFINE r == requests[s]
<1>0. PICK q : q = [r EXCEPT !.handled = TRUE]
  OBVIOUS
<1> USE DEF IInv
<1>1. /\ s \in Slot /\ r \in Request /\ KindSound(r) /\ UidSound(r) /\ r.uid \in Uid
  BY SlotFacts, RequestFacts DEF Underway, RequestsInv, UidSound
<1>2. /\ pictures' = pictures \cup {r.uid} /\ UNCHANGED <<accountOf, lastUid>> /\ Become(s, q)
      /\ UNCHANGED <<profile, currentUser, page, timesSetUp, lostUploads, interrupted>>
  BY <1>0 DEF StorePicture, history
<1>3. /\ q \in Request /\ q.kind = r.kind /\ q.page = r.page /\ q.uid = r.uid /\ q.handled
      /\ r.kind # "uploadData" => q.identity = r.identity
  <2>1. CASE r \in [kind : Kind, identity : Identity, page : Page \cup {Gone},
                    uid : Uid \cup {NoUid}, isNewUser : BOOLEAN, handled : BOOLEAN]
    BY <1>0, <2>1 DEF Request
  <2>2. CASE r \in [kind : {"uploadData"}, page : {Gone}, uid : Uid, handled : BOOLEAN]
    BY <1>0, <2>2 DEF Request
  <2> QED BY <1>1, <2>1, <2>2 DEF Request
<1>4. TypeOK'
  <2>1. requests' \in [Slot -> Request \cup {Idle}]
    BY <1>2, <1>3 DEF TypeOK, Become
  <2>2. pictures' \subseteq Uid
    BY <1>1, <1>2 DEF TypeOK
  <2> QED BY <1>2, <2>1, <2>2 DEF TypeOK
<1>5. AccountsStep /\ AccountsInv'
  BY <1>2 DEF AccountsStep, AccountsInv, TypeOK
<1>6. UidSound(q)'
  BY <1>1, <1>2, <1>3 DEF UidSound
<1> QED BY <1>1, <1>2, <1>3, <1>4, <1>5, <1>6, ServiceStep

LEMMA ServiceHandlesKeeps ==
  ASSUME IInv, NEW s \in Slot, ServiceHandles(s)
  PROVE  IInv'
<1> DEFINE r == requests[s]
<1>1. /\ s \in Underway /\ ~r.handled /\ r \in Request
      /\ r.kind \in Kind \cup {"uploadData"} /\ ~Refused(r)
      /\ UNCHANGED <<profile, currentUser, page, history>>
  BY SlotFacts, RequestFacts DEF ServiceHandles, Underway, IInv
<1>2. CASE r.kind \in {"putData", "uploadData"}
  BY <1>1, <1>2, StorePictureKeeps DEF ServiceHandles
<1>3. CASE r.kind = "delete"
  BY <1>1, <1>3, DeleteAccountKeeps DEF ServiceHandles, Refused
<1>4. CASE r.kind \in {"signInEmail", "signIn", "createUser", "signInAgain"}
  <2>1. CASE accountOf[r.identity] = NoUid
    BY <1>1, <1>4, <2>1, CreateAccountKeeps DEF ServiceHandles, Refused
  <2>2. CASE accountOf[r.identity] # NoUid
    BY <1>1, <1>4, <2>2, FindAccountKeeps DEF ServiceHandles, Refused
  <2> QED BY <2>1, <2>2
<1> QED BY <1>1, <1>2, <1>3, <1>4 DEF Kind

-----------------------------------------------------------------------------
(* Callbacks. *)

(* What has to be shown of a callback that is over for the page that asked:    *)
(* whomever it was about is accounted for afterwards.                          *)
LEMMA ProceedStep ==
  ASSUME IInv, NEW s \in Underway, requests[s].uid # NoUid, requests[s].kind \notin {"delete", "uploadData"},
         NEW q \in SlotType, NEW p \in Page, Proceed(s, q, p),
         UNCHANGED <<accountOf, lastUid, pictures, lostUploads>>,
         profile' \in [Uid -> {"none", "plain", "pictured"}],
         timesSetUp' \in [Uid -> Nat], interrupted' \subseteq Uid,
         \A u \in Uid : /\ profile[u] # "none" => profile'[u] # "none"
                        /\ profile'[u] = "pictured" => profile[u] = "pictured" \/ u \in pictures
                        /\ u \in interrupted => u \in interrupted' \/ profile'[u] # "none",
         q # Idle => /\ q.kind = "putData" /\ q.page = requests[s].page
                     /\ q.identity = requests[s].identity
                     /\ q.uid = requests[s].uid /\ ~q.handled
                     /\ requests[s].kind \in SetUpKind
                     /\ timesSetUp' = timesSetUp,
         \/ timesSetUp' = timesSetUp
         \/ /\ requests[s].kind \in SetUpKind
            /\ timesSetUp' = [timesSetUp EXCEPT ![requests[s].uid] = @ + 1],
         \A u \in Uid : requests[s].uid = u =>
            \/ q # Idle
            \/ profile'[u] # "none"
            \/ requests[s].kind \notin SetUpKind /\ Accounted(u),
         \/ currentUser' = requests[s].uid
         \/ currentUser' = currentUser /\ requests[s].kind = "putData"
  PROVE  IInv'
<1> DEFINE r == requests[s]
<1> USE DEF IInv
<1>1. /\ s \in Slot /\ r \in Request /\ r # Idle /\ r.uid \in Uid
      /\ r.kind \in Kind /\ KindSound(r) /\ UidSound(r)
  BY SlotFacts, RequestFacts DEF Underway, RequestsInv
<1>2. /\ page' \in Page /\ requests' \in [Slot -> SlotType] /\ Rest({s})
      /\ Alike(q, requests'[s])
      /\ requests'[s] # Idle => requests'[s].page \in Stack(page') \cup {Gone}
      /\ page # r.page =>
            \/ page' = page
            \/ page = LoggedOut /\ page' = Home
  BY <1>1, ProceedFacts
<1>3. /\ requests'[s] # Idle <=> q # Idle
      /\ q # Idle =>
            /\ requests'[s].kind = "putData" /\ requests'[s].identity = r.identity
            /\ requests'[s].uid = r.uid /\ ~requests'[s].handled
            /\ requests'[s].page \in {r.page, Gone}
  BY <1>2 DEF Alike
<1>4. TypeOK'
  <2>1. currentUser' \in Uid \cup {NoUid}
    BY <1>1 DEF TypeOK
  <2> QED BY <1>2, <2>1 DEF TypeOK, SlotType
<1>5. RequestsInv'
  <2>1. \A t \in Slot \ {s} : requests'[t] # Idle => UidSound(requests[t])'
    BY <1>2, RestUid
  <2>2. requests'[s] # Idle => KindSound(requests[s])'
    BY <1>1, <1>2, <1>3 DEF KindSound, SetUpKind
  <2>3. requests'[s] # Idle => UidSound(requests[s])'
    BY <1>1, <1>3 DEF UidSound
  <2> QED BY <1>1, <1>2, <1>3, <2>1, <2>2, <2>3, RequestsStep
<1>6. AccountsInv'
  <2>1. r.uid <= lastUid /\ lastUid \in Nat /\ r.uid \in Nat
    BY <1>1 DEF UidSound, TypeOK, Uid
  <2>2. currentUser' <= lastUid'
    BY <2>1 DEF AccountsInv
  <2>3. \A u \in Uid : u > lastUid => timesSetUp'[u] = 0
    <3> SUFFICES ASSUME NEW u \in Uid, u > lastUid PROVE timesSetUp'[u] = 0
      OBVIOUS
    <3>1. u # r.uid
      BY <2>1 DEF Uid
    <3>2. timesSetUp'[u] = timesSetUp[u]
      BY <3>1 DEF TypeOK
    <3> QED BY <3>2 DEF AccountsInv
  <2> QED BY <2>2, <2>3 DEF AccountsInv
<1>7. SetUpInv'
  <2>1. CASE timesSetUp' = timesSetUp
    <3>1. WillSetUp(s)' => WillSetUp(s) /\ requests'[s].uid = requests[s].uid
      <4> SUFFICES ASSUME WillSetUp(s)' PROVE WillSetUp(s) /\ requests'[s].uid = r.uid
        OBVIOUS
      <4>1. requests'[s] # Idle /\ requests'[s].identity \in Emails
        BY DEF WillSetUp, Underway
      <4>2. r.identity \in Emails /\ r.kind \in SetUpKind
        BY <1>3, <4>1
      <4>3. r.kind # "signInAgain"
        BY <1>1, <4>2, RegistrationAssumption DEF KindSound
      <4> QED BY <1>1, <1>3, <4>1, <4>2, <4>3 DEF WillSetUp, SetUpKind
    <3> QED BY <1>1, <1>2, <2>1, <3>1, SetUpStep
  <2>2. CASE timesSetUp' # timesSetUp
    <3>1. requests'[s] = Idle
      BY <1>3, <2>2
    <3> QED BY <1>1, <1>2, <2>2, <3>1, SetUpDone DEF SetUpKind
  <2> QED BY <2>1, <2>2
<1>8. StillAccounted /\ \A u \in Uid : r.uid = u => Accounted(u)'
  <2>1. ASSUME NEW u \in Uid, r.uid = u, profile'[u] # "none" \/ q # Idle PROVE Accounted(u)'
    <3>1. CASE profile'[u] # "none"
      BY <3>1 DEF Accounted
    <3>2. CASE q # Idle
      BY <1>1, <1>3, <2>1, <3>2 DEF Accounted, BeingSetUp, Underway
    <3> QED BY <2>1, <3>1, <3>2
  <2>2. ASSUME NEW u \in Uid, Accounted(u) PROVE Accounted(u)'
    <3>1. CASE r.uid = u /\ (profile'[u] # "none" \/ q # Idle)
      BY <2>1, <3>1
    <3>2. CASE ~(r.uid = u /\ (profile'[u] # "none" \/ q # Idle))
      <4>1. ~(r.kind \in SetUpKind /\ r.uid = u)
        BY <3>2
      <4> QED BY <1>1, <1>2, <2>2, <4>1, AccountedStep
    <3> QED BY <3>1, <3>2
  <2> QED BY <2>1, <2>2 DEF StillAccounted
<1>9. OnlySignIns'
  BY <1>1, <1>2, <1>4, <1>8, OnlySignInsStep DEF AccountedInv
<1>10. FoundAreAccounted'
  BY <1>1, <1>2, <1>3, <1>8, FoundStep DEF AccountedInv
<1>11. DeletedFromSetup'
  <2>1. NoNewDelete({s})
    BY <1>3 DEF NoNewDelete
  <2>2. CASE page.name = "setup" /\ r.page # page
    <3>1. page' = page
      BY <1>2, <2>2 DEF LoggedOut
    <3>2. requests'[s] # Idle => requests'[s].page # page
      BY <1>3, <2>2, PageFacts DEF TypeOK
    <3> QED BY <1>1, <1>2, <1>3, <1>8, <2>1, <3>1, <3>2, DeletedStays DEF AccountedInv
  <2>3. CASE page.name # "setup" \/ r.page = page
    <3>1. \A t \in Underway, u \in Uid :
            /\ requests[t].kind = "delete" /\ requests[t].uid = u
            /\ accountOf[requests[t].identity] = u
            => Accounted(u)
      BY <1>1, <2>3 DEF AccountedInv, DeletedFromSetup
    <3>2. \A t \in Underway, u \in Uid :
            /\ requests[t].kind = "delete" /\ requests[t].uid = u
            /\ accountOf[requests[t].identity] = u
            => Accounted(u)'
      BY <1>8, <3>1 DEF StillAccounted
    <3> QED BY <1>1, <1>2, <2>1, <3>2, DeletedAccounted
  <2> QED BY <2>2, <2>3
<1>12. UserIsAccounted'
  <2>1. CASE currentUser' = r.uid
    BY <1>1, <1>8, <2>1, UserAccounted
  <2>2. CASE currentUser' = currentUser /\ r.kind = "putData"
    <3>1. CASE page' = page /\ r.page # page
      <4>1. requests'[s] # Idle => requests'[s].page # page
        BY <1>3, <3>1, PageFacts DEF TypeOK
      <4> QED BY <1>1, <1>2, <1>8, <2>2, <3>1, <4>1, UserStays DEF AccountedInv
    <3>2. CASE page' # page \/ r.page = page
      <4>1. ASSUME NEW u \in Uid, currentUser = u PROVE Accounted(u)
        BY <1>2, <2>2, <3>2, <4>1 DEF AccountedInv, UserIsAccounted, LoggedOut, Uid, NoUid
      <4>2. \A u \in Uid : currentUser' = u => Accounted(u)'
        BY <1>8, <2>2, <4>1 DEF StillAccounted
      <4>3. currentUser' \in Uid \cup {NoUid}
        BY <1>4 DEF TypeOK
      <4> QED BY <4>2, <4>3, UserAccounted
    <3> QED BY <3>1, <3>2
  <2> QED BY <2>1, <2>2
<1>13. LinkedPictureUploaded'
  BY <1>1, <1>2, PictureStep
<1> QED BY <1>4, <1>5, <1>6, <1>7, <1>9, <1>10, <1>11, <1>12, <1>13 DEF AccountedInv

(* What LateIn puts down. *)
LEMMA LateInFacts ==
  ASSUME TypeOK, NEW s \in Underway, requests[s].uid \in Uid, LateIn(requests[s])
  PROVE  interrupted \subseteq interrupted' /\ interrupted' \subseteq Uid
<1>1. PICK uids : uids = IF page = requests[s].page THEN {} ELSE {requests[s].uid}
  OBVIOUS
<1>2. uids \subseteq Uid \cup {NoUid} /\ Interrupt(uids)
  BY <1>1 DEF LateIn
<1> QED BY <1>2, InterruptFacts

(* An account that a password sign-in found, or a third-party one that was     *)
(* found, is accounted for: no deletion is under way.                          *)
LEMMA EmailIsAccounted ==
  ASSUME IInv, NEW s \in Underway, requests[s].kind = "signInEmail",
         NEW u \in Uid, requests[s].uid = u
  PROVE  Accounted(u)
<1> USE DEF IInv, AccountedInv
<1> SUFFICES ASSUME ~Accounted(u) PROVE FALSE
  OBVIOUS
<1>1. /\ requests[s].identity \in Emails /\ requests[s].identity \in Identity /\ u # NoUid
      /\ accountOf[requests[s].identity] = u
  BY DEF RequestsInv, KindSound, UidSound, Uid, NoUid, Identity
<1>2. PICK t \in Underway : requests[t].uid = u /\ requests[t].kind \in {"signIn", "delete"}
  BY <1>1 DEF OnlySignIns
<1>3. requests[t].identity \in ThirdParties /\ requests[s].identity = requests[t].identity
  BY <1>1, <1>2 DEF RequestsInv, KindSound, UidSound
<1> QED BY <1>1, <1>3, RegistrationAssumption

(* A sign-in that found an account takes its user home. *)
LEMMA ArriveHomeKeeps ==
  ASSUME IInv, NEW s \in Underway, requests[s].handled,
         \/ requests[s].kind = "signInEmail"
         \/ requests[s].kind = "signIn" /\ ~requests[s].isNewUser,
         SignedIn(requests[s].uid), Proceed(s, Idle, Home), LateIn(requests[s]),
         UNCHANGED <<services, timesSetUp, lostUploads>>
  PROVE  IInv'
<1> USE DEF IInv
<1>1. /\ requests[s].uid # NoUid /\ requests[s].uid \in Uid
      /\ s \in Slot /\ currentUser' = requests[s].uid
  BY SlotFacts, RequestFacts DEF Underway, RequestsInv, UidSound, SignedIn
<1>2. /\ UNCHANGED <<accountOf, lastUid, pictures, profile, timesSetUp, lostUploads>>
      /\ Idle \in SlotType /\ Home \in Page
  BY DEF services, SlotType, Page
<1>3. interrupted \subseteq interrupted' /\ interrupted' \subseteq Uid
  BY <1>1, LateInFacts
<1>4. \A u \in Uid : requests[s].uid = u => Accounted(u)
  BY EmailIsAccounted DEF AccountedInv, FoundAreAccounted
<1>5. /\ profile' \in [Uid -> {"none", "plain", "pictured"}] /\ timesSetUp' \in [Uid -> Nat]
  BY <1>2 DEF TypeOK
<1> QED BY <1>1, <1>2, <1>3, <1>4, <1>5, ProceedStep DEF SetUpKind

(* setUserData, when its account is known. *)
LEMMA SetUserDataKeeps ==
  ASSUME IInv, NEW s \in Underway, requests[s].kind \in SetUpKind, requests[s].handled,
         NEW picked \in BOOLEAN, picked => requests[s].uid \in pictures,
         SetUserData(requests[s].uid, picked), Proceed(s, Idle, Home),
         UNCHANGED <<accountOf, lastUid, pictures, lostUploads>>,
         \/ currentUser' = requests[s].uid
         \/ currentUser' = currentUser /\ requests[s].kind = "putData"
  PROVE  IInv'
<1> DEFINE v == requests[s].uid
<1> USE DEF IInv
<1>1. v # NoUid /\ v \in Uid /\ s \in Slot
  BY SlotFacts, RequestFacts DEF Underway, RequestsInv, UidSound, SetUpKind
<1>2. /\ profile' = [profile EXCEPT ![v] = IF picked THEN "pictured" ELSE "plain"]
      /\ timesSetUp' = [timesSetUp EXCEPT ![v] = @ + 1]
      /\ interrupted' = interrupted \ {v}
      /\ Idle \in SlotType /\ Home \in Page
  BY DEF SetUserData, SlotType, Page
<1>3. /\ profile' \in [Uid -> {"none", "plain", "pictured"}]
      /\ timesSetUp' \in [Uid -> Nat] /\ interrupted' \subseteq Uid
  BY <1>1, <1>2 DEF TypeOK
<1>4. /\ profile'[v] = IF picked THEN "pictured" ELSE "plain"
      /\ \A u \in Uid \ {v} : profile'[u] = profile[u]
  BY <1>1, <1>2 DEF TypeOK
<1>5. \A u \in Uid : /\ profile[u] # "none" => profile'[u] # "none"
                     /\ profile'[u] = "pictured" => profile[u] = "pictured" \/ u \in pictures
                     /\ u \in interrupted => u \in interrupted' \/ profile'[u] # "none"
  BY <1>1, <1>2, <1>4
<1>6. requests[s].kind \notin {"delete", "uploadData"}
  BY DEF SetUpKind
<1>7. \A u \in Uid : requests[s].uid = u => profile'[u] # "none"
  BY <1>4
<1>8. /\ requests[s].kind \in SetUpKind /\ timesSetUp' = [timesSetUp EXCEPT ![requests[s].uid] = @ + 1]
      /\ requests[s].uid # NoUid /\ Proceed(s, Idle, Home) /\ Idle \in SlotType /\ Home \in Page
  BY <1>1, <1>2
<1> HIDE DEF IInv, v
<1> QED BY <1>3, <1>5, <1>6, <1>7, <1>8, ProceedStep

LEMMA AccountArrivesKeeps ==
  ASSUME IInv, NEW s \in Slot, NEW picked \in BOOLEAN, AccountArrives(s, picked)
  PROVE  IInv'
<1> DEFINE r == requests[s]
<1> USE DEF IInv
<1>1. /\ s \in Underway /\ r.kind \in {"createUser", "signInAgain"} /\ r.handled
      /\ r.uid # NoUid /\ r.uid \in Uid /\ r \in Request /\ currentUser' = r.uid
      /\ UNCHANGED <<accountOf, lastUid, pictures, lostUploads>>
  <2>1. s \in Underway /\ r.kind \in {"createUser", "signInAgain"} /\ r.handled
    BY DEF AccountArrives, Answered, Underway
  <2> QED BY <2>1, SlotFacts, RequestFacts
          DEF AccountArrives, RequestsInv, UidSound, SignedIn
<1>2. CASE picked
  <2>1. /\ Proceed(s, Upload(r), page) /\ LateIn(r) /\ profile' = profile
        /\ timesSetUp' = timesSetUp
    BY <1>2 DEF AccountArrives
  <2>2. PICK q : q = Upload(r)
    OBVIOUS
  <2>3. /\ q \in Request /\ q.kind = "putData" /\ q.page = r.page /\ q.identity = r.identity
        /\ q.uid = r.uid /\ ~q.handled
    <3>1. r \in [kind : Kind, identity : Identity, page : Page \cup {Gone},
                 uid : Uid \cup {NoUid}, isNewUser : BOOLEAN, handled : BOOLEAN]
      BY <1>1, RequestFacts
    <3> QED BY <2>2, <3>1 DEF Upload, Request, Kind
  <2>4. q \in SlotType /\ q # Idle
    BY <2>3, RequestFacts DEF SlotType
  <2>5. interrupted \subseteq interrupted' /\ interrupted' \subseteq Uid
    BY <1>1, <2>1, LateInFacts
  <2>6. /\ profile' \in [Uid -> {"none", "plain", "pictured"}] /\ timesSetUp' \in [Uid -> Nat]
        /\ page \in Page /\ Proceed(s, q, page)
    BY <2>1, <2>2 DEF TypeOK
  <2> QED BY <1>1, <2>1, <2>3, <2>4, <2>5, <2>6, ProceedStep DEF SetUpKind
<1>3. CASE ~picked
  BY <1>1, <1>3, SetUserDataKeeps DEF AccountArrives, SetUpKind
<1> QED BY <1>2, <1>3

LEMMA PictureArrivesKeeps ==
  ASSUME IInv, NEW s \in Slot, PictureArrives(s)
  PROVE  IInv'
<1>1. s \in Underway /\ requests[s].kind = "putData" /\ requests[s].handled
  BY DEF PictureArrives, Answered, Underway
<1>2. requests[s].uid \in pictures
  BY <1>1 DEF IInv, RequestsInv, UidSound
<1>3. PICK picked \in BOOLEAN : picked = TRUE
  OBVIOUS
<1>4. /\ SetUserData(requests[s].uid, picked) /\ Proceed(s, Idle, Home)
      /\ UNCHANGED <<accountOf, lastUid, pictures, lostUploads>> /\ currentUser' = currentUser
  BY <1>3 DEF PictureArrives
<1>5. requests[s].kind \in SetUpKind
  BY <1>1 DEF SetUpKind
<1> QED BY <1>1, <1>2, <1>4, <1>5, SetUserDataKeeps

LEMMA SignInEmailArrivesKeeps ==
  ASSUME IInv, NEW s \in Slot, SignInEmailArrives(s)
  PROVE  IInv'
BY ArriveHomeKeeps DEF SignInEmailArrives, Answered, Underway

(* A new user on the page that asked gets the set-up page, and the account is  *)
(* to be deleted.                                                              *)
LEMMA NewUserKeeps ==
  ASSUME IInv, NEW s \in Underway, requests[s].handled, requests[s].kind = "signIn",
         requests[s].isNewUser, page = requests[s].page, SignedIn(requests[s].uid),
         Proceed(s, DeleteRequest(requests[s]), SetupPage(requests[s].identity, page)),
         LateIn(requests[s]), UNCHANGED <<services, timesSetUp, lostUploads>>
  PROVE  IInv'
<1> DEFINE r == requests[s]
<1> USE DEF IInv
<1>1. /\ s \in Slot /\ r \in Request /\ r # Idle /\ r.uid \in Uid /\ r.uid # NoUid
      /\ r.identity \in ThirdParties /\ r.identity \in Identity
      /\ KindSound(r) /\ UidSound(r) /\ page \in {Login, Step1}
      /\ r \in [kind : Kind, identity : Identity, page : Page \cup {Gone},
                uid : Uid \cup {NoUid}, isNewUser : BOOLEAN, handled : BOOLEAN]
  BY SlotFacts, RequestFacts, PageFacts
     DEF Underway, RequestsInv, KindSound, UidSound, TypeOK
<1>2. PICK q, p : q = DeleteRequest(r) /\ p = SetupPage(r.identity, page)
  OBVIOUS
<1>3. /\ q \in Request /\ q.kind = "delete" /\ q.uid = r.uid /\ q.identity = r.identity
      /\ q.page = Gone /\ ~q.handled
  BY <1>1, <1>2 DEF DeleteRequest, Request, Kind
<1>4. /\ p \in Page /\ p.name = "setup" /\ p.identity = r.identity /\ p.from = page
      /\ p # page /\ p # Gone
  BY <1>1, <1>2 DEF SetupPage, Page, Login, Step1, Gone
<1>5. q \in SlotType /\ q # Idle
  BY <1>3, RequestFacts DEF SlotType
<1>6. /\ page' = p /\ requests' \in [Slot -> SlotType] /\ Rest({s})
      /\ Alike(q, requests'[s])
  <2>1. Proceed(s, q, p)
    BY <1>2
  <2> QED BY <1>1, <1>4, <1>5, <2>1, ProceedFacts
<1>7. /\ requests'[s] # Idle /\ requests'[s].kind = "delete" /\ requests'[s].uid = r.uid
      /\ requests'[s].identity = r.identity /\ requests'[s].page = Gone
      /\ ~requests'[s].handled
  BY <1>3, <1>5, <1>6 DEF Alike
<1>8. /\ UNCHANGED <<accountOf, lastUid, pictures, profile, timesSetUp, lostUploads>>
      /\ currentUser' = r.uid
  BY DEF services, SignedIn
<1>9. interrupted' = interrupted
  <2>1. Interrupt({})
    BY DEF LateIn
  <2> QED BY <2>1 DEF Interrupt
<1>10. TypeOK'
  BY <1>1, <1>4, <1>6, <1>8, <1>9 DEF TypeOK, SlotType
<1>11. RequestsInv'
  <2>1. \A t \in Slot \ {s} : requests'[t] # Idle => UidSound(requests[t])'
    BY <1>6, <1>8, RestUid
  <2>2. KindSound(requests[s])'
    BY <1>1, <1>7 DEF KindSound
  <2>3. UidSound(requests[s])'
    BY <1>1, <1>7, <1>8 DEF UidSound
  <2> QED BY <1>1, <1>6, <1>7, <2>1, <2>2, <2>3, RequestsStep
<1>12. AccountsInv'
  BY <1>1, <1>8 DEF AccountsInv, UidSound
<1>13. SetUpInv'
  <2>1. ~WillSetUp(s)'
    BY <1>7 DEF WillSetUp
  <2> QED BY <1>1, <1>6, <1>8, <2>1, SetUpStep
<1>14. StillAccounted
  <2>1. ASSUME NEW u \in Uid, Accounted(u) PROVE Accounted(u)'
    BY <1>1, <1>6, <1>8, <1>9, <2>1, AccountedStep DEF SetUpKind
  <2> QED BY <2>1 DEF StillAccounted
<1>15. OnlySignIns'
  BY <1>1, <1>6, <1>7, <1>8, <1>10, <1>14, OnlySignInsStep DEF AccountedInv
<1>16. FoundAreAccounted'
  BY <1>1, <1>6, <1>7, <1>14, FoundStep DEF AccountedInv
<1>17. \A t \in Underway' : requests'[t].kind # "signIn" /\ requests'[t].page # page'
  <2> SUFFICES ASSUME NEW t \in Slot, requests'[t] # Idle
               PROVE  requests'[t].kind # "signIn" /\ requests'[t].page # p
    BY <1>6 DEF Underway
  <2>1. CASE t = s
    BY <1>4, <1>7, <2>1
  <2>2. CASE t # s
    <3>1. /\ requests[t] # Idle /\ requests'[t].kind = requests[t].kind
          /\ requests'[t].page \in {requests[t].page, Gone}
      BY <1>6, <2>2, RestFacts
    <3>2. requests[t].kind # "signIn"
      BY <1>1, <2>2, <3>1 DEF RequestsInv, Underway
    <3>3. requests[t].page \in {page, Gone}
      <4>1. requests[t].page \in Stack(page) \cup {Gone}
        BY <3>1 DEF RequestsInv, KindSound, Underway
      <4> QED BY <1>1, <4>1 DEF Stack, Login, Step1
    <3> QED BY <1>4, <3>1, <3>2, <3>3
  <2> QED BY <2>1, <2>2
<1>18. DeletedFromSetup'
  <2> SUFFICES ASSUME NEW t \in Underway', requests'[t].kind = "delete",
                      accountOf[requests'[t].identity] = requests'[t].uid,
                      NEW u \in Uid, u = requests'[t].uid, ~Accounted(u)'
               PROVE  page'.name = "setup" /\ page'.identity = requests'[t].identity
    <3>1. ASSUME NEW t \in Underway' PROVE requests'[t].uid \in Uid \cup {NoUid}
      BY <1>6, RequestFacts DEF Underway, SlotType
    <3>2. \A t \in Underway' : requests'[t].kind = "delete" => requests'[t].uid \in Uid
      BY <1>11, <3>1 DEF RequestsInv, UidSound
    <3> QED BY <1>8, <1>17, <3>2 DEF DeletedFromSetup, Accounted, BeingSetUp
  <2>1. CASE t = s
    BY <1>4, <1>6, <1>7, <2>1
  <2>2. CASE t # s
    <3>1. /\ t \in Underway /\ requests[t].kind = "delete" /\ requests[t].uid = u
          /\ accountOf[requests[t].identity] = u
      BY <1>6, <2>2, RestFacts DEF Underway
    <3>2. page.name # "setup"
      BY <1>1 DEF Login, Step1
    <3> QED BY <1>14, <3>1, <3>2, OffSetupAccounted DEF AccountedInv
  <2> QED BY <2>1, <2>2
<1>19. UserIsAccounted'
  BY <1>4, <1>6, <1>17 DEF UserIsAccounted
<1>20. LinkedPictureUploaded'
  BY <1>1, <1>6, <1>8, PictureStep
<1> QED BY <1>10, <1>11, <1>12, <1>13, <1>15, <1>16, <1>18, <1>19, <1>20 DEF AccountedInv

(* The app starts again. *)
LEMMA RestartedKeeps ==
  ASSUME IInv, NEW u \in Uid \cup {NoUid}, u <= lastUid, Restarted(u)
  PROVE  IInv'
<1> USE DEF IInv
<1>1. PICK uids : uids = {u} \cup {requests[s].uid : s \in Underway}
  OBVIOUS
<1>2. /\ UNCHANGED <<accountOf, lastUid, pictures, profile, timesSetUp>> /\ currentUser' = u
      /\ requests' = [s \in Slot |-> Idle] /\ page' \in {LoggedOut, Home}
      /\ Interrupt(uids) /\ LoseUploads(Underway)
  BY <1>1 DEF Restarted, services, SignedIn, AfterListener
<1>3. /\ interrupted \subseteq interrupted' /\ interrupted' \subseteq Uid
      /\ \A v \in Uid : v \in uids => profile[v] # "none" \/ v \in interrupted'
  <2>1. uids \subseteq Uid \cup {NoUid}
    BY <1>1, UidsUnderway
  <2> QED BY <1>2, <2>1, InterruptFacts
<1>4. Underway' = {} /\ \A s \in Slot : requests'[s] = Idle
  BY <1>2 DEF Underway
<1>5. /\ lostUploads \subseteq lostUploads' /\ lostUploads' \subseteq Uid
      /\ \A s \in Underway : requests[s].kind = "uploadData" =>
            requests[s].uid \in pictures \/ requests[s].uid \in lostUploads'
  <2>1. \A s \in Underway : requests[s].kind = "uploadData" =>
            /\ requests[s].uid \in Uid
            /\ requests[s].handled => requests[s].uid \in pictures
    BY SlotFacts, RequestFacts DEF RequestsInv, UidSound, Underway
  <2> QED BY <1>2, <2>1 DEF LoseUploads, TypeOK
<1>6. TypeOK'
  <2>1. LoggedOut \in Page /\ Home \in Page
    BY DEF Page
  <2>2. requests' \in [Slot -> Request \cup {Idle}]
    BY <1>2
  <2> QED BY <1>2, <1>3, <1>5, <2>1, <2>2 DEF TypeOK
<1>7. RequestsInv'
  BY <1>4 DEF RequestsInv
<1>8. AccountsInv'
  BY <1>2 DEF AccountsInv
<1>9. SetUpInv'
  BY <1>2, <1>4 DEF SetUpInv, WillSetUp, PasswordAccountSetUpOnce
<1>10. \A v \in Uid : Accounted(v) \/ v \in uids => Accounted(v)'
  <2>1. \A v \in Uid : BeingSetUp(v) => v \in uids
    BY <1>1 DEF BeingSetUp
  <2> QED BY <1>2, <1>3, <2>1 DEF Accounted
<1>11. OnlySignIns'
  <2> SUFFICES ASSUME NEW i \in Identity, accountOf[i] # NoUid
               PROVE  \E v \in Uid : accountOf[i] = v /\ Accounted(v)'
    BY <1>2 DEF OnlySignIns, Accounted, BeingSetUp
  <2>1. PICK v \in Uid : accountOf[i] = v
    BY DEF TypeOK
  <2>2. Accounted(v) \/ v \in uids
    BY <1>1, <2>1 DEF AccountedInv, OnlySignIns
  <2> QED BY <1>10, <2>1, <2>2
<1>12. FoundAreAccounted' /\ DeletedFromSetup'
  BY <1>4 DEF FoundAreAccounted, DeletedFromSetup
<1>13. UserIsAccounted'
  <2>1. \A v \in Uid : currentUser' = v => Accounted(v)'
    BY <1>1, <1>2, <1>10
  <2> QED BY <1>2, <2>1, UserAccounted
<1>14. LinkedPictureUploaded'
  BY <1>2, <1>5 DEF LinkedPictureUploaded
<1> QED BY <1>6, <1>7, <1>8, <1>9, <1>11, <1>12, <1>13, <1>14 DEF AccountedInv

LEMMA SignInArrivesKeeps ==
  ASSUME IInv, NEW s \in Slot, SignInArrives(s)
  PROVE  IInv'
<1>1. s \in Underway /\ requests[s].kind = "signIn" /\ requests[s].handled
  BY DEF SignInArrives, Answered, Underway
<1>2. CASE requests[s].isNewUser /\ page # requests[s].page
  <2>1. /\ requests[s].uid \in Uid \cup {NoUid} /\ requests[s].uid <= lastUid
        /\ Restarted(requests[s].uid)
    BY <1>1, <1>2, SlotFacts, RequestFacts
       DEF SignInArrives, IInv, RequestsInv, UidSound, Underway
  <2>2. PICK u : u = requests[s].uid
    OBVIOUS
  <2> QED BY <2>1, <2>2, RestartedKeeps
<1>3. CASE requests[s].isNewUser /\ page = requests[s].page
  BY <1>1, <1>3, NewUserKeeps DEF SignInArrives
<1>4. CASE ~requests[s].isNewUser
  BY <1>1, <1>4, ArriveHomeKeeps DEF SignInArrives
<1> QED BY <1>2, <1>3, <1>4

LEMMA KilledKeeps ==
  ASSUME IInv, Killed
  PROVE  IInv'
<1>1. PICK u : u = currentUser
  OBVIOUS
<1>2. u \in Uid \cup {NoUid} /\ u <= lastUid /\ Restarted(u)
  BY <1>1 DEF Killed, IInv, TypeOK, AccountsInv
<1> QED BY <1>2, RestartedKeeps

(* A request that is over, with nothing after it. *)
LEMMA ForgetKeeps ==
  ASSUME IInv, NEW s \in Underway, Become(s, Idle),
         UNCHANGED <<services, page, timesSetUp>>, currentUser' \in {currentUser, NoUid},
         lostUploads \subseteq lostUploads', lostUploads' \subseteq Uid,
         interrupted \subseteq interrupted', interrupted' \subseteq Uid,
         requests[s].kind = "uploadData" =>
            requests[s].uid \in pictures \/ requests[s].uid \in lostUploads',
         \A u \in Uid : requests[s].uid = u =>
            \/ requests[s].kind = "uploadData"
            \/ requests[s].kind = "delete" /\ \A i \in Identity : accountOf[i] # u
            \/ profile[u] # "none"
            \/ u \in interrupted'
  PROVE  IInv'
<1> USE DEF IInv
<1>1. s \in Slot /\ Idle \in SlotType
  BY DEF Underway, SlotType
<1>2. /\ UNCHANGED <<accountOf, lastUid, pictures, profile, timesSetUp, page>>
      /\ requests' \in [Slot -> SlotType] /\ Rest({s}) /\ requests'[s] = Idle
  BY <1>1, BecomeFacts DEF services
<1>3. TypeOK'
  BY <1>2 DEF TypeOK, SlotType
<1>4. RequestsInv'
  <2>1. \A t \in Slot \ {s} : requests'[t] # Idle => UidSound(requests[t])'
    BY <1>2, RestUid
  <2> QED BY <1>1, <1>2, <2>1, RequestsStep
<1>5. AccountsInv'
  BY <1>2 DEF AccountsInv, NoUid, TypeOK
<1>6. SetUpInv'
  <2>1. ~WillSetUp(s)'
    BY <1>2 DEF WillSetUp, Underway
  <2> QED BY <1>1, <1>2, <2>1, SetUpStep
<1>7. StillAccounted
  <2>1. ASSUME NEW u \in Uid, Accounted(u) PROVE Accounted(u)'
    BY <1>1, <1>2, <2>1, AccountedStep DEF SetUpKind
  <2> QED BY <2>1 DEF StillAccounted
<1>8. OnlySignIns'
  <2>1. \A u \in Uid : /\ requests[s].kind \in {"signIn", "delete"} /\ requests[s].uid = u
                       => \/ \A i \in Identity : accountOf'[i] # u
                          \/ Accounted(u)'
    BY <1>2 DEF Accounted
  <2> QED BY <1>1, <1>2, <1>3, <1>7, <2>1, OnlySignInsStep DEF AccountedInv
<1>9. FoundAreAccounted'
  BY <1>1, <1>2, <1>7, FoundStep DEF AccountedInv
<1>10. DeletedFromSetup'
  <2>1. NoNewDelete({s})
    BY <1>2 DEF NoNewDelete
  <2> QED BY <1>1, <1>2, <1>7, <2>1, DeletedStays DEF AccountedInv
<1>11. UserIsAccounted'
  <2>1. CASE currentUser' = currentUser
    BY <1>1, <1>2, <1>7, <2>1, UserStays DEF AccountedInv
  <2>2. CASE currentUser' = NoUid
    BY <2>2 DEF UserIsAccounted
  <2> QED BY <2>1, <2>2
<1>12. LinkedPictureUploaded'
  BY <1>1, <1>2, PictureStep
<1> QED BY <1>3, <1>4, <1>5, <1>6, <1>8, <1>9, <1>10, <1>11, <1>12 DEF AccountedInv

LEMMA UploadArrivesKeeps ==
  ASSUME IInv, NEW s \in Slot, UploadArrives(s)
  PROVE  IInv'
<1>1. /\ s \in Underway /\ requests[s].kind = "uploadData" /\ requests[s].handled
      /\ UNCHANGED <<services, currentUser, page, timesSetUp, lostUploads, interrupted>>
      /\ Become(s, Idle)
  BY DEF UploadArrives, Answered, Underway, history
<1>2. requests[s].uid \in pictures
  BY <1>1 DEF IInv, RequestsInv, UidSound
<1>3. lostUploads' \subseteq Uid /\ interrupted' \subseteq Uid
  BY <1>1 DEF IInv, TypeOK
<1> QED BY <1>1, <1>2, <1>3, ForgetKeeps

LEMMA DeleteArrivesKeeps ==
  ASSUME IInv, NEW s \in Slot, DeleteArrives(s)
  PROVE  IInv'
<1>1. /\ s \in Underway /\ requests[s].kind = "delete" /\ requests[s].handled
      /\ UNCHANGED <<services, page, timesSetUp, lostUploads, interrupted>>
      /\ Become(s, Idle) /\ currentUser' \in {currentUser, NoUid}
  BY DEF DeleteArrives, Answered, Underway, history, SignedIn
<1>2. \A i \in Identity : accountOf[i] # requests[s].uid
  BY <1>1 DEF IInv, RequestsInv, UidSound
<1>3. lostUploads' \subseteq Uid /\ interrupted' \subseteq Uid
  BY <1>1 DEF IInv, TypeOK
<1> QED BY <1>1, <1>2, <1>3, ForgetKeeps

LEMMA RequestFailsKeeps ==
  ASSUME IInv, NEW s \in Slot, RequestFails(s)
  PROVE  IInv'
<1>1. /\ s \in Underway /\ requests[s] \in Request
      /\ UNCHANGED <<services, currentUser, page, timesSetUp>>
      /\ Become(s, Idle) /\ LoseUploads({s})
  BY SlotFacts DEF RequestFails, Underway, IInv
<1>2. PICK uids : uids = {requests[s].uid}
  OBVIOUS
<1>3. uids \subseteq Uid \cup {NoUid} /\ Interrupt(uids)
  BY <1>1, <1>2, RequestFacts DEF RequestFails
<1>4. /\ interrupted \subseteq interrupted' /\ interrupted' \subseteq Uid
      /\ \A u \in Uid : u \in uids => profile[u] # "none" \/ u \in interrupted'
  <2>1. TypeOK
    BY DEF IInv
  <2> QED BY <1>3, <2>1, InterruptFacts
<1>5. requests[s].kind = "uploadData" =>
         /\ requests[s].uid \in Uid
         /\ requests[s].handled => requests[s].uid \in pictures
  BY <1>1, RequestFacts DEF IInv, RequestsInv, UidSound
<1>6. /\ lostUploads \subseteq lostUploads' /\ lostUploads' \subseteq Uid
      /\ requests[s].kind = "uploadData" =>
            requests[s].uid \in pictures \/ requests[s].uid \in lostUploads'
  BY <1>1, <1>5 DEF LoseUploads, IInv, TypeOK
<1> QED BY <1>1, <1>2, <1>4, <1>6, ForgetKeeps

-----------------------------------------------------------------------------
(* The page that edits the profile. *)

LEMMA SaveSends ==
  ASSUME IInv, SaveChanges
  PROVE  \E S \in SUBSET Slot :
            /\ Rest(S) /\ requests' \in [Slot -> SlotType]
            /\ \A s \in S : requests[s] = Idle /\ requests'[s] = UploadRequest(currentUser)
            /\ page.pictured => S # {}
<1> USE DEF IInv
<1>1. page.name = "edit" /\ page \in Page /\ page' # Gone
  BY PageFacts DEF SaveChanges, TypeOK, Gone
<1>2. \A t \in Underway : requests[t].page = Gone
  <2> SUFFICES ASSUME NEW t \in Underway PROVE requests[t].page = Gone
    OBVIOUS
  <2>1. /\ requests[t].kind \in Kind \cup {"uploadData"} /\ KindSound(requests[t])
        /\ requests[t].page \in {page, Gone}
    <3>1. requests[t] \in Request /\ KindSound(requests[t])
      BY SlotFacts DEF RequestsInv, Underway
    <3> QED BY <1>1, <3>1, RequestFacts, PageFacts DEF KindSound
  <2> QED BY <1>1, <2>1 DEF KindSound, Kind, Login, Step1
<1>3. ASSUME NEW t \in Slot, requests'[t] = requests[t]
      PROVE  /\ Alike(requests[t], requests'[t])
             /\ requests'[t] # Idle => requests'[t].page \in Stack(page') \cup {Gone}
  BY <1>2, <1>3 DEF Alike, Underway
<1>4. CASE ~page.pictured
  <2>1. requests' = requests
    BY <1>4 DEF SaveChanges
  <2>2. Rest({}) /\ requests' \in [Slot -> SlotType]
    BY <1>3, <2>1 DEF Rest, TypeOK, SlotType
  <2> QED BY <1>4, <2>2
<1>5. CASE page.pictured
  <2>1. PICK s : /\ s = CHOOSE t \in Slot \ Underway : TRUE
                 /\ requests' = [requests EXCEPT ![s] = UploadRequest(currentUser)]
    BY <1>5 DEF SaveChanges, Send
  <2>2. s \in Slot /\ requests[s] = Idle
    <3>1. Slot \ Underway # {}
      BY <1>5 DEF SaveChanges, Send
    <3> QED BY <2>1, <3>1 DEF Underway
  <2>3. UploadRequest(currentUser) \in SlotType
    BY DEF SaveChanges, UploadRequest, SlotType, Request, TypeOK
  <2>4. requests' \in [Slot -> SlotType] /\ requests'[s] = UploadRequest(currentUser)
    BY <2>1, <2>2, <2>3 DEF TypeOK, SlotType
  <2>5. \A t \in Slot \ {s} : requests'[t] = requests[t]
    BY <2>1 DEF TypeOK
  <2>6. Rest({s})
    BY <1>3, <2>5 DEF Rest
  <2> QED BY <2>2, <2>4, <2>6
<1> QED BY <1>4, <1>5

LEMMA SaveChangesKeeps ==
  ASSUME IInv, SaveChanges
  PROVE  IInv'
<1> USE DEF IInv
<1>1. PICK S \in SUBSET Slot :
            /\ Rest(S) /\ requests' \in [Slot -> SlotType]
            /\ \A s \in S : requests[s] = Idle /\ requests'[s] = UploadRequest(currentUser)
            /\ page.pictured => S # {}
  BY SaveSends
<1>2. /\ UNCHANGED <<accountOf, lastUid, pictures, currentUser, timesSetUp, lostUploads, interrupted>>
      /\ page' = [page EXCEPT !.editing = FALSE] /\ page.name = "edit"
      /\ currentUser \in Uid /\ currentUser # NoUid
  BY DEF SaveChanges, history, TypeOK
<1>3. page' \in Page /\ page'.name = "edit"
  BY <1>2, PageFacts DEF TypeOK, Page
<1>4. PICK v \in Uid : v = currentUser
  BY <1>2
<1>5. PICK r : r = UploadRequest(v)
  OBVIOUS
<1>6. /\ r \in Request /\ r.kind = "uploadData" /\ r.uid = v /\ ~r.handled /\ r.page = Gone
      /\ r # Idle
  <2>1. r \in Request /\ r.kind = "uploadData" /\ r.uid = v /\ ~r.handled /\ r.page = Gone
    BY <1>5 DEF UploadRequest, Request
  <2> QED BY <2>1, RequestFacts
<1>7. \A s \in S : requests[s] = Idle /\ requests'[s] = r /\ s \notin Underway
  BY <1>1, <1>4, <1>5 DEF Underway
<1>8. /\ profile' \in [Uid -> {"none", "plain", "pictured"}]
      /\ \A u \in Uid : /\ profile[u] # "none" => profile'[u] # "none"
                        /\ profile'[u] = "pictured" =>
                              profile[u] = "pictured" \/ (u = v /\ page.pictured)
  BY <1>4 DEF SaveChanges, UpdateUserInfo, TypeOK
<1>9. TypeOK'
  BY <1>1, <1>2, <1>3, <1>8 DEF TypeOK, SlotType
<1>10. RequestsInv'
  <2>1. \A t \in Slot \ S : requests'[t] # Idle => UidSound(requests[t])'
    BY <1>1, <1>2, RestUid
  <2>2. KindSound(r)'
    BY <1>6 DEF KindSound
  <2>3. UidSound(r)'
    BY <1>2, <1>4, <1>6 DEF UidSound, AccountsInv
  <2>4. \A s \in S : KindSound(requests[s])' /\ UidSound(requests[s])'
    BY <1>7, <2>2, <2>3
  <2> QED BY <1>1, <1>6, <1>7, <2>1, <2>4, RequestsStep
<1>11. AccountsInv'
  BY <1>2 DEF AccountsInv
<1>12. SetUpInv'
  <2>1. \A s \in S : ~WillSetUp(s)'
    BY <1>6, <1>7 DEF WillSetUp
  <2> QED BY <1>1, <1>2, <2>1, SetUpStep
<1>13. StillAccounted
  <2>1. ASSUME NEW u \in Uid, Accounted(u) PROVE Accounted(u)'
    BY <1>1, <1>2, <1>7, <1>8, <2>1, AccountedStep
  <2> QED BY <2>1 DEF StillAccounted
<1>14. OnlySignIns'
  BY <1>1, <1>2, <1>7, <1>9, <1>13, OnlySignInsStep DEF AccountedInv
<1>15. FoundAreAccounted'
  BY <1>1, <1>6, <1>7, <1>13, FoundStep DEF AccountedInv
<1>16. DeletedFromSetup'
  <2>1. NoNewDelete(S)
    BY <1>6, <1>7 DEF NoNewDelete
  <2>2. \A s \in Underway, u \in Uid :
            /\ requests[s].kind = "delete" /\ requests[s].uid = u
            /\ accountOf[requests[s].identity] = u
            => Accounted(u)'
    BY <1>2, <1>13, OffSetupAccounted DEF AccountedInv
  <2> QED BY <1>1, <1>2, <2>1, <2>2, DeletedAccounted
<1>17. UserIsAccounted'
  <2>1. Accounted(v)
    BY <1>2, <1>4, UserOffSetup
  <2>2. Accounted(v)'
    BY <1>13, <2>1 DEF StillAccounted
  <2>3. \A u \in Uid : currentUser' = u => Accounted(u)'
    BY <1>2, <1>4, <2>2
  <2> QED BY <1>2, <2>3, UserAccounted
<1>18. LinkedPictureUploaded'
  <2>1. page.pictured => \E s \in Underway' : /\ requests'[s].kind = "uploadData"
                                              /\ requests'[s].uid = v
    BY <1>1, <1>6, <1>7 DEF Underway
  <2> QED BY <1>1, <1>2, <1>7, <1>8, <2>1, PictureStep
<1> QED BY <1>9, <1>10, <1>11, <1>12, <1>14, <1>15, <1>16, <1>17, <1>18 DEF AccountedInv

LEMMA EditingKeeps ==
  ASSUME IInv, Editing
  PROVE  IInv'
<1> USE DEF IInv
<1>1. page \in Page /\ currentUser \in Uid \cup {NoUid}
  BY DEF TypeOK
<1>2. CASE EditProfile
  <2>1. PICK p : p = EditPage(currentUser)
    OBVIOUS
  <2>2. p \in Page
    BY <1>1, <2>1 DEF EditPage, Page
  <2> QED BY <1>2, <2>1, <2>2, GoKeeps DEF EditProfile, Home
<1>3. CASE BackFromEditing
  BY <1>3, GoKeeps DEF BackFromEditing, Page
<1>4. CASE ProfileArrives \/ StoredPictureArrives \/ EditPressed \/ PickImage
  <2>1. page.name = "edit" /\ \E p \in Page : Go(p)
    <3>1. page.name = "edit"
      BY <1>4 DEF ProfileArrives, StoredPictureArrives, EditPressed, PickImage
    <3>2. \A a \in {"picture", "nothing"}, b \in BOOLEAN, c \in BOOLEAN :
            /\ [page EXCEPT !.awaits = a] \in Page
            /\ [page EXCEPT !.awaits = a, !.pictured = b] \in Page
            /\ [page EXCEPT !.editing = b] \in Page
            /\ [page EXCEPT !.pictured = b] \in Page
      BY <1>1, <3>1, PageFacts DEF Page
    <3> QED BY <1>4, <3>1, <3>2
            DEF ProfileArrives, StoredPictureArrives, EditPressed, PickImage
  <2> QED BY <2>1, GoKeeps
<1>5. CASE SaveChanges
  BY <1>5, SaveChangesKeeps
<1> QED BY <1>2, <1>3, <1>4, <1>5 DEF Editing

LEMMA TapKeeps ==
  ASSUME IInv, Tap
  PROVE  IInv'
<1>1. CASE loginPressed \/ registerPressed
  <2>1. page.name # "setup" /\ Login \in Page /\ Step1 \in Page
    BY <1>1 DEF loginPressed, registerPressed, LoggedOut, Page
  <2> QED BY <1>1, <2>1, GoKeeps DEF loginPressed, registerPressed
<1>2. ASSUME NEW i \in Emails, RegisterWithEmail(i) PROVE IInv'
  <2>1. PICK p : p = SetupPage(i, Step1)
    OBVIOUS
  <2>2. p \in Page /\ Go(p) /\ page.name # "setup"
    BY <1>2, <2>1 DEF RegisterWithEmail, SetupPage, Page, Identity, Step1
  <2> QED BY <2>2, GoKeeps
<1>3. ASSUME NEW i \in Emails, SignInWithEmail(i) PROVE IInv'
  BY <1>3, SignInsKeep DEF Identity
<1>4. ASSUME NEW i \in ThirdParties, SignInWithThirdParty(i) PROVE IInv'
  BY <1>4, SignInsKeep DEF Identity
<1> QED BY <1>1, <1>2, <1>3, <1>4, SwipeDownKeeps, continuePressedKeeps, logoutTappedKeeps DEF Tap

-----------------------------------------------------------------------------
(* The invariant. *)

LEMMA InitInv ==
  ASSUME Init
  PROVE  IInv
<1>1. TypeOK
  BY RegistrationAssumption DEF Init, TypeOK, Page, Uid, NoUid
<1>2. Underway = {}
  BY DEF Init, Underway
<1>3. RequestsInv /\ FoundAreAccounted /\ DeletedFromSetup
  BY <1>2 DEF RequestsInv, FoundAreAccounted, DeletedFromSetup
<1>4. AccountsInv
  BY DEF Init, AccountsInv, NoUid
<1>5. SetUpInv
  BY <1>2 DEF Init, SetUpInv, WillSetUp, PasswordAccountSetUpOnce, Identity
<1>6. OnlySignIns /\ UserIsAccounted
  BY DEF Init, OnlySignIns, UserIsAccounted, NoUid
<1>7. LinkedPictureUploaded
  BY DEF Init, LinkedPictureUploaded
<1> QED BY <1>1, <1>3, <1>4, <1>5, <1>6, <1>7 DEF IInv, AccountedInv

LEMMA StutterKeeps ==
  ASSUME IInv, UNCHANGED vars
  PROVE  IInv'
<1>1. /\ UNCHANGED <<accountOf, lastUid, pictures, profile, currentUser, page, requests>>
      /\ UNCHANGED <<timesSetUp, lostUploads, interrupted>>
  BY DEF vars, services, history
<1>2. TypeOK' /\ LinkedPictureUploaded' /\ AccountsInv'
  BY <1>1 DEF IInv, TypeOK, LinkedPictureUploaded, AccountsInv, Underway
<1>3. RequestsInv'
  BY <1>1 DEF IInv, RequestsInv, KindSound, UidSound, Underway
<1>4. SetUpInv'
  BY <1>1 DEF IInv, SetUpInv, WillSetUp, PasswordAccountSetUpOnce, Underway
<1>5. AccountedInv'
  BY <1>1 DEF IInv, AccountedInv, OnlySignIns, FoundAreAccounted, DeletedFromSetup,
              UserIsAccounted, Accounted, BeingSetUp, Underway
<1> QED BY <1>2, <1>3, <1>4, <1>5 DEF IInv

LEMMA NextKeeps ==
  ASSUME IInv, [Next]_vars
  PROVE  IInv'
<1>1. CASE Tap
  BY <1>1, TapKeeps
<1>2. CASE Editing
  BY <1>2, EditingKeeps
<1>3. ASSUME NEW s \in Slot, ServiceHandles(s) PROVE IInv'
  BY <1>3, ServiceHandlesKeeps
<1>4. ASSUME NEW s \in Slot, Callback(s) PROVE IInv'
  BY <1>4, SignInEmailArrivesKeeps, SignInArrivesKeeps, AccountArrivesKeeps,
     PictureArrivesKeeps, UploadArrivesKeeps, DeleteArrivesKeeps DEF Callback
<1>5. ASSUME NEW s \in Slot, RequestFails(s) PROVE IInv'
  BY <1>5, RequestFailsKeeps
<1>6. CASE Killed
  BY <1>6, KilledKeeps
<1>7. CASE UNCHANGED vars
  BY <1>7, StutterKeeps
<1> QED BY <1>1, <1>2, <1>3, <1>4, <1>5, <1>6, <1>7 DEF Next

(* The inductive invariant holds in every reachable state. *)
THEOREM Invariance == Spec => []IInv
<1>1. Init => IInv
  BY InitInv
<1>2. IInv /\ [Next]_vars => IInv'
  BY NextKeeps
<1> QED BY <1>1, <1>2, PTL DEF Spec

-----------------------------------------------------------------------------

(* The variables keep their types: among others, every request names an        *)
(* account that was made and a page that there is.                             *)
THEOREM TypeCorrect == Spec => []TypeOK
<1>1. IInv => TypeOK
  BY DEF IInv
<1> QED BY <1>1, Invariance, PTL

(* saveChangesTapped and setUserData: no profile has a link to a picture that  *)
(* is neither stored, nor being uploaded, nor one whose upload was lost.       *)
THEOREM LinksHavePictures == Spec => []LinkedPictureUploaded
<1>1. IInv => LinkedPictureUploaded
  BY DEF IInv
<1> QED BY <1>1, Invariance, PTL

(* continueTapped: however often it is pressed, an account with a password is  *)
(* set up at most once, so that its ratings are not reset.                     *)
THEOREM SetUpOnce == Spec => []PasswordAccountSetUpOnce
<1>1. IInv => PasswordAccountSetUpOnce
  BY DEF IInv, SetUpInv
<1> QED BY <1>1, Invariance, PTL

(* segueToHomeVC: whoever is at home has a profile, is being set up or was     *)
(* interrupted, whatever callbacks come late.                                  *)
THEOREM HomeHasProfile == Spec => []HomeNeedsProfile
<1>1. IInv => HomeNeedsProfile
  BY DEF IInv, AccountedInv, UserIsAccounted, HomeNeedsProfile, Accounted, Home
<1> QED BY <1>1, Invariance, PTL

(* signIn and createUser: the callbacks leave no account without a profile     *)
(* behind that nothing is under way for and nothing interrupted.               *)
THEOREM NobodyForgotten == Spec => []NoAccountForgotten
<1>1. IInv => NoAccountForgotten
  BY DEF IInv, AccountedInv, OnlySignIns, NoAccountForgotten, Accounted, BeingSetUp
<1> QED BY <1>1, Invariance, PTL
=============================================================================
