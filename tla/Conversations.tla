---------------------------- MODULE Conversations ----------------------------
(***************************************************************************)
(* Messages between two users of Tasker.  The page of an errand leads to   *)
(* NewMessageViewController, which looks for a conversation with the       *)
(* client and then continues it or starts one; the Messages tab lists the  *)
(* conversations of two queries, and a row leads to ChatViewController,    *)
(* which appends and reads back.                                           *)
(*                                                                         *)
(* Writes go through the Firestore client (WriteLog), reads are answered   *)
(* with the server's documents overlaid with the phone's own pending       *)
(* writes.  As in ErrandMarket every account uses one phone.               *)
(***************************************************************************)
EXTENDS Naturals, Sequences

CONSTANTS
    User,           \* accounts, numbered in the order of localizedCompare
    Contacts,       \* bound: the clients whose errands each account comes across
    Readers,        \* bound: the accounts that open the Messages tab
    ConvoId,        \* ids that addDocument may generate, in the order of a query
    FirstBody,      \* bound: the texts that start a conversation
    NextBody,       \* bound: the texts that continue one
    MaxPending,     \* bound: unacknowledged writes of each account
    MaxAsked        \* bound: unanswered reads of a chat

ASSUME ConversationsAssumption ==
    /\ User \subseteq Nat \ {0}
    /\ Contacts \in [User -> SUBSET User]
    /\ Readers \subseteq User
    /\ ConvoId \subseteq Nat \ {0}
    /\ \E last \in ConvoId \cup {0} : \A c \in ConvoId : c <= last   \* ids have 20 characters
    /\ MaxPending \in [User -> Nat]
    /\ MaxAsked \in Nat

VARIABLES
    documents,      \* the server: the conversation behind each id
    pending,        \* WriteLog
    applied,        \* WriteLog
    page,           \* the page each phone shows
    list,           \* the Messages tab of each phone, made when first shown
    startedBy,      \* history: who started each conversation
    lookedUp        \* history: conversations started after the lookup answered

logVars == <<pending, applied>>
history == <<startedBy, lookedUp>>
vars == <<documents, logVars, page, list, history>>

-----------------------------------------------------------------------------
(* Documents and writes. *)

NoConversation == 0     \* docID is "", nothing is stored
Nobody == 0

Message == [sender : User, body : FirstBody \cup NextBody]

(* usersSorted *)
Pair(u, v) == IF u <= v THEN <<u, v>> ELSE <<v, u>>

NoDocument == << >>

Conversation == [users : User \X User, messages : Seq(Message)]

(* addDocument sets a whole conversation, updateData appends to one. *)
StartWrite(c, u, v, m) == [doc |-> c, users |-> Pair(u, v), message |-> m]
AppendWrite(c, m)      == [doc |-> c, message |-> m]

Write == [doc : ConvoId, users : User \X User, message : Message]
    \cup [doc : ConvoId, message : Message]

IsStart(x) == "users" \in DOMAIN x

Elements(s) == {s[i] : i \in DOMAIN s}

(* Mutants: every element is appended; the array is replaced. *)
ArrayAppend(messages, m) == Append(messages, m)

ArrayReplaced(messages, m) == <<m>>

(* FieldValue.arrayUnion of one element. *)
ArrayUnion(messages, m) ==
    IF m \in Elements(messages) THEN messages ELSE Append(messages, m)

(* What a write makes of a document; an update needs one. *)
Written(old, x) ==
    IF IsStart(x) THEN [users |-> x.users, messages |-> <<x.message>>]
    ELSE IF old = NoDocument THEN old
    ELSE [old EXCEPT !.messages = ArrayUnion(@, x.message)]

Log == INSTANCE WriteLog WITH Writer <- User

-----------------------------------------------------------------------------
(* What a phone sees. *)

(* The server's document with the phone's pending writes, oldest first. *)
LocalDocument(u, c) ==
    LET seen[i \in 0..Len(pending[u])] ==
            IF i = 0 THEN documents[c]
            ELSE IF pending[u][i].doc = c THEN Written(seen[i - 1], pending[u][i])
            ELSE seen[i - 1]
    IN  seen[Len(pending[u])]

LocallyExists(u, c) == LocalDocument(u, c) # NoDocument

(* Mutant: what is still on its way is not found. *)
FoundOnServer(u, v) ==
    {c \in ConvoId : documents[c] # NoDocument /\ documents[c].users = Pair(u, v)}

(* The query of NewMessageViewController: user1ID and user2ID. *)
Found(u, v) ==
    {c \in ConvoId : LocallyExists(u, c) /\ LocalDocument(u, c).users = Pair(u, v)}

(* Mutant: conversations that others have not yet posted are listed. *)
ListedEarly(u, q) ==
    {c \in ConvoId : \E v \in User :
        LocallyExists(v, c) /\ LocalDocument(v, c).users[q] = u}

(* The queries of MessagesViewController: user1ID (q = 1) and user2ID (q = 2). *)
Listed(u, q) ==
    {c \in ConvoId : LocallyExists(u, c) /\ LocalDocument(u, c).users[q] = u}

-----------------------------------------------------------------------------
(* Pages. *)

HomePage == [name |-> "home"]
ListPage == [name |-> "list"]
NewPage(v, c, answered) ==
    [name |-> "new", sendToID |-> v, docID |-> c, answered |-> answered]
(* `messages`: as last read; `sent`: something was sent from this page;   *)
(* `asked`: reads not yet answered.                                            *)
ChatPage(c, messages, sent, asked) ==
    [name |-> "chat", docID |-> c, messages |-> messages, sent |-> sent, asked |-> asked]

Page == {HomePage, ListPage}
   \cup [name : {"new"}, sendToID : User, docID : ConvoId \cup {NoConversation},
         answered : BOOLEAN]
   \cup [name : {"chat"}, docID : ConvoId, messages : Seq(Message), sent : BOOLEAN,
         asked : Nat]

On(u, name) == page[u].name = name
Show(u, p) == page' = [page EXCEPT ![u] = p]

(* The tab: the ids of the conversations read so far, and the queries that     *)
(* have not answered yet.                                                      *)
NotMade == [made |-> FALSE]
Tab(conversations, awaiting) ==
    [made |-> TRUE, conversations |-> conversations, awaiting |-> awaiting]

TabType == {NotMade}
   \cup [made : {TRUE}, conversations : SUBSET ConvoId, awaiting : SUBSET {1, 2}]

-----------------------------------------------------------------------------

Init ==
    /\ documents = [c \in ConvoId |-> NoDocument]
    /\ Log!LogInit
    /\ page = [u \in User |-> HomePage]
    /\ list = [u \in User |-> NotMade]
    /\ startedBy = [c \in ConvoId |-> Nobody]
    /\ lookedUp = {}

-----------------------------------------------------------------------------
(* NewMessageViewController. *)

(* sendMessageClicked of an errand's page; viewDidLoad starts the query. *)
OpenNewMessage(u, v) ==
    /\ On(u, "home")
    /\ v \in Contacts[u]
    /\ Show(u, NewPage(v, NoConversation, FALSE))
    /\ UNCHANGED <<documents, logVars, list, history>>

(* The last document of the answer is kept. *)
LookupArrives(u) ==
    LET v == page[u].sendToID
        found == Found(u, v)
        last == CHOOSE c \in found : \A d \in found : d <= c
    IN  /\ On(u, "new")
        /\ ~page[u].answered
        /\ Show(u, NewPage(v, IF found = {} THEN NoConversation ELSE last, TRUE))
        /\ UNCHANGED <<documents, logVars, list, history>>

Unused(c) == startedBy[c] = Nobody

(* sendPressed without a docID, because there is no conversation or because    *)
(* the query has not answered: addDocument.                                    *)
StartConversation(u, body, c) ==
    LET p == page[u]
    IN  /\ On(u, "new")
        /\ p.docID = NoConversation
        /\ Unused(c)
        /\ Len(pending[u]) < MaxPending[u]
        /\ Log!Submit(u, StartWrite(c, u, p.sendToID, [sender |-> u, body |-> body]))
        /\ startedBy' = [startedBy EXCEPT ![c] = u]
        /\ lookedUp' = IF p.answered THEN lookedUp \cup {c} ELSE lookedUp
        /\ Show(u, HomePage)
        /\ UNCHANGED <<documents, list>>

(* sendPressed with one. *)
ContinueConversation(u, body) ==
    /\ On(u, "new")
    /\ page[u].docID # NoConversation
    /\ Len(pending[u]) < MaxPending[u]
    /\ Log!Submit(u, AppendWrite(page[u].docID, [sender |-> u, body |-> body]))
    /\ Show(u, HomePage)
    /\ UNCHANGED <<documents, list, history>>

backBTN(u) ==
    /\ On(u, "new")
    /\ Show(u, HomePage)
    /\ UNCHANGED <<documents, logVars, list, history>>

-----------------------------------------------------------------------------
(* MessagesViewController. *)

(* The tab loads when it is shown for the first time, and only then. *)
OpenMessages(u) ==
    /\ u \in Readers
    /\ On(u, "home")
    /\ Show(u, ListPage)
    /\ list' = IF list[u].made THEN list ELSE [list EXCEPT ![u] = Tab({}, {1, 2})]
    /\ UNCHANGED <<documents, logVars, history>>

(* A query answers, whatever page is shown by then. *)
QueryArrives(u, q) ==
    LET tab == list[u]
    IN  /\ tab.made
        /\ q \in tab.awaiting
        /\ list' = [list EXCEPT ![u] = Tab(tab.conversations \cup Listed(u, q),
                                           tab.awaiting \ {q})]
        /\ UNCHANGED <<documents, logVars, page, history>>

(* didSelectItemAt.  The messages the conversation was listed with, which the  *)
(* chat shows until it has read the conversation itself, are left out.         *)
OpenChat(u, c) ==
    /\ On(u, "list")
    /\ c \in list[u].conversations
    /\ Show(u, ChatPage(c, << >>, FALSE, 0))
    /\ UNCHANGED <<documents, logVars, list, history>>

LeaveMessages(u) ==
    /\ On(u, "list")
    /\ Show(u, HomePage)
    /\ UNCHANGED <<documents, logVars, list, history>>

-----------------------------------------------------------------------------
(* ChatViewController. *)

(* sendPressed: append, then read the conversation back. *)
SendInChat(u, body) ==
    LET p == page[u]
    IN  /\ On(u, "chat")
        /\ Len(pending[u]) < MaxPending[u]
        /\ p.asked < MaxAsked
        /\ Log!Submit(u, AppendWrite(p.docID, [sender |-> u, body |-> body]))
        /\ Show(u, ChatPage(p.docID, p.messages, TRUE, p.asked + 1))
        /\ UNCHANGED <<documents, list, history>>

(* Mutant: the answer does not contain the phone's own pending writes. *)
ServerReadBack(u) ==
    LET p == page[u]
    IN  /\ On(u, "chat")
        /\ p.asked > 0
        /\ documents[p.docID] # NoDocument
        /\ Show(u, ChatPage(p.docID, documents[p.docID].messages, p.sent, p.asked - 1))
        /\ UNCHANGED <<documents, logVars, list, history>>

(* Mutant: the page is refreshed also when it asked for nothing. *)
ReadBackUnasked(u) ==
    LET p == page[u]
    IN  /\ On(u, "chat")
        /\ Show(u, ChatPage(p.docID, LocalDocument(u, p.docID).messages, p.sent, p.asked - 1))
        /\ UNCHANGED <<documents, logVars, list, history>>

ReadBack(u) ==
    LET p == page[u]
    IN  /\ On(u, "chat")
        /\ p.asked > 0
        /\ Show(u, ChatPage(p.docID, LocalDocument(u, p.docID).messages, p.sent, p.asked - 1))
        /\ UNCHANGED <<documents, logVars, list, history>>

backToConversations(u) ==
    /\ On(u, "chat")
    /\ Show(u, ListPage)
    /\ UNCHANGED <<documents, logVars, list, history>>

-----------------------------------------------------------------------------
(* The Firestore client and the server. *)

ServerApplies(u) ==
    LET x == Log!NextToApply(u)
    IN  /\ Log!Apply(u)
        /\ documents' = [documents EXCEPT ![x.doc] = Written(@, x)]
        /\ UNCHANGED <<page, list, history>>

(* Mutant: the newest applied write leaves the log instead of the oldest. *)
NewestAcknowledged(u) ==
    LET n == applied[u]
    IN  /\ n > 0
        /\ pending' = [pending EXCEPT ![u] =
                          SubSeq(@, 1, n - 1) \o SubSeq(@, n + 1, Len(@))]
        /\ applied' = [applied EXCEPT ![u] = n - 1]
        /\ UNCHANGED <<documents, page, list, history>>

Acknowledged(u) == Log!Acknowledge(u) /\ UNCHANGED <<documents, page, list, history>>

ConnectionLost(u) == Log!Reconnect(u) /\ UNCHANGED <<documents, page, list, history>>

(* The app is started again, or another root page with tabs of its own is      *)
(* opened, as every change between the client and the employee profile does.   *)
Restart(u) ==
    /\ page[u] # HomePage \/ list[u].made
    /\ Show(u, HomePage)
    /\ list' = [list EXCEPT ![u] = NotMade]
    /\ UNCHANGED <<documents, logVars, history>>

-----------------------------------------------------------------------------

Next == \E u \in User :
    \/ \E v \in User : OpenNewMessage(u, v)
    \/ LookupArrives(u)
    \/ \E body \in FirstBody, c \in ConvoId : StartConversation(u, body, c)
    \/ \E body \in NextBody : ContinueConversation(u, body)
    \/ backBTN(u)
    \/ OpenMessages(u)
    \/ \E q \in {1, 2} : QueryArrives(u, q)
    \/ \E c \in ConvoId : OpenChat(u, c)
    \/ LeaveMessages(u)
    \/ \E body \in NextBody : SendInChat(u, body)
    \/ ReadBack(u)
    \/ backToConversations(u)
    \/ ServerApplies(u)
    \/ Acknowledged(u)
    \/ ConnectionLost(u)
    \/ Restart(u)

Spec == Init /\ [][Next]_vars

-----------------------------------------------------------------------------
(* Type invariant. *)
TypeOK ==
    /\ documents \in [ConvoId -> Conversation \cup {NoDocument}]
    /\ pending \in [User -> Seq(Write)]
    /\ applied \in [User -> Nat]
    /\ page \in [User -> Page]
    /\ list \in [User -> TabType]
    /\ startedBy \in [ConvoId -> User \cup {Nobody}]
    /\ lookedUp \subseteq ConvoId

(* An update finds its conversation, or the posting that makes it is ahead in  *)
(* the same log, also after a lost connection: the code counts on it when it   *)
(* forces the document that is read back.                                      *)
UpdatesFindTheirConversation ==
    \A u \in User : \A i \in DOMAIN pending[u] :
        LET x == pending[u][i]
        IN  ~IsStart(x) =>
              \/ documents[x.doc] # NoDocument
              \/ i > applied[u] /\ \E j \in 1..i - 1 :
                    pending[u][j].doc = x.doc /\ IsStart(pending[u][j])

(* A message that is sent again because its answer was lost is not there twice. *)
NoMessageTwice ==
    \A c \in ConvoId : documents[c] # NoDocument =>
        \A i, j \in DOMAIN documents[c].messages :
            documents[c].messages[i] = documents[c].messages[j] => i = j

(* Who waits for the lookup never starts a second conversation with the same   *)
(* user: one's own is found whether it is still on its way, applied, on its    *)
(* way again, or was started before the app was restarted.                     *)
LookupFindsOwnConversation ==
    \A c, d \in lookedUp :
        /\ startedBy[c] = startedBy[d]
        /\ LocalDocument(startedBy[c], c).users = LocalDocument(startedBy[d], d).users
        => c = d

OwnMessages(u, c) ==
    IF LocallyExists(u, c)
    THEN {m \in Elements(LocalDocument(u, c).messages) : m.sender = u}
    ELSE {}

(* When all reads of a chat are answered it shows what was sent from it.       *)
ChatShowsOwnMessages ==
    \A u \in User : (On(u, "chat") /\ page[u].sent /\ page[u].asked = 0) =>
        OwnMessages(u, page[u].docID) \subseteq Elements(page[u].messages)

(* In a conversation one has started, what one sent never disappears again     *)
(* from one's phone, not even when the posting is sent a second time and takes *)
(* the server's document back to the first message.                            *)
OwnMessagesKept ==
    [][\/ UNCHANGED <<documents, pending>>
       \/ \A c \in ConvoId : startedBy[c] # Nobody =>
             OwnMessages(startedBy[c], c) \subseteq OwnMessages(startedBy[c], c)']_vars

(* Once the posting of a conversation is acknowledged, messages are only added *)
(* to it, by whomever.                                                         *)
PostingUnderway(c) ==
    \E u \in User : \E i \in DOMAIN pending[u] :
        pending[u][i].doc = c /\ IsStart(pending[u][i])

NothingErased ==
    [][\A c \in ConvoId : (/\ documents'[c] # documents[c]
                           /\ documents[c] # NoDocument
                           /\ ~PostingUnderway(c)) =>
          \E n \in 0..Len(documents'[c].messages) :
              SubSeq(documents'[c].messages, 1, n) = documents[c].messages]_vars
=============================================================================
