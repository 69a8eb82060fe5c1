------------------------ MODULE ConversationsProofs -------------------------
(***************************************************************************)
(* Theorems about Conversations, for any number of accounts, conversations *)
(* and texts, and any bounds on pending writes and unanswered reads.       *)
(***************************************************************************)
EXTENDS Conversations, SequenceTheorems, WellFoundedInduction, TLAPS

-----------------------------------------------------------------------------
(* The view of a document under a log of writes, as a value: LocalDocument is  *)
(* View(documents[c], pending[u], c).                                          *)

Overlay(d, s, c, f) ==
    [i \in 0..Len(s) |->
        IF i = 0 THEN d
        ELSE IF s[i].doc = c THEN Written(f[i - 1], s[i])
        ELSE f[i - 1]]

Seen(d, s, c) == CHOOSE f : f = Overlay(d, s, c, f)

View(d, s, c) == Seen(d, s, c)[Len(s)]

LEMMA LocalIsView ==
  ASSUME NEW u, NEW c
  PROVE  LocalDocument(u, c) = View(documents[c], pending[u], c)
BY DEF LocalDocument, View, Seen, Overlay
-----------------------------------------------------------------------------
(* The inductive invariant. *)

(* A log starts the conversation c. *)
Starts(s, c) == {i \in DOMAIN s : IsStart(s[i]) /\ s[i].doc = c}

(* What a log has to say to it. *)
Said(s, c) == {s[i].message : i \in {j \in DOMAIN s : s[j].doc = c}}

(* The posting of a conversation comes before everything else in its log. *)
StartsFirst(s, c) ==
    \A i \in Starts(s, c) : \A j \in DOMAIN s : s[j].doc = c => i <= j

(* Pending writes are the user's own, and a conversation is started once. *)
LogInv == \A u \in User :
    /\ applied[u] <= Len(pending[u])
    /\ \A i \in DOMAIN pending[u] :
          /\ pending[u][i].message.sender = u
          /\ startedBy[pending[u][i].doc] # Nobody
          /\ IsStart(pending[u][i]) => startedBy[pending[u][i].doc] = u
    /\ \A c \in ConvoId : StartsFirst(pending[u], c)

(* LocallyExists, without the overlay. *)
Known(u, c) == documents[c] # NoDocument \/ Starts(pending[u], c) # {}

StartedInv == \A c \in ConvoId :
    /\ documents[c] # NoDocument => startedBy[c] # Nobody
    /\ \A u \in User : startedBy[c] = u => Known(u, c)

OwnIn(d, u) == {m \in Elements(d.messages) : m.sender = u}

(* The writes applied over this connection are in a document that their user   *)
(* started, and once the posting is one of them there is nothing else of this  *)
(* user in it.                                                                 *)
AppliedInv == \A c \in ConvoId : \A u \in User : startedBy[c] = u =>
    /\ \A i \in DOMAIN pending[u] : (i <= applied[u] /\ pending[u][i].doc = c) =>
          /\ documents[c] # NoDocument
          /\ pending[u][i].message \in Elements(documents[c].messages)
    /\ \A i \in Starts(pending[u], c) : i <= applied[u] =>
          OwnIn(documents[c], u) \subseteq Said(pending[u], c)

(* A posting that is sent again is for the same two users. *)
UsersInv == \A c \in ConvoId : \A u \in User : \A i \in Starts(pending[u], c) :
    documents[c] # NoDocument => documents[c].users = pending[u][i].users

(* The users of a conversation as a phone sees it. *)
UsersOf(u, c) == LocalDocument(u, c).users

(* What a page shows is there on this phone; a chat without unanswered reads   *)
(* shows what its user said; and where the lookup found nothing there is       *)
(* nothing, as long as the page is shown.                                      *)
PageOK(u, p) ==
    /\ p.name = "chat" =>
          /\ Known(u, p.docID)
          /\ (p.sent /\ p.asked = 0) => OwnMessages(u, p.docID) \subseteq Elements(p.messages)
    /\ p.name = "new" =>
          /\ p.docID # NoConversation => Known(u, p.docID)
          /\ (p.docID = NoConversation /\ p.answered) =>
                \A c \in ConvoId : startedBy[c] = u => UsersOf(u, c) # Pair(u, p.sendToID)

TabOK(u, tab) == tab.made => \A c \in tab.conversations : Known(u, c)

(* The Messages tab has loaded wherever it or a chat of it is shown. *)
Loaded(p, tab) == p.name \in {"list", "chat"} => tab.made

PagesInv == \A u \in User :
    PageOK(u, page[u]) /\ TabOK(u, list[u]) /\ Loaded(page[u], list[u])

(* LookupFindsOwnConversation. *)
LookedUpInv ==
    /\ \A c \in lookedUp : startedBy[c] # Nobody
    /\ \A c, d \in lookedUp : \A u \in User :
          (startedBy[c] = u /\ startedBy[d] = u /\ UsersOf(u, c) = UsersOf(u, d)) => c = d

(* What concerns documents and logs, and what concerns pages. *)
DataInv ==
    /\ LogInv
    /\ StartedInv
    /\ UpdatesFindTheirConversation
    /\ NoMessageTwice
    /\ AppliedInv
    /\ UsersInv

IInv ==
    /\ TypeOK
    /\ DataInv
    /\ PagesInv
    /\ LookedUpInv
-----------------------------------------------------------------------------
(* Writes. *)

LEMMA DocumentsDiffer == NoDocument \notin Conversation
BY DEF NoDocument, Conversation

LEMMA WriteKinds ==
  ASSUME NEW x \in Write
  PROVE  /\ x.doc \in ConvoId /\ x.message \in Message
         /\ IsStart(x) => x.users \in User \X User
BY DEF Write, IsStart

(* arrayUnion adds the message, unless it is there. *)
LEMMA UnionFacts ==
  ASSUME NEW s \in Seq(Message), NEW m \in Message
  PROVE  /\ ArrayUnion(s, m) \in Seq(Message)
         /\ Elements(ArrayUnion(s, m)) = Elements(s) \cup {m}
         /\ m \in Elements(s) => ArrayUnion(s, m) = s
         /\ m \notin Elements(s) => ArrayUnion(s, m) = Append(s, m)
<1>1. CASE m \in Elements(s)
  BY <1>1 DEF ArrayUnion
<1>2. CASE m \notin Elements(s)
  <2>1. ArrayUnion(s, m) = Append(s, m)
    BY <1>2 DEF ArrayUnion
  <2>2. /\ Append(s, m) \in Seq(Message) /\ DOMAIN Append(s, m) = 1..Len(s) + 1
        /\ \A i \in 1..Len(s) : Append(s, m)[i] = s[i]
        /\ Append(s, m)[Len(s) + 1] = m
        /\ DOMAIN s = 1..Len(s) /\ Len(s) \in Nat
    BY AppendProperties, LenProperties
  <2>3. Elements(Append(s, m)) = Elements(s) \cup {m}
    <3>1. ASSUME NEW x \in Elements(s) \cup {m} PROVE x \in Elements(Append(s, m))
      <4>1. CASE x = m
        <5>1. Len(s) + 1 \in 1..Len(s) + 1
          BY <2>2
        <5> QED BY <4>1, <5>1, <2>2 DEF Elements
      <4>2. CASE x \in Elements(s)
        <5>1. PICK i \in DOMAIN s : x = s[i]
          BY <4>2 DEF Elements
        <5>2. i \in DOMAIN Append(s, m) /\ Append(s, m)[i] = x
          BY <5>1, <2>2
        <5> QED BY <5>2 DEF Elements
      <4> QED BY <4>1, <4>2
    <3>2. ASSUME NEW x \in Elements(Append(s, m)) PROVE x \in Elements(s) \cup {m}
      <4>1. PICK i \in 1..Len(s) + 1 : x = Append(s, m)[i]
        BY <2>2 DEF Elements
      <4>2. CASE i = Len(s) + 1
        BY <4>1, <4>2, <2>2
      <4>3. CASE i \in 1..Len(s)
        BY <4>1, <4>3, <2>2 DEF Elements
      <4> QED BY <4>1, <4>2, <4>3, <2>2
    <3> QED BY <3>1, <3>2
  <2> QED BY <1>2, <2>1, <2>2, <2>3
<1> QED BY <1>1, <1>2

LEMMA OneElement == \A m : Elements(<<m>>) = {m}
BY DEF Elements

(* What a write makes of a document. *)
LEMMA WrittenFacts ==
  ASSUME NEW d \in Conversation \cup {NoDocument}, NEW x \in Write
  PROVE  /\ Written(d, x) \in Conversation \cup {NoDocument}
         /\ Written(d, x) # NoDocument <=> (IsStart(x) \/ d # NoDocument)
         /\ IsStart(x) => /\ Written(d, x).users = x.users
                          /\ Written(d, x).messages = <<x.message>>
                          /\ Elements(Written(d, x).messages) = {x.message}
         /\ (~IsStart(x) /\ d # NoDocument) =>
               /\ Written(d, x).users = d.users
               /\ Written(d, x).messages = ArrayUnion(d.messages, x.message)
               /\ Elements(Written(d, x).messages) = Elements(d.messages) \cup {x.message}
<1>1. CASE IsStart(x)
  <2>1. Written(d, x) = [users |-> x.users, messages |-> <<x.message>>]
    BY <1>1 DEF Written
  <2>2. <<x.message>> \in Seq(Message)
    BY WriteKinds
  <2>3. Written(d, x) \in Conversation
    BY <1>1, <2>1, <2>2, WriteKinds DEF Conversation
  <2> QED BY <1>1, <2>1, <2>3, OneElement, DocumentsDiffer
<1>2. CASE ~IsStart(x) /\ d # NoDocument
  <2>1. Written(d, x) = [d EXCEPT !.messages = ArrayUnion(@, x.message)]
    BY <1>2 DEF Written
  <2>2. d \in Conversation
    BY <1>2
  <2>3. d.messages \in Seq(Message) /\ x.message \in Message
    BY <2>2, WriteKinds DEF Conversation
  <2>4. /\ ArrayUnion(d.messages, x.message) \in Seq(Message)
        /\ Elements(ArrayUnion(d.messages, x.message)) = Elements(d.messages) \cup {x.message}
    BY <2>3, UnionFacts
  <2>5. /\ Written(d, x) \in Conversation /\ Written(d, x).users = d.users
        /\ Written(d, x).messages = ArrayUnion(d.messages, x.message)
    BY <2>1, <2>2, <2>4 DEF Conversation
  <2> QED BY <1>2, <2>4, <2>5, DocumentsDiffer
<1>3. CASE ~IsStart(x) /\ d = NoDocument
  BY <1>3 DEF Written
<1> QED BY <1>1, <1>2, <1>3

-----------------------------------------------------------------------------
(* The overlay. *)

LEMMA LeastNumber ==
  ASSUME NEW S \in SUBSET Nat, S # {}
  PROVE  \E m \in S : \A k \in S : m <= k
<1>1. PICK m \in S : \A k \in S : ~(<<k, m>> \in OpToRel(<, Nat))
  BY NatLessThanWellFounded, WFMin
<1>2. ASSUME NEW k \in S PROVE m <= k
  <2>1. m \in Nat /\ k \in Nat
    OBVIOUS
  <2>2. ~(k < m)
    BY <1>1, <2>1 DEF OpToRel
  <2> QED BY <2>1, <2>2
<1> QED BY <1>2

(* There is a function that follows the log write by write. *)
LEMMA OverlayExists ==
  ASSUME NEW d, NEW s, Len(s) \in Nat, NEW c
  PROVE  \E f : f = Overlay(d, s, c, f)
<1> DEFINE Partly(n, f) == f = [i \in 0..n |->
                                   IF i = 0 THEN d
                                   ELSE IF s[i].doc = c THEN Written(f[i - 1], s[i])
                                   ELSE f[i - 1]]
           without == {n \in 0..Len(s) : ~ \E f : Partly(n, f)}
<1>1. ASSUME without # {} PROVE FALSE
  <2>1. PICK n \in without : \A k \in without : n <= k
    <3>1. without \in SUBSET Nat
      OBVIOUS
    <3> HIDE DEF without
    <3> QED BY <1>1, <3>1, LeastNumber
  <2>2. n # 0
    <3>1. Partly(0, [i \in 0..0 |-> d])
      OBVIOUS
    <3> QED BY <2>1, <3>1
  <2>3. PICK f : Partly(n - 1, f)
    <3>1. n - 1 \in 0..Len(s) /\ ~(n <= n - 1)
      BY <2>1, <2>2
    <3> QED BY <2>1, <3>1
  <2> DEFINE last == IF s[n].doc = c THEN Written(f[n - 1], s[n]) ELSE f[n - 1]
             g == [i \in 0..n |-> IF i < n THEN f[i] ELSE last]
  <2>4. ASSUME NEW i \in 0..n
        PROVE  g[i] = IF i = 0 THEN d
                      ELSE IF s[i].doc = c THEN Written(g[i - 1], s[i])
                      ELSE g[i - 1]
    <3>0. n \in Nat
      BY <2>1
    <3>1. CASE i = n
      <4>1. g[i] = last /\ g[n - 1] = f[n - 1]
        BY <3>0, <3>1, <2>2
      <4> HIDE DEF g
      <4> QED BY <3>1, <4>1, <2>2
    <3>2. CASE i < n /\ i # 0
      <4>1. i \in 0..n - 1 /\ i - 1 \in 0..n /\ i - 1 < n
        BY <3>0, <3>2
      <4>2. g[i] = f[i] /\ g[i - 1] = f[i - 1]
        BY <3>2, <4>1
      <4>3. f[i] = IF s[i].doc = c THEN Written(f[i - 1], s[i]) ELSE f[i - 1]
        BY <2>3, <3>2, <4>1
      <4> HIDE DEF g
      <4> QED BY <3>2, <4>2, <4>3
    <3>3. CASE i = 0
      <4>1. i < n /\ i \in 0..n - 1
        BY <3>0, <3>3, <2>2
      <4>2. g[i] = f[i] /\ f[i] = d
        BY <3>3, <4>1, <2>3
      <4> QED BY <3>3, <4>2
    <3> QED BY <3>0, <3>1, <3>2, <3>3
  <2>5. Partly(n, g)
    <3>1. g = [i \in 0..n |-> g[i]]
      OBVIOUS
    <3> HIDE DEF g
    <3> QED BY <2>4, <3>1
  <2> QED BY <2>1, <2>5
<1>2. PICK f : Partly(Len(s), f)
  BY <1>1
<1> QED BY <1>2 DEF Overlay

LEMMA OverlaySteps ==
  ASSUME NEW d, NEW s, Len(s) \in Nat, NEW c, NEW f, f = Seen(d, s, c)
  PROVE  /\ f[0] = d
         /\ \A i \in 1..Len(s) :
               f[i] = IF s[i].doc = c THEN Written(f[i - 1], s[i]) ELSE f[i - 1]
<1>1. f = Overlay(d, s, c, f)
  BY OverlayExists DEF Seen
<1>2. \A i \in 0..Len(s) : f[i] = IF i = 0 THEN d
                                  ELSE IF s[i].doc = c THEN Written(f[i - 1], s[i])
                                  ELSE f[i - 1]
  BY <1>1 DEF Overlay
<1> QED BY <1>2
(* What the phone makes of a document after k writes of its log. *)
Follows(d, s, c, k, e) ==
    /\ e \in Conversation \cup {NoDocument}
    /\ e # NoDocument <=> (d # NoDocument \/ \E i \in Starts(s, c) : i <= k)
    /\ \A i \in Starts(s, c) : i <= k => e.users = s[i].users
    /\ (d # NoDocument /\ \A i \in Starts(s, c) : ~(i <= k)) => e.users = d.users
    /\ e # NoDocument => \A m : m \in Elements(e.messages) <=>
          \/ \E j \in DOMAIN s : j <= k /\ s[j].doc = c /\ m = s[j].message
          \/ /\ d # NoDocument
             /\ \A i \in Starts(s, c) : ~(i <= k)
             /\ m \in Elements(d.messages)

LEMMA FollowsNothing ==
  ASSUME NEW d \in Conversation \cup {NoDocument}, NEW s \in Seq(Write), NEW c
  PROVE  Follows(d, s, c, 0, d)
<1>1. DOMAIN s = 1..Len(s) /\ Len(s) \in Nat
  BY LenProperties
<1>2. \A j \in DOMAIN s : ~(j <= 0)
  BY <1>1
<1>3. Starts(s, c) \subseteq DOMAIN s
  BY DEF Starts
<1> QED BY <1>2, <1>3 DEF Follows

LEMMA FollowsWrite ==
  ASSUME NEW d \in Conversation \cup {NoDocument}, NEW s \in Seq(Write), NEW c,
         StartsFirst(s, c), NEW k \in DOMAIN s, NEW e, Follows(d, s, c, k - 1, e),
         NEW new, new = IF s[k].doc = c THEN Written(e, s[k]) ELSE e
  PROVE  Follows(d, s, c, k, new)
<1>1. DOMAIN s = 1..Len(s) /\ Len(s) \in Nat
  BY LenProperties
<1>2. \A j \in DOMAIN s : j <= k <=> (j <= k - 1 \/ j = k)
  BY <1>1
<1>3. Starts(s, c) \subseteq DOMAIN s
  BY DEF Starts
<1>4. e \in Conversation \cup {NoDocument} /\ s[k] \in Write
  BY <1>1, ElementOfSeq DEF Follows
<1>5. CASE s[k].doc # c
  <2>1. k \notin Starts(s, c)
    BY <1>5 DEF Starts
  <2>2. new = e
    BY <1>5
  <2>3. \A i \in Starts(s, c) : i <= k <=> i <= k - 1
    BY <1>2, <1>3, <2>1
  <2>4. \A j \in DOMAIN s : (j <= k /\ s[j].doc = c) <=> (j <= k - 1 /\ s[j].doc = c)
    BY <1>2, <1>5
  <2> QED BY <2>2, <2>3, <2>4 DEF Follows
<1>6. CASE s[k].doc = c /\ IsStart(s[k])
  <2>1. k \in Starts(s, c) /\ k <= k
    BY <1>1, <1>6 DEF Starts
  <2>2. \A j \in DOMAIN s : s[j].doc = c => k <= j
    BY <2>1 DEF StartsFirst
  <2>3. \A j \in DOMAIN s : (j <= k /\ s[j].doc = c) => j = k
    BY <1>1, <2>2
  <2>4. \A i \in Starts(s, c) : i <= k => i = k
    BY <2>3 DEF Starts
  <2>5. new = Written(e, s[k])
    BY <1>6
  <2>6. /\ new \in Conversation \cup {NoDocument} /\ new # NoDocument
        /\ new.users = s[k].users /\ Elements(new.messages) = {s[k].message}
    <3>1. PICK x \in Write : x = s[k]
      BY <1>4
    <3>2. IsStart(x) /\ new = Written(e, x)
      BY <1>6, <2>5, <3>1
    <3>3. /\ Written(e, x) \in Conversation \cup {NoDocument}
          /\ Written(e, x) # NoDocument
          /\ Written(e, x).users = x.users
          /\ Elements(Written(e, x).messages) = {x.message}
      BY <1>4, <3>2, WrittenFacts
    <3> QED BY <3>1, <3>2, <3>3
  <2>7. \A m : m \in Elements(new.messages) <=>
                 \E j \in DOMAIN s : j <= k /\ s[j].doc = c /\ m = s[j].message
    <3>1. k \in DOMAIN s /\ k <= k /\ s[k].doc = c
      BY <1>1, <1>6
    <3> QED BY <2>3, <2>6, <3>1
  <2> QED BY <2>1, <2>4, <2>6, <2>7 DEF Follows
<1>7. CASE s[k].doc = c /\ ~IsStart(s[k])
  <2>1. k \notin Starts(s, c)
    BY <1>7 DEF Starts
  <2>2. \A i \in Starts(s, c) : i <= k <=> i <= k - 1
    BY <1>2, <1>3, <2>1
  <2>3. new = Written(e, s[k])
    BY <1>7
  <2>4. CASE e = NoDocument
    <3>1. new = e
      BY <1>7, <2>3, <2>4 DEF Written
    <3> QED BY <2>2, <2>4, <3>1 DEF Follows
  <2>5. CASE e # NoDocument
    <3>1. /\ new \in Conversation \cup {NoDocument} /\ new # NoDocument
          /\ new.users = e.users
          /\ Elements(new.messages) = Elements(e.messages) \cup {s[k].message}
      <4>1. PICK x \in Write : x = s[k]
        BY <1>4
      <4>2. ~IsStart(x) /\ e # NoDocument /\ new = Written(e, x)
        BY <1>7, <2>3, <2>5, <4>1
      <4>3. /\ Written(e, x) \in Conversation \cup {NoDocument}
            /\ Written(e, x) # NoDocument
            /\ Written(e, x).users = e.users
            /\ Elements(Written(e, x).messages) = Elements(e.messages) \cup {x.message}
        BY <1>4, <4>2, WrittenFacts
      <4> QED BY <4>1, <4>2, <4>3
    <3>2. \A m : m \in Elements(new.messages) <=>
            \/ \E j \in DOMAIN s : j <= k /\ s[j].doc = c /\ m = s[j].message
            \/ /\ d # NoDocument
               /\ \A i \in Starts(s, c) : ~(i <= k)
               /\ m \in Elements(d.messages)
      <4>1. \A m : m \in Elements(e.messages) <=>
              \/ \E j \in DOMAIN s : j <= k - 1 /\ s[j].doc = c /\ m = s[j].message
              \/ /\ d # NoDocument
                 /\ \A i \in Starts(s, c) : ~(i <= k)
                 /\ m \in Elements(d.messages)
        BY <2>2, <2>5 DEF Follows
      <4>2. \A m : (\E j \in DOMAIN s : j <= k /\ s[j].doc = c /\ m = s[j].message) <=>
              \/ \E j \in DOMAIN s : j <= k - 1 /\ s[j].doc = c /\ m = s[j].message
              \/ m = s[k].message
        BY <1>2, <1>7
      <4> QED BY <3>1, <4>1, <4>2
    <3> QED BY <2>2, <2>5, <3>1, <3>2 DEF Follows
  <2> QED BY <2>4, <2>5
<1> QED BY <1>5, <1>6, <1>7

(* The phone's view: the document exists if the server has it or its posting   *)
(* is under way; its messages are those on their way and, unless the posting   *)
(* is one of these, the server's.                                              *)
LEMMA ViewFacts ==
  ASSUME NEW d \in Conversation \cup {NoDocument}, NEW s \in Seq(Write), NEW c,
         StartsFirst(s, c), NEW e, e = View(d, s, c)
  PROVE  /\ e \in Conversation \cup {NoDocument}
         /\ e # NoDocument <=> (d # NoDocument \/ Starts(s, c) # {})
         /\ \A i \in Starts(s, c) : e.users = s[i].users
         /\ (d # NoDocument /\ Starts(s, c) = {}) => e.users = d.users
         /\ (e # NoDocument /\ Starts(s, c) # {}) => Elements(e.messages) = Said(s, c)
         /\ (e # NoDocument /\ Starts(s, c) = {}) =>
               Elements(e.messages) = Said(s, c) \cup Elements(d.messages)
<1>1. DOMAIN s = 1..Len(s) /\ Len(s) \in Nat
  BY LenProperties
<1>2. PICK f : f = Seen(d, s, c)
  OBVIOUS
<1>3. /\ f[0] = d
      /\ \A i \in 1..Len(s) :
            f[i] = IF s[i].doc = c THEN Written(f[i - 1], s[i]) ELSE f[i - 1]
  BY <1>1, <1>2, OverlaySteps
<1>4. e = f[Len(s)]
  BY <1>2 DEF View
<1> DEFINE failing == {k \in 0..Len(s) : ~Follows(d, s, c, k, f[k])}
<1>5. ASSUME failing # {} PROVE FALSE
  <2>1. PICK k \in failing : \A n \in failing : k <= n
    <3>1. failing \in SUBSET Nat
      BY <1>1
    <3> HIDE DEF failing
    <3> QED BY <1>5, <3>1, LeastNumber
  <2>2. k \in 0..Len(s) /\ ~Follows(d, s, c, k, f[k])
    BY <2>1
  <2>3. k # 0
    BY <1>3, <2>2, FollowsNothing
  <2>4. k \in 1..Len(s) /\ k - 1 \in 0..Len(s) /\ ~(k <= k - 1)
    BY <1>1, <2>2, <2>3
  <2>5. Follows(d, s, c, k - 1, f[k - 1])
    BY <2>1, <2>4
  <2>6. f[k] = IF s[k].doc = c THEN Written(f[k - 1], s[k]) ELSE f[k - 1]
    BY <1>3, <2>4
  <2>7. k \in DOMAIN s
    BY <1>1, <2>4
  <2> HIDE DEF failing
  <2> QED BY <2>2, <2>5, <2>6, <2>7, FollowsWrite
<1>6. Follows(d, s, c, Len(s), e)
  BY <1>1, <1>4, <1>5
<1>7. \A j \in DOMAIN s : j <= Len(s)
  BY <1>1
<1>8. Starts(s, c) \subseteq DOMAIN s
  BY DEF Starts
<1>9. \A m : m \in Said(s, c) <=> \E j \in DOMAIN s : s[j].doc = c /\ m = s[j].message
  BY DEF Said
<1>10. ASSUME e # NoDocument
       PROVE  \A m : m \in Elements(e.messages) <=>
                 \/ m \in Said(s, c)
                 \/ d # NoDocument /\ Starts(s, c) = {} /\ m \in Elements(d.messages)
  <2>1. \A m : m \in Elements(e.messages) <=>
          \/ \E j \in DOMAIN s : j <= Len(s) /\ s[j].doc = c /\ m = s[j].message
          \/ /\ d # NoDocument
             /\ \A i \in Starts(s, c) : ~(i <= Len(s))
             /\ m \in Elements(d.messages)
    BY <1>6, <1>10 DEF Follows
  <2>2. (\A i \in Starts(s, c) : ~(i <= Len(s))) <=> Starts(s, c) = {}
    BY <1>7, <1>8
  <2> QED BY <1>7, <1>9, <2>1, <2>2
<1>11. e \in Conversation \cup {NoDocument}
  BY <1>6 DEF Follows
<1>12. e # NoDocument <=> (d # NoDocument \/ Starts(s, c) # {})
  BY <1>6, <1>7, <1>8 DEF Follows
<1>13. \A i \in Starts(s, c) : e.users = s[i].users
  BY <1>6, <1>7, <1>8 DEF Follows
<1>14. (d # NoDocument /\ Starts(s, c) = {}) => e.users = d.users
  BY <1>6 DEF Follows
<1>15. (e # NoDocument /\ Starts(s, c) # {}) => Elements(e.messages) = Said(s, c)
  BY <1>10
<1>16. (e # NoDocument /\ Starts(s, c) = {}) =>
          Elements(e.messages) = Said(s, c) \cup Elements(d.messages)
  BY <1>10, <1>12
<1> QED BY <1>11, <1>12, <1>13, <1>14, <1>15, <1>16
LEMMA ViewUsers ==
  ASSUME NEW d \in Conversation \cup {NoDocument}, NEW s \in Seq(Write), NEW c,
         StartsFirst(s, c)
  PROVE  /\ \A i \in Starts(s, c) : View(d, s, c).users = s[i].users
         /\ (d # NoDocument /\ Starts(s, c) = {}) => View(d, s, c).users = d.users
<1>1. PICK e : e = View(d, s, c)
  OBVIOUS
<1>2. /\ \A i \in Starts(s, c) : e.users = s[i].users
      /\ (d # NoDocument /\ Starts(s, c) = {}) => e.users = d.users
  BY <1>1, ViewFacts
<1> QED BY <1>1, <1>2

(* What a user has said in a conversation, as the user's phone shows it. *)
OwnSeen(d, s, c, u) ==
    IF View(d, s, c) # NoDocument
    THEN {m \in Elements(View(d, s, c).messages) : m.sender = u}
    ELSE {}

LEMMA OwnSeenFacts ==
  ASSUME NEW d \in Conversation \cup {NoDocument}, NEW s \in Seq(Write), NEW c, NEW u,
         StartsFirst(s, c), \A i \in DOMAIN s : s[i].message.sender = u
  PROVE  /\ Starts(s, c) # {} => OwnSeen(d, s, c, u) = Said(s, c)
         /\ (Starts(s, c) = {} /\ d # NoDocument) =>
               OwnSeen(d, s, c, u) = Said(s, c) \cup OwnIn(d, u)
         /\ (Starts(s, c) = {} /\ d = NoDocument) => OwnSeen(d, s, c, u) = {}
<1>1. PICK e : e = View(d, s, c)
  OBVIOUS
<1>2. /\ e # NoDocument <=> (d # NoDocument \/ Starts(s, c) # {})
      /\ (e # NoDocument /\ Starts(s, c) # {}) => Elements(e.messages) = Said(s, c)
      /\ (e # NoDocument /\ Starts(s, c) = {}) =>
               Elements(e.messages) = Said(s, c) \cup Elements(d.messages)
  BY <1>1, ViewFacts
<1>3. OwnSeen(d, s, c, u) = IF e # NoDocument
                            THEN {m \in Elements(e.messages) : m.sender = u}
                            ELSE {}
  BY <1>1 DEF OwnSeen
<1>4. \A m \in Said(s, c) : m.sender = u
  BY DEF Said
<1>5. CASE Starts(s, c) # {}
  BY <1>2, <1>3, <1>4, <1>5
<1>6. CASE Starts(s, c) = {} /\ d # NoDocument
  BY <1>2, <1>3, <1>4, <1>6 DEF OwnIn
<1>7. CASE Starts(s, c) = {} /\ d = NoDocument
  BY <1>2, <1>3, <1>7
<1> QED BY <1>5, <1>6, <1>7

LEMMA OwnMessagesAreSeen ==
  ASSUME NEW u, NEW c
  PROVE  /\ OwnMessages(u, c) = OwnSeen(documents[c], pending[u], c, u)
         /\ OwnMessages(u, c)' = OwnSeen(documents'[c], pending'[u], c, u)
         /\ LocalDocument(u, c)' = View(documents'[c], pending'[u], c)
<1>1. LocalDocument(u, c)' = View(documents'[c], pending'[u], c)
  BY DEF LocalDocument, View, Seen, Overlay
<1>2. OwnMessages(u, c) = OwnSeen(documents[c], pending[u], c, u)
  BY LocalIsView DEF OwnMessages, OwnSeen, LocallyExists
<1>3. OwnMessages(u, c)' = OwnSeen(documents'[c], pending'[u], c, u)
  BY <1>1 DEF OwnMessages, OwnSeen, LocallyExists
<1> QED BY <1>1, <1>2, <1>3

-----------------------------------------------------------------------------
(* Logs. *)

(* t is the log s with x at its end, position n; or s without its head. *)
Appended(s, x, t, n) ==
    s \in Seq(Write) /\ x \in Write /\ t = Append(s, x) /\ n = Len(s) + 1

Shortened(s, t) == s \in Seq(Write) /\ Len(s) > 0 /\ t = Tail(s)

LEMMA AppendedLog ==
  ASSUME NEW s, NEW x, NEW t, NEW n, Appended(s, x, t, n)
  PROVE  /\ t \in Seq(Write) /\ n \in Nat \ {0} /\ Len(s) = n - 1 /\ Len(t) = n
         /\ DOMAIN s = 1..n - 1 /\ DOMAIN t = 1..n
         /\ \A i \in DOMAIN s : i \in DOMAIN t /\ t[i] = s[i] /\ i < n
         /\ \A i \in DOMAIN t : i \in DOMAIN s \/ i = n
         /\ n \in DOMAIN t /\ t[n] = x /\ n \notin DOMAIN s
<1>1. s \in Seq(Write) /\ x \in Write /\ t = Append(s, x) /\ n = Len(s) + 1
  BY DEF Appended
<1>2. /\ t \in Seq(Write) /\ Len(t) = Len(s) + 1
      /\ \A i \in 1..Len(s) : t[i] = s[i]
      /\ t[Len(s) + 1] = x
  BY <1>1, AppendProperties
<1>3. Len(s) \in Nat /\ DOMAIN s = 1..Len(s) /\ DOMAIN t = 1..Len(t)
  BY <1>1, <1>2, LenProperties
<1> QED BY <1>1, <1>2, <1>3

LEMMA AppendedWrites ==
  ASSUME NEW s, NEW x, NEW c, NEW t, NEW n, Appended(s, x, t, n)
  PROVE  /\ (x.doc # c \/ ~IsStart(x)) => Starts(t, c) = Starts(s, c)
         /\ (x.doc = c /\ IsStart(x)) => Starts(t, c) = Starts(s, c) \cup {n}
         /\ x.doc # c => Said(t, c) = Said(s, c)
         /\ x.doc = c => Said(t, c) = Said(s, c) \cup {x.message}
<1>1. /\ \A i \in DOMAIN s : i \in DOMAIN t /\ t[i] = s[i]
      /\ \A i \in DOMAIN t : i \in DOMAIN s \/ i = n
      /\ n \in DOMAIN t /\ t[n] = x /\ n \notin DOMAIN s
  BY AppendedLog
<1>2. (x.doc # c \/ ~IsStart(x)) => Starts(t, c) = Starts(s, c)
  BY <1>1 DEF Starts
<1>3. (x.doc = c /\ IsStart(x)) => Starts(t, c) = Starts(s, c) \cup {n}
  BY <1>1 DEF Starts
<1>4. \A m : m \in Said(s, c) <=> \E i \in DOMAIN s : s[i].doc = c /\ m = s[i].message
  BY DEF Said
<1>5. \A m : m \in Said(t, c) <=> \E i \in DOMAIN t : t[i].doc = c /\ m = t[i].message
  BY DEF Said
<1>6. ASSUME x.doc # c PROVE Said(t, c) = Said(s, c)
  <2>1. ASSUME NEW i \in DOMAIN t, t[i].doc = c PROVE i \in DOMAIN s /\ t[i] = s[i]
    BY <1>1, <1>6, <2>1
  <2>2. ASSUME NEW m, m \in Said(t, c) PROVE m \in Said(s, c)
    <3>1. PICK i \in DOMAIN t : t[i].doc = c /\ m = t[i].message
      BY <1>5, <2>2
    <3>2. i \in DOMAIN s /\ s[i].doc = c /\ m = s[i].message
      BY <2>1, <3>1
    <3> QED BY <1>4, <3>2
  <2>3. ASSUME NEW m, m \in Said(s, c) PROVE m \in Said(t, c)
    <3>1. PICK i \in DOMAIN s : s[i].doc = c /\ m = s[i].message
      BY <1>4, <2>3
    <3>2. i \in DOMAIN t /\ t[i].doc = c /\ m = t[i].message
      BY <1>1, <3>1
    <3> QED BY <1>5, <3>2
  <2> QED BY <2>2, <2>3
<1>7. x.doc = c => Said(t, c) = Said(s, c) \cup {x.message}
  BY <1>1, <1>4, <1>5
<1> QED BY <1>2, <1>3, <1>6, <1>7

LEMMA TailLog ==
  ASSUME NEW s, NEW t, Shortened(s, t)
  PROVE  /\ t \in Seq(Write) /\ Len(s) \in Nat /\ Len(t) = Len(s) - 1
         /\ DOMAIN s = 1..Len(s) /\ DOMAIN t = 1..Len(s) - 1
         /\ \A i \in DOMAIN t : i + 1 \in DOMAIN s /\ t[i] = s[i + 1]
         /\ \A i \in DOMAIN s : i = 1 \/ (i - 1 \in DOMAIN t /\ t[i - 1] = s[i])
         /\ 1 \in DOMAIN s
<1>0. s \in Seq(Write) /\ Len(s) > 0 /\ t = Tail(s)
  BY DEF Shortened
<1>1. Len(s) \in Nat /\ DOMAIN s = 1..Len(s)
  BY <1>0, LenProperties
<1>2. s # << >>
  BY <1>0, <1>1, EmptySeq
<1>3. /\ t \in Seq(Write) /\ Len(t) = Len(s) - 1
      /\ \A i \in 1..Len(s) - 1 : t[i] = s[i + 1]
  BY <1>0, <1>2, HeadTailProperties
<1>4. DOMAIN t = 1..Len(t)
  BY <1>3, LenProperties
<1>5. ASSUME NEW i \in DOMAIN t PROVE i + 1 \in DOMAIN s /\ t[i] = s[i + 1]
  BY <1>1, <1>3, <1>4, <1>5
<1>6. ASSUME NEW i \in DOMAIN s, i # 1 PROVE i - 1 \in DOMAIN t /\ t[i - 1] = s[i]
  <2>1. i - 1 \in 1..Len(s) - 1 /\ i - 1 + 1 = i
    BY <1>1, <1>6
  <2> QED BY <1>3, <1>4, <2>1
<1> QED BY <1>0, <1>1, <1>3, <1>4, <1>5, <1>6

LEMMA TailWrites ==
  ASSUME NEW s, NEW c, NEW t, Shortened(s, t)
  PROVE  /\ \A i \in Starts(t, c) : i + 1 \in Starts(s, c)
         /\ \A i \in Starts(s, c) : i = 1 \/ i - 1 \in Starts(t, c)
         /\ s[1].doc # c => Said(t, c) = Said(s, c)
         /\ s[1].doc = c => Said(s, c) = Said(t, c) \cup {s[1].message}
<1>1. /\ DOMAIN s = 1..Len(s) /\ DOMAIN t = 1..Len(s) - 1
      /\ \A i \in DOMAIN t : i + 1 \in DOMAIN s /\ t[i] = s[i + 1]
      /\ \A i \in DOMAIN s : i = 1 \/ (i - 1 \in DOMAIN t /\ t[i - 1] = s[i])
      /\ 1 \in DOMAIN s
  BY TailLog
<1>2. \A i \in Starts(t, c) : i + 1 \in Starts(s, c)
  BY <1>1 DEF Starts
<1>3. \A i \in Starts(s, c) : i = 1 \/ i - 1 \in Starts(t, c)
  BY <1>1 DEF Starts
<1>4. \A m : m \in Said(s, c) <=> \E i \in DOMAIN s : s[i].doc = c /\ m = s[i].message
  BY DEF Said
<1>5. \A m : m \in Said(t, c) <=> \E i \in DOMAIN t : t[i].doc = c /\ m = t[i].message
  BY DEF Said
<1>6. ASSUME NEW m PROVE m \in Said(t, c) => m \in Said(s, c)
  BY <1>1, <1>4, <1>5
<1>7. ASSUME NEW m, m \in Said(s, c)
      PROVE  m \in Said(t, c) \/ (s[1].doc = c /\ m = s[1].message)
  <2>1. PICK i \in DOMAIN s : s[i].doc = c /\ m = s[i].message
    BY <1>4, <1>7
  <2>2. CASE i = 1
    BY <2>1, <2>2
  <2>3. CASE i # 1
    <3>1. i - 1 \in DOMAIN t /\ t[i - 1] = s[i]
      BY <1>1, <2>3
    <3>2. t[i - 1].doc = c /\ m = t[i - 1].message
      BY <2>1, <3>1
    <3> QED BY <1>5, <3>1, <3>2
  <2> QED BY <2>2, <2>3
<1>8. s[1].doc = c => s[1].message \in Said(s, c)
  BY <1>1, <1>4
<1>9. s[1].doc # c => Said(t, c) = Said(s, c)
  BY <1>6, <1>7
<1>10. s[1].doc = c => Said(s, c) = Said(t, c) \cup {s[1].message}
  BY <1>6, <1>7, <1>8
<1> QED BY <1>2, <1>3, <1>9, <1>10
-----------------------------------------------------------------------------
(* Facts about the state that all steps need. *)

LEMMA NobodyIsNoUser == Nobody \notin User /\ NoConversation \notin ConvoId
BY ConversationsAssumption DEF Nobody, NoConversation

LEMMA StateTypes ==
  ASSUME TypeOK
  PROVE  /\ \A c \in ConvoId : documents[c] \in Conversation \cup {NoDocument}
         /\ \A u \in User : /\ pending[u] \in Seq(Write) /\ applied[u] \in Nat
                            /\ DOMAIN pending[u] = 1..Len(pending[u]) /\ Len(pending[u]) \in Nat
                            /\ \A i \in DOMAIN pending[u] :
                                  /\ pending[u][i] \in Write
                                  /\ pending[u][i].doc \in ConvoId
         /\ \A c \in ConvoId : startedBy[c] \in User \cup {Nobody}
<1>1. /\ \A c \in ConvoId : documents[c] \in Conversation \cup {NoDocument}
      /\ \A u \in User : pending[u] \in Seq(Write) /\ applied[u] \in Nat
      /\ \A c \in ConvoId : startedBy[c] \in User \cup {Nobody}
  BY DEF TypeOK
<1>2. ASSUME NEW u \in User
      PROVE  /\ DOMAIN pending[u] = 1..Len(pending[u]) /\ Len(pending[u]) \in Nat
             /\ \A i \in DOMAIN pending[u] : /\ pending[u][i] \in Write
                                             /\ pending[u][i].doc \in ConvoId
  BY <1>1, LenProperties, ElementOfSeq, WriteKinds
<1> QED BY <1>1, <1>2

(* Whatever is pending or stored was started. *)
LEMMA KnownIsStarted ==
  ASSUME TypeOK, DataInv, NEW u \in User, NEW c \in ConvoId, Known(u, c)
  PROVE  startedBy[c] # Nobody
BY DEF DataInv, StartedInv, LogInv, Known, Starts

LEMMA KnownIsLocal ==
  ASSUME TypeOK, DataInv, NEW u \in User, NEW c \in ConvoId
  PROVE  /\ LocallyExists(u, c) <=> Known(u, c)
         /\ LocalDocument(u, c) \in Conversation \cup {NoDocument}
<1>1. /\ documents[c] \in Conversation \cup {NoDocument} /\ pending[u] \in Seq(Write)
      /\ StartsFirst(pending[u], c)
  BY StateTypes DEF DataInv, LogInv
<1>2. LocalDocument(u, c) = View(documents[c], pending[u], c)
  BY LocalIsView
<1>3. PICK d : d = documents[c]
  OBVIOUS
<1>4. PICK s : s = pending[u]
  OBVIOUS
<1>5. /\ View(d, s, c) \in Conversation \cup {NoDocument}
      /\ View(d, s, c) # NoDocument <=> (d # NoDocument \/ Starts(s, c) # {})
  BY <1>1, <1>3, <1>4, ViewFacts
<1> QED BY <1>2, <1>3, <1>4, <1>5 DEF LocallyExists, Known

-----------------------------------------------------------------------------
(* A write is added to a log: an append to a conversation the user knows, or   *)
(* the posting of one that was never started.                                  *)

Submitted(u, x) ==
    /\ x.message.sender = u
    /\ pending' = [pending EXCEPT ![u] = Append(@, x)]
    /\ UNCHANGED <<applied, documents>>
    /\ \/ ~IsStart(x) /\ Known(u, x.doc) /\ startedBy' = startedBy
       \/ /\ IsStart(x) /\ startedBy[x.doc] = Nobody
          /\ startedBy' = [startedBy EXCEPT ![x.doc] = u]

LEMMA SubmittedFacts ==
  ASSUME TypeOK, DataInv, NEW u \in User, NEW x \in Write, Submitted(u, x)
  PROVE  /\ pending'[u] = Append(pending[u], x)
         /\ \A v \in User : v # u => pending'[v] = pending[v]
         /\ applied' = applied /\ documents' = documents
         /\ \A c \in ConvoId : startedBy[c] # Nobody => startedBy'[c] = startedBy[c]
         /\ \A c \in ConvoId : startedBy'[c] # startedBy[c] =>
               c = x.doc /\ IsStart(x) /\ startedBy'[c] = u /\ startedBy[c] = Nobody
         /\ startedBy'[x.doc] # Nobody
         /\ IsStart(x) => startedBy'[x.doc] = u /\ startedBy[x.doc] = Nobody
         /\ ~IsStart(x) => Known(u, x.doc)
<1>1. x.doc \in ConvoId
  BY WriteKinds
<1>2. /\ pending'[u] = Append(pending[u], x)
      /\ \A v \in User : v # u => pending'[v] = pending[v]
  BY DEF Submitted, TypeOK
<1>3. CASE ~IsStart(x) /\ Known(u, x.doc) /\ startedBy' = startedBy
  <2>1. startedBy[x.doc] # Nobody
    BY <1>1, <1>3, KnownIsStarted
  <2> QED BY <1>2, <1>3, <2>1 DEF Submitted
<1>4. CASE /\ IsStart(x) /\ startedBy[x.doc] = Nobody
           /\ startedBy' = [startedBy EXCEPT ![x.doc] = u]
  <2>1. startedBy'[x.doc] = u /\ \A c \in ConvoId : c # x.doc => startedBy'[c] = startedBy[c]
    BY <1>1, <1>4 DEF TypeOK
  <2> QED BY <1>2, <1>4, <2>1, NobodyIsNoUser DEF Submitted
<1> QED BY <1>3, <1>4 DEF Submitted

LEMMA SubmittedKnown ==
  ASSUME TypeOK, DataInv, NEW u \in User, NEW x \in Write, Submitted(u, x),
         NEW v \in User, NEW c \in ConvoId
  PROVE  /\ Known(v, c) => Known(v, c)'
         /\ (v = u /\ c = x.doc) => Known(v, c)'
<1>1. /\ pending'[u] = Append(pending[u], x)
      /\ v # u => pending'[v] = pending[v]
      /\ documents' = documents
      /\ ~IsStart(x) => Known(u, x.doc)
  BY SubmittedFacts
<1>2. pending[u] \in Seq(Write)
  BY StateTypes
<1>3. PICK s, t, n : s = pending[u] /\ t = Append(s, x) /\ n = Len(s) + 1
  OBVIOUS
<1>4. pending'[u] = t /\ Appended(s, x, t, n)
  BY <1>1, <1>2, <1>3 DEF Appended
<1>5. /\ Starts(s, c) \subseteq Starts(t, c)
      /\ (x.doc = c /\ IsStart(x)) => Starts(t, c) # {}
  <2>1. /\ (x.doc # c \/ ~IsStart(x)) => Starts(t, c) = Starts(s, c)
        /\ (x.doc = c /\ IsStart(x)) => Starts(t, c) = Starts(s, c) \cup {n}
    BY <1>4, AppendedWrites
  <2> QED BY <2>1
<1>6. Known(v, c) => Known(v, c)'
  BY <1>1, <1>3, <1>4, <1>5 DEF Known
<1> QED BY <1>1, <1>3, <1>4, <1>5, <1>6 DEF Known

LEMMA SubmittedLog ==
  ASSUME TypeOK, DataInv, NEW u \in User, NEW x \in Write, Submitted(u, x)
  PROVE  LogInv'
<1>1. /\ pending'[u] = Append(pending[u], x)
      /\ \A v \in User : v # u => pending'[v] = pending[v]
      /\ applied' = applied
      /\ \A c \in ConvoId : startedBy[c] # Nobody => startedBy'[c] = startedBy[c]
      /\ startedBy'[x.doc] # Nobody
      /\ IsStart(x) => startedBy'[x.doc] = u /\ startedBy[x.doc] = Nobody
  BY SubmittedFacts
<1>2. PICK s, t, n : s = pending[u] /\ t = Append(s, x) /\ n = Len(s) + 1
  OBVIOUS
<1>3. pending'[u] = t /\ Appended(s, x, t, n)
  BY <1>1, <1>2, StateTypes DEF Appended
<1>4. /\ n \in Nat /\ Len(s) = n - 1 /\ Len(t) = n
      /\ \A i \in DOMAIN s : i \in DOMAIN t /\ t[i] = s[i] /\ i \in Nat /\ i < n
      /\ \A i \in DOMAIN t : i \in DOMAIN s \/ i = n
      /\ t[n] = x
  BY <1>3, AppendedLog
<1>5. /\ applied[u] <= Len(s) /\ applied[u] \in Nat
      /\ \A i \in DOMAIN s : /\ s[i].doc \in ConvoId
                             /\ s[i].message.sender = u
                             /\ startedBy[s[i].doc] # Nobody
                             /\ IsStart(s[i]) => startedBy[s[i].doc] = u
      /\ \A c \in ConvoId : StartsFirst(s, c)
  BY <1>2, StateTypes DEF DataInv, LogInv
<1>6. ASSUME NEW v \in User, v # u
      PROVE  /\ applied'[v] <= Len(pending'[v])
             /\ \A i \in DOMAIN pending'[v] :
                   /\ pending'[v][i].message.sender = v
                   /\ startedBy'[pending'[v][i].doc] # Nobody
                   /\ IsStart(pending'[v][i]) => startedBy'[pending'[v][i].doc] = v
             /\ \A c \in ConvoId : StartsFirst(pending'[v], c)
  BY <1>1, <1>6, StateTypes DEF DataInv, LogInv
<1>7. applied[u] <= Len(t)
  BY <1>4, <1>5
<1>8. ASSUME NEW i \in DOMAIN t
      PROVE  /\ t[i].message.sender = u
             /\ startedBy'[t[i].doc] # Nobody
             /\ IsStart(t[i]) => startedBy'[t[i].doc] = u
  <2>1. CASE i \in DOMAIN s
    BY <1>1, <1>4, <1>5, <2>1
  <2>2. CASE i = n
    BY <1>1, <1>4, <2>2 DEF Submitted
  <2> QED BY <1>4, <2>1, <2>2
<1>9. ASSUME NEW c \in ConvoId PROVE StartsFirst(t, c)
  <2> SUFFICES ASSUME NEW i \in Starts(t, c), NEW j \in DOMAIN t, t[j].doc = c
               PROVE  i <= j
    BY DEF StartsFirst
  <2>1. i \in DOMAIN t /\ t[i].doc = c /\ IsStart(t[i])
    BY DEF Starts
  <2>2. CASE i \in DOMAIN s /\ j \in DOMAIN s
    <3>1. i \in Starts(s, c) /\ s[j].doc = c
      BY <1>4, <2>1, <2>2 DEF Starts
    <3> QED BY <1>5, <2>2, <3>1 DEF StartsFirst
  <2>3. CASE i \in DOMAIN s /\ j = n
    BY <1>4, <2>3
  <2>4. CASE i = n /\ j \in DOMAIN s
    BY <1>1, <1>4, <1>5, <2>1, <2>4
  <2>5. CASE i = n /\ j = n
    BY <1>4, <2>5
  <2> QED BY <1>4, <2>1, <2>2, <2>3, <2>4, <2>5
<1> QED BY <1>1, <1>3, <1>6, <1>7, <1>8, <1>9 DEF LogInv
LEMMA SubmittedStarted ==
  ASSUME TypeOK, DataInv, NEW u \in User, NEW x \in Write, Submitted(u, x)
  PROVE  StartedInv'
<1>1. /\ documents' = documents
      /\ \A c \in ConvoId : startedBy[c] # Nobody => startedBy'[c] = startedBy[c]
      /\ \A c \in ConvoId : startedBy'[c] # startedBy[c] =>
            c = x.doc /\ IsStart(x) /\ startedBy'[c] = u /\ startedBy[c] = Nobody
  BY SubmittedFacts
<1>2. ASSUME NEW c \in ConvoId, documents'[c] # NoDocument PROVE startedBy'[c] # Nobody
  BY <1>1, <1>2 DEF DataInv, StartedInv
<1>3. ASSUME NEW c \in ConvoId, NEW v \in User, startedBy'[c] = v PROVE Known(v, c)'
  <2>1. CASE startedBy[c] = v
    BY <2>1, SubmittedKnown DEF DataInv, StartedInv
  <2>2. CASE startedBy[c] # v
    <3>1. c = x.doc /\ v = u
      BY <1>1, <1>3, <2>2
    <3> QED BY <3>1, SubmittedKnown
  <2> QED BY <2>1, <2>2
<1> QED BY <1>2, <1>3 DEF StartedInv

(* UpdatesFindTheirConversation of one log. *)
Finds(s, n) ==
    \A i \in DOMAIN s : ~IsStart(s[i]) =>
        \/ documents[s[i].doc] # NoDocument
        \/ i > n /\ \E j \in 1..i - 1 : s[j].doc = s[i].doc /\ IsStart(s[j])

LEMMA SubmittedFinds ==
  ASSUME TypeOK, DataInv, NEW u \in User, NEW x \in Write, Submitted(u, x)
  PROVE  UpdatesFindTheirConversation'
<1>1. /\ pending'[u] = Append(pending[u], x)
      /\ \A v \in User : v # u => pending'[v] = pending[v]
      /\ applied' = applied
      /\ documents' = documents
      /\ ~IsStart(x) => Known(u, x.doc)
  BY SubmittedFacts
<1>2. PICK s, t, n : s = pending[u] /\ t = Append(s, x) /\ n = Len(s) + 1
  OBVIOUS
<1>3. pending'[u] = t /\ Appended(s, x, t, n)
  BY <1>1, <1>2, StateTypes DEF Appended
<1>4. /\ n \in Nat /\ Len(s) = n - 1 /\ DOMAIN s = 1..n - 1
      /\ \A i \in DOMAIN s : i \in DOMAIN t /\ t[i] = s[i] /\ i \in Nat /\ i < n
      /\ \A i \in DOMAIN t : i \in DOMAIN s \/ i = n
      /\ t[n] = x
  BY <1>3, AppendedLog
<1>5. applied[u] \in Nat /\ applied[u] < n
  <2>1. applied[u] \in Nat /\ applied[u] <= Len(s)
    BY <1>2, StateTypes DEF DataInv, LogInv
  <2> QED BY <1>4, <2>1
<1>6. \A v \in User : Finds(pending[v], applied[v])
  BY DEF DataInv, UpdatesFindTheirConversation, Finds
<1>7. Finds(t, applied[u])
  <2> SUFFICES ASSUME NEW i \in DOMAIN t, ~IsStart(t[i])
               PROVE  \/ documents[t[i].doc] # NoDocument
                      \/ i > applied[u] /\ \E j \in 1..i - 1 :
                            t[j].doc = t[i].doc /\ IsStart(t[j])
    BY DEF Finds
  <2>1. CASE i \in DOMAIN s
    <3>1. \/ documents[s[i].doc] # NoDocument
          \/ i > applied[u] /\ \E j \in 1..i - 1 : s[j].doc = s[i].doc /\ IsStart(s[j])
      BY <1>2, <1>4, <1>6, <2>1 DEF Finds
    <3>2. \A j \in 1..i - 1 : j \in DOMAIN s
      BY <1>4, <2>1
    <3> QED BY <1>4, <2>1, <3>1, <3>2
  <2>2. CASE i = n
    <3>1. documents[x.doc] # NoDocument \/ Starts(s, x.doc) # {}
      BY <1>1, <1>2, <1>4, <2>2 DEF Known
    <3>2. ASSUME NEW j \in Starts(s, x.doc)
          PROVE  j \in 1..n - 1 /\ t[j].doc = x.doc /\ IsStart(t[j])
      BY <1>4 DEF Starts
    <3> QED BY <1>4, <1>5, <2>2, <3>1, <3>2
  <2> QED BY <1>4, <2>1, <2>2
<1>8. \A v \in User : Finds(pending'[v], applied'[v])
  BY <1>1, <1>3, <1>6, <1>7
<1> QED BY <1>1, <1>8 DEF UpdatesFindTheirConversation, Finds

LEMMA SubmittedApplied ==
  ASSUME TypeOK, DataInv, NEW u \in User, NEW x \in Write, Submitted(u, x)
  PROVE  AppliedInv'
<1>1. /\ pending'[u] = Append(pending[u], x)
      /\ \A v \in User : v # u => pending'[v] = pending[v]
      /\ applied' = applied
      /\ documents' = documents
      /\ \A c \in ConvoId : startedBy'[c] # startedBy[c] =>
            c = x.doc /\ IsStart(x) /\ startedBy'[c] = u /\ startedBy[c] = Nobody
  BY SubmittedFacts
<1>2. PICK s, t, n : s = pending[u] /\ t = Append(s, x) /\ n = Len(s) + 1
  OBVIOUS
<1>3. pending'[u] = t /\ Appended(s, x, t, n)
  BY <1>1, <1>2, StateTypes DEF Appended
<1>4. /\ n \in Nat /\ Len(s) = n - 1 /\ DOMAIN s = 1..n - 1
      /\ \A i \in DOMAIN s : i \in DOMAIN t /\ t[i] = s[i] /\ i \in Nat /\ i < n
      /\ \A i \in DOMAIN t : i \in DOMAIN s \/ i = n
      /\ t[n] = x
  BY <1>3, AppendedLog
<1>5. applied[u] \in Nat /\ applied[u] < n
  <2>1. applied[u] \in Nat /\ applied[u] <= Len(s)
    BY <1>2, StateTypes DEF DataInv, LogInv
  <2> QED BY <1>4, <2>1
<1> SUFFICES ASSUME NEW c \in ConvoId, NEW v \in User, startedBy'[c] = v
             PROVE  /\ \A i \in DOMAIN pending'[v] :
                          (i <= applied[v] /\ pending'[v][i].doc = c) =>
                             /\ documents[c] # NoDocument
                             /\ pending'[v][i].message \in Elements(documents[c].messages)
                    /\ \A i \in Starts(pending'[v], c) : i <= applied[v] =>
                          OwnIn(documents[c], v) \subseteq Said(pending'[v], c)
  BY <1>1 DEF AppliedInv, OwnIn
<1>6. CASE v # u
  <2>1. startedBy[c] = v
    BY <1>1, <1>6
  <2> QED BY <1>1, <1>6, <2>1 DEF DataInv, AppliedInv
<1>7. CASE v = u /\ startedBy[c] = u
  <2>1. /\ \A i \in DOMAIN s : (i <= applied[u] /\ s[i].doc = c) =>
              /\ documents[c] # NoDocument
              /\ s[i].message \in Elements(documents[c].messages)
        /\ \A i \in Starts(s, c) : i <= applied[u] =>
              OwnIn(documents[c], u) \subseteq Said(s, c)
    BY <1>2, <1>7 DEF DataInv, AppliedInv
  <2>2. \A i \in DOMAIN t : i <= applied[u] => i \in DOMAIN s /\ t[i] = s[i]
    BY <1>4, <1>5
  <2>3. \A i \in Starts(t, c) : i <= applied[u] => i \in Starts(s, c)
    BY <2>2 DEF Starts
  <2>4. Said(s, c) \subseteq Said(t, c)
    BY <1>4 DEF Said
  <2> QED BY <1>3, <1>7, <2>1, <2>2, <2>3, <2>4
<1>8. CASE v = u /\ startedBy[c] # u
  <2>1. startedBy[c] = Nobody
    BY <1>1, <1>8
  <2>2. \A i \in DOMAIN s : s[i].doc # c
    BY <1>2, <2>1 DEF DataInv, LogInv
  <2>3. \A i \in DOMAIN t : i <= applied[u] => t[i].doc # c
    BY <1>4, <1>5, <2>2
  <2>4. \A i \in Starts(t, c) : ~(i <= applied[u])
    BY <2>3 DEF Starts
  <2> QED BY <1>3, <1>8, <2>3, <2>4
<1> QED BY <1>6, <1>7, <1>8

LEMMA SubmittedUsers ==
  ASSUME TypeOK, DataInv, NEW u \in User, NEW x \in Write, Submitted(u, x)
  PROVE  UsersInv'
<1>1. /\ pending'[u] = Append(pending[u], x)
      /\ \A v \in User : v # u => pending'[v] = pending[v]
      /\ documents' = documents
      /\ IsStart(x) => startedBy[x.doc] = Nobody
  BY SubmittedFacts
<1>2. PICK s, t, n : s = pending[u] /\ t = Append(s, x) /\ n = Len(s) + 1
  OBVIOUS
<1>3. pending'[u] = t /\ Appended(s, x, t, n)
  BY <1>1, <1>2, StateTypes DEF Appended
<1>4. /\ \A i \in DOMAIN s : i \in DOMAIN t /\ t[i] = s[i]
      /\ \A i \in DOMAIN t : i \in DOMAIN s \/ i = n
      /\ t[n] = x
  BY <1>3, AppendedLog
<1> SUFFICES ASSUME NEW c \in ConvoId, NEW v \in User, NEW i \in Starts(pending'[v], c),
                    documents[c] # NoDocument
             PROVE  documents[c].users = pending'[v][i].users
  BY <1>1 DEF UsersInv
<1>5. CASE v # u
  BY <1>1, <1>5 DEF DataInv, UsersInv
<1>6. CASE v = u
  <2>1. i \in DOMAIN t /\ t[i].doc = c /\ IsStart(t[i])
    BY <1>3, <1>6 DEF Starts
  <2>2. CASE i \in DOMAIN s
    <3>1. i \in Starts(s, c)
      BY <1>4, <2>1, <2>2 DEF Starts
    <3> QED BY <1>2, <1>3, <1>4, <1>6, <2>2, <3>1 DEF DataInv, UsersInv
  <2>3. CASE i = n
    <3>1. startedBy[c] = Nobody
      BY <1>1, <1>4, <2>1, <2>3
    <3> QED BY <3>1 DEF DataInv, StartedInv
  <2> QED BY <1>4, <2>1, <2>2, <2>3
<1> QED BY <1>5, <1>6

LEMMA SubmittedData ==
  ASSUME TypeOK, DataInv, NEW u \in User, NEW x \in Write, Submitted(u, x)
  PROVE  DataInv'
<1>1. NoMessageTwice'
  BY DEF Submitted, DataInv, NoMessageTwice
<1>2. LogInv' /\ StartedInv' /\ UpdatesFindTheirConversation' /\ AppliedInv' /\ UsersInv'
  BY SubmittedLog, SubmittedStarted, SubmittedFinds, SubmittedApplied, SubmittedUsers
<1> QED BY <1>1, <1>2 DEF DataInv
(* What a user has said stays, and so do the users of what the user started. *)
LEMMA SubmittedSeen ==
  ASSUME TypeOK, DataInv, NEW u \in User, NEW x \in Write, Submitted(u, x),
         NEW v \in User, NEW c \in ConvoId
  PROVE  /\ v # u => OwnMessages(v, c)' = OwnMessages(v, c)
         /\ startedBy[c] = v => OwnMessages(v, c) \subseteq OwnMessages(v, c)'
         /\ startedBy[c] = v => UsersOf(v, c)' = UsersOf(v, c)
         /\ (IsStart(x) /\ v = u /\ c = x.doc) => UsersOf(v, c)' = x.users
<1>1. /\ pending'[u] = Append(pending[u], x)
      /\ v # u => pending'[v] = pending[v]
      /\ documents' = documents
      /\ IsStart(x) => startedBy[x.doc] = Nobody
  BY SubmittedFacts
<1>2. PICK s, t, n, d : s = pending[u] /\ t = Append(s, x) /\ n = Len(s) + 1 /\ d = documents[c]
  OBVIOUS
<1>3. pending'[u] = t /\ Appended(s, x, t, n) /\ d \in Conversation \cup {NoDocument}
  BY <1>1, <1>2, StateTypes DEF Appended
<1>4. /\ OwnMessages(v, c) = OwnSeen(documents[c], pending[v], c, v)
      /\ OwnMessages(v, c)' = OwnSeen(documents'[c], pending'[v], c, v)
      /\ UsersOf(v, c) = View(documents[c], pending[v], c).users
      /\ UsersOf(v, c)' = View(documents'[c], pending'[v], c).users
  BY OwnMessagesAreSeen, LocalIsView DEF UsersOf
<1>5. CASE v # u
  BY <1>1, <1>4, <1>5
<1>6. CASE v = u
  <2>1. /\ OwnMessages(v, c) = OwnSeen(d, s, c, u)
        /\ OwnMessages(v, c)' = OwnSeen(d, t, c, u)
        /\ UsersOf(v, c) = View(d, s, c).users
        /\ UsersOf(v, c)' = View(d, t, c).users
    BY <1>1, <1>2, <1>3, <1>4, <1>6
  <2>2. /\ StartsFirst(s, c) /\ s \in Seq(Write)
        /\ \A i \in DOMAIN s : s[i].message.sender = u
    BY <1>2, StateTypes DEF DataInv, LogInv
  <2>3. /\ StartsFirst(t, c) /\ t \in Seq(Write)
        /\ \A i \in DOMAIN t : t[i].message.sender = u
    BY <1>3, SubmittedLog, AppendedLog DEF LogInv
  <2>4. /\ (x.doc # c \/ ~IsStart(x)) => Starts(t, c) = Starts(s, c)
        /\ (x.doc = c /\ IsStart(x)) => Starts(t, c) = Starts(s, c) \cup {n}
        /\ x.doc # c => Said(t, c) = Said(s, c)
        /\ x.doc = c => Said(t, c) = Said(s, c) \cup {x.message}
    BY <1>3, AppendedWrites
  <2>5. /\ Starts(s, c) # {} => OwnSeen(d, s, c, u) = Said(s, c)
        /\ (Starts(s, c) = {} /\ d # NoDocument) =>
              OwnSeen(d, s, c, u) = Said(s, c) \cup OwnIn(d, u)
        /\ (Starts(s, c) = {} /\ d = NoDocument) => OwnSeen(d, s, c, u) = {}
    BY <1>3, <2>2, OwnSeenFacts
  <2>6. /\ Starts(t, c) # {} => OwnSeen(d, t, c, u) = Said(t, c)
        /\ (Starts(t, c) = {} /\ d # NoDocument) =>
              OwnSeen(d, t, c, u) = Said(t, c) \cup OwnIn(d, u)
        /\ (Starts(t, c) = {} /\ d = NoDocument) => OwnSeen(d, t, c, u) = {}
    <3>1. d \in Conversation \cup {NoDocument}
      BY <1>3
    <3> QED BY ONLY <2>3, <3>1, OwnSeenFacts
  <2>7. /\ \A i \in Starts(s, c) : View(d, s, c).users = s[i].users
        /\ (d # NoDocument /\ Starts(s, c) = {}) => View(d, s, c).users = d.users
    BY <1>3, <2>2, ViewUsers
  <2>8. /\ \A i \in Starts(t, c) : View(d, t, c).users = t[i].users
        /\ (d # NoDocument /\ Starts(t, c) = {}) => View(d, t, c).users = d.users
    BY <1>3, <2>3, ViewUsers
  <2>9. /\ \A i \in DOMAIN s : t[i] = s[i]
        /\ t[n] = x
    BY <1>3, AppendedLog
  <2>10. ASSUME startedBy[c] = u
         PROVE  /\ d # NoDocument \/ Starts(s, c) # {}
                /\ x.doc # c \/ ~IsStart(x)
    BY <1>1, <1>2, <2>10, NobodyIsNoUser DEF DataInv, StartedInv, Known
  <2>11. startedBy[c] = v => OwnMessages(v, c) \subseteq OwnMessages(v, c)'
    BY <1>6, <2>1, <2>4, <2>5, <2>6, <2>10
  <2>12. startedBy[c] = v => UsersOf(v, c)' = UsersOf(v, c)
    <3>1. Starts(s, c) \subseteq DOMAIN s
      BY DEF Starts
    <3> QED BY <1>6, <2>1, <2>4, <2>7, <2>8, <2>9, <2>10, <3>1
  <2>13. (IsStart(x) /\ c = x.doc) => UsersOf(v, c)' = x.users
    BY <2>1, <2>4, <2>8, <2>9
  <2> QED BY <1>6, <2>11, <2>12, <2>13
<1> QED BY <1>5, <1>6
-----------------------------------------------------------------------------
(* The server applies the next write of a log. *)

(* Write k of the log s, an own x, is applied. *)
LEMMA AppliedFacts ==
  ASSUME TypeOK, DataInv, NEW u \in User, ServerApplies(u),
         NEW k, k = applied[u] + 1, NEW x, x = pending[u][k]
  PROVE  /\ k \in DOMAIN pending[u] /\ k \in Nat /\ x \in Write /\ x.doc \in ConvoId
         /\ applied'[u] = k
         /\ \A v \in User : v # u => applied'[v] = applied[v]
         /\ pending' = pending /\ startedBy' = startedBy
         /\ documents'[x.doc] = Written(documents[x.doc], x)
         /\ \A c \in ConvoId : c # x.doc => documents'[c] = documents[c]
         /\ \A i \in DOMAIN pending[u] : i <= k <=> (i <= applied[u] \/ i = k)
         /\ x.message.sender = u
         /\ startedBy[x.doc] # Nobody
         /\ IsStart(x) => startedBy[x.doc] = u /\ k \in Starts(pending[u], x.doc)
         /\ ~IsStart(x) => documents[x.doc] # NoDocument
         /\ UNCHANGED <<page, list, lookedUp>>
<1>1. applied[u] \in Nat /\ DOMAIN pending[u] = 1..Len(pending[u]) /\ Len(pending[u]) \in Nat
  BY StateTypes
<1>2. /\ applied[u] < Len(pending[u])
      /\ applied' = [applied EXCEPT ![u] = @ + 1] /\ pending' = pending
      /\ documents' = [documents EXCEPT ![x.doc] = Written(@, x)]
      /\ startedBy' = startedBy /\ UNCHANGED <<page, list, lookedUp>>
  BY DEF ServerApplies, Log!Apply, Log!HasNext, Log!NextToApply, history
<1>3. k \in DOMAIN pending[u] /\ k \in Nat
  BY <1>1, <1>2
<1>4. x \in Write /\ x.doc \in ConvoId
  BY <1>3, StateTypes
<1>5. /\ applied'[u] = k
      /\ \A v \in User : v # u => applied'[v] = applied[v]
      /\ documents'[x.doc] = Written(documents[x.doc], x)
      /\ \A c \in ConvoId : c # x.doc => documents'[c] = documents[c]
  BY <1>2, <1>4 DEF TypeOK
<1>6. \A i \in DOMAIN pending[u] : i <= k <=> (i <= applied[u] \/ i = k)
  BY <1>1
<1>7. /\ x.message.sender = u
      /\ startedBy[x.doc] # Nobody
      /\ IsStart(x) => startedBy[x.doc] = u
  BY <1>3 DEF DataInv, LogInv
<1>8. IsStart(x) => k \in Starts(pending[u], x.doc)
  BY <1>3 DEF Starts
<1>9. ASSUME ~IsStart(x) PROVE documents[x.doc] # NoDocument
  <2>1. \/ documents[x.doc] # NoDocument
        \/ \E j \in 1..k - 1 : pending[u][j].doc = x.doc /\ IsStart(pending[u][j])
    BY <1>3, <1>9 DEF DataInv, UpdatesFindTheirConversation
  <2>2. ASSUME NEW j \in 1..k - 1, pending[u][j].doc = x.doc, IsStart(pending[u][j])
        PROVE  documents[x.doc] # NoDocument
    <3>1. j \in DOMAIN pending[u] /\ j <= applied[u]
      BY <1>1, <1>3
    <3>2. startedBy[x.doc] = u
      BY <2>2, <3>1 DEF DataInv, LogInv
    <3> QED BY <1>4, <2>2, <3>1, <3>2 DEF DataInv, AppliedInv
  <2> QED BY <2>1, <2>2
<1> QED BY <1>2, <1>3, <1>4, <1>5, <1>6, <1>7, <1>8, <1>9

(* The document that the write changes. *)
LEMMA AppliedDocument ==
  ASSUME TypeOK, DataInv, NEW u \in User, ServerApplies(u),
         NEW k, k = applied[u] + 1, NEW x, x = pending[u][k]
  PROVE  /\ documents'[x.doc] \in Conversation /\ documents'[x.doc] # NoDocument
         /\ IsStart(x) => /\ documents'[x.doc].users = x.users
                          /\ documents'[x.doc].messages = <<x.message>>
                          /\ Elements(documents'[x.doc].messages) = {x.message}
         /\ ~IsStart(x) =>
               /\ documents'[x.doc].users = documents[x.doc].users
               /\ documents'[x.doc].messages =
                     ArrayUnion(documents[x.doc].messages, x.message)
               /\ Elements(documents'[x.doc].messages) =
                     Elements(documents[x.doc].messages) \cup {x.message}
         /\ \A c \in ConvoId : documents[c] # NoDocument => documents'[c] # NoDocument
<1>1. /\ x \in Write /\ x.doc \in ConvoId
      /\ documents'[x.doc] = Written(documents[x.doc], x)
      /\ \A c \in ConvoId : c # x.doc => documents'[c] = documents[c]
      /\ ~IsStart(x) => documents[x.doc] # NoDocument
  BY AppliedFacts
<1>2. PICK d : d = documents[x.doc]
  OBVIOUS
<1>3. d \in Conversation \cup {NoDocument}
  BY <1>1, <1>2, StateTypes
<1>4. /\ Written(d, x) \in Conversation \cup {NoDocument}
      /\ Written(d, x) # NoDocument <=> (IsStart(x) \/ d # NoDocument)
      /\ IsStart(x) => /\ Written(d, x).users = x.users
                       /\ Written(d, x).messages = <<x.message>>
                       /\ Elements(Written(d, x).messages) = {x.message}
      /\ (~IsStart(x) /\ d # NoDocument) =>
            /\ Written(d, x).users = d.users
            /\ Written(d, x).messages = ArrayUnion(d.messages, x.message)
            /\ Elements(Written(d, x).messages) = Elements(d.messages) \cup {x.message}
  BY ONLY <1>1, <1>3, WrittenFacts
<1>5. Written(d, x) \in Conversation /\ Written(d, x) # NoDocument
  BY <1>1, <1>2, <1>4
<1>6. \A c \in ConvoId : documents[c] # NoDocument => documents'[c] # NoDocument
  BY <1>1, <1>2, <1>5
<1> QED BY <1>1, <1>2, <1>4, <1>5, <1>6

LEMMA AppliedLog ==
  ASSUME TypeOK, DataInv, NEW u \in User, ServerApplies(u)
  PROVE  LogInv' /\ StartedInv' /\ UpdatesFindTheirConversation'
<1>1. PICK k, x : k = applied[u] + 1 /\ x = pending[u][k]
  OBVIOUS
<1>2. /\ k \in DOMAIN pending[u] /\ k \in Nat /\ x \in Write /\ x.doc \in ConvoId
      /\ applied'[u] = k
      /\ \A v \in User : v # u => applied'[v] = applied[v]
      /\ pending' = pending /\ startedBy' = startedBy
      /\ \A c \in ConvoId : c # x.doc => documents'[c] = documents[c]
      /\ \A i \in DOMAIN pending[u] : i <= k <=> (i <= applied[u] \/ i = k)
      /\ startedBy[x.doc] # Nobody
  BY <1>1, AppliedFacts
<1>3. /\ documents'[x.doc] # NoDocument
      /\ \A c \in ConvoId : documents[c] # NoDocument => documents'[c] # NoDocument
  BY <1>1, AppliedDocument
<1>4. LogInv'
  <2>1. \A v \in User : applied'[v] <= Len(pending[v])
    BY <1>2, StateTypes DEF DataInv, LogInv
  <2> QED BY <1>2, <2>1 DEF DataInv, LogInv, StartsFirst, Starts
<1>5. StartedInv'
  BY <1>2, <1>3 DEF DataInv, StartedInv, Known, Starts
<1>6. UpdatesFindTheirConversation'
  <2> SUFFICES ASSUME NEW v \in User, NEW i \in DOMAIN pending[v], ~IsStart(pending[v][i])
               PROVE  \/ documents'[pending[v][i].doc] # NoDocument
                      \/ i > applied'[v] /\ \E j \in 1..i - 1 :
                            pending[v][j].doc = pending[v][i].doc /\ IsStart(pending[v][j])
    BY <1>2 DEF UpdatesFindTheirConversation
  <2>1. \/ documents[pending[v][i].doc] # NoDocument
        \/ i > applied[v] /\ \E j \in 1..i - 1 :
              pending[v][j].doc = pending[v][i].doc /\ IsStart(pending[v][j])
    BY DEF DataInv, UpdatesFindTheirConversation
  <2>2. pending[v][i].doc \in ConvoId /\ i \in Nat /\ applied[v] \in Nat
    BY StateTypes
  <2>3. CASE documents[pending[v][i].doc] # NoDocument
    BY <1>3, <2>2, <2>3
  <2>4. CASE v # u
    BY <1>2, <1>3, <2>1, <2>2, <2>4
  <2>5. CASE v = u /\ i = k
    BY <1>1, <1>3, <2>5
  <2>6. CASE v = u /\ i # k /\ documents[pending[v][i].doc] = NoDocument
    <3>1. i > applied[u]
      BY <2>1, <2>6
    <3>2. i > k
      BY <1>2, <2>2, <2>6, <3>1
    <3> QED BY <1>2, <2>1, <2>6, <3>2
  <2> QED BY <2>3, <2>4, <2>5, <2>6
<1> QED BY <1>4, <1>5, <1>6

LEMMA AppliedOnce ==
  ASSUME TypeOK, DataInv, NEW u \in User, ServerApplies(u)
  PROVE  NoMessageTwice'
<1>1. PICK k, x : k = applied[u] + 1 /\ x = pending[u][k]
  OBVIOUS
<1>2. /\ x \in Write /\ x.doc \in ConvoId
      /\ \A c \in ConvoId : c # x.doc => documents'[c] = documents[c]
      /\ ~IsStart(x) => documents[x.doc] # NoDocument
  BY <1>1, AppliedFacts
<1>3. /\ IsStart(x) => documents'[x.doc].messages = <<x.message>>
      /\ ~IsStart(x) => documents'[x.doc].messages =
                           ArrayUnion(documents[x.doc].messages, x.message)
  BY <1>1, AppliedDocument
<1> SUFFICES ASSUME NEW c \in ConvoId, documents'[c] # NoDocument,
                    NEW i \in DOMAIN documents'[c].messages,
                    NEW j \in DOMAIN documents'[c].messages,
                    documents'[c].messages[i] = documents'[c].messages[j]
             PROVE  i = j
  BY DEF NoMessageTwice
<1>4. CASE c # x.doc
  BY <1>2, <1>4 DEF DataInv, NoMessageTwice
<1>5. CASE c = x.doc /\ IsStart(x)
  BY <1>3, <1>5
<1>6. CASE c = x.doc /\ ~IsStart(x)
  <2>1. PICK old, new, m : /\ old = documents[c].messages /\ m = x.message
                           /\ new = documents'[c].messages
    OBVIOUS
  <2>2. documents[c] \in Conversation
    BY <1>2, <1>6, StateTypes
  <2>3. old \in Seq(Message) /\ m \in Message /\ new = ArrayUnion(old, m)
    BY <1>2, <1>3, <1>6, <2>1, <2>2, WriteKinds DEF Conversation
  <2>4. \A n1, n2 \in DOMAIN old : old[n1] = old[n2] => n1 = n2
    BY <1>2, <1>6, <2>1 DEF DataInv, NoMessageTwice
  <2>5. CASE m \in Elements(old)
    <3>1. new = old
      BY <2>3, <2>5, UnionFacts
    <3> QED BY <2>1, <2>4, <3>1
  <2>6. CASE m \notin Elements(old)
    <3>1. new = Append(old, m)
      BY <2>3, <2>6, UnionFacts
    <3>2. /\ \A n \in 1..Len(old) : new[n] = old[n]
          /\ new[Len(old) + 1] = m
          /\ Len(new) = Len(old) + 1 /\ new \in Seq(Message)
      BY <2>3, <3>1, AppendProperties
    <3>3. /\ DOMAIN old = 1..Len(old) /\ Len(old) \in Nat /\ DOMAIN new = 1..Len(old) + 1
      BY <2>3, <3>2, LenProperties
    <3>4. \A n \in DOMAIN old : old[n] # m
      BY <2>6 DEF Elements
    <3>5. i \in DOMAIN old \/ i = Len(old) + 1
      BY <2>1, <3>3
    <3>6. j \in DOMAIN old \/ j = Len(old) + 1
      BY <2>1, <3>3
    <3>7. new[i] = new[j]
      BY <2>1
    <3>8. \A n \in DOMAIN old : new[n] = old[n]
      BY <3>2, <3>3
    <3>9. CASE i \in DOMAIN old /\ j \in DOMAIN old
      BY <2>4, <3>7, <3>8, <3>9
    <3>10. CASE i \in DOMAIN old /\ j = Len(old) + 1
      BY <3>2, <3>4, <3>7, <3>8, <3>10
    <3>11. CASE i = Len(old) + 1 /\ j \in DOMAIN old
      BY <3>2, <3>4, <3>7, <3>8, <3>11
    <3> QED BY <3>5, <3>6, <3>9, <3>10, <3>11
  <2> QED BY <2>5, <2>6
<1> QED BY <1>4, <1>5, <1>6
LEMMA AppliedStays ==
  ASSUME TypeOK, DataInv, NEW u \in User, ServerApplies(u)
  PROVE  AppliedInv'
<1>1. PICK k, x : k = applied[u] + 1 /\ x = pending[u][k]
  OBVIOUS
<1>2. /\ k \in DOMAIN pending[u] /\ x \in Write /\ x.doc \in ConvoId
      /\ applied'[u] = k
      /\ \A v \in User : v # u => applied'[v] = applied[v]
      /\ pending' = pending /\ startedBy' = startedBy
      /\ \A c \in ConvoId : c # x.doc => documents'[c] = documents[c]
      /\ \A i \in DOMAIN pending[u] : i <= k <=> (i <= applied[u] \/ i = k)
      /\ x.message.sender = u
      /\ IsStart(x) => startedBy[x.doc] = u /\ k \in Starts(pending[u], x.doc)
      /\ ~IsStart(x) => documents[x.doc] # NoDocument
  BY <1>1, AppliedFacts
<1>3. /\ documents'[x.doc] # NoDocument
      /\ IsStart(x) => Elements(documents'[x.doc].messages) = {x.message}
      /\ ~IsStart(x) => Elements(documents'[x.doc].messages) =
                           Elements(documents[x.doc].messages) \cup {x.message}
  BY <1>1, AppliedDocument
<1> SUFFICES ASSUME NEW c \in ConvoId, NEW v \in User, startedBy[c] = v
             PROVE  /\ \A i \in DOMAIN pending[v] :
                          (i <= applied'[v] /\ pending[v][i].doc = c) =>
                             /\ documents'[c] # NoDocument
                             /\ pending[v][i].message \in Elements(documents'[c].messages)
                    /\ \A i \in Starts(pending[v], c) : i <= applied'[v] =>
                          OwnIn(documents'[c], v) \subseteq Said(pending[v], c)
  BY <1>2 DEF AppliedInv, OwnIn
<1>4. /\ \A i \in DOMAIN pending[v] : (i <= applied[v] /\ pending[v][i].doc = c) =>
            /\ documents[c] # NoDocument
            /\ pending[v][i].message \in Elements(documents[c].messages)
      /\ \A i \in Starts(pending[v], c) : i <= applied[v] =>
            OwnIn(documents[c], v) \subseteq Said(pending[v], c)
  BY DEF DataInv, AppliedInv
<1>5. \A i \in Starts(pending[v], c) : /\ i \in DOMAIN pending[v]
                                       /\ pending[v][i].doc = c /\ IsStart(pending[v][i])
  BY DEF Starts
<1>6. x.message \in Said(pending[u], x.doc)
  BY <1>1, <1>2 DEF Said
<1>7. CASE c # x.doc
  <2>1. ASSUME NEW i \in DOMAIN pending[v], i <= applied'[v], pending[v][i].doc = c
        PROVE  i <= applied[v]
    BY <1>1, <1>2, <1>7, <2>1
  <2> QED BY <1>2, <1>4, <1>5, <1>7, <2>1
<1>8. CASE c = x.doc /\ IsStart(x)
  <2>1. v = u
    BY <1>2, <1>8
  <2>2. ASSUME NEW i \in DOMAIN pending[u], i <= k, pending[u][i].doc = c PROVE i = k
    <3>1. k <= i
      BY <1>2, <1>8, <2>2 DEF DataInv, LogInv, StartsFirst
    <3> QED BY <1>2, <2>2, <3>1, StateTypes
  <2>3. OwnIn(documents'[c], u) \subseteq Said(pending[u], c)
    BY <1>3, <1>6, <1>8 DEF OwnIn
  <2> QED BY <1>1, <1>2, <1>3, <1>8, <2>1, <2>2, <2>3
<1>9. CASE c = x.doc /\ ~IsStart(x)
  <2>1. Elements(documents'[c].messages) = Elements(documents[c].messages) \cup {x.message}
    BY <1>3, <1>9
  <2>2. CASE v # u
    <3>1. OwnIn(documents'[c], v) = OwnIn(documents[c], v)
      BY <1>2, <2>1, <2>2 DEF OwnIn
    <3> QED BY <1>2, <1>3, <1>4, <1>9, <2>1, <2>2, <3>1
  <2>3. CASE v = u
    <3>1. OwnIn(documents'[c], u) \subseteq OwnIn(documents[c], u) \cup {x.message}
      BY <2>1 DEF OwnIn
    <3>2. \A i \in Starts(pending[u], c) : i # k
      BY <1>1, <1>5, <1>9, <2>3
    <3> QED BY <1>1, <1>2, <1>3, <1>4, <1>5, <1>6, <1>9, <2>1, <2>3, <3>1, <3>2
  <2> QED BY <2>2, <2>3
<1> QED BY <1>7, <1>8, <1>9

LEMMA AppliedUsers ==
  ASSUME TypeOK, DataInv, NEW u \in User, ServerApplies(u)
  PROVE  UsersInv'
<1>1. PICK k, x : k = applied[u] + 1 /\ x = pending[u][k]
  OBVIOUS
<1>2. /\ k \in DOMAIN pending[u] /\ x \in Write /\ x.doc \in ConvoId
      /\ pending' = pending
      /\ \A c \in ConvoId : c # x.doc => documents'[c] = documents[c]
      /\ IsStart(x) => startedBy[x.doc] = u /\ k \in Starts(pending[u], x.doc)
      /\ ~IsStart(x) => documents[x.doc] # NoDocument
  BY <1>1, AppliedFacts
<1>3. /\ IsStart(x) => documents'[x.doc].users = x.users
      /\ ~IsStart(x) => documents'[x.doc].users = documents[x.doc].users
  BY <1>1, AppliedDocument
<1> SUFFICES ASSUME NEW c \in ConvoId, NEW v \in User, NEW i \in Starts(pending[v], c),
                    documents'[c] # NoDocument
             PROVE  documents'[c].users = pending[v][i].users
  BY <1>2 DEF UsersInv
<1>4. CASE c # x.doc
  BY <1>2, <1>4 DEF DataInv, UsersInv
<1>5. CASE c = x.doc /\ ~IsStart(x)
  BY <1>2, <1>3, <1>5 DEF DataInv, UsersInv
<1>6. CASE c = x.doc /\ IsStart(x)
  <2>1. i \in DOMAIN pending[v] /\ pending[v][i].doc = c /\ IsStart(pending[v][i])
    BY DEF Starts
  <2>2. v = u
    BY <1>2, <1>6, <2>1 DEF DataInv, LogInv
  <2>3. k \in Starts(pending[u], c) /\ pending[u][k].doc = c
    BY <1>1, <1>2, <1>6
  <2>4. i <= k /\ k <= i
    BY <1>2, <2>1, <2>2, <2>3 DEF DataInv, LogInv, StartsFirst
  <2>5. i = k
    BY <1>2, <2>1, <2>2, <2>4, StateTypes
  <2> QED BY <1>1, <1>3, <1>6, <2>2, <2>5
<1> QED BY <1>4, <1>5, <1>6

LEMMA AppliedData ==
  ASSUME TypeOK, DataInv, NEW u \in User, ServerApplies(u)
  PROVE  DataInv'
BY AppliedLog, AppliedOnce, AppliedStays, AppliedUsers DEF DataInv

(* Without a document and a posting there is nothing to say. *)
LEMMA NothingSaid ==
  ASSUME TypeOK, DataInv, NEW u \in User, NEW c \in ConvoId,
         documents[c] = NoDocument, Starts(pending[u], c) = {}
  PROVE  Said(pending[u], c) = {}
<1> SUFFICES ASSUME NEW i \in DOMAIN pending[u], pending[u][i].doc = c PROVE FALSE
  BY DEF Said
<1>1. ~IsStart(pending[u][i])
  BY DEF Starts
<1>2. \E j \in 1..i - 1 : pending[u][j].doc = c /\ IsStart(pending[u][j])
  BY <1>1 DEF DataInv, UpdatesFindTheirConversation
<1>3. DOMAIN pending[u] = 1..Len(pending[u]) /\ Len(pending[u]) \in Nat
  BY StateTypes
<1>4. \A j \in 1..i - 1 : j \in DOMAIN pending[u]
  BY <1>3
<1> QED BY <1>2, <1>4 DEF Starts

(* A step of the server adds nothing to what users see of themselves, and      *)
(* takes nothing from it in a conversation of their own.                       *)
LEMMA AppliedSeen ==
  ASSUME TypeOK, DataInv, NEW u \in User, ServerApplies(u), NEW v \in User, NEW c \in ConvoId
  PROVE  /\ OwnMessages(v, c)' \subseteq OwnMessages(v, c)
         /\ startedBy[c] = v => OwnMessages(v, c)' = OwnMessages(v, c)
         /\ startedBy[c] = v => UsersOf(v, c)' = UsersOf(v, c)
<1>1. PICK k, x : k = applied[u] + 1 /\ x = pending[u][k]
  OBVIOUS
<1>2. /\ k \in DOMAIN pending[u] /\ x \in Write /\ x.doc \in ConvoId
      /\ pending' = pending
      /\ c # x.doc => documents'[c] = documents[c]
      /\ x.message.sender = u
      /\ IsStart(x) => startedBy[x.doc] = u /\ k \in Starts(pending[u], x.doc)
      /\ ~IsStart(x) => documents[x.doc] # NoDocument
  BY <1>1, AppliedFacts
<1>3. /\ documents'[x.doc] \in Conversation /\ documents'[x.doc] # NoDocument
      /\ IsStart(x) => Elements(documents'[x.doc].messages) = {x.message}
      /\ ~IsStart(x) => /\ documents'[x.doc].users = documents[x.doc].users
                        /\ Elements(documents'[x.doc].messages) =
                              Elements(documents[x.doc].messages) \cup {x.message}
  BY <1>1, AppliedDocument
<1>4. PICK s, d, e : s = pending[v] /\ d = documents[c] /\ e = documents'[c]
  OBVIOUS
<1>5. /\ OwnMessages(v, c) = OwnSeen(d, s, c, v)
      /\ OwnMessages(v, c)' = OwnSeen(e, s, c, v)
      /\ UsersOf(v, c) = View(d, s, c).users
      /\ UsersOf(v, c)' = View(e, s, c).users
  BY <1>2, <1>4, OwnMessagesAreSeen, LocalIsView DEF UsersOf
<1>6. CASE c # x.doc
  BY <1>2, <1>4, <1>5, <1>6
<1>7. CASE c = x.doc
  <2>1. /\ StartsFirst(s, c) /\ s \in Seq(Write)
        /\ \A i \in DOMAIN s : s[i].message.sender = v
        /\ d \in Conversation \cup {NoDocument} /\ e \in Conversation \cup {NoDocument}
        /\ e # NoDocument
    BY <1>3, <1>4, <1>7, StateTypes DEF DataInv, LogInv
  <2>2. /\ Starts(s, c) # {} => OwnSeen(d, s, c, v) = Said(s, c)
        /\ (Starts(s, c) = {} /\ d # NoDocument) =>
              OwnSeen(d, s, c, v) = Said(s, c) \cup OwnIn(d, v)
        /\ (Starts(s, c) = {} /\ d = NoDocument) => OwnSeen(d, s, c, v) = {}
    BY ONLY <2>1, OwnSeenFacts
  <2>3. /\ Starts(s, c) # {} => OwnSeen(e, s, c, v) = Said(s, c)
        /\ (Starts(s, c) = {} /\ e # NoDocument) =>
              OwnSeen(e, s, c, v) = Said(s, c) \cup OwnIn(e, v)
        /\ (Starts(s, c) = {} /\ e = NoDocument) => OwnSeen(e, s, c, v) = {}
    BY ONLY <2>1, OwnSeenFacts
  <2>4. /\ \A i \in Starts(s, c) : View(d, s, c).users = s[i].users
        /\ (d # NoDocument /\ Starts(s, c) = {}) => View(d, s, c).users = d.users
    BY ONLY <2>1, ViewUsers
  <2>5. /\ \A i \in Starts(s, c) : View(e, s, c).users = s[i].users
        /\ (e # NoDocument /\ Starts(s, c) = {}) => View(e, s, c).users = e.users
    BY ONLY <2>1, ViewUsers
  <2>6. CASE Starts(s, c) # {}
    BY <1>5, <2>2, <2>3, <2>4, <2>5, <2>6
  <2>7. CASE Starts(s, c) = {} /\ ~IsStart(x)
    <3>1. d # NoDocument /\ e.users = d.users
      BY <1>2, <1>3, <1>4, <1>7, <2>7
    <3>2. Elements(e.messages) = Elements(d.messages) \cup {x.message}
      BY <1>3, <1>4, <1>7, <2>7
    <3>3. v = u => x.message \in Said(s, c)
      BY <1>1, <1>2, <1>4, <1>7 DEF Said
    <3>4. Said(s, c) \cup OwnIn(e, v) = Said(s, c) \cup OwnIn(d, v)
      BY <1>2, <3>2, <3>3 DEF OwnIn
    <3> QED BY <1>5, <2>1, <2>2, <2>3, <2>4, <2>5, <2>7, <3>1, <3>4
  <2>8. CASE Starts(s, c) = {} /\ IsStart(x)
    <3>1. v # u /\ startedBy[c] = u
      BY <1>2, <1>4, <1>7, <2>8
    <3>2. OwnIn(e, v) = {}
      BY <1>2, <1>3, <1>4, <1>7, <2>8, <3>1 DEF OwnIn
    <3>3. d = NoDocument => Said(s, c) = {}
      BY <1>4, <2>8, NothingSaid
    <3> QED BY <1>5, <2>1, <2>2, <2>3, <2>8, <3>1, <3>2, <3>3
  <2> QED BY <2>6, <2>7, <2>8
<1> QED BY <1>6, <1>7
-----------------------------------------------------------------------------
(* The head of a log is acknowledged. *)

LEMMA AcknowledgedFacts ==
  ASSUME TypeOK, DataInv, NEW u \in User, Acknowledged(u),
         NEW s, s = pending[u], NEW t, t = Tail(s)
  PROVE  /\ Shortened(s, t) /\ pending'[u] = t
         /\ \A v \in User : v # u => pending'[v] = pending[v] /\ applied'[v] = applied[v]
         /\ applied[u] \in Nat /\ 1 <= applied[u] /\ applied'[u] = applied[u] - 1
         /\ documents' = documents /\ startedBy' = startedBy
         /\ UNCHANGED <<page, list, lookedUp>>
<1>1. /\ applied[u] > 0
      /\ pending' = [pending EXCEPT ![u] = Tail(@)]
      /\ applied' = [applied EXCEPT ![u] = @ - 1]
      /\ UNCHANGED <<documents, page, list, startedBy, lookedUp>>
  BY DEF Acknowledged, Log!Acknowledge, history
<1>2. /\ s \in Seq(Write) /\ Len(s) \in Nat /\ applied[u] \in Nat /\ applied[u] <= Len(s)
  BY StateTypes DEF DataInv, LogInv
<1>3. pending'[u] = t /\ applied'[u] = applied[u] - 1
  BY <1>1 DEF TypeOK
<1>4. \A v \in User : v # u => pending'[v] = pending[v] /\ applied'[v] = applied[v]
  BY <1>1 DEF TypeOK
<1>5. Len(s) > 0 /\ 1 <= applied[u]
  BY <1>1, <1>2
<1>6. Shortened(s, t)
  BY <1>2, <1>5 DEF Shortened
<1> QED BY <1>1, <1>2, <1>3, <1>4, <1>5, <1>6

(* The acknowledged write is in its document; what else it says of the log.    *)
LEMMA AcknowledgedHead ==
  ASSUME TypeOK, DataInv, NEW u \in User, Acknowledged(u), NEW c \in ConvoId,
         startedBy[c] = u, pending[u][1].doc = c
  PROVE  /\ documents[c] # NoDocument
         /\ pending[u][1].message \in OwnIn(documents[c], u)
         /\ IsStart(pending[u][1]) => OwnIn(documents[c], u) \subseteq Said(pending[u], c)
<1>1. PICK s, t : s = pending[u] /\ t = Tail(s)
  OBVIOUS
<1>2. 1 <= applied[u] /\ Shortened(s, t)
  BY <1>1, AcknowledgedFacts
<1>3. 1 \in DOMAIN pending[u]
  BY <1>1, <1>2, TailLog
<1>4. pending[u][1].message.sender = u
  BY <1>3 DEF DataInv, LogInv
<1>5. IsStart(pending[u][1]) => 1 \in Starts(pending[u], c)
  BY <1>3 DEF Starts
<1> QED BY <1>2, <1>3, <1>4, <1>5 DEF DataInv, AppliedInv, OwnIn

LEMMA AcknowledgedLog ==
  ASSUME TypeOK, DataInv, NEW u \in User, Acknowledged(u)
  PROVE  LogInv'
<1>1. PICK s, t : s = pending[u] /\ t = Tail(s)
  OBVIOUS
<1>2. /\ Shortened(s, t) /\ pending'[u] = t
      /\ \A v \in User : v # u => pending'[v] = pending[v] /\ applied'[v] = applied[v]
      /\ applied[u] \in Nat /\ 1 <= applied[u] /\ applied'[u] = applied[u] - 1
      /\ startedBy' = startedBy
  BY <1>1, AcknowledgedFacts
<1>3. /\ Len(s) \in Nat /\ Len(t) = Len(s) - 1
      /\ DOMAIN s = 1..Len(s) /\ DOMAIN t = 1..Len(s) - 1
      /\ \A i \in DOMAIN t : i + 1 \in DOMAIN s /\ t[i] = s[i + 1]
  BY <1>2, TailLog
<1>4. /\ applied[u] <= Len(s)
      /\ \A i \in DOMAIN s : /\ s[i].message.sender = u
                             /\ startedBy[s[i].doc] # Nobody
                             /\ IsStart(s[i]) => startedBy[s[i].doc] = u
      /\ \A c \in ConvoId : StartsFirst(s, c)
  BY <1>1 DEF DataInv, LogInv
<1>5. ASSUME NEW c \in ConvoId PROVE StartsFirst(t, c)
  <2> SUFFICES ASSUME NEW i \in Starts(t, c), NEW j \in DOMAIN t, t[j].doc = c
               PROVE  i <= j
    BY DEF StartsFirst
  <2>1. i \in DOMAIN t /\ i + 1 \in Starts(s, c)
    BY <1>3 DEF Starts
  <2>2. j + 1 \in DOMAIN s /\ s[j + 1].doc = c
    BY <1>3
  <2>3. i + 1 <= j + 1
    BY <1>4, <2>1, <2>2 DEF StartsFirst
  <2>4. i \in Nat /\ j \in Nat
    BY <1>3, <2>1
  <2> QED BY <2>3, <2>4
<1>6. applied[u] - 1 <= Len(t)
  BY <1>2, <1>3, <1>4
<1>7. \A i \in DOMAIN t : /\ t[i].message.sender = u
                          /\ startedBy[t[i].doc] # Nobody
                          /\ IsStart(t[i]) => startedBy[t[i].doc] = u
  BY <1>3, <1>4
<1>8. ASSUME NEW v \in User, v # u
      PROVE  /\ applied'[v] <= Len(pending'[v])
             /\ \A i \in DOMAIN pending'[v] :
                   /\ pending'[v][i].message.sender = v
                   /\ startedBy'[pending'[v][i].doc] # Nobody
                   /\ IsStart(pending'[v][i]) => startedBy'[pending'[v][i].doc] = v
             /\ \A c \in ConvoId : StartsFirst(pending'[v], c)
  BY <1>2, <1>8 DEF DataInv, LogInv
<1> QED BY <1>2, <1>5, <1>6, <1>7, <1>8 DEF LogInv

LEMMA AcknowledgedKnown ==
  ASSUME TypeOK, DataInv, NEW u \in User, Acknowledged(u),
         NEW v \in User, NEW c \in ConvoId, Known(v, c)
  PROVE  Known(v, c)'
<1>1. PICK s, t : s = pending[u] /\ t = Tail(s)
  OBVIOUS
<1>2. /\ Shortened(s, t) /\ pending'[u] = t
      /\ \A w \in User : w # u => pending'[w] = pending[w]
      /\ 1 <= applied[u]
      /\ documents' = documents
  BY <1>1, AcknowledgedFacts
<1>3. CASE v # u \/ documents[c] # NoDocument
  BY <1>2, <1>3 DEF Known
<1>4. CASE v = u /\ documents[c] = NoDocument
  <2>1. PICK i \in Starts(s, c) : TRUE
    BY <1>1, <1>4 DEF Known
  <2>2. i \in DOMAIN s /\ s[i].doc = c /\ IsStart(s[i])
    BY DEF Starts
  <2>3. startedBy[c] = u
    BY <1>1, <2>2 DEF DataInv, LogInv
  <2>4. i # 1
    BY <1>1, <1>4, <2>2, <2>3, AcknowledgedHead
  <2>5. i - 1 \in Starts(t, c)
    BY <1>2, <2>4, TailWrites
  <2> QED BY <1>2, <1>4, <2>5 DEF Known
<1> QED BY <1>3, <1>4

LEMMA AcknowledgedFinds ==
  ASSUME TypeOK, DataInv, NEW u \in User, Acknowledged(u)
  PROVE  UpdatesFindTheirConversation'
<1>1. PICK s, t, n : s = pending[u] /\ t = Tail(s) /\ n = applied[u]
  OBVIOUS
<1>2. /\ Shortened(s, t) /\ pending'[u] = t
      /\ \A v \in User : v # u => pending'[v] = pending[v] /\ applied'[v] = applied[v]
      /\ n \in Nat /\ 1 <= n /\ applied'[u] = n - 1
      /\ documents' = documents
  BY <1>1, AcknowledgedFacts
<1>3. /\ Len(s) \in Nat
      /\ DOMAIN s = 1..Len(s) /\ DOMAIN t = 1..Len(s) - 1
      /\ \A i \in DOMAIN t : i + 1 \in DOMAIN s /\ t[i] = s[i + 1]
      /\ \A i \in DOMAIN s : i = 1 \/ (i - 1 \in DOMAIN t /\ t[i - 1] = s[i])
  BY <1>2, TailLog
<1>4. \A v \in User : Finds(pending[v], applied[v])
  BY DEF DataInv, UpdatesFindTheirConversation, Finds
<1>5. Finds(t, n - 1)
  <2> SUFFICES ASSUME NEW i \in DOMAIN t, ~IsStart(t[i]),
                      documents[t[i].doc] = NoDocument
               PROVE  i > n - 1 /\ \E j \in 1..i - 1 :
                         t[j].doc = t[i].doc /\ IsStart(t[j])
    BY DEF Finds
  <2>1. i + 1 \in DOMAIN s /\ t[i] = s[i + 1] /\ i \in Nat
    BY <1>3
  <2>2. i + 1 > n /\ \E j \in 1..i + 1 - 1 : s[j].doc = s[i + 1].doc /\ IsStart(s[j])
    BY <1>1, <1>4, <2>1 DEF Finds
  <2>3. PICK j \in 1..i : s[j].doc = t[i].doc /\ IsStart(s[j])
    BY <2>1, <2>2
  <2>4. j \in DOMAIN s
    BY <1>3, <2>1
  <2>5. startedBy[t[i].doc] = u /\ t[i].doc \in ConvoId
    BY <1>1, <2>1, <2>3, <2>4, StateTypes DEF DataInv, LogInv
  <2>6. j # 1
    BY <1>1, <2>3, <2>5, AcknowledgedHead
  <2>7. t[j - 1] = s[j] /\ j - 1 \in 1..i - 1
    BY <1>3, <2>1, <2>4, <2>6
  <2>8. i > n - 1
    BY <1>2, <2>1, <2>2
  <2> QED BY <2>3, <2>7, <2>8
<1>6. \A v \in User : Finds(pending'[v], applied'[v])
  BY <1>2, <1>4, <1>5
<1> QED BY <1>2, <1>6 DEF UpdatesFindTheirConversation, Finds

LEMMA AcknowledgedStays ==
  ASSUME TypeOK, DataInv, NEW u \in User, Acknowledged(u)
  PROVE  AppliedInv'
<1>1. PICK s, t, n : s = pending[u] /\ t = Tail(s) /\ n = applied[u]
  OBVIOUS
<1>2. /\ Shortened(s, t) /\ pending'[u] = t
      /\ \A v \in User : v # u => pending'[v] = pending[v] /\ applied'[v] = applied[v]
      /\ n \in Nat /\ 1 <= n /\ applied'[u] = n - 1
      /\ documents' = documents /\ startedBy' = startedBy
  BY <1>1, AcknowledgedFacts
<1>3. /\ Len(s) \in Nat
      /\ DOMAIN s = 1..Len(s) /\ DOMAIN t = 1..Len(s) - 1
      /\ \A i \in DOMAIN t : i + 1 \in DOMAIN s /\ t[i] = s[i + 1]
      /\ 1 \in DOMAIN s
  BY <1>2, TailLog
<1> SUFFICES ASSUME NEW c \in ConvoId, NEW v \in User, startedBy[c] = v
             PROVE  /\ \A i \in DOMAIN pending'[v] :
                          (i <= applied'[v] /\ pending'[v][i].doc = c) =>
                             /\ documents[c] # NoDocument
                             /\ pending'[v][i].message \in Elements(documents[c].messages)
                    /\ \A i \in Starts(pending'[v], c) : i <= applied'[v] =>
                          OwnIn(documents[c], v) \subseteq Said(pending'[v], c)
  BY <1>2 DEF AppliedInv, OwnIn
<1>4. /\ \A i \in DOMAIN pending[v] : (i <= applied[v] /\ pending[v][i].doc = c) =>
            /\ documents[c] # NoDocument
            /\ pending[v][i].message \in Elements(documents[c].messages)
      /\ \A i \in Starts(pending[v], c) : i <= applied[v] =>
            OwnIn(documents[c], v) \subseteq Said(pending[v], c)
  BY DEF DataInv, AppliedInv
<1>5. CASE v # u
  BY <1>2, <1>4, <1>5
<1>6. CASE v = u
  <2>1. ASSUME NEW i \in DOMAIN t, i <= n - 1, t[i].doc = c
        PROVE  /\ documents[c] # NoDocument
               /\ t[i].message \in Elements(documents[c].messages)
    <3>1. i + 1 \in DOMAIN s /\ i + 1 <= n /\ s[i + 1].doc = c /\ t[i] = s[i + 1]
      BY <1>2, <1>3, <2>1
    <3> QED BY <1>1, <1>4, <1>6, <3>1
  <2>2. ASSUME NEW i \in Starts(t, c), i <= n - 1
        PROVE  OwnIn(documents[c], u) \subseteq Said(t, c)
    <3>1. i \in DOMAIN t /\ i \in Nat
      BY <1>3 DEF Starts
    <3>2. i + 1 \in Starts(s, c) /\ i + 1 <= n
      BY <1>2, <2>2, <3>1, TailWrites
    <3>3. s[1].doc # c
      <4>1. ASSUME s[1].doc = c PROVE i + 1 <= 1
        BY <1>1, <1>3, <3>2, <4>1 DEF DataInv, LogInv, StartsFirst
      <4> QED BY <1>3, <3>1, <4>1
    <3>4. Said(t, c) = Said(s, c)
      BY <1>2, <3>3, TailWrites
    <3> QED BY <1>1, <1>4, <1>6, <3>2, <3>4
  <2> QED BY <1>2, <1>6, <2>1, <2>2
<1> QED BY <1>5, <1>6

LEMMA AcknowledgedData ==
  ASSUME TypeOK, DataInv, NEW u \in User, Acknowledged(u)
  PROVE  DataInv'
<1>1. PICK s, t : s = pending[u] /\ t = Tail(s)
  OBVIOUS
<1>2. /\ Shortened(s, t) /\ pending'[u] = t
      /\ \A v \in User : v # u => pending'[v] = pending[v]
      /\ documents' = documents /\ startedBy' = startedBy
  BY <1>1, AcknowledgedFacts
<1>3. StartedInv'
  <2>1. \A c \in ConvoId : documents'[c] # NoDocument => startedBy'[c] # Nobody
    BY <1>2 DEF DataInv, StartedInv
  <2>2. ASSUME NEW c \in ConvoId, NEW v \in User, startedBy'[c] = v PROVE Known(v, c)'
    BY <1>2, <2>2, AcknowledgedKnown DEF DataInv, StartedInv
  <2> QED BY <2>1, <2>2 DEF StartedInv
<1>4. UsersInv'
  <2> SUFFICES ASSUME NEW c \in ConvoId, NEW v \in User, NEW i \in Starts(pending'[v], c),
                      documents[c] # NoDocument
               PROVE  documents[c].users = pending'[v][i].users
    BY <1>2 DEF UsersInv
  <2>1. CASE v # u
    BY <1>2, <2>1 DEF DataInv, UsersInv
  <2>2. CASE v = u
    <3>1. i \in DOMAIN t
      BY <1>2, <2>2 DEF Starts
    <3>2. i + 1 \in Starts(s, c) /\ t[i] = s[i + 1]
      BY <1>2, <2>2, <3>1, TailLog, TailWrites
    <3> QED BY <1>1, <1>2, <2>2, <3>2 DEF DataInv, UsersInv
  <2> QED BY <2>1, <2>2
<1>5. NoMessageTwice'
  BY <1>2 DEF DataInv, NoMessageTwice
<1> QED BY <1>3, <1>4, <1>5, AcknowledgedLog, AcknowledgedFinds, AcknowledgedStays DEF DataInv
LEMMA AcknowledgedSeen ==
  ASSUME TypeOK, DataInv, NEW u \in User, Acknowledged(u), NEW v \in User, NEW c \in ConvoId
  PROVE  /\ OwnMessages(v, c)' \subseteq OwnMessages(v, c)
         /\ startedBy[c] = v => OwnMessages(v, c)' = OwnMessages(v, c)
         /\ startedBy[c] = v => UsersOf(v, c)' = UsersOf(v, c)
<1>1. PICK s, t, d : s = pending[u] /\ t = Tail(s) /\ d = documents[c]
  OBVIOUS
<1>2. /\ Shortened(s, t) /\ pending'[u] = t
      /\ v # u => pending'[v] = pending[v]
      /\ documents' = documents
  BY <1>1, AcknowledgedFacts
<1>3. /\ OwnMessages(v, c) = OwnSeen(documents[c], pending[v], c, v)
      /\ OwnMessages(v, c)' = OwnSeen(documents'[c], pending'[v], c, v)
      /\ UsersOf(v, c) = View(documents[c], pending[v], c).users
      /\ UsersOf(v, c)' = View(documents'[c], pending'[v], c).users
  BY OwnMessagesAreSeen, LocalIsView DEF UsersOf
<1>4. CASE v # u
  BY <1>2, <1>3, <1>4
<1>5. CASE v = u
  <2>1. /\ OwnMessages(v, c) = OwnSeen(d, s, c, u)
        /\ OwnMessages(v, c)' = OwnSeen(d, t, c, u)
        /\ UsersOf(v, c) = View(d, s, c).users
        /\ UsersOf(v, c)' = View(d, t, c).users
    BY <1>1, <1>2, <1>3, <1>5
  <2>2. /\ StartsFirst(s, c) /\ s \in Seq(Write)
        /\ \A i \in DOMAIN s : s[i].message.sender = u
        /\ d \in Conversation \cup {NoDocument}
    BY <1>1, StateTypes DEF DataInv, LogInv
  <2>3. /\ StartsFirst(t, c) /\ t \in Seq(Write)
        /\ \A i \in DOMAIN t : t[i].message.sender = u
        /\ d \in Conversation \cup {NoDocument}
    BY <1>2, <2>2, AcknowledgedLog, TailLog DEF LogInv
  <2>4. /\ Starts(s, c) # {} => OwnSeen(d, s, c, u) = Said(s, c)
        /\ (Starts(s, c) = {} /\ d # NoDocument) =>
              OwnSeen(d, s, c, u) = Said(s, c) \cup OwnIn(d, u)
        /\ (Starts(s, c) = {} /\ d = NoDocument) => OwnSeen(d, s, c, u) = {}
    BY ONLY <2>2, OwnSeenFacts
  <2>5. /\ Starts(t, c) # {} => OwnSeen(d, t, c, u) = Said(t, c)
        /\ (Starts(t, c) = {} /\ d # NoDocument) =>
              OwnSeen(d, t, c, u) = Said(t, c) \cup OwnIn(d, u)
        /\ (Starts(t, c) = {} /\ d = NoDocument) => OwnSeen(d, t, c, u) = {}
    BY ONLY <2>3, OwnSeenFacts
  <2>6. /\ \A i \in Starts(s, c) : View(d, s, c).users = s[i].users
        /\ (d # NoDocument /\ Starts(s, c) = {}) => View(d, s, c).users = d.users
    BY ONLY <2>2, ViewUsers
  <2>7. /\ \A i \in Starts(t, c) : View(d, t, c).users = t[i].users
        /\ (d # NoDocument /\ Starts(t, c) = {}) => View(d, t, c).users = d.users
    BY ONLY <2>3, ViewUsers
  <2>8. /\ \A i \in Starts(t, c) : i + 1 \in Starts(s, c) /\ t[i] = s[i + 1]
        /\ \A i \in Starts(s, c) : i = 1 \/ i - 1 \in Starts(t, c)
        /\ s[1].doc # c => Said(t, c) = Said(s, c)
        /\ s[1].doc = c => Said(s, c) = Said(t, c) \cup {s[1].message}
        /\ DOMAIN s = 1..Len(s) /\ Len(s) \in Nat /\ 1 \in DOMAIN s
    BY <1>2, TailLog, TailWrites DEF Starts
  <2>9. startedBy[c] = u => d # NoDocument \/ Starts(s, c) # {}
    BY <1>1 DEF DataInv, StartedInv, Known
  <2>10. CASE s[1].doc # c
    <3>1. 1 \notin Starts(s, c)
      BY <2>10 DEF Starts
    <3>2. Starts(t, c) = {} <=> Starts(s, c) = {}
      BY <2>8, <3>1
    <3>3. OwnMessages(v, c)' = OwnMessages(v, c)
      BY <2>1, <2>4, <2>5, <2>8, <2>10, <3>2
    <3>4. startedBy[c] = v => UsersOf(v, c)' = UsersOf(v, c)
      <4>1. CASE Starts(t, c) # {}
        BY <2>1, <2>6, <2>7, <2>8, <4>1
      <4>2. CASE Starts(t, c) = {}
        BY <1>5, <2>1, <2>6, <2>7, <2>9, <3>2, <4>2
      <4> QED BY <4>1, <4>2
    <3> QED BY <3>3, <3>4
  <2>11. CASE s[1].doc = c
    <3>1. \A i \in Starts(s, c) : i \in DOMAIN s /\ i <= 1 /\ IsStart(s[i])
      BY <2>2, <2>8, <2>11 DEF Starts, StartsFirst
    <3>2. \A i \in Starts(s, c) : i = 1 /\ IsStart(s[1])
      BY <2>8, <3>1
    <3>3. Starts(t, c) = {}
      <4>1. \A i \in Starts(t, c) : i \in DOMAIN t /\ i + 1 = 1
        BY <2>8, <3>2 DEF Starts
      <4>2. DOMAIN t = 1..Len(t) /\ Len(t) \in Nat
        BY <2>3, LenProperties
      <4> QED BY <4>1, <4>2
    <3>4. startedBy[c] = u =>
             /\ d # NoDocument /\ s[1].message \in OwnIn(d, u)
             /\ IsStart(s[1]) => OwnIn(d, u) \subseteq Said(s, c)
      BY <1>1, <2>11, AcknowledgedHead
    <3>5. CASE IsStart(s[1])
      <4>1. startedBy[c] = u
        BY <1>1, <2>8, <2>11, <3>5 DEF DataInv, LogInv
      <4>2. 1 \in Starts(s, c)
        BY <2>8, <2>11, <3>5 DEF Starts
      <4>3. d.users = s[1].users
        BY <1>1, <3>4, <4>1, <4>2 DEF DataInv, UsersInv
      <4>4. Said(s, c) = Said(t, c) \cup OwnIn(d, u)
        BY <2>8, <2>11, <3>4, <3>5, <4>1
      <4> QED BY <2>1, <2>4, <2>5, <2>6, <2>7, <3>3, <3>4, <4>1, <4>2, <4>3, <4>4
    <3>6. CASE ~IsStart(s[1])
      <4>1. Starts(s, c) = {}
        BY <3>2, <3>6
      <4>2. Said(t, c) \subseteq Said(s, c)
        BY <2>8, <2>11
      <4>3. OwnMessages(v, c)' \subseteq OwnMessages(v, c)
        BY <2>1, <2>4, <2>5, <3>3, <4>1, <4>2
      <4>4. ASSUME startedBy[c] = v PROVE OwnMessages(v, c)' = OwnMessages(v, c)
        <5>1. d # NoDocument /\ s[1].message \in OwnIn(d, u)
          BY <1>5, <3>4, <4>4
        <5>2. OwnMessages(v, c) = Said(s, c) \cup OwnIn(d, u)
          BY <2>1, <2>4, <4>1, <5>1
        <5>3. OwnMessages(v, c)' = Said(t, c) \cup OwnIn(d, u)
          BY <2>1, <2>5, <3>3, <5>1
        <5>4. Said(s, c) = Said(t, c) \cup {s[1].message}
          BY <2>8, <2>11
        <5> QED BY <5>1, <5>2, <5>3, <5>4
      <4>5. startedBy[c] = v => UsersOf(v, c)' = UsersOf(v, c)
        BY <1>5, <2>1, <2>6, <2>7, <2>9, <3>3, <4>1
      <4> QED BY <4>3, <4>4, <4>5
    <3> QED BY <3>5, <3>6
  <2> QED BY <2>10, <2>11
<1> QED BY <1>4, <1>5

-----------------------------------------------------------------------------
(* The connection is lost. *)

LEMMA LostFacts ==
  ASSUME TypeOK, NEW u \in User, ConnectionLost(u)
  PROVE  /\ \A v \in User : applied'[v] = applied[v] \/ applied'[v] = 0
         /\ UNCHANGED <<documents, pending, page, list, startedBy, lookedUp>>
BY DEF TypeOK, ConnectionLost, Log!Reconnect, history

LEMMA LostData ==
  ASSUME TypeOK, DataInv, NEW u \in User, ConnectionLost(u)
  PROVE  DataInv'
<1>1. /\ \A v \in User : applied'[v] = applied[v] \/ applied'[v] = 0
      /\ UNCHANGED <<documents, pending, page, list, startedBy, lookedUp>>
  BY LostFacts
<1>2. \A v \in User : /\ applied[v] \in Nat /\ Len(pending[v]) \in Nat
                      /\ DOMAIN pending[v] = 1..Len(pending[v])
  BY StateTypes
<1>3. LogInv'
  <2>1. \A v \in User : applied'[v] <= Len(pending[v])
    BY <1>1, <1>2 DEF DataInv, LogInv
  <2> QED BY <1>1, <2>1 DEF DataInv, LogInv, StartsFirst, Starts
<1>4. StartedInv' /\ NoMessageTwice' /\ UsersInv'
  BY <1>1 DEF DataInv, StartedInv, NoMessageTwice, UsersInv, Known, Starts
<1>5. UpdatesFindTheirConversation'
  <2>1. \A v \in User : \A i \in DOMAIN pending[v] : i > applied[v] => i > applied'[v]
    BY <1>1, <1>2
  <2> QED BY <1>1, <2>1 DEF DataInv, UpdatesFindTheirConversation
<1>6. AppliedInv'
  <2>1. \A v \in User : \A i \in DOMAIN pending[v] : i <= applied'[v] => i <= applied[v]
    BY <1>1, <1>2
  <2>2. \A v \in User : \A c \in ConvoId : Starts(pending[v], c) \subseteq DOMAIN pending[v]
    BY DEF Starts
  <2> QED BY <1>1, <2>1, <2>2 DEF DataInv, AppliedInv, OwnIn, Said, Starts
<1> QED BY <1>3, <1>4, <1>5, <1>6 DEF DataInv

LEMMA SameSeen ==
  ASSUME UNCHANGED <<documents, pending>>, NEW v \in User, NEW c \in ConvoId
  PROVE  /\ OwnMessages(v, c)' = OwnMessages(v, c)
         /\ UsersOf(v, c)' = UsersOf(v, c)
         /\ Known(v, c)' = Known(v, c)
<1>1. UsersOf(v, c)' = UsersOf(v, c)
  BY OwnMessagesAreSeen, LocalIsView DEF UsersOf
<1> QED BY <1>1, OwnMessagesAreSeen DEF Known
-----------------------------------------------------------------------------
(* Pages. *)

LEMMA PageKinds ==
  ASSUME NEW p \in Page
  PROVE  /\ p.name = "chat" => /\ p.docID \in ConvoId /\ p.messages \in Seq(Message)
                               /\ p.sent \in BOOLEAN /\ p.asked \in Nat
         /\ p.name = "new" => /\ p.sendToID \in User
                              /\ p.docID \in ConvoId \cup {NoConversation}
                              /\ p.answered \in BOOLEAN
BY DEF Page, HomePage, ListPage

LEMMA TabKinds ==
  ASSUME NEW tab \in TabType, tab.made
  PROVE  tab.conversations \in SUBSET ConvoId /\ tab.awaiting \in SUBSET {1, 2}
<1>1. CASE tab = [made |-> FALSE]
  <2>1. tab.made = FALSE
    BY <1>1
  <2> QED BY <2>1
<1>2. CASE tab \in [made : {TRUE}, conversations : SUBSET ConvoId, awaiting : SUBSET {1, 2}]
  BY <1>2
<1> QED BY <1>1, <1>2 DEF TabType, NotMade

LEMMA PagesMade ==
  /\ HomePage \in Page /\ ListPage \in Page
  /\ \A v \in User, c \in ConvoId \cup {NoConversation}, a \in BOOLEAN : NewPage(v, c, a) \in Page
  /\ \A c \in ConvoId, m \in Seq(Message), sent \in BOOLEAN, n \in Nat :
        ChatPage(c, m, sent, n) \in Page
BY DEF Page, HomePage, ListPage, NewPage, ChatPage

LEMMA TabsMade ==
  /\ NotMade \in TabType
  /\ \A cs \in SUBSET ConvoId, qs \in SUBSET {1, 2} : Tab(cs, qs) \in TabType
BY DEF TabType, NotMade, Tab

(* Nothing is claimed of these. *)
LEMMA PlainPages ==
  ASSUME NEW u, NEW p \in {HomePage, ListPage}
  PROVE  PageOK(u, p)'
BY DEF PageOK, HomePage, ListPage

(* What makes a page that stays right remain so. *)
LEMMA PageStays ==
  ASSUME NEW u \in User, NEW p \in Page, PageOK(u, p),
         \A c \in ConvoId :
            /\ Known(u, c) => Known(u, c)'
            /\ OwnMessages(u, c)' \subseteq OwnMessages(u, c)
            /\ startedBy'[c] = u => startedBy[c] = u /\ UsersOf(u, c)' = UsersOf(u, c)
  PROVE  PageOK(u, p)'
<1>1. CASE p.name = "chat"
  <2>1. /\ p.docID \in ConvoId /\ Known(u, p.docID)
        /\ (p.sent /\ p.asked = 0) => OwnMessages(u, p.docID) \subseteq Elements(p.messages)
    BY <1>1, PageKinds DEF PageOK
  <2>2. PICK c \in ConvoId : c = p.docID
    BY <2>1
  <2>3. Known(u, c)' /\ OwnMessages(u, c)' \subseteq OwnMessages(u, c)
    BY <2>1, <2>2
  <2>4. Known(u, p.docID)'
    BY <2>2, <2>3
  <2>5. (p.sent /\ p.asked = 0) => OwnMessages(u, p.docID)' \subseteq Elements(p.messages)
    BY <2>1, <2>2, <2>3
  <2> QED BY <1>1, <2>4, <2>5 DEF PageOK
<1>2. CASE p.name = "new"
  <2>1. p.docID # NoConversation => Known(u, p.docID)'
    BY <1>2, PageKinds DEF PageOK
  <2>2. (p.docID = NoConversation /\ p.answered) =>
           \A c \in ConvoId : startedBy'[c] = u => UsersOf(u, c)' # Pair(u, p.sendToID)
    BY <1>2 DEF PageOK
  <2> QED BY <1>2, <2>1, <2>2 DEF PageOK
<1>3. CASE p.name # "chat" /\ p.name # "new"
  BY <1>3 DEF PageOK
<1> QED BY <1>1, <1>2, <1>3

LEMMA TabStays ==
  ASSUME NEW u \in User, NEW tab \in TabType, TabOK(u, tab),
         \A c \in ConvoId : Known(u, c) => Known(u, c)'
  PROVE  TabOK(u, tab)'
BY TabKinds DEF TabOK

-----------------------------------------------------------------------------
(* Steps that only turn pages. *)

Turned == UNCHANGED <<documents, pending, applied, startedBy, lookedUp>>

LEMMA TurnedData ==
  ASSUME DataInv, Turned
  PROVE  DataInv'
<1>1. LogInv'
  BY DEF Turned, DataInv, LogInv, StartsFirst, Starts
<1>2. StartedInv'
  BY DEF Turned, DataInv, StartedInv, Known, Starts
<1>3. UpdatesFindTheirConversation'
  BY DEF Turned, DataInv, UpdatesFindTheirConversation
<1>4. NoMessageTwice'
  BY DEF Turned, DataInv, NoMessageTwice
<1>5. AppliedInv'
  BY DEF Turned, DataInv, AppliedInv, OwnIn, Said, Starts
<1>6. UsersInv'
  BY DEF Turned, DataInv, UsersInv, Starts
<1> QED BY <1>1, <1>2, <1>3, <1>4, <1>5, <1>6 DEF DataInv

(* u is shown the page p, and has the tab `tab`. *)
LEMMA TurnedKeeps ==
  ASSUME IInv, Turned, NEW u \in User, NEW p \in Page, NEW tab \in TabType,
         page' = [page EXCEPT ![u] = p], list' = [list EXCEPT ![u] = tab],
         PageOK(u, p)', TabOK(u, tab)', Loaded(p, tab)
  PROVE  IInv'
<1>1. page \in [User -> Page] /\ list \in [User -> TabType] /\ TypeOK
  BY DEF IInv, TypeOK
<1>2. /\ page' \in [User -> Page] /\ list' \in [User -> TabType]
      /\ page'[u] = p /\ list'[u] = tab
      /\ \A v \in User : v # u => page'[v] = page[v] /\ list'[v] = list[v]
  BY <1>1
<1>3. TypeOK'
  BY <1>1, <1>2 DEF TypeOK, Turned
<1>4. DataInv'
  BY TurnedData DEF IInv
<1>5. /\ \A v \in User, c \in ConvoId : Known(v, c)' = Known(v, c)
      /\ \A v \in User, c \in ConvoId : OwnMessages(v, c)' = OwnMessages(v, c)
      /\ \A v \in User, c \in ConvoId : UsersOf(v, c)' = UsersOf(v, c)
      /\ startedBy' = startedBy /\ lookedUp' = lookedUp
  BY SameSeen DEF Turned
<1>6. ASSUME NEW v \in User
      PROVE  (PageOK(v, page[v]) /\ TabOK(v, list[v]) /\ Loaded(page[v], list[v]))'
  <2>1. CASE v = u
    <3>1. (PageOK(u, page[u]) /\ TabOK(u, list[u]) /\ Loaded(page[u], list[u]))'
      BY <1>2 DEF PageOK, TabOK, Loaded
    <3> QED BY <2>1, <3>1
  <2>2. CASE v # u
    <3>1. PICK q, old : q = page[v] /\ old = list[v]
      OBVIOUS
    <3>2. /\ q \in Page /\ old \in TabType
          /\ PageOK(v, q) /\ TabOK(v, old) /\ Loaded(q, old)
      BY <1>1, <3>1 DEF IInv, PagesInv
    <3>3. PageOK(v, q)'
      BY <1>5, <3>2, PageStays
    <3>4. TabOK(v, old)'
      BY <1>5, <3>2, TabStays
    <3>5. page'[v] = q /\ list'[v] = old
      BY <1>2, <2>2, <3>1
    <3> QED BY <3>2, <3>3, <3>4, <3>5 DEF PageOK, TabOK, Loaded
  <2> QED BY <2>1, <2>2
<1>7. PagesInv'
  BY <1>6 DEF PagesInv
<1>8. LookedUpInv'
  <2>1. lookedUp \subseteq ConvoId
    BY <1>1 DEF TypeOK
  <2> QED BY <1>5, <2>1 DEF IInv, LookedUpInv
<1> QED BY <1>3, <1>4, <1>7, <1>8 DEF IInv
LEMMA TabUnchanged ==
  ASSUME TypeOK, PagesInv, UNCHANGED <<documents, pending, list>>, NEW u \in User
  PROVE  /\ list' = [list EXCEPT ![u] = list[u]] /\ list[u] \in TabType
         /\ \A tab : tab = list[u] => TabOK(u, tab)'
<1>1. list \in [User -> TabType]
  BY DEF TypeOK
<1>2. ASSUME NEW tab, tab = list[u] PROVE TabOK(u, tab)'
  <2>1. tab \in TabType /\ TabOK(u, tab)
    BY <1>1, <1>2 DEF PagesInv
  <2> QED BY <2>1, SameSeen, TabStays
<1> QED BY <1>1, <1>2

LEMMA PageUnchanged ==
  ASSUME TypeOK, PagesInv, UNCHANGED <<documents, pending, page, startedBy>>, NEW u \in User
  PROVE  /\ page' = [page EXCEPT ![u] = page[u]] /\ page[u] \in Page
         /\ \A p : p = page[u] => PageOK(u, p)'
<1>1. page \in [User -> Page]
  BY DEF TypeOK
<1>2. ASSUME NEW p, p = page[u] PROVE PageOK(u, p)'
  <2>1. p \in Page /\ PageOK(u, p)
    BY <1>1, <1>2 DEF PagesInv
  <2> QED BY <2>1, SameSeen, PageStays
<1> QED BY <1>1, <1>2

(* Another page, and the tab as it was. *)
LEMMA PageTurned ==
  ASSUME IInv, Turned, UNCHANGED list, NEW u \in User, NEW p \in Page,
         page' = [page EXCEPT ![u] = p], PageOK(u, p)', Loaded(p, list[u])
  PROVE  IInv'
<1>1. PICK tab : tab = list[u]
  OBVIOUS
<1>2. /\ tab \in TabType /\ list' = [list EXCEPT ![u] = tab] /\ TabOK(u, tab)'
      /\ Loaded(p, tab)
  BY <1>1, TabUnchanged DEF IInv, Turned
<1> QED BY <1>2, TurnedKeeps

LEMMA HomeTurned ==
  ASSUME IInv, Turned, UNCHANGED list, NEW u \in User, page' = [page EXCEPT ![u] = HomePage]
  PROVE  IInv'
<1>1. HomePage \in Page /\ PageOK(u, HomePage)' /\ Loaded(HomePage, list[u])
  BY PagesMade, PlainPages DEF Loaded, HomePage
<1> QED BY <1>1, PageTurned

LEMMA OpenNewMessageKeeps ==
  ASSUME IInv, NEW u \in User, NEW v \in User, OpenNewMessage(u, v)
  PROVE  IInv'
<1>1. PICK p : p = NewPage(v, NoConversation, FALSE)
  OBVIOUS
<1>2. p \in Page
  BY <1>1, PagesMade
<1>3. PageOK(u, p)' /\ Loaded(p, list[u])
  BY <1>1 DEF PageOK, NewPage, Loaded
<1>4. Turned /\ UNCHANGED list /\ page' = [page EXCEPT ![u] = p]
  BY <1>1 DEF OpenNewMessage, Show, Turned, logVars, history
<1> QED BY <1>2, <1>3, <1>4, PageTurned

(* The last of a set of conversations. *)
LEMMA LastConversation ==
  ASSUME NEW S \in SUBSET ConvoId, S # {}
  PROVE  \E c \in S : \A d \in S : d <= c
<1> DEFINE Bounds == {n \in Nat : \A d \in S : d <= n}
<1>1. ConvoId \subseteq Nat \ {0}
  BY ConversationsAssumption
<1>2. Bounds \in SUBSET Nat /\ Bounds # {}
  <2>1. PICK last \in ConvoId \cup {0} : \A c \in ConvoId : c <= last
    BY ConversationsAssumption
  <2>2. last \in Bounds
    BY <1>1, <2>1
  <2> QED BY <2>2
<1>3. PICK m \in Bounds : \A k \in Bounds : m <= k
  BY <1>2, LeastNumber
<1>4. CASE m \in S
  BY <1>3, <1>4
<1>5. CASE m \notin S
  <2>1. PICK d \in S : d <= m
    BY <1>3
  <2>2. m \in Nat /\ m - 1 \in Nat
    BY <1>1, <1>3, <2>1
  <2>3. \A e \in S : e <= m - 1
    BY <1>1, <1>3, <1>5, <2>2
  <2>4. m - 1 \in Bounds
    BY <2>2, <2>3
  <2> QED BY <1>3, <2>2, <2>4
<1> QED BY <1>4, <1>5

LEMMA LookupKeeps ==
  ASSUME IInv, NEW u \in User, LookupArrives(u)
  PROVE  IInv'
<1>1. PICK v : v = page[u].sendToID
  OBVIOUS
<1>2. PICK found : found = Found(u, v)
  OBVIOUS
<1>3. PICK c : c = IF found = {} THEN NoConversation
                   ELSE CHOOSE e \in found : \A d \in found : d <= e
  OBVIOUS
<1>4. PICK p : p = NewPage(v, c, TRUE)
  OBVIOUS
<1>5. /\ Turned /\ UNCHANGED list /\ page' = [page EXCEPT ![u] = p]
      /\ page[u].name = "new"
  BY <1>1, <1>2, <1>3, <1>4 DEF LookupArrives, On, Show, Turned, logVars, history
<1>6. page[u] \in Page /\ TypeOK /\ DataInv
  BY DEF IInv, TypeOK
<1>7. v \in User
  BY <1>1, <1>5, <1>6, PageKinds
<1>8. found \in SUBSET ConvoId
  BY <1>2 DEF Found
<1>9. ASSUME NEW e \in found PROVE e \in ConvoId /\ Known(u, e)
  BY <1>2, <1>6, <1>8, <1>9, KnownIsLocal DEF Found
<1>10. Loaded(p, list[u])
  BY <1>4 DEF Loaded, NewPage
<1>11. CASE found = {}
  <2>1. c = NoConversation
    BY <1>3, <1>11
  <2>2. ASSUME NEW e \in ConvoId, startedBy[e] = u PROVE UsersOf(u, e) # Pair(u, v)
    <3>1. Known(u, e)
      BY <1>6, <2>2 DEF DataInv, StartedInv
    <3>2. LocallyExists(u, e)
      BY <1>6, <3>1, KnownIsLocal
    <3> QED BY <1>2, <1>11, <3>2 DEF Found, UsersOf
  <2>3. \A e \in ConvoId : startedBy'[e] = u => UsersOf(u, e)' # Pair(u, v)
    BY <1>5, <2>2, SameSeen DEF Turned
  <2>4. p.name = "new" /\ p.docID = NoConversation /\ p.sendToID = v
    BY <1>4, <2>1 DEF NewPage
  <2>5. PageOK(u, p)'
    BY <2>3, <2>4 DEF PageOK
  <2>6. p \in Page
    BY <1>4, <1>7, <2>1, PagesMade
  <2> QED BY <1>5, <1>10, <2>5, <2>6, PageTurned
<1>12. CASE found # {}
  <2>1. \E e \in found : \A d \in found : d <= e
    BY <1>8, <1>12, LastConversation
  <2>2. c = CHOOSE e \in found : \A d \in found : d <= e
    BY <1>3, <1>12
  <2>3. c \in found
    BY <2>1, <2>2
  <2>4. c \in ConvoId /\ Known(u, c)
    BY <1>9, <2>3
  <2>5. Known(u, c)'
    BY <1>5, <2>4, SameSeen DEF Turned
  <2>6. p.name = "new" /\ p.docID = c /\ c # NoConversation
    BY <1>4, <2>4, NobodyIsNoUser DEF NewPage
  <2>7. PageOK(u, p)'
    BY <2>5, <2>6 DEF PageOK
  <2>8. p \in Page
    BY <1>4, <1>7, <2>4, PagesMade
  <2> QED BY <1>5, <1>10, <2>7, <2>8, PageTurned
<1> QED BY <1>11, <1>12
LEMMA OpenMessagesKeeps ==
  ASSUME IInv, NEW u \in User, OpenMessages(u)
  PROVE  IInv'
<1>1. Turned /\ page' = [page EXCEPT ![u] = ListPage]
  BY DEF OpenMessages, Show, Turned, logVars, history
<1>2. CASE list[u].made
  <2>1. UNCHANGED list
    BY <1>2 DEF OpenMessages
  <2>2. ListPage \in Page /\ PageOK(u, ListPage)' /\ Loaded(ListPage, list[u])
    BY <1>2, PagesMade, PlainPages DEF Loaded
  <2> QED BY <1>1, <2>1, <2>2, PageTurned
<1>3. CASE ~list[u].made
  <2>1. PICK tab : tab = Tab({}, {1, 2})
    OBVIOUS
  <2>2. list' = [list EXCEPT ![u] = tab]
    BY <1>3, <2>1 DEF OpenMessages
  <2>3. tab \in TabType
    BY <2>1, TabsMade
  <2>4. TabOK(u, tab)'
    BY <2>1 DEF TabOK, Tab
  <2>5. ListPage \in Page /\ PageOK(u, ListPage)' /\ Loaded(ListPage, tab)
    BY <2>1, PagesMade, PlainPages DEF Loaded, Tab
  <2> QED BY <1>1, <2>2, <2>3, <2>4, <2>5, TurnedKeeps
<1> QED BY <1>2, <1>3

LEMMA QueryKeeps ==
  ASSUME IInv, NEW u \in User, NEW q \in {1, 2}, QueryArrives(u, q)
  PROVE  IInv'
<1>1. PICK old : old = list[u]
  OBVIOUS
<1>2. PICK found : found = Listed(u, q)
  OBVIOUS
<1>3. PICK tab : tab = Tab(old.conversations \cup found, old.awaiting \ {q})
  OBVIOUS
<1>4. /\ Turned /\ UNCHANGED page /\ list' = [list EXCEPT ![u] = tab] /\ old.made
  BY <1>1, <1>2, <1>3 DEF QueryArrives, Turned, logVars, history
<1>5. TypeOK /\ DataInv /\ PagesInv
  BY DEF IInv
<1>6. old \in TabType /\ TabOK(u, old)
  BY <1>1, <1>5 DEF TypeOK, PagesInv
<1>7. old.conversations \in SUBSET ConvoId /\ old.awaiting \in SUBSET {1, 2}
  BY <1>4, <1>6, TabKinds
<1>8. found \in SUBSET ConvoId
  BY <1>2 DEF Listed
<1>9. ASSUME NEW e \in found PROVE Known(u, e)
  BY <1>2, <1>5, <1>8, <1>9, KnownIsLocal DEF Listed
<1>10. tab \in TabType /\ tab.made /\ tab.conversations = old.conversations \cup found
  <2>1. /\ old.conversations \cup found \in SUBSET ConvoId
        /\ old.awaiting \ {q} \in SUBSET {1, 2}
    BY <1>7, <1>8
  <2> QED BY <1>3, <2>1, TabsMade DEF Tab
<1>11. \A c \in tab.conversations : Known(u, c)
  BY <1>4, <1>6, <1>9, <1>10 DEF TabOK
<1>12. TabOK(u, tab)
  BY <1>11 DEF TabOK
<1>13. TabOK(u, tab)'
  BY <1>4, <1>10, <1>12, SameSeen, TabStays DEF Turned
<1>14. PICK p : p = page[u]
  OBVIOUS
<1>15. page' = [page EXCEPT ![u] = p] /\ p \in Page /\ PageOK(u, p)'
  BY <1>4, <1>5, <1>14, PageUnchanged DEF Turned
<1>16. Loaded(p, tab)
  BY <1>10 DEF Loaded
<1> QED BY <1>4, <1>10, <1>13, <1>15, <1>16, TurnedKeeps

LEMMA OpenChatKeeps ==
  ASSUME IInv, NEW u \in User, NEW c \in ConvoId, OpenChat(u, c)
  PROVE  IInv'
<1>1. PICK p : p = ChatPage(c, << >>, FALSE, 0)
  OBVIOUS
<1>2. /\ Turned /\ UNCHANGED list /\ page' = [page EXCEPT ![u] = p]
      /\ c \in list[u].conversations /\ page[u].name = "list"
  BY <1>1 DEF OpenChat, On, Show, Turned, logVars, history
<1>3. TypeOK /\ PagesInv
  BY DEF IInv
<1>4. list[u].made /\ TabOK(u, list[u])
  BY <1>2, <1>3 DEF PagesInv, Loaded
<1>5. Known(u, c)
  BY <1>2, <1>4 DEF TabOK
<1>6. Known(u, c)'
  BY <1>2, <1>5, SameSeen DEF Turned
<1>7. p.name = "chat" /\ p.docID = c /\ p.sent = FALSE
  BY <1>1 DEF ChatPage
<1>8. PageOK(u, p)' /\ Loaded(p, list[u])
  BY <1>4, <1>6, <1>7 DEF PageOK, Loaded
<1>9. p \in Page
  <2>1. << >> \in Seq(Message)
    OBVIOUS
  <2> QED BY <1>1, <2>1, PagesMade
<1> QED BY <1>2, <1>8, <1>9, PageTurned

LEMMA ReadBackKeeps ==
  ASSUME IInv, NEW u \in User, ReadBack(u)
  PROVE  IInv'
<1>1. PICK old : old = page[u]
  OBVIOUS
<1>2. PICK c : c = old.docID
  OBVIOUS
<1>3. PICK d : d = LocalDocument(u, c)
  OBVIOUS
<1>4. PICK p : p = ChatPage(c, d.messages, old.sent, old.asked - 1)
  OBVIOUS
<1>5. /\ Turned /\ UNCHANGED list /\ page' = [page EXCEPT ![u] = p]
      /\ old.name = "chat" /\ old.asked > 0
  BY <1>1, <1>2, <1>3, <1>4 DEF ReadBack, On, Show, Turned, logVars, history
<1>6. TypeOK /\ DataInv /\ PagesInv
  BY DEF IInv
<1>7. old \in Page /\ PageOK(u, old) /\ Loaded(old, list[u])
  BY <1>1, <1>6 DEF TypeOK, PagesInv
<1>8. c \in ConvoId /\ old.sent \in BOOLEAN /\ old.asked \in Nat
  BY <1>2, <1>5, <1>7, PageKinds
<1>9. Known(u, c)
  BY <1>2, <1>5, <1>7 DEF PageOK
<1>10. LocallyExists(u, c) /\ d \in Conversation
  BY <1>3, <1>6, <1>8, <1>9, KnownIsLocal DEF LocallyExists
<1>11. d.messages \in Seq(Message)
  BY <1>10 DEF Conversation
<1>12. OwnMessages(u, c) \subseteq Elements(d.messages)
  BY <1>3, <1>10 DEF OwnMessages
<1>13. Known(u, c)' /\ OwnMessages(u, c)' \subseteq Elements(d.messages)
  BY <1>5, <1>8, <1>9, <1>12, SameSeen DEF Turned
<1>14. p.name = "chat" /\ p.docID = c /\ p.messages = d.messages
  BY <1>4 DEF ChatPage
<1>15. PageOK(u, p)'
  BY <1>13, <1>14 DEF PageOK
<1>16. Loaded(p, list[u])
  BY <1>5, <1>7 DEF Loaded
<1>17. p \in Page
  <2>1. old.asked - 1 \in Nat
    BY <1>5, <1>8
  <2> QED BY <1>4, <1>8, <1>11, <2>1, PagesMade
<1> QED BY <1>5, <1>15, <1>16, <1>17, PageTurned

LEMMA backToConversationsKeeps ==
  ASSUME IInv, NEW u \in User, backToConversations(u)
  PROVE  IInv'
<1>1. /\ Turned /\ UNCHANGED list /\ page' = [page EXCEPT ![u] = ListPage]
      /\ page[u].name = "chat"
  BY DEF backToConversations, On, Show, Turned, logVars, history
<1>2. Loaded(ListPage, list[u])
  BY <1>1 DEF IInv, PagesInv, Loaded
<1>3. ListPage \in Page /\ PageOK(u, ListPage)'
  BY PagesMade, PlainPages
<1> QED BY <1>1, <1>2, <1>3, PageTurned

LEMMA RestartKeeps ==
  ASSUME IInv, NEW u \in User, Restart(u)
  PROVE  IInv'
<1>1. Turned /\ page' = [page EXCEPT ![u] = HomePage] /\ list' = [list EXCEPT ![u] = NotMade]
  BY DEF Restart, Show, Turned, logVars, history
<1>2. TabOK(u, NotMade)' /\ Loaded(HomePage, NotMade)
  BY DEF TabOK, NotMade, Loaded, HomePage
<1>3. HomePage \in Page /\ PageOK(u, HomePage)' /\ NotMade \in TabType
  BY PagesMade, PlainPages, TabsMade
<1> QED BY <1>1, <1>2, <1>3, TurnedKeeps

LEMMA HomeKeeps ==
  ASSUME IInv, NEW u \in User, backBTN(u) \/ LeaveMessages(u)
  PROVE  IInv'
BY HomeTurned DEF backBTN, LeaveMessages, Show, Turned, logVars, history
-----------------------------------------------------------------------------
(* Steps that submit a write. *)

(* Two conversations that were looked up before they were started differ in    *)
(* their users, also when the write starts another one.                        *)
LEMMA SubmittedLookedUp ==
  ASSUME IInv, NEW u \in User, NEW x \in Write, Submitted(u, x),
         \/ lookedUp' = lookedUp
         \/ /\ IsStart(x) /\ lookedUp' = lookedUp \cup {x.doc}
            /\ \A d \in ConvoId : startedBy[d] = u => UsersOf(u, d) # x.users
  PROVE  LookedUpInv' /\ lookedUp' \subseteq ConvoId
<1>1. TypeOK /\ DataInv /\ LookedUpInv /\ x.doc \in ConvoId /\ lookedUp \subseteq ConvoId
  BY WriteKinds DEF IInv, TypeOK
<1>2. lookedUp' \subseteq ConvoId
  BY <1>1
<1>3. ASSUME NEW c \in lookedUp' PROVE startedBy'[c] # Nobody
  <2>1. CASE c \in lookedUp
    BY <1>1, <2>1, SubmittedFacts DEF LookedUpInv
  <2>2. CASE c = x.doc
    BY <1>1, <2>2, SubmittedFacts
  <2> QED BY <2>1, <2>2
<1>4. ASSUME NEW c \in lookedUp, NEW w \in User, startedBy'[c] = w
      PROVE  c \in ConvoId /\ startedBy[c] = w /\ UsersOf(w, c)' = UsersOf(w, c)
  <2>1. c \in ConvoId /\ startedBy[c] # Nobody
    BY <1>1 DEF LookedUpInv
  <2>2. startedBy[c] = w
    BY <1>1, <1>4, <2>1, SubmittedFacts
  <2> QED BY <1>1, <2>1, <2>2, SubmittedSeen
<1>5. ASSUME NEW c \in lookedUp, NEW w \in User,
             IsStart(x), lookedUp' = lookedUp \cup {x.doc},
             \A d \in ConvoId : startedBy[d] = u => UsersOf(u, d) # x.users,
             startedBy'[c] = w, startedBy'[x.doc] = w
      PROVE  UsersOf(w, c)' # UsersOf(w, x.doc)'
  <2>1. startedBy'[x.doc] = u
    BY <1>1, <1>5, SubmittedFacts
  <2>2. w = u
    BY <1>5, <2>1
  <2>3. PICK e \in ConvoId : e = x.doc
    BY <1>1
  <2>4. UsersOf(u, e)' = x.users
    BY <1>1, <1>5, <2>3, SubmittedSeen
  <2>5. c \in ConvoId /\ startedBy[c] = u /\ UsersOf(u, c)' = UsersOf(u, c)
    BY <1>4, <1>5, <2>2
  <2> QED BY <1>5, <2>2, <2>3, <2>4, <2>5
<1>6. ASSUME NEW c \in lookedUp', NEW d \in lookedUp', NEW w \in User,
             startedBy'[c] = w, startedBy'[d] = w, UsersOf(w, c)' = UsersOf(w, d)'
      PROVE  c = d
  <2>1. CASE c \in lookedUp /\ d \in lookedUp
    BY <1>1, <1>4, <1>6, <2>1 DEF LookedUpInv
  <2>2. CASE c \notin lookedUp \/ d \notin lookedUp
    <3>1. /\ IsStart(x) /\ lookedUp' = lookedUp \cup {x.doc}
          /\ \A e \in ConvoId : startedBy[e] = u => UsersOf(u, e) # x.users
      BY <2>2
    <3>2. CASE c = x.doc /\ d = x.doc
      BY <3>2
    <3>3. CASE c \in lookedUp /\ d = x.doc
      BY <1>5, <1>6, <3>1, <3>3
    <3>4. CASE d \in lookedUp /\ c = x.doc
      BY <1>5, <1>6, <3>1, <3>4
    <3> QED BY <2>2, <3>1, <3>2, <3>3, <3>4
  <2> QED BY <2>1, <2>2
<1> QED BY <1>2, <1>3, <1>6 DEF LookedUpInv

LEMMA SubmittedKeeps ==
  ASSUME IInv, NEW u \in User, NEW x \in Write, Submitted(u, x),
         NEW p \in Page, page' = [page EXCEPT ![u] = p], UNCHANGED list,
         PageOK(u, p)', Loaded(p, list[u]),
         LookedUpInv' /\ lookedUp' \subseteq ConvoId
  PROVE  IInv'
<1>1. TypeOK /\ DataInv /\ PagesInv /\ x.doc \in ConvoId
  BY WriteKinds DEF IInv
<1>2. page \in [User -> Page] /\ list \in [User -> TabType]
  BY <1>1 DEF TypeOK
<1>3. /\ page' \in [User -> Page] /\ page'[u] = p /\ list' = list
      /\ \A v \in User : v # u => page'[v] = page[v]
  BY <1>2
<1>4. TypeOK'
  <2>1. pending' \in [User -> Seq(Write)]
    <3>1. pending \in [User -> Seq(Write)]
      BY <1>1 DEF TypeOK
    <3>2. pending' = [pending EXCEPT ![u] = Append(@, x)]
      BY DEF Submitted
    <3>3. Append(pending[u], x) \in Seq(Write)
      BY <3>1
    <3> QED BY <3>1, <3>2, <3>3
  <2>2. startedBy' \in [ConvoId -> User \cup {Nobody}]
    BY <1>1 DEF TypeOK, Submitted
  <2> QED BY <1>1, <1>2, <1>3, <2>1, <2>2 DEF TypeOK, Submitted
<1>5. DataInv'
  BY <1>1, SubmittedData
<1>6. ASSUME NEW v \in User
      PROVE  (PageOK(v, page[v]) /\ TabOK(v, list[v]) /\ Loaded(page[v], list[v]))'
  <2>1. PICK q, tab : q = page[v] /\ tab = list[v]
    OBVIOUS
  <2>2. /\ q \in Page /\ tab \in TabType
        /\ PageOK(v, q) /\ TabOK(v, tab) /\ Loaded(q, tab)
    BY <1>1, <1>2, <2>1 DEF PagesInv
  <2>3. \A c \in ConvoId : Known(v, c) => Known(v, c)'
    BY <1>1, SubmittedKnown
  <2>4. TabOK(v, tab)'
    BY <2>2, <2>3, TabStays
  <2>5. list'[v] = tab
    BY <1>3, <2>1
  <2>6. CASE v = u
    <3>1. page'[v] = p /\ Loaded(p, tab)
      BY <1>3, <2>1, <2>6
    <3>2. PageOK(v, p)'
      BY <2>6
    <3> QED BY <2>4, <2>5, <3>1, <3>2 DEF PageOK, TabOK, Loaded
  <2>7. CASE v # u
    <3>1. ASSUME NEW c \in ConvoId
          PROVE  /\ OwnMessages(v, c)' \subseteq OwnMessages(v, c)
                 /\ startedBy'[c] = v => startedBy[c] = v /\ UsersOf(v, c)' = UsersOf(v, c)
      <4>1. OwnMessages(v, c)' = OwnMessages(v, c)
        BY <1>1, <2>7, SubmittedSeen
      <4>2. startedBy'[c] = v => startedBy[c] = v
        BY <1>1, <2>7, SubmittedFacts
      <4>3. startedBy[c] = v => UsersOf(v, c)' = UsersOf(v, c)
        BY <1>1, SubmittedSeen
      <4> QED BY <4>1, <4>2, <4>3
    <3>2. PageOK(v, q)'
      BY <2>2, <2>3, <3>1, PageStays
    <3>3. page'[v] = q
      BY <1>3, <2>1, <2>7
    <3> QED BY <2>2, <2>4, <2>5, <3>2, <3>3 DEF PageOK, TabOK, Loaded
  <2> QED BY <2>6, <2>7
<1>7. PagesInv'
  BY <1>6 DEF PagesInv
<1> QED BY <1>4, <1>5, <1>7 DEF IInv

LEMMA MessagesMade ==
  \A u \in User, b \in FirstBody \cup NextBody : [sender |-> u, body |-> b] \in Message
BY DEF Message

LEMMA WritesMade ==
  /\ \A c \in ConvoId, u \in User, v \in User, m \in Message :
        /\ StartWrite(c, u, v, m) \in Write /\ IsStart(StartWrite(c, u, v, m))
        /\ StartWrite(c, u, v, m).doc = c /\ StartWrite(c, u, v, m).message = m
        /\ StartWrite(c, u, v, m).users = Pair(u, v)
  /\ \A c \in ConvoId, m \in Message :
        /\ AppendWrite(c, m) \in Write /\ ~IsStart(AppendWrite(c, m))
        /\ AppendWrite(c, m).doc = c /\ AppendWrite(c, m).message = m
<1>1. ASSUME NEW c \in ConvoId, NEW u \in User, NEW v \in User, NEW m \in Message
      PROVE  StartWrite(c, u, v, m) \in Write
  <2>1. Pair(u, v) \in User \X User
    BY DEF Pair
  <2> QED BY <2>1 DEF StartWrite, Write
<1> QED BY <1>1 DEF StartWrite, AppendWrite, Write, IsStart

LEMMA ContinueConversationKeeps ==
  ASSUME IInv, NEW u \in User, NEW b \in NextBody, ContinueConversation(u, b)
  PROVE  IInv' /\ \E x \in Write : Submitted(u, x)
<1>1. PICK old : old = page[u]
  OBVIOUS
<1>2. PICK m : m = [sender |-> u, body |-> b]
  OBVIOUS
<1>3. PICK x : x = AppendWrite(old.docID, m)
  OBVIOUS
<1>4. old.name = "new" /\ old.docID # NoConversation
  BY <1>1 DEF ContinueConversation, On
<1>5. /\ pending' = [pending EXCEPT ![u] = Append(@, x)]
      /\ page' = [page EXCEPT ![u] = HomePage]
      /\ UNCHANGED <<applied, documents, list, startedBy, lookedUp>>
  BY <1>1, <1>2, <1>3 DEF ContinueConversation, Log!Submit, Show, history
<1>6. TypeOK /\ PagesInv
  BY DEF IInv
<1>7. old \in Page /\ PageOK(u, old)
  BY <1>1, <1>6 DEF TypeOK, PagesInv
<1>8. old.docID \in ConvoId /\ Known(u, old.docID)
  BY <1>4, <1>7, PageKinds DEF PageOK
<1>9. /\ x \in Write /\ ~IsStart(x) /\ x.doc = old.docID
      /\ x.message = m /\ m.sender = u
  BY <1>2, <1>3, <1>8, MessagesMade, WritesMade
<1>10. Submitted(u, x)
  BY <1>5, <1>8, <1>9 DEF Submitted
<1>11. LookedUpInv' /\ lookedUp' \subseteq ConvoId
  BY <1>5, <1>9, <1>10, SubmittedLookedUp
<1>12. HomePage \in Page /\ PageOK(u, HomePage)' /\ Loaded(HomePage, list[u])
  BY PagesMade, PlainPages DEF Loaded, HomePage
<1> QED BY <1>5, <1>9, <1>10, <1>11, <1>12, SubmittedKeeps

LEMMA SendInChatKeeps ==
  ASSUME IInv, NEW u \in User, NEW b \in NextBody, SendInChat(u, b)
  PROVE  IInv' /\ \E x \in Write : Submitted(u, x)
<1>1. PICK old : old = page[u]
  OBVIOUS
<1>2. PICK m : m = [sender |-> u, body |-> b]
  OBVIOUS
<1>3. PICK x : x = AppendWrite(old.docID, m)
  OBVIOUS
<1>4. PICK p : p = ChatPage(old.docID, old.messages, TRUE, old.asked + 1)
  OBVIOUS
<1>5. /\ old.name = "chat"
      /\ pending' = [pending EXCEPT ![u] = Append(@, x)]
      /\ page' = [page EXCEPT ![u] = p]
      /\ UNCHANGED <<applied, documents, list, startedBy, lookedUp>>
  BY <1>1, <1>2, <1>3, <1>4 DEF SendInChat, On, Log!Submit, Show, history
<1>6. TypeOK /\ DataInv /\ PagesInv
  BY DEF IInv
<1>7. old \in Page /\ PageOK(u, old) /\ Loaded(old, list[u])
  BY <1>1, <1>6 DEF TypeOK, PagesInv
<1>8. /\ old.docID \in ConvoId /\ old.messages \in Seq(Message) /\ old.asked \in Nat
      /\ Known(u, old.docID)
  BY <1>5, <1>7, PageKinds DEF PageOK
<1>9. /\ x \in Write /\ ~IsStart(x) /\ x.doc = old.docID
      /\ x.message = m /\ m.sender = u
  BY <1>2, <1>3, <1>8, MessagesMade, WritesMade
<1>10. Submitted(u, x)
  BY <1>5, <1>8, <1>9 DEF Submitted
<1>11. LookedUpInv' /\ lookedUp' \subseteq ConvoId
  BY <1>5, <1>9, <1>10, SubmittedLookedUp
<1>12. PICK c \in ConvoId : c = old.docID
  BY <1>8
<1>13. Known(u, c)'
  BY <1>6, <1>8, <1>9, <1>10, <1>12, SubmittedKnown
<1>14. /\ p.name = "chat" /\ p.docID = c /\ p.asked # 0
  BY <1>4, <1>8, <1>12 DEF ChatPage
<1>15. PageOK(u, p)'
  BY <1>13, <1>14 DEF PageOK
<1>16. Loaded(p, list[u])
  BY <1>5, <1>7 DEF Loaded
<1>17. p \in Page
  <2>1. old.asked + 1 \in Nat
    BY <1>8
  <2> QED BY <1>4, <1>8, <2>1, PagesMade
<1> QED BY <1>5, <1>9, <1>10, <1>11, <1>15, <1>16, <1>17, SubmittedKeeps

LEMMA StartConversationKeeps ==
  ASSUME IInv, NEW u \in User, NEW b \in FirstBody, NEW c \in ConvoId,
         StartConversation(u, b, c)
  PROVE  IInv' /\ \E x \in Write : Submitted(u, x)
<1>1. PICK old : old = page[u]
  OBVIOUS
<1>2. PICK m : m = [sender |-> u, body |-> b]
  OBVIOUS
<1>3. PICK x : x = StartWrite(c, u, old.sendToID, m)
  OBVIOUS
<1>4. /\ old.name = "new" /\ old.docID = NoConversation
      /\ startedBy[c] = Nobody
      /\ pending' = [pending EXCEPT ![u] = Append(@, x)]
      /\ startedBy' = [startedBy EXCEPT ![c] = u]
      /\ lookedUp' = IF old.answered THEN lookedUp \cup {c} ELSE lookedUp
      /\ page' = [page EXCEPT ![u] = HomePage]
      /\ UNCHANGED <<applied, documents, list>>
  BY <1>1, <1>2, <1>3 DEF StartConversation, On, Unused, Log!Submit, Show
<1>5. TypeOK /\ PagesInv
  BY DEF IInv
<1>6. old \in Page /\ PageOK(u, old)
  BY <1>1, <1>5 DEF TypeOK, PagesInv
<1>7. old.sendToID \in User /\ old.answered \in BOOLEAN
  BY <1>4, <1>6, PageKinds
<1>8. /\ x \in Write /\ IsStart(x) /\ x.doc = c /\ x.users = Pair(u, old.sendToID)
      /\ x.message = m /\ m.sender = u
  BY <1>2, <1>3, <1>7, MessagesMade, WritesMade
<1>9. Submitted(u, x)
  BY <1>4, <1>8 DEF Submitted
<1>10. LookedUpInv' /\ lookedUp' \subseteq ConvoId
  <2>1. CASE ~old.answered
    BY <1>4, <1>8, <1>9, <2>1, SubmittedLookedUp
  <2>2. CASE old.answered
    <3>1. \A d \in ConvoId : startedBy[d] = u => UsersOf(u, d) # x.users
      BY <1>4, <1>6, <1>8, <2>2 DEF PageOK
    <3>2. lookedUp' = lookedUp \cup {x.doc}
      BY <1>4, <1>8, <2>2
    <3> QED BY <1>8, <1>9, <3>1, <3>2, SubmittedLookedUp
  <2> QED BY <2>1, <2>2
<1>11. HomePage \in Page /\ PageOK(u, HomePage)' /\ Loaded(HomePage, list[u])
  BY PagesMade, PlainPages DEF Loaded, HomePage
<1> QED BY <1>4, <1>8, <1>9, <1>10, <1>11, SubmittedKeeps
-----------------------------------------------------------------------------
(* Steps of the client and the server. *)

LEMMA NetworkKeeps ==
  ASSUME IInv, TypeOK', DataInv', UNCHANGED <<page, list, startedBy, lookedUp>>,
         \A v \in User, c \in ConvoId :
            /\ Known(v, c) => Known(v, c)'
            /\ OwnMessages(v, c)' \subseteq OwnMessages(v, c)
            /\ startedBy[c] = v => UsersOf(v, c)' = UsersOf(v, c)
  PROVE  IInv'
<1>1. TypeOK /\ PagesInv /\ LookedUpInv
  BY DEF IInv
<1>2. page \in [User -> Page] /\ list \in [User -> TabType] /\ lookedUp \subseteq ConvoId
  BY <1>1 DEF TypeOK
<1>3. ASSUME NEW v \in User
      PROVE  (PageOK(v, page[v]) /\ TabOK(v, list[v]) /\ Loaded(page[v], list[v]))'
  <2>1. PICK q, tab : q = page[v] /\ tab = list[v]
    OBVIOUS
  <2>2. /\ q \in Page /\ tab \in TabType
        /\ PageOK(v, q) /\ TabOK(v, tab) /\ Loaded(q, tab)
    BY <1>1, <1>2, <2>1 DEF PagesInv
  <2>3. PageOK(v, q)'
    BY <2>2, PageStays
  <2>4. TabOK(v, tab)'
    BY <2>2, TabStays
  <2>5. page'[v] = q /\ list'[v] = tab
    BY <2>1
  <2> QED BY <2>2, <2>3, <2>4, <2>5 DEF PageOK, TabOK, Loaded
<1>4. PagesInv'
  BY <1>3 DEF PagesInv
<1>5. LookedUpInv'
  BY <1>1, <1>2 DEF LookedUpInv
<1> QED BY <1>4, <1>5 DEF IInv

LEMMA ServerAppliesKeeps ==
  ASSUME IInv, NEW u \in User, ServerApplies(u)
  PROVE  IInv'
<1>1. TypeOK /\ DataInv
  BY DEF IInv
<1>2. PICK k, x : k = applied[u] + 1 /\ x = pending[u][k]
  OBVIOUS
<1>3. /\ pending' = pending /\ UNCHANGED <<page, list, startedBy, lookedUp>>
      /\ x \in Write /\ x.doc \in ConvoId /\ k \in Nat
  BY <1>1, <1>2, AppliedFacts
<1>4. /\ applied' = [applied EXCEPT ![u] = k]
      /\ documents' = [documents EXCEPT ![x.doc] = Written(documents[x.doc], x)]
  BY <1>2 DEF ServerApplies, Log!Apply, Log!NextToApply
<1>5. TypeOK'
  <2>1. documents[x.doc] \in Conversation \cup {NoDocument}
    BY <1>1, <1>3 DEF TypeOK
  <2>2. Written(documents[x.doc], x) \in Conversation \cup {NoDocument}
    BY <1>3, <2>1, WrittenFacts
  <2>3. documents' \in [ConvoId -> Conversation \cup {NoDocument}]
    BY <1>1, <1>3, <1>4, <2>2 DEF TypeOK
  <2>4. applied' \in [User -> Nat]
    BY <1>1, <1>3, <1>4 DEF TypeOK
  <2> QED BY <1>1, <1>3, <2>3, <2>4 DEF TypeOK
<1>6. DataInv'
  BY <1>1, AppliedData
<1>7. ASSUME NEW v \in User, NEW c \in ConvoId
      PROVE  /\ Known(v, c) => Known(v, c)'
             /\ OwnMessages(v, c)' \subseteq OwnMessages(v, c)
             /\ startedBy[c] = v => UsersOf(v, c)' = UsersOf(v, c)
  <2>1. documents[c] # NoDocument => documents'[c] # NoDocument
    BY <1>1, <1>2, AppliedDocument
  <2>2. Known(v, c) => Known(v, c)'
    BY <1>3, <2>1 DEF Known, Starts
  <2> QED BY <1>1, <2>2, AppliedSeen
<1> QED BY <1>3, <1>5, <1>6, <1>7, NetworkKeeps

LEMMA AcknowledgedKeeps ==
  ASSUME IInv, NEW u \in User, Acknowledged(u)
  PROVE  IInv'
<1>1. TypeOK /\ DataInv
  BY DEF IInv
<1>2. PICK s, t : s = pending[u] /\ t = Tail(s)
  OBVIOUS
<1>3. /\ UNCHANGED <<documents, page, list, startedBy, lookedUp>>
      /\ Shortened(s, t) /\ applied[u] \in Nat /\ 1 <= applied[u]
  BY <1>1, <1>2, AcknowledgedFacts
<1>4. /\ applied' = [applied EXCEPT ![u] = applied[u] - 1]
      /\ pending' = [pending EXCEPT ![u] = t]
  BY <1>2 DEF Acknowledged, Log!Acknowledge
<1>5. TypeOK'
  <2>1. t \in Seq(Write)
    BY <1>3, TailLog
  <2>2. applied[u] - 1 \in Nat
    BY <1>3
  <2>3. pending' \in [User -> Seq(Write)] /\ applied' \in [User -> Nat]
    BY <1>1, <1>4, <2>1, <2>2 DEF TypeOK
  <2> QED BY <1>1, <1>3, <2>3 DEF TypeOK
<1>6. DataInv'
  BY <1>1, AcknowledgedData
<1>7. \A v \in User, c \in ConvoId :
        /\ Known(v, c) => Known(v, c)'
        /\ OwnMessages(v, c)' \subseteq OwnMessages(v, c)
        /\ startedBy[c] = v => UsersOf(v, c)' = UsersOf(v, c)
  BY <1>1, AcknowledgedKnown, AcknowledgedSeen
<1> QED BY <1>3, <1>5, <1>6, <1>7, NetworkKeeps

LEMMA ConnectionLostKeeps ==
  ASSUME IInv, NEW u \in User, ConnectionLost(u)
  PROVE  IInv'
<1>1. TypeOK /\ DataInv
  BY DEF IInv
<1>2. UNCHANGED <<documents, pending, page, list, startedBy, lookedUp>>
  BY <1>1, LostFacts
<1>3. TypeOK'
  <2>1. applied' \in [User -> Nat]
    BY <1>1 DEF TypeOK, ConnectionLost, Log!Reconnect
  <2> QED BY <1>1, <1>2, <2>1 DEF TypeOK
<1>4. DataInv'
  BY <1>1, LostData
<1>5. \A v \in User, c \in ConvoId :
        /\ Known(v, c) => Known(v, c)'
        /\ OwnMessages(v, c)' \subseteq OwnMessages(v, c)
        /\ startedBy[c] = v => UsersOf(v, c)' = UsersOf(v, c)
  BY <1>2, SameSeen
<1> QED BY <1>2, <1>3, <1>4, <1>5, NetworkKeeps

-----------------------------------------------------------------------------
(* The theorems. *)

LEMMA EmptyLog == << >> \in Seq(Write) /\ Len(<< >>) = 0 /\ DOMAIN << >> = {}
OBVIOUS

LEMMA InitIInv == Init => IInv
<1> SUFFICES ASSUME Init PROVE IInv
  OBVIOUS
<1> USE DEF Init, Log!LogInit
<1>1. TypeOK
  BY EmptyLog, PagesMade, TabsMade DEF TypeOK
<1>2. LogInv
  <2>1. ASSUME NEW u \in User PROVE pending[u] = << >> /\ applied[u] = 0
    OBVIOUS
  <2>2. ASSUME NEW u \in User PROVE DOMAIN pending[u] = {} /\ applied[u] <= Len(pending[u])
    BY ONLY <2>1, u \in User, EmptyLog
  <2>3. ASSUME NEW u \in User, NEW c \in ConvoId PROVE StartsFirst(pending[u], c)
    BY <2>2 DEF StartsFirst, Starts
  <2> QED BY <2>2, <2>3 DEF LogInv
<1>3. StartedInv
  BY NobodyIsNoUser DEF StartedInv
<1>4. UpdatesFindTheirConversation /\ NoMessageTwice
  BY DEF UpdatesFindTheirConversation, NoMessageTwice
<1>5. AppliedInv /\ UsersInv
  BY DEF AppliedInv, UsersInv, Starts
<1>6. PagesInv
  BY DEF PagesInv, PageOK, TabOK, Loaded, HomePage, NotMade
<1>7. LookedUpInv
  BY DEF LookedUpInv
<1> QED BY <1>1, <1>2, <1>3, <1>4, <1>5, <1>6, <1>7 DEF IInv, DataInv

LEMMA StutterIInv ==
  ASSUME IInv, UNCHANGED vars
  PROVE  IInv'
<1>1. TypeOK /\ DataInv
  BY DEF IInv
<1>2. Turned /\ UNCHANGED <<page, list>>
  BY DEF vars, logVars, history, Turned
<1>3. TypeOK'
  BY <1>1, <1>2 DEF TypeOK, Turned
<1>4. DataInv'
  BY <1>1, <1>2, TurnedData
<1>5. \A v \in User, c \in ConvoId :
        /\ Known(v, c) => Known(v, c)'
        /\ OwnMessages(v, c)' \subseteq OwnMessages(v, c)
        /\ startedBy[c] = v => UsersOf(v, c)' = UsersOf(v, c)
  BY <1>2, SameSeen DEF Turned
<1> QED BY <1>2, <1>3, <1>4, <1>5, NetworkKeeps DEF Turned

LEMMA NextIInv == IInv /\ [Next]_vars => IInv'
<1>1. ASSUME IInv, NEW u \in User, NEW v \in User, OpenNewMessage(u, v) PROVE IInv'
  BY <1>1, OpenNewMessageKeeps
<1>2. ASSUME IInv, NEW u \in User, LookupArrives(u) PROVE IInv'
  BY <1>2, LookupKeeps
<1>3. ASSUME IInv, NEW u \in User, NEW b \in FirstBody, NEW c \in ConvoId,
             StartConversation(u, b, c)
      PROVE  IInv'
  BY <1>3, StartConversationKeeps
<1>4. ASSUME IInv, NEW u \in User, NEW b \in NextBody, ContinueConversation(u, b) PROVE IInv'
  BY <1>4, ContinueConversationKeeps
<1>5. ASSUME IInv, NEW u \in User, backBTN(u) PROVE IInv'
  BY <1>5, HomeKeeps
<1>6. ASSUME IInv, NEW u \in User, OpenMessages(u) PROVE IInv'
  BY <1>6, OpenMessagesKeeps
<1>7. ASSUME IInv, NEW u \in User, NEW q \in {1, 2}, QueryArrives(u, q) PROVE IInv'
  BY <1>7, QueryKeeps
<1>8. ASSUME IInv, NEW u \in User, NEW c \in ConvoId, OpenChat(u, c) PROVE IInv'
  BY <1>8, OpenChatKeeps
<1>9. ASSUME IInv, NEW u \in User, LeaveMessages(u) PROVE IInv'
  BY <1>9, HomeKeeps
<1>10. ASSUME IInv, NEW u \in User, NEW b \in NextBody, SendInChat(u, b) PROVE IInv'
  BY <1>10, SendInChatKeeps
<1>11. ASSUME IInv, NEW u \in User, ReadBack(u) PROVE IInv'
  BY <1>11, ReadBackKeeps
<1>12. ASSUME IInv, NEW u \in User, backToConversations(u) PROVE IInv'
  BY <1>12, backToConversationsKeeps
<1>13. ASSUME IInv, NEW u \in User, ServerApplies(u) PROVE IInv'
  BY <1>13, ServerAppliesKeeps
<1>14. ASSUME IInv, NEW u \in User, Acknowledged(u) PROVE IInv'
  BY <1>14, AcknowledgedKeeps
<1>15. ASSUME IInv, NEW u \in User, ConnectionLost(u) PROVE IInv'
  BY <1>15, ConnectionLostKeeps
<1>16. ASSUME IInv, NEW u \in User, Restart(u) PROVE IInv'
  BY <1>16, RestartKeeps
<1>17. ASSUME IInv, UNCHANGED vars PROVE IInv'
  BY <1>17, StutterIInv
<1> QED
  BY <1>1, <1>2, <1>3, <1>4, <1>5, <1>6, <1>7, <1>8, <1>9, <1>10, <1>11, <1>12,
     <1>13, <1>14, <1>15, <1>16, <1>17 DEF Next

(* Whatever is typed, sent, read, answered, lost and restarted, the inductive  *)
(* invariant holds.                                                            *)
THEOREM Invariance == Spec => []IInv
BY InitIInv, NextIInv, PTL DEF Spec

(* Documents, logs and pages are of their types: what is on the server is a    *)
(* whole conversation, and a chat is always one of a stored id.                *)
THEOREM TypeCorrect == Spec => []TypeOK
<1>1. IInv => TypeOK
  BY DEF IInv
<1> QED BY <1>1, Invariance, PTL

(* An append reaches the server only when its conversation is there, also when *)
(* the log is sent again after a lost connection, so that the document that is *)
(* read back can be unwrapped.                                                 *)
THEOREM UpdatesFind == Spec => []UpdatesFindTheirConversation
<1>1. IInv => UpdatesFindTheirConversation
  BY DEF IInv, DataInv
<1> QED BY <1>1, Invariance, PTL

(* arrayUnion keeps a message that is sent again from being stored twice.      *)
THEOREM MessagesOnce == Spec => []NoMessageTwice
<1>1. IInv => NoMessageTwice
  BY DEF IInv, DataInv
<1> QED BY <1>1, Invariance, PTL

(* A chat whose reads are all answered shows what its user has said in it.     *)
THEOREM ChatIsCurrent == Spec => []ChatShowsOwnMessages
<1>1. IInv => ChatShowsOwnMessages
  <2> SUFFICES ASSUME IInv, NEW u \in User,
                      On(u, "chat"), page[u].sent, page[u].asked = 0
               PROVE  OwnMessages(u, page[u].docID) \subseteq Elements(page[u].messages)
    BY DEF ChatShowsOwnMessages
  <2>1. PageOK(u, page[u])
    BY DEF IInv, PagesInv
  <2> QED BY <2>1 DEF PageOK, On
<1> QED BY <1>1, Invariance, PTL

(* A user who waits for the lookup starts one conversation with the same       *)
(* other user at most, however the posting of the first one fares.             *)
THEOREM LookupFinds == Spec => []LookupFindsOwnConversation
<1>1. IInv => LookupFindsOwnConversation
  <2> SUFFICES ASSUME IInv, NEW c \in lookedUp, NEW d \in lookedUp,
                      startedBy[c] = startedBy[d],
                      LocalDocument(startedBy[c], c).users = LocalDocument(startedBy[d], d).users
               PROVE  c = d
    BY DEF LookupFindsOwnConversation
  <2>1. c \in ConvoId /\ startedBy[c] # Nobody
    BY DEF IInv, TypeOK, LookedUpInv
  <2>2. PICK u \in User : u = startedBy[c]
    BY <2>1 DEF IInv, TypeOK
  <2>3. UsersOf(u, c) = UsersOf(u, d)
    BY <2>2 DEF UsersOf
  <2> QED BY <2>2, <2>3 DEF IInv, LookedUpInv
<1> QED BY <1>1, Invariance, PTL

LEMMA ErasesNothing ==
  ASSUME IInv, NEW u \in User, ServerApplies(u), NEW c \in ConvoId,
         documents'[c] # documents[c], documents[c] # NoDocument, ~PostingUnderway(c)
  PROVE  \E n \in 0..Len(documents'[c].messages) :
            SubSeq(documents'[c].messages, 1, n) = documents[c].messages
<1>1. TypeOK /\ DataInv
  BY DEF IInv
<1>2. PICK k, x : k = applied[u] + 1 /\ x = pending[u][k]
  OBVIOUS
<1>3. c = x.doc /\ k \in DOMAIN pending[u] /\ x \in Write
  BY <1>1, <1>2, AppliedFacts
<1>4. ~IsStart(x)
  BY <1>2, <1>3 DEF PostingUnderway
<1>5. documents'[c].messages = ArrayUnion(documents[c].messages, x.message)
  BY <1>1, <1>2, <1>3, <1>4, AppliedDocument
<1>6. PICK s : s = documents[c].messages
  OBVIOUS
<1>7. s \in Seq(Message) /\ x.message \in Message
  BY <1>1, <1>3, <1>6, WriteKinds DEF TypeOK, Conversation
<1>8. ASSUME NEW t, t = s \/ t = Append(s, x.message)
      PROVE  \E n \in 0..Len(t) : SubSeq(t, 1, n) = s
  <2>1. /\ t \in Seq(Message) /\ Len(s) \in Nat /\ Len(t) \in Nat /\ Len(s) <= Len(t)
        /\ \A i \in 1..Len(s) : t[i] = s[i]
    BY <1>7, <1>8
  <2>2. SubSeq(t, 1, Len(s)) = s
    BY <1>7, <2>1
  <2>3. Len(s) \in 0..Len(t)
    BY <2>1
  <2> QED BY <2>2, <2>3
<1>9. documents'[c].messages = s \/ documents'[c].messages = Append(s, x.message)
  BY <1>5, <1>6, <1>7, UnionFacts
<1> QED BY <1>6, <1>8, <1>9

LEMMA OnlyTheServerStores ==
  ASSUME Next, documents' # documents
  PROVE  \E u \in User : ServerApplies(u)
BY DEF Next, OpenNewMessage, LookupArrives, StartConversation, ContinueConversation,
       backBTN, OpenMessages, QueryArrives, OpenChat, LeaveMessages, SendInChat, ReadBack,
       backToConversations, Acknowledged, ConnectionLost, Restart

(* No step takes a stored message away, unless a posting is sent again.        *)
THEOREM ErasureFree == Spec => NothingErased
<1>1. IInv /\ [Next]_vars =>
        (\A c \in ConvoId : (/\ documents'[c] # documents[c]
                             /\ documents[c] # NoDocument
                             /\ ~PostingUnderway(c)) =>
            \E n \in 0..Len(documents'[c].messages) :
                SubSeq(documents'[c].messages, 1, n) = documents[c].messages)
  BY OnlyTheServerStores, ErasesNothing DEF vars
<1> QED BY <1>1, Invariance, PTL DEF Spec, NothingErased

LEMMA StarterUnchanged ==
  ASSUME NEW c, NEW w, startedBy[c] = w, startedBy'[c] = w
  PROVE  /\ OwnMessages(startedBy[c], c) = OwnMessages(w, c)
         /\ OwnMessages(startedBy[c], c)' = OwnMessages(w, c)'
BY DEF OwnMessages, LocallyExists, LocalDocument

LEMMA StepKinds ==
  ASSUME IInv, Next
  PROVE  \/ UNCHANGED <<documents, pending>>
         \/ \E u \in User : \/ \E x \in Write : Submitted(u, x)
                           \/ ServerApplies(u)
                           \/ Acknowledged(u)
<1>1. ASSUME NEW u \in User,
             \/ \E b \in FirstBody, c \in ConvoId : StartConversation(u, b, c)
             \/ \E b \in NextBody : ContinueConversation(u, b)
             \/ \E b \in NextBody : SendInChat(u, b)
      PROVE  \E x \in Write : Submitted(u, x)
  BY <1>1, StartConversationKeeps, ContinueConversationKeeps, SendInChatKeeps
<1>2. ASSUME NEW u \in User,
             \/ \E v \in User : OpenNewMessage(u, v)
             \/ LookupArrives(u) \/ backBTN(u) \/ OpenMessages(u)
             \/ \E q \in {1, 2} : QueryArrives(u, q)
             \/ \E c \in ConvoId : OpenChat(u, c)
             \/ LeaveMessages(u) \/ ReadBack(u) \/ backToConversations(u)
             \/ ConnectionLost(u) \/ Restart(u)
      PROVE  UNCHANGED <<documents, pending>>
  BY <1>2 DEF OpenNewMessage, LookupArrives, backBTN, OpenMessages, QueryArrives, OpenChat,
              LeaveMessages, ReadBack, backToConversations, ConnectionLost, Restart,
              Log!Reconnect, logVars
<1> QED BY <1>1, <1>2 DEF Next

(* Who has started a conversation goes on seeing what they said in it.         *)
LEMMA KeepsOwnMessages ==
  ASSUME IInv, Next, ~UNCHANGED <<documents, pending>>,
         NEW w \in User, NEW c \in ConvoId, startedBy[c] = w
  PROVE  startedBy'[c] = w /\ OwnMessages(w, c) \subseteq OwnMessages(w, c)'
<1>1. TypeOK /\ DataInv /\ startedBy[c] # Nobody
  BY NobodyIsNoUser DEF IInv
<1>2. ASSUME NEW u \in User, NEW x \in Write, Submitted(u, x)
      PROVE  startedBy'[c] = w /\ OwnMessages(w, c) \subseteq OwnMessages(w, c)'
  BY <1>1, <1>2, SubmittedFacts, SubmittedSeen
<1>3. ASSUME NEW u \in User, ServerApplies(u)
      PROVE  startedBy'[c] = w /\ OwnMessages(w, c) \subseteq OwnMessages(w, c)'
  BY <1>1, <1>3, AppliedSeen DEF ServerApplies, history
<1>4. ASSUME NEW u \in User, Acknowledged(u)
      PROVE  startedBy'[c] = w /\ OwnMessages(w, c) \subseteq OwnMessages(w, c)'
  BY <1>1, <1>4, AcknowledgedSeen DEF Acknowledged, history
<1> QED BY <1>2, <1>3, <1>4, StepKinds

(* Nothing that the starter of a conversation said ever disappears from their  *)
(* phone, not even while its posting is sent a second time.                    *)
THEOREM OwnMessagesStay == Spec => OwnMessagesKept
<1>1. IInv /\ [Next]_vars =>
        \/ UNCHANGED <<documents, pending>>
        \/ \A c \in ConvoId : startedBy[c] # Nobody =>
              OwnMessages(startedBy[c], c) \subseteq OwnMessages(startedBy[c], c)'
  <2> SUFFICES ASSUME IInv, [Next]_vars, ~UNCHANGED <<documents, pending>>,
                      NEW c \in ConvoId, startedBy[c] # Nobody
               PROVE  OwnMessages(startedBy[c], c) \subseteq OwnMessages(startedBy[c], c)'
    OBVIOUS
  <2>1. Next
    BY DEF vars, logVars
  <2>2. PICK w \in User : startedBy[c] = w
    BY DEF IInv, TypeOK
  <2>3. startedBy'[c] = w /\ OwnMessages(w, c) \subseteq OwnMessages(w, c)'
    BY <2>1, <2>2, KeepsOwnMessages
  <2> QED BY <2>2, <2>3, StarterUnchanged
<1> QED BY <1>1, Invariance, PTL DEF Spec, OwnMessagesKept
LEMMA LogSteps ==
  ASSUME IInv, Next
  PROVE  \/ UNCHANGED <<pending, applied>>
         \/ \E u \in User : \/ \E x \in Write : Log!Submit(u, x)
                           \/ Log!Apply(u) \/ Log!Acknowledge(u) \/ Log!Reconnect(u)
<1>1. ASSUME NEW u \in User,
             \/ \E b \in FirstBody, c \in ConvoId : StartConversation(u, b, c)
             \/ \E b \in NextBody : ContinueConversation(u, b)
             \/ \E b \in NextBody : SendInChat(u, b)
      PROVE  \E x \in Write : Log!Submit(u, x)
  <2>1. PICK x \in Write : Submitted(u, x)
    BY <1>1, StartConversationKeeps, ContinueConversationKeeps, SendInChatKeeps
  <2> QED BY <2>1 DEF Submitted, Log!Submit
<1>2. ASSUME NEW u \in User, ServerApplies(u) \/ Acknowledged(u) \/ ConnectionLost(u)
      PROVE  Log!Apply(u) \/ Log!Acknowledge(u) \/ Log!Reconnect(u)
  BY <1>2 DEF ServerApplies, Acknowledged, ConnectionLost
<1>3. ASSUME NEW u \in User,
             \/ \E v \in User : OpenNewMessage(u, v)
             \/ LookupArrives(u) \/ backBTN(u) \/ OpenMessages(u)
             \/ \E q \in {1, 2} : QueryArrives(u, q)
             \/ \E c \in ConvoId : OpenChat(u, c)
             \/ LeaveMessages(u) \/ ReadBack(u) \/ backToConversations(u) \/ Restart(u)
      PROVE  UNCHANGED <<pending, applied>>
  BY <1>3 DEF OpenNewMessage, LookupArrives, backBTN, OpenMessages, QueryArrives, OpenChat,
              LeaveMessages, ReadBack, backToConversations, Restart, logVars
<1> QED BY <1>1, <1>2, <1>3 DEF Next

(* Conversations asks of the Firestore client nothing but what WriteLog        *)
(* promises and WritePipeline implements: every step is one of the log's, with *)
(* a well-formed write where one is submitted, or leaves the log alone.        *)
THEOREM UsesTheContract == Spec => Log!LogSpec
<1>1. Init => Log!LogInit
  BY DEF Init
<1>2. IInv /\ [Next]_vars => [Log!LogNext]_<<pending, applied>>
  BY LogSteps DEF vars, logVars, Log!LogNext
<1> QED BY <1>1, <1>2, Invariance, PTL DEF Spec, Log!LogSpec, Log!logVars
=============================================================================
