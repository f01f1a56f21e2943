----------------------------- MODULE OfficeProofs ----------------------------
(***************************************************************************)
(* The chat, the subscriptions, the vault and the displays of an office,   *)
(* for any people, rows and handlers.                                      *)
(*                                                                         *)
(* Each has an inductive invariant in two parts.  One holds whatever       *)
(* interleaves: the tables are well typed and a request relies on nothing  *)
(* that another may take away.  The other holds until two requests have    *)
(* been in flight at once: the tables then agree, and what the one request *)
(* in flight has read is still so when it writes.                          *)
(***************************************************************************)
EXTENDS Chat, Subscriptions, Vault, Displays, SequenceTheorems, WellFoundedInduction,
        TLAPS

Types == {"DIRECT", "ADMIN", "GROUP"}

ConversationRows ==
  [type : Types, key : [type : Types, pair : SUBSET Talkers], renamed : BOOLEAN]

ParticipantRows == [role : {"none", "OWNER", "MEMBER"}, there : BOOLEAN, read : Nat]

MessageRows == [conversation : Conversations, sender : Talkers, to : SUBSET Talkers]

Opening == [op : {"open"}, user : Talkers, peer : Talkers, type : {"DIRECT", "ADMIN"}]
Adding == [op : {"add"}, conversation : Conversations, left : SUBSET Talkers]
Sending == [op : {"send"}, conversation : Conversations, user : Talkers, to : SUBSET Talkers]
Reading == [op : {"read"}, conversation : Conversations, user : Talkers, date : Nat]

ChatRequests == {NoRequest} \cup Opening \cup Adding \cup Sending \cup Reading

\* What a request still relies on when it writes.
Fits(r) ==
  /\ r \in Adding => conversation[r.conversation].type = "GROUP"
  /\ r \in Reading => r.date <= Len(message)

Tables ==
  /\ conversation \in [Conversations -> {NoConversation} \cup ConversationRows]
  /\ participant \in [Conversations -> [Talkers -> ParticipantRows]]
  /\ message \in Seq(MessageRows)
  /\ bell \cup dismissed \subseteq [user : Talkers, message : DOMAIN message]
  /\ \A c \in Conversations, u \in Talkers :
       /\ participant[c][u].read <= Len(message)
       /\ IsThere(c, u) => Exists(c) /\ participant[c][u].role # "none"
  /\ \A c \in Conversations : Exists(c) => conversation[c].key.type = conversation[c].type

Inv ==
  /\ Tables
  /\ ThreadsOfTwo
  /\ request \in [Handlers -> ChatRequests]
  /\ \A h \in Handlers : Fits(request[h])

\* What a step may never do to the tables.
GroupsStay ==
  \A c \in Conversations : conversation[c].type = "GROUP" => conversation'[c].type = "GROUP"

MessagesStay == Len(message) <= Len(message')

-----------------------------------------------------------------------------
LEMMA RowsExist ==
  /\ NoConversation \notin ConversationRows
  /\ \A c \in Conversations : conversation[c] \in ConversationRows => Exists(c)
BY DEF NoConversation, ConversationRows, Types, Exists

LEMMA LengthFacts ==
  ASSUME message \in Seq(MessageRows)
  PROVE  Len(message) \in Nat /\ DOMAIN message = 1..Len(message)
BY LenProperties

LEMMA NoRequestFits == NoRequest \in ChatRequests /\ Fits(NoRequest) /\ Fits(NoRequest)'
BY DEF NoRequest, ChatRequests, Fits, Adding, Reading

\* A handler comes to hold a request that fits.
LEMMA KeptByOne ==
  ASSUME Inv, Tables', ThreadsOfTwo', GroupsStay, MessagesStay,
         NEW h \in Handlers, NEW r \in ChatRequests, Fits(r)',
         request' = [request EXCEPT ![h] = r]
  PROVE  Inv'
<1>1. request' \in [Handlers -> ChatRequests] /\ request'[h] = r
  BY DEF Inv
<1>2. ASSUME NEW g \in Handlers, g # h PROVE Fits(request[g])'
  <2>1. request'[g] = request[g] /\ Fits(request[g]) /\ request[g] \in ChatRequests
    BY <1>2 DEF Inv
  <2>2. CASE request[g] \in Adding
    BY <2>1, <2>2 DEF Fits, GroupsStay, Adding, Reading
  <2>3. CASE request[g] \in Reading
    <3>1. Len(message) \in Nat /\ Len(message)' \in Nat
      BY LengthFacts DEF Inv, Tables
    <3>2. QED
      BY <2>1, <2>3, <3>1 DEF Fits, MessagesStay, Adding, Reading
  <2>4. QED
    BY <2>1, <2>2, <2>3 DEF Fits
<1>3. QED
  BY <1>1, <1>2 DEF Inv

LEMMA KeptByNone ==
  ASSUME Inv, Tables', ThreadsOfTwo', GroupsStay, MessagesStay, UNCHANGED request
  PROVE  Inv'
<1>1. ASSUME NEW g \in Handlers PROVE Fits(request[g])'
  <2>1. request'[g] = request[g] /\ Fits(request[g]) /\ request[g] \in ChatRequests
    BY <1>1 DEF Inv
  <2>2. Len(message) \in Nat /\ Len(message)' \in Nat
    BY LengthFacts DEF Inv, Tables
  <2>3. QED
    BY <2>1, <2>2 DEF Fits, GroupsStay, MessagesStay, Adding, Reading
<1>2. QED
  BY <1>1 DEF Inv

\* A request that only reads keeps the tables.
LEMMA ReadsKeep ==
  ASSUME Inv, UNCHANGED <<conversation, participant, message, bell, dismissed>>
  PROVE  Tables' /\ ThreadsOfTwo' /\ GroupsStay /\ MessagesStay
<1>1. Len(message) \in Nat
  BY LengthFacts DEF Inv, Tables
<1>2. Tables'
  BY DEF Inv, Tables, IsThere, Exists
<1>3. ThreadsOfTwo'
  BY DEF Inv, ThreadsOfTwo, OneThreadPerPair, ThreadKeepsBoth, Exists, Present, IsThere
<1>4. QED
  BY <1>1, <1>2, <1>3 DEF GroupsStay, MessagesStay

LEMMA HoldKeeps ==
  ASSUME Inv, UNCHANGED <<conversation, participant, message, bell, dismissed>>,
         NEW h \in Handlers, NEW r \in ChatRequests, Fits(r), Hold(h, r)
  PROVE  Inv'
<1>1. Fits(r)'
  BY DEF Fits
<1>2. QED
  BY <1>1, ReadsKeep, KeptByOne DEF Hold

LEMMA InvInit == ChatInit => Inv
<1> SUFFICES ASSUME ChatInit PROVE Inv
  OBVIOUS
<1>1. conversation \in [Conversations -> {NoConversation} \cup ConversationRows]
  BY DEF ChatInit
<1>2. participant \in [Conversations -> [Talkers -> ParticipantRows]]
  BY DEF ChatInit, NoParticipant, ParticipantRows
<1>3. message \in Seq(MessageRows) /\ Len(message) = 0
  BY DEF ChatInit
<1>4. Tables
  BY <1>1, <1>2, <1>3 DEF ChatInit, Tables, IsThere, Exists, NoParticipant
<1>5. ThreadsOfTwo
  BY DEF ChatInit, ThreadsOfTwo, OneThreadPerPair, ThreadKeepsBoth, Exists
<1>6. QED
  BY <1>4, <1>5, NoRequestFits DEF ChatInit, ApiInit, Inv

-----------------------------------------------------------------------------
(* A conversation is created *)

\* The row is a new one, so no thread loses anybody; a thread holds the pair of
\* its key.
LEMMA CreatedKeeps ==
  ASSUME Inv, NEW type \in Types, NEW key \in [type : Types, pair : SUBSET Talkers],
         NEW u \in Talkers, NEW others \in SUBSET Talkers, Created(type, key, u, others),
         key.type = type,
         type # "GROUP" => key.pair = {u} \cup others /\ Thread(key) = {}
  PROVE  Tables' /\ ThreadsOfTwo' /\ GroupsStay /\ MessagesStay
<1>1. PICK n \in Conversations : n = NewRow /\ ~Exists(n)
  BY DEF Created, HasRoom, NewRow
<1> DEFINE row == [type |-> type, key |-> key, renamed |-> FALSE]
           first == FirstMembers(u, others)
<1>2. row \in ConversationRows /\ row.type = type /\ row.key = key
  BY DEF ConversationRows
<1>3. first \in [Talkers -> ParticipantRows]
  BY DEF FirstMembers, ParticipantRows, NoParticipant
<1>4. \A v \in Talkers : /\ first[v].read = 0
                         /\ first[v].there => first[v].role # "none"
                         /\ first[v].there <=> v = u \/ v \in others
  BY DEF FirstMembers, NoParticipant
<1>5. /\ conversation' = [conversation EXCEPT ![n] = row]
      /\ participant' = [participant EXCEPT ![n] = first]
      /\ UNCHANGED <<message, bell, dismissed>>
  BY <1>1 DEF Created
<1> HIDE DEF row, first
<1>6. /\ conversation'[n] = row /\ participant'[n] = first
      /\ \A c \in Conversations : c # n => /\ conversation'[c] = conversation[c]
                                           /\ participant'[c] = participant[c]
  BY <1>5 DEF Inv, Tables
<1>7. row # NoConversation
  BY <1>2, RowsExist
<1>8. Tables'
  <2>1. /\ conversation' \in [Conversations -> {NoConversation} \cup ConversationRows]
        /\ participant' \in [Conversations -> [Talkers -> ParticipantRows]]
    BY <1>2, <1>3, <1>5 DEF Inv, Tables
  <2>2. Len(message) \in Nat
    BY LengthFacts DEF Inv, Tables
  <2>3. \A c \in Conversations, v \in Talkers :
          /\ participant'[c][v].read <= Len(message)
          /\ IsThere(c, v)' => Exists(c)' /\ participant'[c][v].role # "none"
    <3> SUFFICES ASSUME NEW c \in Conversations, NEW v \in Talkers
                 PROVE  /\ participant'[c][v].read <= Len(message)
                        /\ IsThere(c, v)' => Exists(c)' /\ participant'[c][v].role # "none"
      OBVIOUS
    <3>1. CASE c = n
      <4>1. participant'[c][v] = first[v] /\ conversation'[c] = row
        BY <1>6, <3>1
      <4>2. participant'[c][v].read <= Len(message)
        BY <1>4, <2>2, <4>1
      <4>3. QED
        BY <1>4, <1>7, <4>1, <4>2 DEF IsThere, Exists
    <3>2. CASE c # n
      <4>1. participant'[c] = participant[c] /\ conversation'[c] = conversation[c]
        BY <1>6, <3>2
      <4>2. QED
        BY <4>1 DEF Inv, Tables, IsThere, Exists
    <3>3. QED
      BY <3>1, <3>2
  <2>4. \A c \in Conversations : Exists(c)' => conversation'[c].key.type = conversation'[c].type
    BY <1>2, <1>6 DEF Inv, Tables, Exists
  <2>5. QED
    BY <1>5, <2>1, <2>3, <2>4 DEF Inv, Tables, IsThere, Exists
<1>9. OneThreadPerPair'
  <2>1. ASSUME NEW d \in Conversations, d # n, Exists(d), conversation[d].key = key
        PROVE  type = "GROUP" /\ conversation[d].type = "GROUP"
    BY <2>1 DEF Inv, Tables, Thread
  <2>2. ASSUME NEW c \in Conversations, NEW d \in Conversations, Exists(c)', Exists(d)',
               conversation'[c].type # "GROUP", conversation'[c].key = conversation'[d].key
        PROVE  c = d
    <3>1. CASE c # n /\ d # n
      BY <1>6, <2>2, <3>1 DEF Inv, ThreadsOfTwo, OneThreadPerPair, Exists
    <3>2. CASE c = n /\ d # n
      BY <1>2, <1>6, <2>1, <2>2, <3>2 DEF Exists
    <3>3. CASE c # n /\ d = n
      BY <1>2, <1>6, <2>1, <2>2, <3>3 DEF Exists
    <3>4. QED
      BY <3>1, <3>2, <3>3
  <2>3. QED
    BY <2>2 DEF OneThreadPerPair
<1>10. ThreadKeepsBoth'
  <2>1. ASSUME NEW c \in Conversations, c # n PROVE Present(c)' = Present(c)
    BY <1>6, <2>1 DEF Present, IsThere
  <2>2. Present(n)' = {u} \cup others
    BY <1>4, <1>6 DEF Present, IsThere
  <2>3. QED
    BY <1>2, <1>6, <2>1, <2>2 DEF Inv, ThreadsOfTwo, ThreadKeepsBoth, Exists
<1>11. GroupsStay /\ MessagesStay
  <2>1. Len(message) \in Nat
    BY LengthFacts DEF Inv, Tables
  <2>2. conversation[n].type # "GROUP"
    BY <1>1 DEF Exists, NoConversation
  <2>3. QED
    BY <1>5, <1>6, <2>1, <2>2 DEF GroupsStay, MessagesStay
<1>12. QED
  BY <1>8, <1>9, <1>10, <1>11 DEF ThreadsOfTwo

LEMMA ThreadsKeep == ASSUME Inv, ThreadsNext PROVE Inv'
<1>1. ASSUME NEW h \in Handlers, NEW type \in {"DIRECT", "ADMIN"}, NEW u \in Talkers,
             NEW peer \in Talkers, CheckOpenThread(h, type, u, peer)
      PROVE  Inv'
  <2>1. [op |-> "open", user |-> u, peer |-> peer, type |-> type] \in Opening
    BY DEF Opening
  <2>2. PICK r \in Opening : r = [op |-> "open", user |-> u, peer |-> peer, type |-> type]
    BY <2>1
  <2>3. r \in ChatRequests /\ Fits(r)
    BY DEF ChatRequests, Fits, Opening, Adding, Reading
  <2>4. QED
    BY <1>1, <2>2, <2>3, HoldKeeps DEF CheckOpenThread
<1>2. ASSUME NEW u \in Talkers, NEW others \in SUBSET (Talkers \ {u}), CreateGroup(u, others)
      PROVE  Inv'
  <2>1. [type |-> "GROUP", pair |-> {}] \in [type : Types, pair : SUBSET Talkers]
    BY DEF Types
  <2>2. Tables' /\ ThreadsOfTwo' /\ GroupsStay /\ MessagesStay
    BY <1>2, <2>1, CreatedKeeps DEF CreateGroup, Types
  <2>3. QED
    BY <1>2, <2>2, KeptByNone DEF CreateGroup, AtOnce
<1>3. ASSUME NEW h \in Handlers, OpenThread(h) PROVE Inv'
  <2>1. PICK r \in Opening : r = request[h]
    BY <1>3 DEF OpenThread, Inv, ChatRequests, NoRequest, Adding, Sending, Reading
  <2>2. /\ r.type \in Types /\ r.type # "GROUP" /\ r.user \in Talkers /\ r.peer \in Talkers
        /\ KeyOf(r.type, r.user, r.peer) \in [type : Types, pair : SUBSET Talkers]
        /\ KeyOf(r.type, r.user, r.peer).type = r.type
        /\ KeyOf(r.type, r.user, r.peer).pair = {r.user} \cup {r.peer}
    BY DEF KeyOf, Opening, Types
  <2>3. /\ Thread(KeyOf(r.type, r.user, r.peer)) = {}
        /\ Created(r.type, KeyOf(r.type, r.user, r.peer), r.user, {r.peer})
        /\ request' = [request EXCEPT ![h] = NoRequest]
    BY <1>3, <2>1 DEF OpenThread, IsNewKey, Answer, Continue
  <2>4. Tables' /\ ThreadsOfTwo' /\ GroupsStay /\ MessagesStay
    BY <2>2, <2>3, CreatedKeeps
  <2>5. QED
    BY <2>3, <2>4, NoRequestFits, KeptByOne
<1>4. QED
  BY <1>1, <1>2, <1>3 DEF ThreadsNext

-----------------------------------------------------------------------------
(* Members come and go, of groups only *)

LEMMA MemberKeeps ==
  ASSUME Inv, NEW c \in Conversations, NEW v \in Talkers, NEW row \in ParticipantRows,
         conversation[c].type = "GROUP",
         row.read <= Len(message), row.there => row.role # "none",
         participant' = [participant EXCEPT ![c][v] = row],
         UNCHANGED <<conversation, message, bell, dismissed>>
  PROVE  Tables' /\ ThreadsOfTwo' /\ GroupsStay /\ MessagesStay
<1>1. Len(message) \in Nat
  BY LengthFacts DEF Inv, Tables
<1>2. Exists(c)
  BY DEF Exists, NoConversation
<1>3. participant' \in [Conversations -> [Talkers -> ParticipantRows]]
  BY DEF Inv, Tables
<1>4. /\ participant'[c][v] = row
      /\ \A d \in Conversations, w \in Talkers :
           d # c \/ w # v => participant'[d][w] = participant[d][w]
  BY DEF Inv, Tables
<1>5. \A d \in Conversations, w \in Talkers :
        /\ participant'[d][w].read <= Len(message)
        /\ participant'[d][w].there => Exists(d) /\ participant'[d][w].role # "none"
  BY <1>2, <1>4 DEF Inv, Tables, IsThere
<1>6. Tables'
  BY <1>3, <1>5 DEF Inv, Tables, IsThere, Exists
<1>7. OneThreadPerPair'
  BY DEF Inv, ThreadsOfTwo, OneThreadPerPair, Exists
<1>8. ASSUME NEW d \in Conversations, d # c PROVE Present(d)' = Present(d)
  BY <1>4, <1>8 DEF Present, IsThere
<1>9. ThreadKeepsBoth'
  BY <1>8 DEF Inv, ThreadsOfTwo, ThreadKeepsBoth, Exists
<1>10. QED
  BY <1>1, <1>6, <1>7, <1>9 DEF ThreadsOfTwo, GroupsStay, MessagesStay

LEMMA MembersKeep == ASSUME Inv, MembersNext PROVE Inv'
<1>1. ASSUME NEW u \in Talkers, NEW c \in Conversations, RenameGroup(c, u) PROVE Inv'
  <2>1. Len(message) \in Nat
    BY LengthFacts DEF Inv, Tables
  <2>2. conversation[c] \in ConversationRows
    BY <1>1 DEF RenameGroup, ManagesGroup, IsMember, Exists, Inv, Tables
  <2> DEFINE row == [conversation[c] EXCEPT !.renamed = TRUE]
  <2>3. /\ row \in ConversationRows /\ row.type = conversation[c].type
        /\ row.key = conversation[c].key
    BY <2>2 DEF ConversationRows
  <2>4. conversation' = [conversation EXCEPT ![c] = row]
        /\ UNCHANGED <<participant, message, bell, dismissed, request>>
    BY <1>1 DEF RenameGroup, AtOnce
  <2> HIDE DEF row
  <2>5. /\ conversation' \in [Conversations -> {NoConversation} \cup ConversationRows]
        /\ conversation'[c] = row
        /\ \A d \in Conversations : d # c => conversation'[d] = conversation[d]
    BY <2>3, <2>4 DEF Inv, Tables
  <2>6. \A d \in Conversations :
          /\ Exists(d)' = Exists(d)
          /\ Exists(d) => /\ conversation'[d].type = conversation[d].type
                          /\ conversation'[d].key = conversation[d].key
    BY <2>2, <2>3, <2>5, RowsExist DEF Exists
  <2>7. Tables'
    BY <2>4, <2>5, <2>6 DEF Inv, Tables, IsThere
  <2>8. ThreadsOfTwo'
    BY <2>4, <2>6 DEF Inv, ThreadsOfTwo, OneThreadPerPair, ThreadKeepsBoth, Present, IsThere
  <2>9. GroupsStay /\ MessagesStay
    BY <2>1, <2>3, <2>4, <2>5 DEF GroupsStay, MessagesStay
  <2>10. QED
    BY <2>4, <2>7, <2>8, <2>9, KeptByNone
<1>2. ASSUME NEW h \in Handlers, NEW u \in Talkers, NEW c \in Conversations,
             NEW others \in SUBSET (Talkers \ {u}), CheckAddMembers(h, c, u, others)
      PROVE  Inv'
  <2>1. [op |-> "add", conversation |-> c, left |-> others \ Present(c)] \in Adding
    BY DEF Adding
  <2>2. PICK r \in Adding : r = [op |-> "add", conversation |-> c, left |-> others \ Present(c)]
    BY <2>1
  <2>3. r \in ChatRequests /\ Fits(r)
    BY <1>2, <2>2 DEF ChatRequests, Fits, CheckAddMembers, ManagesGroup, Adding, Reading
  <2>4. QED
    BY <1>2, <2>2, <2>3, HoldKeeps DEF CheckAddMembers
<1>3. ASSUME NEW h \in Handlers, AddMember(h) PROVE Inv'
  <2>1. PICK r \in Adding : r = request[h] /\ conversation[r.conversation].type = "GROUP"
    BY <1>3 DEF AddMember, Inv, Fits, ChatRequests, NoRequest, Opening, Sending, Reading
  <2>2. PICK v \in r.left :
          /\ participant' = [participant EXCEPT ![r.conversation][v] = Returning(@)]
          /\ IF r.left = {v} THEN Answer(h)
             ELSE Continue(h, [r EXCEPT !.left = @ \ {v}])
    BY <1>3, <2>1 DEF AddMember
  <2>3. UNCHANGED <<conversation, message, bell, dismissed>>
    BY <1>3 DEF AddMember
  <2>4. r.conversation \in Conversations /\ v \in Talkers
    BY <2>2 DEF Adding
  <2> DEFINE row == Returning(participant[r.conversation][v])
  <2>5. row \in ParticipantRows /\ row.role # "none" /\ row.read <= Len(message)
    <3>1. /\ participant[r.conversation][v] \in ParticipantRows
          /\ participant[r.conversation][v].read <= Len(message)
      BY <2>4 DEF Inv, Tables
    <3>2. /\ row \in ParticipantRows /\ row.role = "MEMBER"
          /\ row.read = participant[r.conversation][v].read
      BY <3>1 DEF Returning, ParticipantRows
    <3>3. QED
      BY <3>1, <3>2
  <2>6. participant' = [participant EXCEPT ![r.conversation][v] = row]
    BY <2>2, <2>4 DEF Inv, Tables
  <2> HIDE DEF row
  <2>7. Tables' /\ ThreadsOfTwo' /\ GroupsStay /\ MessagesStay
    BY <2>1, <2>3, <2>4, <2>5, <2>6, MemberKeeps
  <2>8. CASE r.left = {v}
    BY <2>2, <2>7, <2>8, NoRequestFits, KeptByOne DEF Answer, Continue
  <2>9. CASE r.left # {v}
    <3> DEFINE next == [r EXCEPT !.left = @ \ {v}]
    <3>1. next \in Adding /\ next.conversation = r.conversation
      BY DEF Adding
    <3>2. next \in ChatRequests /\ Fits(next)'
      BY <2>1, <2>3, <3>1 DEF ChatRequests, Fits, Adding, Reading
    <3>3. request' = [request EXCEPT ![h] = next]
      BY <2>2, <2>9 DEF Continue
    <3>4. QED
      BY <2>7, <3>2, <3>3, KeptByOne
  <2>10. QED
    BY <2>8, <2>9
<1>4. QED
  BY <1>1, <1>2, <1>3 DEF MembersNext

LEMMA LeavingKeeps == ASSUME Inv, LeavingNext PROVE Inv'
<1>1. PICK u \in Talkers, c \in Conversations : LeaveGroup(c, u)
  BY DEF LeavingNext
<1> DEFINE row == [participant[c][u] EXCEPT !.there = FALSE]
<1>2. row \in ParticipantRows /\ ~row.there /\ row.read <= Len(message)
  <2>1. participant[c][u] \in ParticipantRows /\ participant[c][u].read <= Len(message)
    BY DEF Inv, Tables
  <2>2. row \in ParticipantRows /\ ~row.there /\ row.read = participant[c][u].read
    BY <2>1 DEF ParticipantRows
  <2>3. QED
    BY <2>1, <2>2
<1>3. /\ conversation[c].type = "GROUP"
      /\ participant' = [participant EXCEPT ![c][u] = row]
      /\ UNCHANGED <<conversation, message, bell, dismissed, request>>
  BY <1>1 DEF LeaveGroup, MayBeLeft, AtOnce, Inv, Tables
<1> HIDE DEF row
<1>4. QED
  BY <1>2, <1>3, MemberKeeps, KeptByNone

-----------------------------------------------------------------------------
(* Messages and marks *)

LEMMA MarkKeeps ==
  ASSUME Inv, NEW c \in Conversations, NEW u \in Talkers, NEW n \in Nat,
         n <= Len(message'), Len(message) <= Len(message'), message' \in Seq(MessageRows),
         bell' \cup dismissed' \subseteq [user : Talkers, message : DOMAIN message'],
         participant' = [participant EXCEPT ![c][u].read = n],
         UNCHANGED conversation
  PROVE  Tables' /\ ThreadsOfTwo' /\ GroupsStay /\ MessagesStay
<1>1. Len(message) \in Nat /\ Len(message') \in Nat
  BY LenProperties DEF Inv, Tables
<1>2. participant' \in [Conversations -> [Talkers -> ParticipantRows]]
  <2>1. participant[c][u] \in ParticipantRows
    BY DEF Inv, Tables
  <2>2. [participant[c][u] EXCEPT !.read = n] \in ParticipantRows
    BY <2>1 DEF ParticipantRows
  <2>3. participant' = [participant EXCEPT ![c][u] = [participant[c][u] EXCEPT !.read = n]]
    BY DEF Inv, Tables
  <2>4. QED
    BY <2>2, <2>3 DEF Inv, Tables
<1>3. \A d \in Conversations, w \in Talkers :
        /\ participant'[d][w].there = participant[d][w].there
        /\ participant'[d][w].role = participant[d][w].role
        /\ participant'[d][w].read \in {n, participant[d][w].read}
  BY DEF Inv, Tables, ParticipantRows
<1>4. \A d \in Conversations, w \in Talkers : participant[d][w].read \in Nat
  BY DEF Inv, Tables, ParticipantRows
<1>5. \A d \in Conversations, w \in Talkers :
        /\ participant'[d][w].read <= Len(message')
        /\ participant'[d][w].there => Exists(d) /\ participant'[d][w].role # "none"
  BY <1>1, <1>3, <1>4 DEF Inv, Tables, IsThere
<1>6. Tables'
  BY <1>2, <1>5 DEF Inv, Tables, IsThere, Exists
<1>7. \A d \in Conversations : Present(d)' = Present(d)
  BY <1>3 DEF Present, IsThere
<1>8. ThreadsOfTwo'
  BY <1>7 DEF Inv, ThreadsOfTwo, OneThreadPerPair, ThreadKeepsBoth, Exists
<1>9. QED
  BY <1>6, <1>8 DEF GroupsStay, MessagesStay

LEMMA TalkKeeps == ASSUME Inv, TalkNext PROVE Inv'
<1> USE LengthFacts
<1>1. ASSUME NEW h \in Handlers, NEW u \in Talkers, NEW c \in Conversations, CheckSend(h, c, u)
      PROVE  Inv'
  <2>1. [op |-> "send", conversation |-> c, user |-> u, to |-> Recipients(c, u)] \in Sending
    BY DEF Sending, Recipients, Present
  <2>2. PICK r \in Sending :
          r = [op |-> "send", conversation |-> c, user |-> u, to |-> Recipients(c, u)]
    BY <2>1
  <2>3. r \in ChatRequests /\ Fits(r)
    BY DEF ChatRequests, Fits, Sending, Adding, Reading
  <2>4. QED
    BY <1>1, <2>2, <2>3, HoldKeeps DEF CheckSend
<1>2. ASSUME NEW h \in Handlers, NEW u \in Talkers, NEW c \in Conversations, CheckMarkRead(h, c, u)
      PROVE  Inv'
  <2>1. Len(message) \in Nat
    BY DEF Inv, Tables
  <2>2. [op |-> "read", conversation |-> c, user |-> u, date |-> Len(message)] \in Reading
    BY <2>1 DEF Reading
  <2>3. PICK r \in Reading :
          r = [op |-> "read", conversation |-> c, user |-> u, date |-> Len(message)]
    BY <2>2
  <2>4. r \in ChatRequests /\ Fits(r)
    BY <2>1, <2>3 DEF ChatRequests, Fits, Adding, Reading
  <2>5. QED
    BY <1>2, <2>3, <2>4, HoldKeeps DEF CheckMarkRead
<1>3. ASSUME NEW h \in Handlers, SendMessage(h) PROVE Inv'
  <2>1. PICK r \in Sending : r = request[h]
    BY <1>3 DEF SendMessage, Inv, ChatRequests, NoRequest, Opening, Adding, Reading
  <2>2. r.conversation \in Conversations /\ r.user \in Talkers /\ r.to \in SUBSET Talkers
    BY DEF Sending
  <2> DEFINE n == Len(message) + 1
             row == [conversation |-> r.conversation, sender |-> r.user, to |-> r.to]
  <2>3. row \in MessageRows
    BY <2>2 DEF MessageRows
  <2>4. /\ message' = Append(message, row)
        /\ participant' = [participant EXCEPT ![r.conversation][r.user].read = n]
        /\ bell' = bell \cup {[user |-> v, message |-> n] : v \in r.to}
        /\ request' = [request EXCEPT ![h] = NoRequest]
        /\ UNCHANGED <<conversation, dismissed>>
    BY <1>3, <2>1 DEF SendMessage, Ringing, Answer, Continue
  <2> HIDE DEF row
  <2>5. Len(message) \in Nat /\ DOMAIN message = 1..Len(message)
    BY DEF Inv, Tables
  <2>6. message' \in Seq(MessageRows) /\ Len(message') = n
    BY <2>3, <2>4, AppendProperties DEF Inv, Tables
  <2>7. DOMAIN message' = 1..n
    BY <2>6, LenProperties
  <2>8. bell' \cup dismissed' \subseteq [user : Talkers, message : DOMAIN message']
    BY <2>2, <2>4, <2>5, <2>7 DEF Inv, Tables
  <2>9. Tables' /\ ThreadsOfTwo' /\ GroupsStay /\ MessagesStay
    <3>1. n \in Nat /\ n <= Len(message') /\ Len(message) <= Len(message')
      BY <2>5, <2>6
    <3> HIDE DEF n
    <3>2. QED
      BY <2>2, <2>4, <2>6, <2>8, <3>1, MarkKeeps
  <2>10. QED
    BY <2>4, <2>9, NoRequestFits, KeptByOne
<1>4. ASSUME NEW h \in Handlers, MarkRead(h) PROVE Inv'
  <2>1. PICK r \in Reading : r = request[h] /\ r.date <= Len(message)
    BY <1>4 DEF MarkRead, Inv, Fits, ChatRequests, NoRequest, Opening, Adding, Sending
  <2>2. r.conversation \in Conversations /\ r.user \in Talkers /\ r.date \in Nat
    BY DEF Reading
  <2>3. /\ participant' = [participant EXCEPT ![r.conversation][r.user].read = r.date]
        /\ bell' \subseteq bell
        /\ request' = [request EXCEPT ![h] = NoRequest]
        /\ UNCHANGED <<conversation, message, dismissed>>
    BY <1>4, <2>1 DEF MarkRead, Answer, Continue
  <2>4. Len(message) \in Nat
    BY DEF Inv, Tables
  <2>5. Tables' /\ ThreadsOfTwo' /\ GroupsStay /\ MessagesStay
    <3>1. /\ r.date <= Len(message') /\ Len(message) <= Len(message')
          /\ message' \in Seq(MessageRows)
          /\ bell' \cup dismissed' \subseteq [user : Talkers, message : DOMAIN message']
      BY <2>1, <2>3, <2>4 DEF Inv, Tables
    <3>2. QED
      BY <2>2, <2>3, <3>1, MarkKeeps
  <2>6. QED
    BY <2>3, <2>5, NoRequestFits, KeptByOne
<1>5. QED
  BY <1>1, <1>2, <1>3, <1>4 DEF TalkNext

-----------------------------------------------------------------------------
\* What is dismissed was waiting.
LEMMA Dismissing ==
  ASSUME NoticesNext
  PROVE  \E bells \in SUBSET bell : Dismiss(bells)
<1>1. CASE \E b \in bell : ReadNotification(b)
  BY <1>1 DEF ReadNotification
<1>2. CASE \E u \in Talkers : ReadAllNotifications(u)
  BY <1>2 DEF ReadAllNotifications
<1>3. QED
  BY <1>1, <1>2 DEF NoticesNext

LEMMA NoticesKeep == ASSUME Inv, NoticesNext PROVE Inv'
<1>1. PICK bells \in SUBSET bell : Dismiss(bells)
  BY Dismissing
<1>2. /\ UNCHANGED <<conversation, participant, message, request>>
      /\ bell' \cup dismissed' \subseteq bell \cup dismissed
  BY <1>1 DEF Dismiss, AtOnce
<1>3. Tables'
  BY <1>2 DEF Inv, Tables, IsThere, Exists
<1>4. ThreadsOfTwo'
  BY <1>2 DEF Inv, ThreadsOfTwo, OneThreadPerPair, ThreadKeepsBoth, Exists, Present, IsThere
<1>5. Len(message) \in Nat
  BY LengthFacts DEF Inv, Tables
<1>6. GroupsStay /\ MessagesStay
  BY <1>2, <1>5 DEF GroupsStay, MessagesStay
<1>7. QED
  BY <1>2, <1>3, <1>4, <1>6, KeptByNone

LEMMA InvNext == Inv /\ [ChatNext]_chatVars => Inv'
<1> SUFFICES ASSUME Inv, [ChatNext]_chatVars PROVE Inv'
  OBVIOUS
<1>1. CASE UNCHANGED chatVars
  BY <1>1, ReadsKeep, KeptByNone DEF chatVars, apiVars
<1>2. CASE ChatFailure
  BY <1>2, ReadsKeep, NoRequestFits, KeptByOne DEF ChatFailure, BreakOff, Answer, Continue
<1>3. QED
  BY <1>1, <1>2, ThreadsKeep, MembersKeep, LeavingKeeps, TalkKeeps, NoticesKeep DEF ChatNext

LEMMA InvAlways == ChatSpec => []Inv
BY InvInit, InvNext, PTL DEF ChatSpec

\* The tables are well typed: nobody is in a conversation that does not exist,
\* and no mark is ahead of the messages (markRead).
THEOREM TypeCorrect == ChatSpec => []ChatTypeOK
<1>1. Inv => ChatTypeOK
  <2> SUFFICES ASSUME Inv PROVE ChatTypeOK
    OBVIOUS
  <2>1. Len(message) \in Nat /\ DOMAIN message = 1..Len(message)
    BY LengthFacts DEF Inv, Tables
  <2>2. \A c \in Conversations : conversation[c].type \in {"none", "DIRECT", "ADMIN", "GROUP"}
    BY DEF Inv, Tables, NoConversation, ConversationRows, Types
  <2>3. \A c \in Conversations, u \in Talkers :
          /\ participant[c][u].role \in {"none", "OWNER", "MEMBER"}
          /\ participant[c][u].read \in 0..Len(message)
          /\ IsThere(c, u) => Exists(c) /\ participant[c][u].role # "none"
    BY <2>1 DEF Inv, Tables, ParticipantRows
  <2>4. \A n \in DOMAIN message : message[n].to \subseteq Talkers
    <3>1. \A n \in 1..Len(message) : message[n] \in MessageRows
      BY ElementOfSeq DEF Inv, Tables
    <3>2. QED
      BY <2>1, <3>1 DEF MessageRows
  <2>5. QED
    BY <2>2, <2>3, <2>4 DEF ChatTypeOK, Inv, Tables
<1>2. QED
  BY <1>1, InvAlways, PTL

\* A pair of people always finds the one thread it had, whoever opens it and
\* whatever is read before it is written (openDirect, openAdmin, leaveGroup).
THEOREM ThreadsStayTwo == ChatSpec => []ThreadsOfTwo
<1>1. Inv => ThreadsOfTwo
  BY DEF Inv
<1>2. QED
  BY <1>1, InvAlways, PTL

-----------------------------------------------------------------------------
-----------------------------------------------------------------------------
(* One request after the other *)

\* A message that was sent to somebody who has not marked it waits for them,
\* unless they dismissed it.
ToldWait ==
  \A n \in DOMAIN message, u \in Talkers :
    /\ u \in message[n].to /\ u # message[n].sender
    /\ n > participant[message[n].conversation][u].read
    => [user |-> u, message |-> n] \in bell \cup dismissed

\* A conversation that has messages is there, so its marks stay.
MessagesHaveTheirs ==
  \A n \in DOMAIN message : message[n].conversation \in Conversations /\ Exists(message[n].conversation)

\* What waits was sent to its user, who has not marked it or wrote since.
WaitsForItsReader(b) ==
  /\ b.user \in message[b.message].to
  /\ \/ b.message > participant[message[b.message].conversation][b.user].read
     \/ WroteAfter(b.user, b.message)

WaitingIsUnread == \A b \in bell : WaitsForItsReader(b)

TablesStand == ToldWait /\ WaitingIsUnread /\ MessagesHaveTheirs

\* What a request that is alone may count on: its conversation is there, it
\* does not tell its own sender, and the mark it is about to make is that of
\* the last message.
Stands(r) ==
  /\ r \in Sending => Exists(r.conversation) /\ r.user \notin r.to
  /\ r \in Reading => r.date = Len(message)

OneInFlight == \A g, h \in Handlers : g = h \/ AtRest(g) \/ AtRest(h)

SerialInv ==
  /\ Inv
  /\ overlapped \in BOOLEAN
  /\ ~overlapped => OneInFlight /\ TablesStand /\ \A h \in Handlers : Stands(request[h])

LEMMA NoRequestStands == Stands(NoRequest) /\ Stands(NoRequest)'
BY DEF Stands, NoRequest, Sending, Reading

Moves(h, r) == Hold(h, r) \/ (~AtRest(h) /\ Continue(h, r))

LEMMA RestIsNoRequest ==
  ASSUME Inv, NEW g \in Handlers, AtRest(g)
  PROVE  request[g] = NoRequest
BY DEF Inv, AtRest, ChatRequests, Opening, Adding, Sending, Reading, NoRequest

\* While requests come one after the other, the others are at rest.
LEMMA OthersRest ==
  ASSUME SerialInv, NEW h \in Handlers, NEW r \in ChatRequests, Moves(h, r)
  PROVE  /\ overlapped' \in BOOLEAN
         /\ request' = [request EXCEPT ![h] = r]
         /\ ~overlapped' => /\ ~overlapped
                            /\ \A g \in Handlers \ {h} : request[g] = NoRequest
<1>1. overlapped' \in BOOLEAN /\ request' = [request EXCEPT ![h] = r] /\ (~overlapped' => ~overlapped)
  BY DEF SerialInv, Moves, Hold, Continue, MeetsAnother
<1>2. ASSUME ~overlapped', NEW g \in Handlers \ {h} PROVE request[g] = NoRequest
  <2>1. AtRest(g)
    BY <1>1, <1>2 DEF SerialInv, Moves, Hold, Continue, MeetsAnother, OneInFlight
  <2>2. QED
    BY <2>1, RestIsNoRequest DEF SerialInv
<1>3. QED
  BY <1>1, <1>2

\* What the one request in flight does has to fit itself and the tables only.
LEMMA StandsAlone ==
  ASSUME SerialInv, Inv', NEW h \in Handlers, NEW r \in ChatRequests, Moves(h, r),
         ~overlapped => TablesStand' /\ Stands(r)'
  PROVE  SerialInv'
<1>1. /\ overlapped' \in BOOLEAN /\ request' = [request EXCEPT ![h] = r]
      /\ ~overlapped' => TablesStand' /\ Stands(r)'
      /\ ~overlapped' => \A g \in Handlers \ {h} : request[g] = NoRequest
  BY OthersRest
<1>2. request'[h] = r /\ \A g \in Handlers \ {h} : request'[g] = request[g]
  BY <1>1 DEF SerialInv, Inv
<1>3. ASSUME ~overlapped', NEW g \in Handlers PROVE Stands(request[g])'
  BY <1>1, <1>2, <1>3, NoRequestStands
<1>4. ASSUME ~overlapped' PROVE OneInFlight'
  BY <1>1, <1>2, <1>4 DEF OneInFlight, AtRest, NoRequest
<1>5. QED
  BY <1>1, <1>3, <1>4 DEF SerialInv

\* A request that reads and writes at once is alone when nobody else is there.
LEMMA StandsAtOnce ==
  ASSUME SerialInv, Inv', AtOnce, ~overlapped => TablesStand'
  PROVE  SerialInv'
<1>1. /\ overlapped' \in BOOLEAN /\ (~overlapped' => ~overlapped) /\ UNCHANGED request
      /\ ~overlapped' => \A g \in Handlers : AtRest(g)
  BY DEF SerialInv, AtOnce, MeetsAnother
<1>2. ASSUME ~overlapped', NEW g \in Handlers PROVE Stands(request[g])'
  <2>1. request'[g] = NoRequest
    BY <1>1, <1>2, RestIsNoRequest DEF SerialInv
  <2>2. QED
    BY <2>1, NoRequestStands
<1>3. ASSUME ~overlapped' PROVE OneInFlight'
  BY <1>1, <1>3 DEF OneInFlight, AtRest
<1>4. QED
  BY <1>1, <1>2, <1>3 DEF SerialInv

\* Whatever happens to the conversations, while marks and messages stay.
LEMMA TablesStay ==
  ASSUME Inv, TablesStand, UNCHANGED message, bell' \subseteq bell,
         bell \cup dismissed \subseteq bell' \cup dismissed',
         \A c \in Conversations : Exists(c) =>
           Exists(c)' /\ \A u \in Talkers : participant'[c][u].read = participant[c][u].read
  PROVE  TablesStand'
<1>1. \A n \in DOMAIN message, u \in Talkers :
        participant'[message[n].conversation][u].read = participant[message[n].conversation][u].read
  BY DEF TablesStand, MessagesHaveTheirs
<1>2. ToldWait' /\ MessagesHaveTheirs'
  BY <1>1 DEF TablesStand, ToldWait, MessagesHaveTheirs
<1>3. WaitingIsUnread'
  <2>1. \A b \in bell : b.user \in Talkers /\ b.message \in DOMAIN message
    BY DEF Inv, Tables
  <2>2. ASSUME NEW b \in bell' PROVE WaitsForItsReader(b)'
    BY <1>1, <2>1 DEF TablesStand, WaitingIsUnread, WaitsForItsReader, WroteAfter, OfConversation
  <2>3. QED
    BY <2>2 DEF WaitingIsUnread
<1>4. QED
  BY <1>2, <1>3 DEF TablesStand

LEMMA TablesStayRead ==
  ASSUME Inv, TablesStand, UNCHANGED <<conversation, participant, message, bell, dismissed>>
  PROVE  TablesStand'
BY TablesStay DEF Exists

LEMMA NewRowStays ==
  ASSUME Inv, TablesStand, NEW type, NEW key, NEW u \in Talkers, NEW others \in SUBSET Talkers,
         Created(type, key, u, others)
  PROVE  TablesStand'
<1>1. PICK n \in Conversations : n = NewRow /\ ~Exists(n)
  BY DEF Created, HasRoom, NewRow
<1>2. \A c \in Conversations : c # n =>
        conversation'[c] = conversation[c] /\ participant'[c] = participant[c]
  BY <1>1 DEF Created, Inv, Tables
<1>3. \A c \in Conversations : Exists(c) =>
        Exists(c)' /\ \A v \in Talkers : participant'[c][v].read = participant[c][v].read
  BY <1>1, <1>2 DEF Exists
<1>4. QED
  BY <1>3, TablesStay DEF Created

-----------------------------------------------------------------------------
LEMMA ThreadsStand == ASSUME SerialInv, Inv', ThreadsNext PROVE SerialInv'
<1>1. ASSUME NEW h \in Handlers, NEW u \in Talkers, NEW peer \in Talkers,
             NEW type \in {"DIRECT", "ADMIN"}, CheckOpenThread(h, type, u, peer)
      PROVE  SerialInv'
  <2>1. [op |-> "open", user |-> u, peer |-> peer, type |-> type] \in Opening
    BY DEF Opening
  <2>2. PICK r \in Opening : r = [op |-> "open", user |-> u, peer |-> peer, type |-> type]
    BY <2>1
  <2>3. r \in ChatRequests /\ Moves(h, r) /\ Stands(r)'
    BY <1>1, <2>2 DEF ChatRequests, CheckOpenThread, Moves, Stands, Opening, Sending, Reading
  <2>4. QED
    BY <1>1, <2>3, TablesStayRead, StandsAlone DEF CheckOpenThread, SerialInv
<1>2. ASSUME NEW u \in Talkers, NEW others \in SUBSET (Talkers \ {u}), CreateGroup(u, others)
      PROVE  SerialInv'
  <2>1. others \in SUBSET Talkers
    OBVIOUS
  <2>2. TablesStand => TablesStand'
    BY <1>2, <2>1, NewRowStays DEF CreateGroup, SerialInv
  <2>3. QED
    BY <1>2, <2>2, StandsAtOnce DEF CreateGroup, SerialInv
<1>3. ASSUME NEW h \in Handlers, OpenThread(h) PROVE SerialInv'
  <2>1. PICK r \in Opening : r = request[h]
    BY <1>3 DEF OpenThread, SerialInv, Inv, ChatRequests, NoRequest, Adding, Sending, Reading
  <2>2. r.user \in Talkers /\ {r.peer} \in SUBSET Talkers
    BY DEF Opening
  <2>3. Created(r.type, KeyOf(r.type, r.user, r.peer), r.user, {r.peer}) /\ Answer(h) /\ ~AtRest(h)
    BY <1>3, <2>1 DEF OpenThread, AtRest
  <2>4. TablesStand => TablesStand'
    BY <2>2, <2>3, NewRowStays DEF SerialInv
  <2>5. QED
    BY <2>3, <2>4, NoRequestFits, NoRequestStands, StandsAlone DEF SerialInv, Answer, Moves
<1>4. QED
  BY <1>1, <1>2, <1>3 DEF ThreadsNext

\* Whoever comes back has what was read.
LEMMA MembersStand == ASSUME SerialInv, Inv', MembersNext PROVE SerialInv'
<1>1. ASSUME NEW u \in Talkers, NEW c \in Conversations, RenameGroup(c, u) PROVE SerialInv'
  <2>1. conversation[c] \in ConversationRows
    BY <1>1 DEF RenameGroup, ManagesGroup, IsMember, Exists, SerialInv, Inv, Tables
  <2>2. /\ [conversation[c] EXCEPT !.renamed = TRUE] \in ConversationRows
        /\ conversation' = [conversation EXCEPT ![c] = [conversation[c] EXCEPT !.renamed = TRUE]]
        /\ UNCHANGED <<participant, message, bell, dismissed>> /\ AtOnce
    BY <1>1, <2>1 DEF RenameGroup, ConversationRows
  <2>3. \A d \in Conversations : Exists(d) => Exists(d)'
    BY <2>2, RowsExist DEF Exists, SerialInv, Inv, Tables
  <2>4. TablesStand => TablesStand'
    BY <2>2, <2>3, TablesStay DEF SerialInv
  <2>5. QED
    BY <2>2, <2>4, StandsAtOnce DEF SerialInv
<1>2. ASSUME NEW h \in Handlers, NEW u \in Talkers, NEW c \in Conversations,
             NEW others \in SUBSET (Talkers \ {u}), CheckAddMembers(h, c, u, others)
      PROVE  SerialInv'
  <2>1. [op |-> "add", conversation |-> c, left |-> others \ Present(c)] \in Adding
    BY DEF Adding
  <2>2. PICK r \in Adding : r = [op |-> "add", conversation |-> c, left |-> others \ Present(c)]
    BY <2>1
  <2>3. r \in ChatRequests /\ Moves(h, r) /\ Stands(r)'
    BY <1>2, <2>2 DEF ChatRequests, CheckAddMembers, Moves, Stands, Adding, Sending, Reading
  <2>4. QED
    BY <1>2, <2>3, TablesStayRead, StandsAlone DEF CheckAddMembers, SerialInv
<1>3. ASSUME NEW h \in Handlers, AddMember(h) PROVE SerialInv'
  <2>1. PICK r \in Adding : r = request[h] /\ ~AtRest(h)
    BY <1>3 DEF AddMember, AtRest, SerialInv, Inv, ChatRequests, NoRequest, Opening, Sending, Reading
  <2>2. PICK v \in r.left :
          /\ participant' = [participant EXCEPT ![r.conversation][v] = Returning(@)]
          /\ IF r.left = {v} THEN Answer(h)
             ELSE Continue(h, [r EXCEPT !.left = @ \ {v}])
    BY <1>3, <2>1 DEF AddMember
  <2>3. UNCHANGED <<conversation, message, bell, dismissed>> /\ r.conversation \in Conversations /\ v \in Talkers
    BY <1>3, <2>2 DEF AddMember, Adding
  <2>4. \A c \in Conversations, u \in Talkers : participant'[c][u].read = participant[c][u].read
    <3>1. participant \in [Conversations -> [Talkers -> ParticipantRows]]
      BY DEF SerialInv, Inv, Tables
    <3>2. Returning(participant[r.conversation][v]).read = participant[r.conversation][v].read
      BY <2>3, <3>1 DEF Returning, ParticipantRows
    <3>3. QED
      BY <2>2, <2>3, <3>1, <3>2
  <2>5. TablesStand => TablesStand'
    BY <2>3, <2>4, TablesStay DEF Exists, SerialInv
  <2>6. CASE r.left = {v}
    BY <2>1, <2>2, <2>5, <2>6, NoRequestFits, NoRequestStands, StandsAlone
    DEF SerialInv, Answer, Moves
  <2>7. CASE r.left # {v}
    <3>1. PICK next \in Adding : next = [r EXCEPT !.left = @ \ {v}]
      BY DEF Adding
    <3>2. next \in ChatRequests /\ Moves(h, next) /\ Stands(next)'
      BY <2>1, <2>2, <2>7, <3>1 DEF ChatRequests, Moves, Stands, Adding, Sending, Reading
    <3>3. QED
      BY <2>5, <3>2, StandsAlone DEF SerialInv
  <2>8. QED
    BY <2>6, <2>7
<1>4. QED
  BY <1>1, <1>2, <1>3 DEF MembersNext

\* Whoever leaves keeps the mark and what waits to be read.
LEMMA LeavingStands == ASSUME SerialInv, Inv', LeavingNext PROVE SerialInv'
<1>1. PICK u \in Talkers, c \in Conversations : LeaveGroup(c, u)
  BY DEF LeavingNext
<1>2. \A d \in Conversations, v \in Talkers : participant'[d][v].read = participant[d][v].read
  BY <1>1 DEF LeaveGroup, SerialInv, Inv, Tables, ParticipantRows
<1>3. TablesStand => TablesStand'
  BY <1>1, <1>2, TablesStay DEF LeaveGroup, Exists, SerialInv
<1>4. QED
  BY <1>1, <1>3, StandsAtOnce DEF LeaveGroup, SerialInv

-----------------------------------------------------------------------------
\* The sender has read all that was sent; everybody it is sent to is told of it.
LEMMA SendStands ==
  ASSUME SerialInv, Inv', NEW h \in Handlers, SendMessage(h)
  PROVE  SerialInv'
<1>1. PICK r \in Sending : r = request[h] /\ ~AtRest(h)
  BY DEF SendMessage, AtRest, SerialInv, Inv, ChatRequests, NoRequest, Opening, Adding, Reading
<1>2. r.conversation \in Conversations /\ r.user \in Talkers /\ r.to \in SUBSET Talkers
  BY DEF Sending
<1>3. PICK n \in Nat : n = Len(message) + 1 /\ DOMAIN message = 1..(n - 1)
  BY LengthFacts DEF SerialInv, Inv, Tables
<1>4. PICK row \in MessageRows :
         /\ row.conversation = r.conversation /\ row.sender = r.user /\ row.to = r.to
         /\ message' = Append(message, row)
  <2>1. [conversation |-> r.conversation, sender |-> r.user, to |-> r.to] \in MessageRows
    BY <1>2 DEF MessageRows
  <2>2. QED
    BY <1>1, <2>1 DEF SendMessage
<1>5. /\ participant' = [participant EXCEPT ![r.conversation][r.user].read = n]
      /\ bell' = bell \cup {[user |-> v, message |-> n] : v \in r.to}
      /\ Answer(h) /\ UNCHANGED <<conversation, dismissed>>
  BY <1>1, <1>3 DEF SendMessage, Ringing
<1>6. /\ DOMAIN message' = 1..n /\ message'[n] = row
      /\ \A m \in DOMAIN message : m \in DOMAIN message' /\ message'[m] = message[m]
  <2>1. message \in Seq(MessageRows) /\ Len(message) = n - 1
    BY <1>3 DEF SerialInv, Inv, Tables
  <2>2. /\ message' \in Seq(MessageRows) /\ Len(message') = n /\ message'[n] = row
        /\ \A m \in 1..(n - 1) : message'[m] = message[m]
    BY <1>3, <1>4, <2>1, AppendProperties
  <2>3. DOMAIN message' = 1..n
    BY <2>2, LenProperties
  <2>4. QED
    BY <1>3, <2>2, <2>3
<1>7. \A c \in Conversations, u \in Talkers :
        /\ participant'[c][u].read = IF c = r.conversation /\ u = r.user THEN n ELSE participant[c][u].read
  BY <1>2, <1>5 DEF SerialInv, Inv, Tables, ParticipantRows
<1>8. ASSUME ~overlapped PROVE TablesStand'
  <2>1. TablesStand /\ Exists(r.conversation) /\ r.user \notin r.to
    BY <1>1, <1>8 DEF SerialInv, Stands
  <2>2. MessagesHaveTheirs'
    <3>1. ASSUME NEW m \in DOMAIN message'
          PROVE  /\ message'[m].conversation \in Conversations
                 /\ Exists(message'[m].conversation)
      <4>1. CASE m = n
        BY <1>2, <1>4, <1>6, <2>1, <4>1
      <4>2. CASE m # n
        <5>1. m \in DOMAIN message
          BY <1>3, <1>6, <4>2
        <5>2. QED
          BY <1>6, <2>1, <5>1 DEF TablesStand, MessagesHaveTheirs
      <4>3. QED
        BY <4>1, <4>2
    <3>2. QED
      BY <1>5, <3>1 DEF MessagesHaveTheirs, Exists
  <2>3. ToldWait'
    <3>1. ASSUME NEW m \in DOMAIN message', NEW u \in Talkers,
                 u \in message'[m].to, u # message'[m].sender,
                 m > participant'[message'[m].conversation][u].read
          PROVE  [user |-> u, message |-> m] \in bell' \cup dismissed'
      <4>1. CASE m = n
        BY <1>4, <1>5, <1>6, <3>1, <4>1
      <4>2. CASE m # n
        <5>1. m \in DOMAIN message /\ m < n
          BY <1>3, <1>6, <4>2
        <5>2. message'[m] = message[m] /\ message[m].conversation \in Conversations
          BY <1>6, <2>1, <5>1 DEF TablesStand, MessagesHaveTheirs
        <5>3. participant'[message[m].conversation][u].read = participant[message[m].conversation][u].read
          BY <1>3, <1>7, <3>1, <5>1, <5>2
        <5>4. [user |-> u, message |-> m] \in bell \cup dismissed
          BY <2>1, <3>1, <5>1, <5>2, <5>3 DEF TablesStand, ToldWait
        <5>5. QED
          BY <1>5, <5>4
      <4>3. QED
        BY <4>1, <4>2
    <3>2. QED
      BY <3>1 DEF ToldWait
  <2>4. WaitingIsUnread'
    <3>1. ASSUME NEW b \in bell' PROVE WaitsForItsReader(b)'
      <4>1. CASE b \in bell
        <5>1. /\ b.user \in Talkers /\ b.message \in DOMAIN message /\ b.message \in Nat /\ b.message < n
              /\ WaitsForItsReader(b)
          BY <1>3, <2>1, <4>1 DEF SerialInv, Inv, Tables, TablesStand, WaitingIsUnread
        <5>2. PICK c \in Conversations : c = message[b.message].conversation /\ c = message'[b.message].conversation
          BY <1>6, <2>1, <5>1 DEF TablesStand, MessagesHaveTheirs
        <5>3. b.user \in message'[b.message].to
          BY <1>6, <5>1 DEF WaitsForItsReader
        <5>4. CASE c = r.conversation /\ b.user = r.user
          <6>1. n \in DOMAIN message' /\ n > b.message /\ message'[n].sender = b.user
                /\ message'[n].conversation = c
            BY <1>3, <1>4, <1>6, <5>1, <5>4
          <6>2. WroteAfter(b.user, b.message)'
            BY <5>2, <6>1 DEF WroteAfter, OfConversation
          <6>3. QED
            BY <5>3, <6>2 DEF WaitsForItsReader
        <5>5. CASE ~(c = r.conversation /\ b.user = r.user)
          <6>1. participant'[c][b.user].read = participant[c][b.user].read
            BY <1>7, <5>1, <5>2, <5>5
          <6>2. WroteAfter(b.user, b.message) => WroteAfter(b.user, b.message)'
            BY <1>6, <5>2 DEF WroteAfter, OfConversation
          <6>3. QED
            BY <5>1, <5>2, <5>3, <6>1, <6>2 DEF WaitsForItsReader
        <5>6. QED
          BY <5>4, <5>5
      <4>2. CASE b \notin bell
        <5>1. PICK v \in r.to : b = [user |-> v, message |-> n]
          BY <1>5, <3>1, <4>2
        <5>2. b.user \in row.to /\ b.message = n /\ b.user # r.user /\ b.user \in Talkers
          BY <1>2, <1>4, <2>1, <5>1
        <5>3. participant'[r.conversation][b.user].read = participant[r.conversation][b.user].read
          BY <1>2, <1>7, <5>2
        <5>4. participant[r.conversation][b.user].read \in Nat /\ participant[r.conversation][b.user].read < n
          BY <1>2, <1>3, <5>2, LengthFacts DEF SerialInv, Inv, Tables, ParticipantRows
        <5>5. QED
          BY <1>3, <1>4, <1>6, <5>2, <5>3, <5>4 DEF WaitsForItsReader
      <4>3. QED
        BY <4>1, <4>2
    <3>2. QED
      BY <3>1 DEF WaitingIsUnread
  <2>5. QED
    BY <2>2, <2>3, <2>4 DEF TablesStand
<1>9. QED
  BY <1>1, <1>5, <1>8, NoRequestFits, NoRequestStands, StandsAlone DEF Answer, Moves

\* A mark of the last message clears what its own reader has of the conversation.
LEMMA ReadStands ==
  ASSUME SerialInv, Inv', NEW h \in Handlers, MarkRead(h)
  PROVE  SerialInv'
<1>1. PICK r \in Reading : r = request[h] /\ ~AtRest(h)
  BY DEF MarkRead, AtRest, SerialInv, Inv, ChatRequests, NoRequest, Opening, Adding, Sending
<1>2. r.conversation \in Conversations /\ r.user \in Talkers /\ r.date \in Nat
  BY DEF Reading
<1>3. /\ participant' = [participant EXCEPT ![r.conversation][r.user].read = r.date]
      /\ bell' = {b \in bell : b.user # r.user \/ b.message \notin OfConversation(r.conversation)}
      /\ Answer(h) /\ UNCHANGED <<conversation, message, dismissed>>
  BY <1>1 DEF MarkRead, OfReader
<1>4. \A c \in Conversations, u \in Talkers :
        /\ participant'[c][u].read = IF c = r.conversation /\ u = r.user THEN r.date ELSE participant[c][u].read
  BY <1>2, <1>3 DEF SerialInv, Inv, Tables, ParticipantRows
<1>5. DOMAIN message = 1..Len(message) /\ Len(message) \in Nat
  BY LengthFacts DEF SerialInv, Inv, Tables
<1>6. ASSUME ~overlapped PROVE TablesStand'
  <2>1. TablesStand /\ r.date = Len(message)
    BY <1>1, <1>6 DEF SerialInv, Stands
  <2>2. MessagesHaveTheirs'
    BY <1>3, <2>1 DEF TablesStand, MessagesHaveTheirs, Exists
  <2>3. ASSUME NEW m \in DOMAIN message, NEW u \in Talkers,
               u \in message[m].to, u # message[m].sender,
               m > participant'[message[m].conversation][u].read
        PROVE  [user |-> u, message |-> m] \in bell' \cup dismissed'
    <3>1. message[m].conversation \in Conversations /\ m <= Len(message) /\ m \in Nat
      BY <1>5, <2>1 DEF TablesStand, MessagesHaveTheirs
    <3>2. message[m].conversation # r.conversation \/ u # r.user
      BY <1>4, <1>5, <2>1, <2>3, <3>1
    <3>3. participant'[message[m].conversation][u].read = participant[message[m].conversation][u].read
      BY <1>4, <3>1, <3>2
    <3>4. [user |-> u, message |-> m] \in bell \cup dismissed
      BY <2>1, <2>3, <3>3 DEF TablesStand, ToldWait
    <3>5. QED
      BY <1>3, <3>2, <3>4 DEF OfConversation
  <2>4. ToldWait'
    BY <1>3, <2>3 DEF ToldWait
  <2>5. ASSUME NEW b \in bell' PROVE WaitsForItsReader(b)'
    <3>1. b \in bell /\ (b.user # r.user \/ b.message \notin OfConversation(r.conversation))
      BY <1>3
    <3>2. b.user \in Talkers /\ b.message \in DOMAIN message /\ WaitsForItsReader(b)
      BY <2>1, <3>1 DEF SerialInv, Inv, Tables, TablesStand, WaitingIsUnread
    <3>3. PICK c \in Conversations : c = message[b.message].conversation
      BY <2>1, <3>2 DEF TablesStand, MessagesHaveTheirs
    <3>4. c # r.conversation \/ b.user # r.user
      BY <3>1, <3>2, <3>3 DEF OfConversation
    <3>5. participant'[c][b.user].read = participant[c][b.user].read
      BY <1>4, <3>2, <3>4
    <3>6. QED
      BY <1>3, <3>2, <3>3, <3>5 DEF WaitsForItsReader, WroteAfter, OfConversation
  <2>6. QED
    BY <2>2, <2>4, <2>5 DEF TablesStand, WaitingIsUnread
<1>7. QED
  BY <1>1, <1>3, <1>6, NoRequestFits, NoRequestStands, StandsAlone DEF Answer, Moves

LEMMA TalkStands == ASSUME SerialInv, Inv', TalkNext PROVE SerialInv'
<1>1. ASSUME NEW h \in Handlers, NEW u \in Talkers, NEW c \in Conversations, CheckSend(h, c, u)
      PROVE  SerialInv'
  <2>1. [op |-> "send", conversation |-> c, user |-> u, to |-> Recipients(c, u)] \in Sending
    BY DEF Sending, Recipients, Present
  <2>2. PICK r \in Sending : /\ r = [op |-> "send", conversation |-> c, user |-> u, to |-> Recipients(c, u)]
                             /\ r.conversation = c /\ r.to = Recipients(c, u)
    BY <2>1
  <2>3. UNCHANGED <<conversation, participant, message, bell, dismissed>>
    BY <1>1 DEF CheckSend
  <2>4. r \in ChatRequests /\ Moves(h, r) /\ Exists(c) /\ r.user \notin r.to
    BY <1>1, <2>2 DEF ChatRequests, CheckSend, Moves, IsMember, Recipients
  <2>5. Stands(r)'
    BY <2>2, <2>3, <2>4 DEF Stands, Sending, Reading, Exists
  <2>6. QED
    BY <2>3, <2>4, <2>5, TablesStayRead, StandsAlone DEF SerialInv
<1>2. ASSUME NEW h \in Handlers, NEW u \in Talkers, NEW c \in Conversations, CheckMarkRead(h, c, u)
      PROVE  SerialInv'
  <2>1. Len(message) \in Nat
    BY LengthFacts DEF SerialInv, Inv, Tables
  <2>2. PICK r \in Reading : /\ r = [op |-> "read", conversation |-> c, user |-> u, date |-> Len(message)]
                             /\ r.date = Len(message)
    <3>1. [op |-> "read", conversation |-> c, user |-> u, date |-> Len(message)] \in Reading
      BY <2>1 DEF Reading
    <3>2. QED
      BY <3>1
  <2>3. UNCHANGED <<conversation, participant, message, bell, dismissed>>
    BY <1>2 DEF CheckMarkRead
  <2>4. r \in ChatRequests /\ Moves(h, r)
    BY <1>2, <2>2 DEF ChatRequests, CheckMarkRead, Moves
  <2>5. Stands(r)'
    BY <2>2, <2>3 DEF Stands, Sending, Reading
  <2>6. QED
    BY <2>3, <2>4, <2>5, TablesStayRead, StandsAlone DEF SerialInv
<1>3. QED
  BY <1>1, <1>2, SendStands, ReadStands DEF TalkNext

\* Whoever dismisses a notification leaves the mark where it is.
LEMMA NoticesStand == ASSUME SerialInv, Inv', NoticesNext PROVE SerialInv'
<1>1. PICK bells \in SUBSET bell : Dismiss(bells)
  BY Dismissing
<1>2. /\ UNCHANGED <<conversation, participant, message>> /\ AtOnce
      /\ bell' \subseteq bell /\ bell \cup dismissed \subseteq bell' \cup dismissed'
  BY <1>1 DEF Dismiss
<1>3. TablesStand => TablesStand'
  BY <1>2, TablesStay DEF SerialInv, Exists
<1>4. QED
  BY <1>2, <1>3, StandsAtOnce DEF SerialInv

LEMMA SerialNext == SerialInv /\ [ChatNext]_chatVars => SerialInv'
<1> SUFFICES ASSUME SerialInv, [ChatNext]_chatVars PROVE SerialInv'
  OBVIOUS
<1>0. Inv'
  BY InvNext DEF SerialInv
<1>1. CASE UNCHANGED chatVars
  <2>1. UNCHANGED <<conversation, participant, message, bell, dismissed, request, overlapped>>
    BY <1>1 DEF chatVars, apiVars
  <2>2. TablesStand => TablesStand'
    BY <2>1, TablesStayRead DEF SerialInv
  <2>3. OneInFlight => OneInFlight'
    BY <2>1 DEF OneInFlight, AtRest
  <2>4. ASSUME NEW h \in Handlers, Stands(request[h]) PROVE Stands(request[h])'
    BY <2>1, <2>4 DEF Stands, Exists, Present, IsThere
  <2>5. QED
    BY <1>0, <2>1, <2>2, <2>3, <2>4 DEF SerialInv
<1>2. CASE ChatFailure
  BY <1>0, <1>2, NoRequestFits, NoRequestStands, TablesStayRead, StandsAlone
  DEF ChatFailure, BreakOff, Answer, Moves, SerialInv
<1>3. QED
  BY <1>0, <1>1, <1>2, ThreadsStand, MembersStand, LeavingStands, TalkStands, NoticesStand DEF ChatNext

LEMMA SerialInit == ChatInit => SerialInv
<1> SUFFICES ASSUME ChatInit PROVE SerialInv
  OBVIOUS
<1>1. overlapped \in BOOLEAN /\ OneInFlight /\ \A h \in Handlers : Stands(request[h])
  BY NoRequestStands DEF ChatInit, ApiInit, OneInFlight, AtRest, NoRequest
<1>2. DOMAIN message = {}
  BY DEF ChatInit
<1>3. TablesStand
  BY <1>2 DEF ChatInit, TablesStand, ToldWait, WaitingIsUnread, MessagesHaveTheirs
<1>4. QED
  BY <1>1, <1>3, InvInit DEF SerialInv

\* One request after the other, who is sent a message keeps its notification
\* until it is read, there or among the notifications, and none that was read by
\* opening the conversation waits (sendMessage, markRead, addMembers,
\* leaveGroup; notificationService.markRead and markAllRead).
THEOREM MembersStayTold == ChatSpec => []MembersAreTold
<1>1. SerialInv => UnreadHasItsBell /\ BellIsUnread
  <2>1. SerialInv => UnreadHasItsBell
    BY DEF SerialInv, TablesStand, ToldWait, UnreadHasItsBell, Unread, OfConversation
  <2>2. SerialInv => BellIsUnread
    BY DEF SerialInv, TablesStand, WaitingIsUnread, WaitsForItsReader, BellIsUnread
  <2>3. QED
    BY <2>1, <2>2
<1>2. ChatSpec => []SerialInv
  BY SerialInit, SerialNext, PTL DEF ChatSpec
<1>3. ChatTypeOK /\ UnreadHasItsBell /\ BellIsUnread <=> MembersAreTold
  BY DEF MembersAreTold
<1>4. QED
  BY <1>1, <1>2, <1>3, TypeCorrect, PTL

-----------------------------------------------------------------------------
(* Requests in turn, of any service *)

\* The handlers, whatever they hold; one is in flight until two have been.
HandlersInTurn ==
  /\ request = [h \in Handlers |-> request[h]]
  /\ overlapped \in BOOLEAN
  /\ ~overlapped => OneInFlight

\* What the one request in flight comes to hold, the others being at rest.
LEMMA OthersAtRest ==
  ASSUME HandlersInTurn, NEW h \in Handlers, NEW r, Moves(h, r)
  PROVE  /\ HandlersInTurn'
         /\ request'[h] = r
         /\ \A g \in Handlers \ {h} : request'[g] = request[g]
         /\ ~overlapped' => ~overlapped /\ \A g \in Handlers \ {h} : AtRest(g)'
<1>1. /\ request' = [request EXCEPT ![h] = r] /\ overlapped' \in BOOLEAN
      /\ ~overlapped' => ~overlapped
  BY DEF HandlersInTurn, Moves, Hold, Continue, MeetsAnother
<1>2. request'[h] = r /\ \A g \in Handlers \ {h} : request'[g] = request[g]
  BY <1>1 DEF HandlersInTurn
<1>3. ASSUME ~overlapped', NEW g \in Handlers \ {h} PROVE AtRest(g)
  BY <1>1, <1>3 DEF HandlersInTurn, Moves, Hold, Continue, MeetsAnother, OneInFlight
<1>4. ASSUME ~overlapped', NEW g \in Handlers \ {h} PROVE AtRest(g)'
  BY <1>2, <1>3, <1>4 DEF AtRest
<1>5. ~overlapped' => OneInFlight'
  BY <1>4 DEF OneInFlight
<1>6. QED
  BY <1>1, <1>2, <1>4, <1>5 DEF HandlersInTurn

LEMMA AllAtRest ==
  ASSUME HandlersInTurn, AtOnce
  PROVE  /\ HandlersInTurn' /\ UNCHANGED request
         /\ ~overlapped' => ~overlapped /\ \A g \in Handlers : AtRest(g)'
<1>1. /\ UNCHANGED request /\ overlapped' \in BOOLEAN /\ (~overlapped' => ~overlapped)
      /\ ~overlapped' => \A g \in Handlers : AtRest(g)
  BY DEF HandlersInTurn, AtOnce, MeetsAnother
<1>2. ~overlapped' => \A g \in Handlers : AtRest(g)'
  BY <1>1 DEF AtRest
<1>3. QED
  BY <1>1, <1>2 DEF HandlersInTurn, OneInFlight

-----------------------------------------------------------------------------
(* Subscriptions *)

Cycles == {"MONTHLY", "YEARLY"}

PeriodRows == [status : Payments, dated : BOOLEAN, amount : Nat, byHand : BOOLEAN]

\* What rows are made from, of a body or of the subscription.
AreTerms(t) ==
  t.seats \in Nat /\ t.unit \in Nat /\ t.cycle \in Cycles /\ t.start \in Nat /\ t.end \in Nat

SubscriptionTables ==
  /\ period \in [Months -> {NoPeriod} \cup PeriodRows]
  /\ month \in Months
  /\ subscription.state \in {"absent", "live", "deleted"}
  /\ IsLive => /\ AreTerms(subscription) /\ subscription.type \in {"COMPANY", "PERSON"}
               /\ subscription.type = "COMPANY" => subscription.person = "none"
  /\ PaidHasItsDate

\* What only requests in turn keep.
TermIsBilled ==
  IsLive =>
    \A m \in MonthsInRange(subscription) :
      /\ period[m] # NoPeriod
      /\ m >= subscription.agreedFrom /\ ~period[m].byHand
           => period[m].amount = PeriodAmount(subscription)

Paying ==
  [op : {"period"}, month : Months, existing : {"no", "yes", "gone"}, amount : Nat,
   status : Payments]

IsUpdate(r) ==
  /\ r.op = "update" /\ r.input \in Updates /\ AreTerms(r.terms) /\ r.from \in Nat
  /\ Parsed(r.input).type = "COMPANY" => r.person = "none"

IsRequest(r) == r = NoRequest \/ r \in Paying \/ IsUpdate(r)

\* The terms it was checked with are still those it would make.
IsFresh(r) == r.op = "update" => r.terms = NextTerms(Parsed(r.input), subscription)

SubscriptionInv ==
  /\ HandlersInTurn
  /\ SubscriptionTables
  /\ \A h \in Handlers : IsRequest(request[h])
  /\ ~overlapped => TermIsBilled /\ \A h \in Handlers : IsFresh(request[h])

LEMMA MonthsAreNumbers == Months \subseteq Nat /\ \E last \in Nat : Months = 0..last
BY SubscriptionAssumption

LEMMA NoPeriodFacts ==
  /\ NoPeriod \notin PeriodRows /\ NoPeriod.status = "none"
  /\ \A row \in PeriodRows : row # NoPeriod
BY DEF NoPeriod, PeriodRows, Payments

LEMMA NoRequestIsFresh == IsRequest(NoRequest) /\ NoRequest.op = "none" /\ IsFresh(NoRequest)'
BY DEF IsRequest, NoRequest, IsFresh

LEMMA AmountIsNat ==
  ASSUME NEW t, AreTerms(t)
  PROVE  PeriodAmount(t) \in Nat
<1>1. \A a, b \in Nat : a * b \in Nat /\ (a * b) \div 12 \in Nat
  OBVIOUS
<1>2. PICK a \in Nat, b \in Nat : a = t.seats /\ b = t.unit
  BY DEF AreTerms
<1>3. PeriodAmount(t) = IF t.cycle = "YEARLY" THEN (a * b) \div 12 ELSE a * b
  BY <1>2 DEF PeriodAmount
<1>4. QED
  BY <1>1, <1>3

\* Whoever has the same terms has the same months at the same price.
LEMMA SameTerms ==
  ASSUME NEW s, NEW t,
         s.seats = t.seats, s.unit = t.unit, s.cycle = t.cycle, s.start = t.start, s.end = t.end
  PROVE  MonthsInRange(s) = MonthsInRange(t) /\ PeriodAmount(s) = PeriodAmount(t)
BY DEF MonthsInRange, EndOf, PeriodAmount

\* syncPeriods: every month of the term has a row, and those from the given
\* month on are at the new price.
LEMMA SyncFacts ==
  ASSUME SubscriptionTables, NEW t, AreTerms(t), NEW from \in Nat
  PROVE  LET rows == SyncPeriods(t, from)
         IN /\ rows \in [Months -> {NoPeriod} \cup PeriodRows]
            /\ \A m \in Months : rows[m] # NoPeriod => (rows[m].dated <=> rows[m].status = "PAID")
            /\ \A m \in MonthsInRange(t) :
                 rows[m] # NoPeriod /\ (m >= from => rows[m].amount = PeriodAmount(t))
<1> DEFINE rows == SyncPeriods(t, from)
<1>1. PICK amount \in Nat : amount = PeriodAmount(t)
  BY AmountIsNat
<1>2. PICK new \in PeriodRows :
        new = Added(t) /\ new.amount = amount /\ new.status = "WAITING" /\ new.dated = FALSE
  <2>1. PICK new : new = Added(t)
    OBVIOUS
  <2>2. /\ new \in PeriodRows /\ new.amount = amount /\ new.status = "WAITING"
        /\ new.dated = FALSE
    BY <1>1, <2>1 DEF Added, NewPeriod, PeriodRows, Payments
  <2>3. QED
    BY <2>1, <2>2
<1>3. ASSUME NEW m \in Months
      PROVE  /\ rows[m] \in {NoPeriod} \cup PeriodRows
             /\ rows[m] # NoPeriod => (rows[m].dated <=> rows[m].status = "PAID")
             /\ m \in MonthsInRange(t) =>
                  rows[m] # NoPeriod /\ (m >= from => rows[m].amount = amount)
  <2>1. CASE m \notin MonthsInRange(t)
    BY <2>1 DEF SyncPeriods
  <2>2. CASE m \in MonthsInRange(t) /\ period[m] = NoPeriod
    <3>1. rows[m] = new
      BY <1>2, <2>2 DEF SyncPeriods
    <3>2. QED
      BY <1>2, <3>1, NoPeriodFacts
  <2>3. CASE m \in MonthsInRange(t) /\ period[m] # NoPeriod
    <3>1. PICK row \in PeriodRows : row = period[m] /\ (row.dated <=> row.status = "PAID")
      BY <2>3 DEF SubscriptionTables, PaidHasItsDate
    <3>2. PICK other : other = Rewritten(row, t)
      OBVIOUS
    <3>3. /\ other \in PeriodRows /\ other.amount = amount
          /\ other.dated = row.dated /\ other.status = row.status
      BY <1>1, <3>2 DEF Rewritten, PeriodRows
    <3>4. m >= t.start
      BY <2>3, MonthsAreNumbers DEF MonthsInRange, AreTerms
    <3>5. rows[m] = IF m >= from THEN other ELSE row
      BY <2>3, <3>1, <3>2, <3>4 DEF SyncPeriods, IsReached
    <3>6. QED
      BY <3>1, <3>3, <3>5, NoPeriodFacts
  <2>4. QED
    BY <2>1, <2>2, <2>3
<1>4. rows = [m \in Months |-> rows[m]]
  BY DEF SyncPeriods
<1>5. MonthsInRange(t) \subseteq Months
  BY DEF MonthsInRange
<1> HIDE DEF rows
<1>6. /\ rows \in [Months -> {NoPeriod} \cup PeriodRows]
      /\ \A m \in Months : rows[m] # NoPeriod => (rows[m].dated <=> rows[m].status = "PAID")
      /\ \A m \in MonthsInRange(t) :
           rows[m] # NoPeriod /\ (m >= from => rows[m].amount = PeriodAmount(t))
  BY <1>1, <1>3, <1>4, <1>5
<1>7. QED
  BY <1>6 DEF rows

LEMMA SubscriptionMoves ==
  ASSUME SubscriptionInv, SubscriptionTables',
         NEW h \in Handlers, NEW r, IsRequest(r), Moves(h, r),
         ~overlapped => TermIsBilled' /\ IsFresh(r)'
  PROVE  SubscriptionInv'
<1>1. /\ HandlersInTurn'
      /\ request'[h] = r
      /\ \A g \in Handlers \ {h} : request'[g] = request[g]
      /\ ~overlapped' => ~overlapped /\ \A g \in Handlers \ {h} : AtRest(g)'
  BY OthersAtRest DEF SubscriptionInv
<1>2. ASSUME NEW g \in Handlers PROVE IsRequest(request'[g])
  BY <1>1 DEF SubscriptionInv
<1>3. ASSUME NEW g \in Handlers, ~overlapped' PROVE IsFresh(request[g])'
  <2>1. CASE g = h
    BY <1>1, <1>3, <2>1 DEF IsFresh
  <2>2. CASE g # h
    BY <1>1, <1>3, <2>2 DEF AtRest, IsFresh
  <2>3. QED
    BY <2>1, <2>2
<1>4. ~overlapped' => TermIsBilled'
  BY <1>1
<1>5. QED
  BY <1>1, <1>2, <1>3, <1>4 DEF SubscriptionInv, IsRequest, IsUpdate

\* A request that only reads.
LEMMA SubscriptionStays ==
  ASSUME SubscriptionInv, UNCHANGED <<subscription, period, month>>
  PROVE  SubscriptionTables' /\ (~overlapped => TermIsBilled')
BY DEF SubscriptionInv, SubscriptionTables, TermIsBilled, IsLive, PaidHasItsDate

LEMMA SubscriptionInvAtOnce ==
  ASSUME SubscriptionInv, SubscriptionTables', AtOnce, ~overlapped => TermIsBilled'
  PROVE  SubscriptionInv'
<1>1. /\ HandlersInTurn' /\ UNCHANGED request
      /\ ~overlapped' => ~overlapped /\ \A g \in Handlers : AtRest(g)'
  BY AllAtRest DEF SubscriptionInv
<1>2. \A g \in Handlers : IsRequest(request'[g])
  BY <1>1 DEF SubscriptionInv
<1>3. ~overlapped' => \A g \in Handlers : IsFresh(request[g])'
  BY <1>1 DEF AtRest, IsFresh
<1>4. QED
  BY <1>1, <1>2, <1>3 DEF SubscriptionInv, IsRequest, IsUpdate

-----------------------------------------------------------------------------
\* A body with its defaults.
LEMMA ParsedFacts ==
  ASSUME NEW input, IsBody(input), NEW named, named = Parsed(input)
  PROVE  /\ named.type \in {"COMPANY", "PERSON"} /\ named.cycle \in Cycles
         /\ "type" \in DOMAIN named /\ "cycle" \in DOMAIN named
         /\ \A f \in {"seats", "unit", "start", "end", "from"} :
              /\ f \in DOMAIN named <=> f \in DOMAIN input
              /\ f \in DOMAIN named => named[f] \in Nat
<1>1. /\ DOMAIN named = DOMAIN input \cup {"cycle", "type"}
      /\ \A f \in DOMAIN named :
           named[f] = Named(input, f, IF f = "cycle" THEN "MONTHLY" ELSE "COMPANY")
  BY DEF Parsed
<1>2. ASSUME NEW f \in {"seats", "unit", "start", "end", "from"}
      PROVE  /\ f \in DOMAIN named <=> f \in DOMAIN input
             /\ f \in DOMAIN named => named[f] \in Nat
  BY <1>1 DEF IsBody, Named
<1>3. named["type"] = Named(input, "type", "COMPANY")
      /\ named["cycle"] = Named(input, "cycle", "MONTHLY")
  BY <1>1
<1>4. named["type"] \in {"COMPANY", "PERSON"} /\ named["cycle"] \in Cycles
  BY <1>3 DEF IsBody, Cycles
<1>5. QED
  BY <1>1, <1>2, <1>4

LEMMA CreateSubscriptionStands ==
  ASSUME SubscriptionInv, NEW input \in Orders, CreateSubscription(input)
  PROVE  SubscriptionInv'
<1>1. IsBody(input) /\ {"seats", "unit", "start", "end"} \subseteq DOMAIN input
  BY SubscriptionAssumption
<1>2. PICK t : t = Parsed(input)
  OBVIOUS
<1>3. AreTerms(t) /\ t.type \in {"COMPANY", "PERSON"} /\ t.start \in Nat
  BY <1>1, <1>2, ParsedFacts DEF AreTerms
<1>4. /\ subscription' = [state |-> "live", seats |-> t.seats, unit |-> t.unit,
             cycle |-> t.cycle, start |-> t.start, end |-> t.end,
             type |-> t.type, person |-> Assignee(t, [person |-> "none"]),
             agreedFrom |-> t.start]
      /\ period' = SyncPeriods(t, t.start)
      /\ AtOnce /\ UNCHANGED month
  BY <1>2 DEF CreateSubscription
<1>5. PICK s : s = subscription'
  OBVIOUS
<1>6. /\ s.state = "live" /\ s.seats = t.seats /\ s.unit = t.unit /\ s.cycle = t.cycle
      /\ s.start = t.start /\ s.end = t.end /\ s.type = t.type /\ s.agreedFrom = t.start
      /\ s.person = Assignee(t, [person |-> "none"])
  BY <1>4, <1>5
<1>7. /\ period' \in [Months -> {NoPeriod} \cup PeriodRows]
      /\ \A m \in Months : period'[m] # NoPeriod => (period'[m].dated <=> period'[m].status = "PAID")
      /\ \A m \in MonthsInRange(t) :
           period'[m] # NoPeriod /\ (m >= t.start => period'[m].amount = PeriodAmount(t))
  BY <1>3, <1>4, SyncFacts DEF SubscriptionInv
<1>8. MonthsInRange(s) = MonthsInRange(t) /\ PeriodAmount(s) = PeriodAmount(t)
  BY <1>6, SameTerms
<1>9. s.type = "COMPANY" => s.person = "none"
  BY <1>6 DEF Assignee
<1>10. AreTerms(s)
  BY <1>3, <1>6 DEF AreTerms
<1>11. SubscriptionTables'
  BY <1>3, <1>4, <1>5, <1>6, <1>7, <1>9, <1>10
  DEF SubscriptionInv, SubscriptionTables, IsLive, AreTerms, PaidHasItsDate
<1>12. TermIsBilled'
  BY <1>5, <1>6, <1>7, <1>8 DEF TermIsBilled, IsLive, MonthsInRange, EndOf, PeriodAmount
<1>13. QED
  BY <1>4, <1>11, <1>12, SubscriptionInvAtOnce

LEMMA CheckUpdateStands ==
  ASSUME SubscriptionInv, NEW h \in Handlers, NEW input \in Updates,
         CheckUpdateSubscription(h, input)
  PROVE  SubscriptionInv'
<1>1. IsBody(input)
  BY SubscriptionAssumption
<1>2. PICK named : named = Parsed(input)
  OBVIOUS
<1>3. PICK t : t = NextTerms(named, subscription)
  OBVIOUS
<1>4. PICK from : from = From(named, t)
  OBVIOUS
<1>5. PICK person : person = Assignee(named, subscription)
  OBVIOUS
<1>6. /\ "type" \in DOMAIN named /\ named.type \in {"COMPANY", "PERSON"}
      /\ named.type = "COMPANY" => person = "none"
  BY <1>1, <1>2, <1>5, ParsedFacts DEF Assignee
<1>7. /\ IsLive /\ UNCHANGED <<subscription, period, month>>
      /\ Hold(h, [op |-> "update", input |-> input, terms |-> t, from |-> from, person |-> person])
  BY <1>2, <1>3, <1>4, <1>5, <1>6 DEF CheckUpdateSubscription
<1>8. PICK r : r = [op |-> "update", input |-> input, terms |-> t, from |-> from, person |-> person]
  OBVIOUS
<1>9. r.op = "update" /\ r.input = input /\ r.terms = t /\ r.from = from /\ r.person = person
  BY <1>8
<1>10. AreTerms(t)
  <2>1. AreTerms(subscription)
    BY <1>7 DEF SubscriptionInv, SubscriptionTables
  <2>2. \A f \in {"seats", "unit", "cycle", "start", "end"} : t[f] = Named(named, f, subscription[f])
    BY <1>3 DEF NextTerms
  <2>3. \A f \in {"seats", "unit", "start", "end"} : t[f] \in Nat
    BY <1>1, <1>2, <2>1, <2>2, ParsedFacts DEF AreTerms, Named
  <2>4. t["cycle"] \in Cycles
    BY <1>1, <1>2, <2>1, <2>2, ParsedFacts DEF AreTerms, Named
  <2>5. QED
    BY <2>3, <2>4 DEF AreTerms
<1>11. from \in Nat
  <2>1. month \in Nat /\ t.start + 1 \in Nat
    BY <1>10, MonthsAreNumbers DEF AreTerms, SubscriptionInv, SubscriptionTables
  <2>2. "from" \in DOMAIN named => named["from"] \in Nat
    BY <1>1, <1>2, ParsedFacts
  <2>3. QED
    BY <1>4, <2>1, <2>2 DEF From, Named
<1>12. IsRequest(r) /\ IsFresh(r)'
  BY <1>2, <1>3, <1>6, <1>7, <1>9, <1>10, <1>11 DEF IsRequest, IsUpdate, IsFresh
<1>13. QED
  BY <1>7, <1>8, <1>12, SubscriptionStays, SubscriptionMoves DEF Moves

\* Requests that are told that their row is gone are the requests they were.
LEMMA LosersStay ==
  ASSUME SubscriptionInv, NEW rows \in [Months -> {NoPeriod} \cup PeriodRows], NEW g \in Handlers
  PROVE  /\ IsRequest(Losing(rows)[g])
         /\ Losing(rows)[g].op = request[g].op
         /\ request[g].op # "period" => Losing(rows)[g] = request[g]
<1>1. CASE request[g].op # "period"
  <2>1. Losing(rows)[g] = request[g]
    BY <1>1 DEF Losing
  <2>2. QED
    BY <1>1, <2>1 DEF SubscriptionInv
<1>2. CASE request[g].op = "period"
  <2>1. PICK r \in Paying : r = request[g]
    BY <1>2 DEF SubscriptionInv, IsRequest, IsUpdate, NoRequest
  <2>2. PICK s : s = [r EXCEPT !.existing = IF @ = "yes" THEN "gone" ELSE @]
    OBVIOUS
  <2>3. s \in Paying /\ s.op = "period"
    BY <2>2 DEF Paying
  <2>4. Losing(rows)[g] = s \/ Losing(rows)[g] = r
    BY <2>1, <2>2 DEF Losing
  <2>5. QED
    BY <1>2, <2>1, <2>3, <2>4 DEF IsRequest
<1>3. QED
  BY <1>1, <1>2

LEMMA UpdateStands ==
  ASSUME SubscriptionInv, NEW h \in Handlers, UpdateSubscription(h)
  PROVE  SubscriptionInv'
<1>1. PICK r : r = request[h] /\ r.op = "update" /\ IsUpdate(r) /\ (~overlapped => IsFresh(r))
  BY DEF UpdateSubscription, SubscriptionInv, IsRequest, NoRequest, Paying
<1>2. PICK t, from : t = r.terms /\ from = r.from /\ AreTerms(t) /\ from \in Nat
  BY <1>1 DEF IsUpdate
<1>3. IsBody(r.input)
  BY <1>1, SubscriptionAssumption DEF IsUpdate
<1>4. PICK named : named = Parsed(r.input)
  OBVIOUS
<1>5. /\ named.type \in {"COMPANY", "PERSON"} /\ named.cycle \in Cycles
      /\ "type" \in DOMAIN named /\ "cycle" \in DOMAIN named
      /\ \A f \in {"seats", "unit", "start", "end"} : f \in DOMAIN named => named[f] \in Nat
  BY <1>3, <1>4, ParsedFacts
<1>6. PICK rows : rows = SyncPeriods(t, from)
  OBVIOUS
<1>7. /\ IsLive
      /\ subscription' = [state |-> "live", seats |-> Named(named, "seats", subscription["seats"]),
           unit |-> Named(named, "unit", subscription["unit"]),
           cycle |-> Named(named, "cycle", subscription["cycle"]),
           start |-> Named(named, "start", subscription["start"]),
           end |-> Named(named, "end", subscription["end"]),
           type |-> Named(named, "type", subscription["type"]), person |-> r.person,
           agreedFrom |-> from]
      /\ period' = rows
      /\ request' = [Losing(rows) EXCEPT ![h] = NoRequest]
      /\ UNCHANGED <<overlapped, month>>
  BY <1>1, <1>2, <1>4, <1>5, <1>6 DEF UpdateSubscription
<1>8. PICK s : s = subscription'
  OBVIOUS
<1>9. /\ s.state = "live" /\ s.agreedFrom = from /\ s.person = r.person
      /\ s.seats = Named(named, "seats", subscription.seats)
      /\ s.unit = Named(named, "unit", subscription.unit)
      /\ s.cycle = Named(named, "cycle", subscription.cycle)
      /\ s.start = Named(named, "start", subscription.start)
      /\ s.end = Named(named, "end", subscription.end)
      /\ s.type = named.type
  BY <1>5, <1>7, <1>8 DEF Named
<1>10. AreTerms(s)
  <2>1. AreTerms(subscription)
    BY <1>7 DEF SubscriptionInv, SubscriptionTables
  <2>2. QED
    BY <1>5, <1>9, <2>1 DEF AreTerms, Named
<1>11. s.type \in {"COMPANY", "PERSON"} /\ (s.type = "COMPANY" => s.person = "none")
  BY <1>1, <1>4, <1>5, <1>9 DEF IsUpdate
<1>12. /\ rows \in [Months -> {NoPeriod} \cup PeriodRows]
       /\ \A m \in Months : rows[m] # NoPeriod => (rows[m].dated <=> rows[m].status = "PAID")
       /\ \A m \in MonthsInRange(t) :
            rows[m] # NoPeriod /\ (m >= from => rows[m].amount = PeriodAmount(t))
  BY <1>2, <1>6, SyncFacts DEF SubscriptionInv
<1>13. SubscriptionTables'
  BY <1>7, <1>8, <1>9, <1>10, <1>11, <1>12
  DEF SubscriptionInv, SubscriptionTables, IsLive, AreTerms, PaidHasItsDate
<1>14. /\ request'[h] = NoRequest
       /\ \A g \in Handlers \ {h} : request'[g] = Losing(rows)[g]
       /\ request' = [g \in Handlers |-> request'[g]]
  BY <1>7 DEF Losing
<1>15. ASSUME NEW g \in Handlers
       PROVE  IsRequest(request'[g]) /\ (AtRest(g) => AtRest(g)')
  <2>1. CASE g = h
    BY <1>14, <2>1, NoRequestIsFresh DEF AtRest
  <2>2. CASE g # h
    BY <1>12, <1>14, <2>2, LosersStay DEF AtRest
  <2>3. QED
    BY <2>1, <2>2
<1>16. ASSUME ~overlapped'
       PROVE  OneInFlight' /\ TermIsBilled' /\ \A g \in Handlers : IsFresh(request[g])'
  <2>1. ~overlapped
    BY <1>7, <1>16
  <2>2. \A g \in Handlers \ {h} : AtRest(g)
    BY <1>1, <2>1 DEF SubscriptionInv, HandlersInTurn, OneInFlight, AtRest
  <2>3. \A g \in Handlers : AtRest(g)'
    BY <1>14, <1>15, <2>2, NoRequestIsFresh DEF AtRest
  <2>4. t = NextTerms(named, subscription)
    BY <1>1, <1>2, <1>4, <2>1 DEF IsFresh
  <2>5. /\ t.seats = s.seats /\ t.unit = s.unit /\ t.cycle = s.cycle /\ t.start = s.start
        /\ t.end = s.end
    BY <1>9, <2>4 DEF NextTerms
  <2>6. MonthsInRange(s) = MonthsInRange(t) /\ PeriodAmount(s) = PeriodAmount(t)
    BY <2>5, SameTerms
  <2>7. TermIsBilled'
    BY <1>7, <1>8, <1>9, <1>12, <2>6 DEF TermIsBilled, IsLive, MonthsInRange, EndOf, PeriodAmount
  <2>8. QED
    BY <2>3, <2>7 DEF OneInFlight, AtRest, IsFresh
<1>17. HandlersInTurn'
  BY <1>7, <1>14, <1>16 DEF HandlersInTurn, SubscriptionInv
<1>18. QED
  BY <1>13, <1>15, <1>16, <1>17 DEF SubscriptionInv, IsRequest, IsUpdate

LEMMA DeleteStands == ASSUME SubscriptionInv, DeleteSubscription PROVE SubscriptionInv'
<1>1. PICK rows \in [Months -> {NoPeriod} \cup PeriodRows] :
        rows = [m \in Months |-> NoPeriod]
  OBVIOUS
<1>2. /\ subscription' = Deleted /\ period' = rows /\ request' = Losing(rows)
      /\ MeetsAnother /\ UNCHANGED month
  BY <1>1 DEF DeleteSubscription
<1>3. Deleted.state = "deleted"
  BY DEF Deleted
<1>4. SubscriptionTables' /\ TermIsBilled'
  BY <1>1, <1>2, <1>3 DEF SubscriptionInv, SubscriptionTables, TermIsBilled, IsLive, PaidHasItsDate
<1>5. ASSUME NEW g \in Handlers
      PROVE  IsRequest(request'[g]) /\ (AtRest(g) => AtRest(g)')
  BY <1>2, LosersStay DEF AtRest
<1>6. ~overlapped' => \A g \in Handlers : AtRest(g)'
  BY <1>2, <1>5 DEF MeetsAnother
<1>7. request' = [g \in Handlers |-> request'[g]] /\ overlapped' \in BOOLEAN
  BY <1>2 DEF Losing, MeetsAnother, SubscriptionInv, HandlersInTurn
<1>8. HandlersInTurn' /\ (~overlapped' => \A g \in Handlers : IsFresh(request[g])')
  BY <1>6, <1>7 DEF HandlersInTurn, OneInFlight, AtRest, IsFresh
<1>9. QED
  BY <1>4, <1>5, <1>8 DEF SubscriptionInv, IsRequest, IsUpdate

LEMMA CheckPaymentStands ==
  ASSUME SubscriptionInv, NEW h \in Handlers, NEW m \in Months, NEW input \in Edits,
         CheckUpsertPeriod(h, m, input)
  PROVE  SubscriptionInv'
<1>1. /\ "status" \in DOMAIN input => input.status \in Payments
      /\ "amount" \in DOMAIN input => input["amount"] \in Nat
  BY SubscriptionAssumption DEF Named
<1>2. PICK status \in Payments : status = PaymentFrom(input, period[m])
  <2>1. period[m] # NoPeriod => period[m].status \in Payments
    BY DEF SubscriptionInv, SubscriptionTables, PeriodRows
  <2>2. QED
    BY <1>1, <2>1 DEF PaymentFrom, Payments
<1>3. IsLive /\ AreTerms(subscription)
  BY DEF CheckUpsertPeriod, SubscriptionInv, SubscriptionTables
<1>4. PICK amount \in Nat :
        amount = Named(input, "amount", (IF period[m] = NoPeriod THEN NewPeriod(subscription)
                                         ELSE period[m]).amount)
  <2>1. NewPeriod(subscription).amount \in Nat
    BY <1>3, AmountIsNat DEF NewPeriod
  <2>2. period[m] # NoPeriod => period[m].amount \in Nat
    BY DEF SubscriptionInv, SubscriptionTables, PeriodRows
  <2>3. QED
    BY <1>1, <2>1, <2>2 DEF Named
<1>5. PICK existing \in {"no", "yes"} : existing = IF period[m] = NoPeriod THEN "no" ELSE "yes"
  OBVIOUS
<1>6. PICK r \in Paying :
        r = [op |-> "period", month |-> m, existing |-> existing, amount |-> amount,
             status |-> status]
  BY DEF Paying
<1>7. Hold(h, r) /\ UNCHANGED <<subscription, period, month>>
  BY <1>2, <1>4, <1>5, <1>6 DEF CheckUpsertPeriod
<1>8. IsRequest(r) /\ IsFresh(r)'
  BY DEF IsRequest, IsFresh, Paying
<1>9. QED
  BY <1>7, <1>8, SubscriptionStays, SubscriptionMoves DEF Moves

LEMMA PaymentStands ==
  ASSUME SubscriptionInv, NEW h \in Handlers, UpsertPeriod(h)
  PROVE  SubscriptionInv'
<1>1. PICK r \in Paying : r = request[h]
  BY DEF UpsertPeriod, SubscriptionInv, IsRequest, IsUpdate, NoRequest
<1>2. PICK m \in Months : m = r.month
  BY DEF Paying
<1>3. PICK row : row = [status |-> r.status, dated |-> Dated(r), amount |-> r.amount, byHand |-> TRUE]
  OBVIOUS
<1>4. /\ row \in PeriodRows /\ row.byHand = TRUE
      /\ row.dated <=> row.status = "PAID"
  BY <1>3 DEF PeriodRows, Dated, Paying
<1>5. /\ period' = [period EXCEPT ![m] = row] /\ Moves(h, NoRequest)
      /\ UNCHANGED <<subscription, month>>
  BY <1>1, <1>2, <1>3 DEF UpsertPeriod, Answer, Moves, AtRest
<1>6. /\ period' \in [Months -> {NoPeriod} \cup PeriodRows] /\ period'[m] = row
      /\ \A n \in Months \ {m} : period'[n] = period[n]
  BY <1>4, <1>5 DEF SubscriptionInv, SubscriptionTables
<1>7. PaidHasItsDate'
  BY <1>4, <1>6 DEF PaidHasItsDate, SubscriptionInv, SubscriptionTables
<1>8. SubscriptionTables'
  BY <1>5, <1>6, <1>7 DEF SubscriptionInv, SubscriptionTables, IsLive
<1>9. MonthsInRange(subscription) \subseteq Months
  BY DEF MonthsInRange
<1>10. ASSUME ~overlapped PROVE TermIsBilled'
  BY <1>4, <1>5, <1>6, <1>9, <1>10, NoPeriodFacts DEF SubscriptionInv, TermIsBilled, IsLive
<1>11. QED
  BY <1>5, <1>8, <1>10, NoRequestIsFresh, SubscriptionMoves

LEMMA SubscriptionInvNext ==
  SubscriptionInv /\ [SubscriptionNext \/ SubscriptionFailure]_subscriptionVars => SubscriptionInv'
<1>1. ASSUME SubscriptionInv, UNCHANGED <<apiVars, subscription, period>>, month' \in Months
      PROVE  SubscriptionInv'
  <2>1. SubscriptionTables' /\ (~overlapped => TermIsBilled')
    BY <1>1 DEF SubscriptionInv, SubscriptionTables, TermIsBilled, IsLive, PaidHasItsDate
  <2>2. HandlersInTurn'
    BY <1>1 DEF apiVars, SubscriptionInv, HandlersInTurn, OneInFlight, AtRest
  <2>3. QED
    BY <1>1, <2>1, <2>2 DEF apiVars, SubscriptionInv, IsFresh, IsRequest, IsUpdate
<1>2. ASSUME SubscriptionInv, SubscriptionFailure PROVE SubscriptionInv'
  <2>1. PICK h \in Handlers : Moves(h, NoRequest) /\ UNCHANGED <<subscription, period, month>>
    BY <1>2 DEF SubscriptionFailure, BreakOff, Answer, Moves
  <2>2. QED
    BY <1>2, <2>1, NoRequestIsFresh, SubscriptionStays, SubscriptionMoves
<1>3. ASSUME SubscriptionInv, NextMonth PROVE SubscriptionInv'
  BY <1>1, <1>3 DEF NextMonth
<1>4. ASSUME SubscriptionInv, UNCHANGED subscriptionVars PROVE SubscriptionInv'
  BY <1>1, <1>4 DEF subscriptionVars, SubscriptionInv, SubscriptionTables
<1>5. QED
  BY <1>2, <1>3, <1>4, CreateSubscriptionStands, CheckUpdateStands, UpdateStands, DeleteStands,
     CheckPaymentStands, PaymentStands DEF SubscriptionNext

LEMMA SubscriptionInvInit == SubscriptionInit => SubscriptionInv
<1> SUFFICES ASSUME SubscriptionInit PROVE SubscriptionInv
  OBVIOUS
<1>1. Absent.state = "absent" /\ 0 \in Months
  BY MonthsAreNumbers DEF Absent
<1>2. SubscriptionTables /\ TermIsBilled
  BY <1>1 DEF SubscriptionInit, SubscriptionTables, TermIsBilled, IsLive, PaidHasItsDate
<1>3. HandlersInTurn /\ \A h \in Handlers : request[h] = NoRequest
  BY DEF SubscriptionInit, ApiInit, HandlersInTurn, OneInFlight, AtRest, NoRequest
<1>4. QED
  BY <1>2, <1>3 DEF SubscriptionInv, IsRequest, IsFresh, NoRequest

-----------------------------------------------------------------------------
(* The month the screen asks to pay for *)

LEMMA HasEarliest ==
  ASSUME NEW S \in SUBSET Nat, S # {}
  PROVE  EarliestOf(S) \in S /\ \A n \in S : EarliestOf(S) <= n
<1>1. PICK m \in S : \A n \in S : ~ (<<n, m>> \in OpToRel(<, Nat))
  BY NatLessThanWellFounded, WFMin
<1>2. \A n \in S : ~ (n < m)
  BY <1>1 DEF OpToRel
<1>3. \A n \in S : m <= n
  BY <1>2
<1>4. QED
  BY <1>3 DEF EarliestOf

LEMMA HasLatest ==
  ASSUME NEW k \in Nat, NEW S \in SUBSET (0..k), S # {}
  PROVE  LatestOf(S) \in S /\ \A n \in S : n <= LatestOf(S)
<1> DEFINE T == {t \in Nat : \E n \in S : t = k - n}
<1>1. T \in SUBSET Nat /\ T # {}
  <2>1. PICK n \in S : n \in 0..k
    OBVIOUS
  <2>2. k - n \in Nat
    BY <2>1
  <2>3. k - n \in T
    BY <2>2
  <2>4. QED
    BY <2>3
<1>2. PICK t : t = EarliestOf(T)
  OBVIOUS
<1>3. t \in T /\ \A u \in T : t <= u
  BY <1>1, <1>2, HasEarliest
<1>4. PICK m \in S : t = k - m
  BY <1>3
<1>5. ASSUME NEW n \in S PROVE n <= m
  <2>1. k - n \in T
    OBVIOUS
  <2>2. k - m <= k - n
    BY <1>3, <1>4, <2>1
  <2>3. QED
    BY <2>2
<1>6. QED
  BY <1>5 DEF LatestOf

LEMMA AsksForOne == ASSUME SubscriptionTables PROVE AsksForAnUnpaidMonth
<1>1. PICK last \in Nat : Months = 0..last
  BY MonthsAreNumbers
<1>2. month \in Nat /\ \A s : Upcoming(s) \in SUBSET Nat /\ Upcoming(s) \in SUBSET (0..last)
  BY <1>1 DEF SubscriptionTables, Upcoming
<1>3. CASE Upcoming("WAITING") # {}
  <2>1. EarliestOf(Upcoming("WAITING")) \in Upcoming("WAITING")
    BY <1>2, <1>3, HasEarliest
  <2>2. QED
    BY <1>3, <2>1 DEF AsksForAnUnpaidMonth, ActionMonth, Upcoming
<1>4. CASE Upcoming("WAITING") = {} /\ Upcoming("CANCELLED") # {}
  <2>1. EarliestOf(Upcoming("CANCELLED")) \in Upcoming("CANCELLED")
    BY <1>2, <1>4, HasEarliest
  <2>2. QED
    BY <1>4, <2>1 DEF AsksForAnUnpaidMonth, ActionMonth, Upcoming
<1>5. CASE Upcoming("WAITING") = {} /\ Upcoming("CANCELLED") = {} /\ Upcoming("PAID") # {}
  <2>1. PICK m : m = LatestOf(Upcoming("PAID"))
    OBVIOUS
  <2>2. m \in Upcoming("PAID") /\ \A n \in Upcoming("PAID") : n <= m
    BY <1>2, <1>5, <2>1, HasLatest
  <2>3. m \in Nat /\ m >= month
    BY <1>2, <2>2 DEF Upcoming
  <2>4. ActionMonth = m + 1
    BY <1>5, <2>1 DEF ActionMonth
  <2>5. m + 1 \notin Upcoming("PAID") /\ m + 1 >= month
    BY <1>2, <2>2, <2>3
  <2>6. QED
    BY <2>4, <2>5 DEF AsksForAnUnpaidMonth, Upcoming
<1>6. CASE Upcoming("WAITING") = {} /\ Upcoming("CANCELLED") = {} /\ Upcoming("PAID") = {}
  <2>1. ActionMonth = month /\ month >= month
    BY <1>2, <1>6 DEF ActionMonth
  <2>2. QED
    BY <1>6, <2>1 DEF AsksForAnUnpaidMonth, Upcoming
<1>7. QED
  BY <1>3, <1>4, <1>5, <1>6

\* A paid month has its date and the screen asks for one that is not over and
\* not paid, however requests interleave; one after the other, updates leave
\* every month of the term at the price agreed last (syncPeriods, upsertPeriod,
\* resolveActionPeriod).
THEOREM MonthsStayBilled == SubscriptionSpec => []MonthsAreBilled
<1>1. SubscriptionInv => MonthsAreBilled
  <2> SUFFICES ASSUME SubscriptionInv PROVE MonthsAreBilled
    OBVIOUS
  <2>1. SubscriptionTypeOK
    BY DEF SubscriptionInv, SubscriptionTables, SubscriptionTypeOK, AreTerms, Cycles, PeriodRows
  <2>2. BilledAsAgreed /\ RowsCoverTheTerm
    BY DEF SubscriptionInv, TermIsBilled, BilledAsAgreed, RowsCoverTheTerm
  <2>3. PaidHasItsDate /\ AsksForAnUnpaidMonth
    BY AsksForOne DEF SubscriptionInv, SubscriptionTables
  <2>4. QED
    BY <2>1, <2>2, <2>3 DEF MonthsAreBilled
<1>2. QED
  BY <1>1, SubscriptionInvInit, SubscriptionInvNext, PTL DEF SubscriptionSpec

-----------------------------------------------------------------------------
(* The vault *)

Entries == [count : Nat, until : Int]

CredentialRows == [secret : Secrets \cup {"none"}]

TokenRows == [admin : Admins, section : Sections, at : Nat, after : Nat]

\* What may be shown: for a token of the section of the secrets, asked for
\* while it was good.
Disclosures ==
  {w \in [credential : Credentials, secret : Secrets \cup {"none"}, token : TokenRows, at : Nat] :
     w.token.section = "reveal" /\ w.token.at <= w.at /\ w.at <= w.token.at + Lifetime}

Unlocking == [op : {"unlock"}, admin : Admins, section : Sections, right : BOOLEAN]
Rotating == [op : {"rotate"}, credential : Credentials, secret : Secrets]
Deleting == [op : {"delete"}, credential : Credentials]
Telling == [op : {"reveal", "show"}, what : Disclosures]

VaultRequests == {NoRequest} \cup Unlocking \cup Rotating \cup Deleting \cup Telling

\* The entry in memory counts the wrong PINs of the window.
PinsAreCounted ==
  \A a \in Admins :
    /\ attempts[a].until <= window
    /\ verified[a] = IF Counts(a) THEN attempts[a].count ELSE 0

VaultTables ==
  /\ attempts \in [Admins -> Entries]
  /\ verified \in [Admins -> Nat]
  /\ window \in Nat
  /\ credential \in [Credentials -> CredentialRows]
  /\ vaultTokens \subseteq TokenRows
  /\ \A v \in vaultTokens : v.at <= window /\ window <= v.at + Lifetime
  /\ shown \subseteq Disclosures
  /\ PinsAreCounted
  /\ ShownIsLogged

\* What is about to be shown is in the audit trail already.
IsLogged(r) == r.op = "show" => <<r.what.token.admin, r.what.credential>> \in audit

\* The PIN that is being verified is one the limit lets through, and so was
\* the one that opened the section of the secret that is being shown.
IsLetThrough(r) ==
  /\ r.op = "unlock" => verified[r.admin] < MaxAttempts
  /\ r.op \in {"reveal", "show"} => r.what.token.after < MaxAttempts

\* The parts of the limit.
FewWrong == \A a \in Admins : verified[a] <= MaxAttempts
FewBeforeTokens == \A v \in vaultTokens : v.after < MaxAttempts
FewBeforeShown == \A s \in shown : s.token.after < MaxAttempts

VaultInv ==
  /\ HandlersInTurn
  /\ VaultTables
  /\ \A h \in Handlers : request[h] \in VaultRequests /\ IsLogged(request[h])
  /\ ~overlapped =>
       /\ FewWrong /\ FewBeforeTokens /\ FewBeforeShown
       /\ \A h \in Handlers : IsLetThrough(request[h])

USE VaultAssumption

\* What one handler comes to hold has to fit the tables it leaves behind.
LEMMA VaultMoves ==
  ASSUME VaultInv, VaultTables', audit \subseteq audit',
         NEW h \in Handlers, NEW r \in VaultRequests, Moves(h, r), IsLogged(r)',
         ~overlapped => FewWrong' /\ FewBeforeTokens' /\ FewBeforeShown' /\ IsLetThrough(r)'
  PROVE  VaultInv'
<1>1. /\ HandlersInTurn'
      /\ request'[h] = r
      /\ \A g \in Handlers \ {h} : request'[g] = request[g]
      /\ ~overlapped' => ~overlapped /\ \A g \in Handlers \ {h} : AtRest(g)'
  BY OthersAtRest DEF VaultInv
<1>2. ASSUME NEW g \in Handlers PROVE request'[g] \in VaultRequests /\ IsLogged(request[g])'
  BY <1>1 DEF VaultInv, IsLogged
<1>3. ASSUME NEW g \in Handlers, ~overlapped' PROVE IsLetThrough(request[g])'
  <2>1. CASE g = h
    BY <1>1, <1>3, <2>1
  <2>2. CASE g # h
    BY <1>1, <1>3, <2>2 DEF AtRest, IsLetThrough
  <2>3. QED
    BY <2>1, <2>2
<1>4. ~overlapped' => FewWrong' /\ FewBeforeTokens' /\ FewBeforeShown'
  BY <1>1
<1>5. QED
  BY <1>1, <1>2, <1>3, <1>4 DEF VaultInv

LEMMA EndsStand == NoRequest \in VaultRequests /\ IsLogged(NoRequest)' /\ IsLetThrough(NoRequest)'
BY DEF NoRequest, VaultRequests, IsLogged, IsLetThrough

LEMMA PinsStay ==
  ASSUME VaultTables, UNCHANGED <<attempts, window, verified>>
  PROVE  PinsAreCounted' /\ (FewWrong => FewWrong')
BY DEF VaultTables, PinsAreCounted, Counts, FewWrong

LEMMA UnlockStands == ASSUME VaultInv, UnlockNext PROVE VaultInv'
<1>1. ASSUME NEW h \in Handlers, NEW a \in Admins, NEW section \in Sections, NEW right \in BOOLEAN,
             CheckUnlock(h, a, section, right)
      PROVE  VaultInv'
  <2>1. PICK r \in Unlocking : r = [op |-> "unlock", admin |-> a, section |-> section, right |-> right]
    BY DEF Unlocking
  <2>2. r \in VaultRequests /\ Moves(h, r) /\ IsLogged(r)' /\ r.admin = a
    BY <1>1, <2>1 DEF VaultRequests, CheckUnlock, Moves, Unlocking, IsLogged
  <2>3. PICK e \in Entries :
          /\ attempts' = [attempts EXCEPT ![a] = e]
          /\ e.until <= window
          /\ IF Counts(a) THEN e = attempts[a] ELSE e.count = 0 /\ e.until = window
    <3>1. [count |-> 0, until |-> window] \in Entries /\ attempts[a] \in Entries
          /\ attempts[a].until <= window /\ window \in Nat
      BY DEF Entries, VaultInv, VaultTables, PinsAreCounted
    <3>2. CASE Counts(a)
      BY <1>1, <3>1, <3>2 DEF CheckUnlock
    <3>3. CASE ~Counts(a)
      <4>1. PICK e \in Entries : e = [count |-> 0, until |-> window]
        BY <3>1
      <4>2. e.count = 0 /\ e.until = window
        BY <4>1
      <4>3. attempts' = [attempts EXCEPT ![a] = e]
        BY <1>1, <3>3, <4>1 DEF CheckUnlock
      <4>4. e.until <= window
        BY <3>1, <4>2
      <4> WITNESS e \in Entries
      <4>5. QED
        BY <3>3, <4>2, <4>3, <4>4
    <3>4. QED
      BY <3>2, <3>3
  <2>4. UNCHANGED <<window, vaultTokens, credential, audit, shown, verified>> /\ ~IsLockedOut(a)
    BY <1>1 DEF CheckUnlock
  <2>5. attempts'[a] = e /\ \A b \in Admins \ {a} : attempts'[b] = attempts[b]
    BY <2>3 DEF VaultInv, VaultTables
  <2>6. PinsAreCounted'
    BY <2>3, <2>4, <2>5 DEF PinsAreCounted, Counts, VaultInv, VaultTables, Entries
  <2>7. VaultTables'
    BY <2>3, <2>4, <2>6 DEF VaultInv, VaultTables, ShownIsLogged
  <2>8. verified[a] < MaxAttempts
    BY <2>4 DEF IsLockedOut, VaultInv, VaultTables, PinsAreCounted, Entries
  <2>9. ~overlapped => FewWrong' /\ FewBeforeTokens' /\ FewBeforeShown' /\ IsLetThrough(r)'
    BY <2>1, <2>2, <2>4, <2>8 DEF VaultInv, FewWrong, FewBeforeTokens, FewBeforeShown, IsLetThrough,
       Unlocking
  <2>10. QED
    BY <2>2, <2>4, <2>7, <2>9, VaultMoves
<1>2. ASSUME NEW h \in Handlers, Unlock(h) PROVE VaultInv'
  <2>1. PICK r \in Unlocking : r = request[h]
    BY <1>2 DEF Unlock, VaultInv, VaultRequests, NoRequest, Rotating, Deleting, Telling
  <2>2. PICK a \in Admins : a = r.admin
    BY DEF Unlocking
  <2>3. PICK n \in Nat, e \in Entries :
          /\ attempts' = [attempts EXCEPT ![a] = e] /\ verified' = [verified EXCEPT ![a] = n]
          /\ e.until <= window
          /\ \/ n = 0 /\ (e.until >= window => e.count = 0)
             \/ n = verified[a] + 1 /\ e.count = n /\ e.until = window
    <3>1. CASE r.right
      <4>1. NoAttempts \in Entries /\ NoAttempts.count = 0 /\ NoAttempts.until = -1
        BY DEF NoAttempts, Entries
      <4>2. attempts' = [attempts EXCEPT ![a] = NoAttempts] /\ verified' = [verified EXCEPT ![a] = 0]
        BY <1>2, <2>1, <2>2, <3>1 DEF Unlock
      <4>3. window \in Nat
        BY DEF VaultInv, VaultTables
      <4>4. 0 \in Nat /\ NoAttempts.until <= window
        BY <4>1, <4>3
      <4> PICK e \in Entries : e = NoAttempts
        BY <4>1
      <4> WITNESS 0 \in Nat, e \in Entries
      <4>5. QED
        BY <4>1, <4>2, <4>4
    <3>2. CASE ~r.right
      <4>1. PICK was \in Entries : was = attempts[a]
        BY DEF VaultInv, VaultTables
      <4>2. /\ window \in Nat /\ verified[a] \in Nat /\ was.until <= window
            /\ verified[a] = IF was.until >= window THEN was.count ELSE 0
        BY <4>1 DEF VaultInv, VaultTables, PinsAreCounted, Counts
      <4>3. PICK e \in Entries : e = AfterFailure(a) /\ e.count = verified[a] + 1 /\ e.until = window
        <5>1. CASE was.until >= window
          <6>1. PICK e : e = [was EXCEPT !.count = @ + 1]
            OBVIOUS
          <6>2. e \in Entries /\ e.count = was.count + 1 /\ e.until = was.until
            BY <6>1 DEF Entries
          <6>3. AfterFailure(a) = e
            BY <4>1, <5>1, <6>1 DEF AfterFailure, Counts
          <6>4. was.until = window
            BY <4>2, <5>1 DEF Entries
          <6>5. QED
            BY <4>2, <5>1, <6>2, <6>3, <6>4
        <5>2. CASE ~(was.until >= window)
          <6>1. PICK e : e = [count |-> 1, until |-> window]
            OBVIOUS
          <6>2. e \in Entries /\ e.count = 1 /\ e.until = window
            BY <4>2, <6>1 DEF Entries
          <6>3. AfterFailure(a) = e
            BY <4>1, <5>2, <6>1 DEF AfterFailure, Counts
          <6>4. QED
            BY <4>2, <5>2, <6>2, <6>3
        <5>3. QED
          BY <5>1, <5>2
      <4>4. /\ attempts' = [attempts EXCEPT ![a] = e]
            /\ verified' = [verified EXCEPT ![a] = verified[a] + 1]
        BY <1>2, <2>1, <2>2, <3>2, <4>3 DEF Unlock
      <4>5. verified[a] + 1 \in Nat /\ e.until <= window
        BY <4>2, <4>3
      <4>6. QED
        BY <4>3, <4>4, <4>5
    <3>3. QED
      BY <3>1, <3>2
  <2>4. UNCHANGED <<window, credential, audit, shown>> /\ Moves(h, NoRequest)
    BY <1>2 DEF Unlock, Answer, Moves, AtRest
  <2>5. PICK v \in TokenRows :
           /\ v.at = window /\ v.after = verified[a]
           /\ vaultTokens' \in {vaultTokens, vaultTokens \cup {v}}
    <3>1. window \in Nat /\ verified[a] \in Nat /\ r.section \in Sections
      BY DEF VaultInv, VaultTables, Unlocking
    <3>2. PICK v : v = NewToken(a, r.section)
      OBVIOUS
    <3>3. v \in TokenRows /\ v.at = window /\ v.after = verified[a]
      BY <3>1, <3>2 DEF NewToken, TokenRows
    <3>4. vaultTokens' \in {vaultTokens, vaultTokens \cup {v}}
      BY <1>2, <2>1, <2>2, <3>2 DEF Unlock
    <3>5. QED
      BY <3>3, <3>4
  <2>6. /\ vaultTokens' \subseteq TokenRows
        /\ \A w \in vaultTokens' : w.at <= window' /\ window' <= w.at + Lifetime
    BY <2>4, <2>5 DEF VaultInv, VaultTables, TokenRows
  <2>7. /\ attempts'[a] = e /\ \A b \in Admins \ {a} : attempts'[b] = attempts[b]
        /\ verified'[a] = n /\ \A b \in Admins \ {a} : verified'[b] = verified[b]
    BY <2>3 DEF VaultInv, VaultTables
  <2>8. PinsAreCounted'
    BY <2>3, <2>4, <2>7 DEF PinsAreCounted, Counts, VaultInv, VaultTables, Entries
  <2>9. VaultTables'
    BY <2>3, <2>4, <2>8, <2>6 DEF VaultInv, VaultTables, ShownIsLogged
  <2>10. ASSUME ~overlapped PROVE FewWrong' /\ FewBeforeTokens' /\ FewBeforeShown'
    <3>1. verified[a] < MaxAttempts /\ \A b \in Admins : verified[b] <= MaxAttempts
      BY <1>2, <2>1, <2>2, <2>10 DEF Unlock, VaultInv, IsLetThrough, FewWrong
    <3>2. n <= MaxAttempts
      BY <2>3, <3>1 DEF VaultInv, VaultTables
    <3>3. FewWrong'
      BY <2>7, <3>1, <3>2 DEF FewWrong
    <3>4. FewBeforeTokens'
      BY <2>10, <2>5, <3>1 DEF VaultInv, FewBeforeTokens
    <3>5. FewBeforeShown'
      BY <2>4, <2>10 DEF VaultInv, FewBeforeShown
    <3>6. QED
      BY <3>3, <3>4, <3>5
  <2>11. QED
    BY <2>4, <2>9, <2>10, VaultMoves, EndsStand
<1>3. ASSUME NextWindow PROVE VaultInv'
  <2>1. /\ UNCHANGED <<request, overlapped, attempts, credential, audit, shown>>
        /\ window' = window + 1 /\ verified' = [a \in Admins |-> 0]
        /\ vaultTokens' = {v \in vaultTokens : window + 1 <= v.at + Lifetime}
    BY <1>3 DEF NextWindow, apiVars
  <2>2. vaultTokens' \subseteq TokenRows /\ \A v \in vaultTokens' : v.at <= window' /\ window' <= v.at + Lifetime
    <3>1. \A v \in vaultTokens : v.at \in Nat /\ v.at <= window
      BY DEF VaultInv, VaultTables, TokenRows
    <3>2. window \in Nat
      BY DEF VaultInv, VaultTables
    <3>3. vaultTokens' \subseteq vaultTokens
      BY <2>1
    <3>4. QED
      BY <2>1, <3>1, <3>2, <3>3 DEF VaultInv, VaultTables
  <2>3. PinsAreCounted' /\ VaultTables'
    <3>1. PinsAreCounted'
      BY <2>1 DEF PinsAreCounted, Counts, VaultInv, VaultTables, Entries
    <3>2. QED
      BY <2>1, <2>2, <3>1 DEF VaultInv, VaultTables, ShownIsLogged
  <2>4. FewWrong' /\ (~overlapped => FewBeforeTokens' /\ FewBeforeShown')
    BY <2>1 DEF FewWrong, FewBeforeTokens, FewBeforeShown, VaultInv
  <2>5. ASSUME NEW h \in Handlers
        PROVE  /\ request'[h] \in VaultRequests /\ IsLogged(request[h])'
               /\ ~overlapped => IsLetThrough(request[h])'
    <3>1. PICK r \in VaultRequests : r = request[h] /\ IsLogged(r) /\ (~overlapped => IsLetThrough(r))
      BY DEF VaultInv
    <3>2. r.op = "unlock" => r.admin \in Admins
      BY DEF VaultRequests, NoRequest, Unlocking, Rotating, Deleting, Telling
    <3>3. QED
      BY <2>1, <3>1, <3>2 DEF IsLogged, IsLetThrough
  <2>6. HandlersInTurn'
    BY <2>1 DEF HandlersInTurn, OneInFlight, AtRest, VaultInv
  <2>7. QED
    BY <2>1, <2>3, <2>4, <2>5, <2>6 DEF VaultInv
<1>4. QED
  BY <1>1, <1>2, <1>3 DEF UnlockNext

\* What is done to credentials leaves the counts alone.
LEMMA CredentialMoves ==
  ASSUME VaultInv, UNCHANGED <<attempts, window, vaultTokens, verified>>, audit \subseteq audit',
         credential' \in [Credentials -> CredentialRows], ShownIsLogged',
         shown' \subseteq Disclosures, ~overlapped => FewBeforeShown',
         NEW h \in Handlers, NEW r \in VaultRequests, Moves(h, r), IsLogged(r)',
         ~overlapped => IsLetThrough(r)'
  PROVE  VaultInv'
<1>1. VaultTables'
  BY PinsStay DEF VaultInv, VaultTables
<1>2. ~overlapped => FewWrong' /\ FewBeforeTokens' /\ FewBeforeShown' /\ IsLetThrough(r)'
  BY PinsStay DEF VaultInv, FewBeforeTokens
<1>3. QED
  BY <1>1, <1>2, VaultMoves

LEMMA CredentialCheckStands ==
  ASSUME VaultInv, NEW h \in Handlers, NEW c, NEW r \in VaultRequests, r.op \notin {"unlock", "show"},
         r.op = "reveal" => r.what.token \in vaultTokens, CheckCredential(h, c, r)
  PROVE  VaultInv'
<1>1. /\ UNCHANGED <<attempts, window, vaultTokens, credential, audit, shown, verified>>
      /\ Moves(h, r) /\ IsLogged(r)' /\ ShownIsLogged'
  BY DEF CheckCredential, Moves, IsLogged, VaultInv, VaultTables, ShownIsLogged
<1>2. credential' \in [Credentials -> CredentialRows] /\ shown' \subseteq Disclosures
  BY <1>1 DEF VaultInv, VaultTables
<1>3. ~overlapped => FewBeforeShown' /\ IsLetThrough(r)'
  BY <1>1 DEF VaultInv, FewBeforeShown, FewBeforeTokens, IsLetThrough
<1>4. QED
  BY <1>1, <1>2, <1>3, CredentialMoves

LEMMA CredentialStands == ASSUME VaultInv, CredentialNext PROVE VaultInv'
<1>1. ASSUME NEW c \in Credentials, NEW s \in Secrets, CreateCredential(c, s) PROVE VaultInv'
  <2>1. /\ HandlersInTurn' /\ UNCHANGED request
        /\ ~overlapped' => ~overlapped /\ \A g \in Handlers : AtRest(g)'
    BY <1>1, AllAtRest DEF CreateCredential, VaultInv
  <2>2. UNCHANGED <<attempts, window, vaultTokens, audit, shown, verified>>
    BY <1>1 DEF CreateCredential
  <2>3. credential' \in [Credentials -> CredentialRows]
    BY <1>1 DEF CreateCredential, CredentialRows, VaultInv, VaultTables
  <2>4. VaultTables'
    BY <2>2, <2>3, PinsStay DEF VaultInv, VaultTables, ShownIsLogged
  <2>5. ~overlapped' => /\ FewWrong' /\ FewBeforeTokens' /\ FewBeforeShown'
                        /\ \A h \in Handlers : IsLetThrough(request[h])'
    BY <2>1, <2>2, PinsStay DEF VaultInv, AtRest, IsLetThrough, FewBeforeTokens, FewBeforeShown
  <2>6. \A h \in Handlers : request'[h] \in VaultRequests /\ IsLogged(request[h])'
    BY <2>1, <2>2 DEF VaultInv, IsLogged
  <2>7. QED
    BY <2>1, <2>4, <2>5, <2>6 DEF VaultInv
<1>2. ASSUME NEW h \in Handlers, NEW c \in Credentials, NEW s \in Secrets,
             CheckUpdateCredential(h, c, s)
      PROVE  VaultInv'
  <2>1. PICK r \in Rotating : r = [op |-> "rotate", credential |-> c, secret |-> s]
    BY DEF Rotating
  <2>2. r \in VaultRequests /\ r.op = "rotate"
    BY <2>1 DEF VaultRequests
  <2>3. QED
    BY <1>2, <2>1, <2>2, CredentialCheckStands DEF CheckUpdateCredential
<1>3. ASSUME NEW h \in Handlers, NEW c \in Credentials, CheckDeleteCredential(h, c) PROVE VaultInv'
  <2>1. PICK r \in Deleting : r = [op |-> "delete", credential |-> c]
    BY DEF Deleting
  <2>2. r \in VaultRequests /\ r.op = "delete"
    BY <2>1 DEF VaultRequests
  <2>3. QED
    BY <1>3, <2>1, <2>2, CredentialCheckStands DEF CheckDeleteCredential
<1>4. ASSUME NEW h \in Handlers, NEW c \in Credentials, CheckReveal(h, c) PROVE VaultInv'
  <2>1. PICK v \in vaultTokens :
          v.section = "reveal" /\ CheckCredential(h, c, [op |-> "reveal", what |-> ToShow(c, v)])
    BY <1>4 DEF CheckReveal, TokensOf
  <2>2. credential[c].secret \in Secrets \cup {"none"} /\ window \in Nat
    BY DEF VaultInv, VaultTables, CredentialRows
  <2>3. v \in TokenRows /\ v.at <= window /\ window <= v.at + Lifetime
    BY DEF VaultInv, VaultTables
  <2>4. PICK w : w = ToShow(c, v)
    OBVIOUS
  <2>5. w \in Disclosures /\ w.token = v
    BY <2>1, <2>2, <2>3, <2>4 DEF ToShow, Disclosures
  <2>6. PICK r \in Telling : r = [op |-> "reveal", what |-> w]
    BY <2>5 DEF Telling
  <2>7. r \in VaultRequests /\ r.op = "reveal" /\ r.what.token \in vaultTokens
    BY <2>5, <2>6 DEF VaultRequests
  <2>8. CheckCredential(h, c, r)
    BY <2>1, <2>4, <2>6
  <2>9. QED
    BY <2>7, <2>8, CredentialCheckStands
<1>5. ASSUME NEW h \in Handlers, UpdateCredential(h) \/ DeleteCredential(h) PROVE VaultInv'
  <2>1. /\ UNCHANGED <<attempts, window, vaultTokens, audit, shown, verified>> /\ ShownIsLogged'
        /\ Moves(h, NoRequest)
    BY <1>5 DEF UpdateCredential, DeleteCredential, VaultInv, VaultTables, ShownIsLogged, Moves,
       Answer, AtRest
  <2>2. credential' \in [Credentials -> CredentialRows]
    <3>1. CASE UpdateCredential(h)
      <4>1. PICK r \in Rotating : r = request[h]
        BY <3>1 DEF UpdateCredential, VaultInv, VaultRequests, NoRequest, Unlocking, Deleting, Telling
      <4>2. credential' = [credential EXCEPT ![r.credential].secret = r.secret]
        BY <3>1, <4>1 DEF UpdateCredential
      <4>3. QED
        BY <4>1, <4>2 DEF VaultInv, VaultTables, CredentialRows, Rotating
    <3>2. CASE DeleteCredential(h)
      <4>1. NoCredential \in CredentialRows
        BY DEF NoCredential, CredentialRows
      <4>2. QED
        BY <3>2, <4>1 DEF DeleteCredential, VaultInv, VaultTables
    <3>3. QED
      BY <1>5, <3>1, <3>2
  <2>3. shown' \subseteq Disclosures /\ (~overlapped => FewBeforeShown')
    BY <2>1 DEF VaultInv, VaultTables, FewBeforeShown
  <2>4. QED
    BY <2>1, <2>2, <2>3, CredentialMoves, EndsStand
<1>6. ASSUME NEW h \in Handlers, RevealCredential(h) PROVE VaultInv'
  <2>1. PICK r \in Telling : r = request[h] /\ r.op = "reveal" /\ (~overlapped => IsLetThrough(r))
    BY <1>6 DEF RevealCredential, VaultInv, VaultRequests, NoRequest, Unlocking, Rotating, Deleting
  <2>2. PICK s \in Telling : s = [r EXCEPT !.op = "show"]
    BY DEF Telling
  <2>3. s.op = "show" /\ s.what = r.what /\ s \in VaultRequests
    BY <2>2 DEF Telling, VaultRequests
  <2>4. /\ UNCHANGED <<attempts, window, vaultTokens, credential, shown, verified>>
        /\ audit' = audit \cup {<<r.what.token.admin, r.what.credential>>} /\ Moves(h, s)
    BY <1>6, <2>1, <2>2 DEF RevealCredential, Moves, Continue, AtRest
  <2>5. ShownIsLogged' /\ IsLogged(s)' /\ credential' \in [Credentials -> CredentialRows]
    BY <2>3, <2>4 DEF ShownIsLogged, IsLogged, VaultInv, VaultTables
  <2>6. shown' \subseteq Disclosures /\ (~overlapped => FewBeforeShown' /\ IsLetThrough(s)')
    BY <2>1, <2>3, <2>4 DEF VaultInv, VaultTables, FewBeforeShown, IsLetThrough
  <2>7. QED
    BY <2>3, <2>4, <2>5, <2>6, CredentialMoves
<1>7. ASSUME NEW h \in Handlers, ShowSecret(h) PROVE VaultInv'
  <2>1. PICK r \in Telling : r = request[h] /\ r.op = "show" /\ IsLogged(r)
                             /\ (~overlapped => IsLetThrough(r))
    BY <1>7 DEF ShowSecret, VaultInv, VaultRequests, NoRequest, Unlocking, Rotating, Deleting
  <2>2. /\ UNCHANGED <<attempts, window, vaultTokens, credential, audit, verified>>
        /\ Moves(h, NoRequest) /\ shown' = shown \cup {r.what}
    BY <1>7, <2>1 DEF ShowSecret, Moves, Answer, AtRest
  <2>3. PICK s \in Disclosures : s = r.what
    BY DEF Telling
  <2>4. ShownIsLogged' /\ credential' \in [Credentials -> CredentialRows]
    BY <2>1, <2>2, <2>3 DEF ShownIsLogged, IsLogged, VaultInv, VaultTables
  <2>5. shown' \subseteq Disclosures /\ (~overlapped => FewBeforeShown')
    BY <2>1, <2>2, <2>3 DEF VaultInv, VaultTables, FewBeforeShown, IsLetThrough
  <2>6. QED
    BY <2>2, <2>4, <2>5, CredentialMoves, EndsStand
<1>8. QED
  BY <1>1, <1>2, <1>3, <1>4, <1>5, <1>6, <1>7 DEF CredentialNext

\* A restart forgets every request with every count.
LEMMA VaultFailureStands == ASSUME VaultInv, VaultFailure PROVE VaultInv'
<1>1. ASSUME NEW h \in Handlers, BreakOff(h), UNCHANGED <<attempts, verified>> PROVE VaultInv'
  <2>1. /\ UNCHANGED <<attempts, window, vaultTokens, verified, audit, credential, shown>>
        /\ Moves(h, NoRequest)
    BY <1>1 DEF VaultFailure, BreakOff, Answer, Moves
  <2>2. /\ ShownIsLogged' /\ credential' \in [Credentials -> CredentialRows]
        /\ shown' \subseteq Disclosures /\ (~overlapped => FewBeforeShown')
    BY <2>1 DEF ShownIsLogged, VaultInv, VaultTables, FewBeforeShown
  <2>3. QED
    BY <2>1, <2>2, CredentialMoves, EndsStand
<1>2. ASSUME request' = [h \in Handlers |-> NoRequest], attempts' = [a \in Admins |-> NoAttempts],
             verified' = [a \in Admins |-> 0], UNCHANGED overlapped
      PROVE  VaultInv'
  <2>1. UNCHANGED <<window, vaultTokens, audit, credential, shown>>
    BY DEF VaultFailure
  <2>2. NoAttempts \in Entries /\ NoAttempts.count = 0 /\ NoAttempts.until = -1
    BY DEF NoAttempts, Entries
  <2>3. PinsAreCounted' /\ VaultTables'
    BY <1>2, <2>1, <2>2 DEF PinsAreCounted, Counts, VaultTables, VaultInv, ShownIsLogged
  <2>4. FewWrong' /\ (~overlapped => FewBeforeTokens' /\ FewBeforeShown')
    BY <1>2, <2>1 DEF FewWrong, FewBeforeTokens, FewBeforeShown, VaultInv
  <2>5. HandlersInTurn'
    BY <1>2 DEF HandlersInTurn, OneInFlight, AtRest, NoRequest, VaultInv
  <2>6. ASSUME NEW h \in Handlers
        PROVE  request'[h] \in VaultRequests /\ IsLogged(request[h])' /\ IsLetThrough(request[h])'
    <3>1. request'[h] = NoRequest
      BY <1>2
    <3>2. QED
      BY <3>1, EndsStand DEF IsLogged, IsLetThrough
  <2>7. QED
    BY <1>2, <2>3, <2>4, <2>5, <2>6 DEF VaultInv
<1>3. QED
  BY <1>1, <1>2 DEF VaultFailure

LEMMA VaultInvNext ==
  VaultInv /\ [UnlockNext \/ CredentialNext \/ VaultFailure]_vaultVars => VaultInv'
<1>1. ASSUME VaultInv, UNCHANGED vaultVars PROVE VaultInv'
  BY <1>1 DEF vaultVars, apiVars, VaultInv, VaultTables, PinsAreCounted, Counts, ShownIsLogged,
     HandlersInTurn, OneInFlight, AtRest, IsLogged, IsLetThrough, FewWrong, FewBeforeTokens,
     FewBeforeShown
<1>2. QED
  BY <1>1, UnlockStands, CredentialStands, VaultFailureStands

LEMMA VaultInvInit == VaultInit => VaultInv
<1> SUFFICES ASSUME VaultInit PROVE VaultInv
  OBVIOUS
<1>1. NoAttempts \in Entries /\ NoAttempts.count = 0 /\ NoAttempts.until = -1
      /\ NoCredential \in CredentialRows
  BY DEF NoAttempts, Entries, NoCredential, CredentialRows
<1>2. VaultTables /\ FewWrong /\ FewBeforeTokens /\ FewBeforeShown
  BY <1>1 DEF VaultInit, VaultRowsInit, VaultTables, PinsAreCounted, Counts, ShownIsLogged, FewWrong,
     FewBeforeTokens, FewBeforeShown
<1>3. HandlersInTurn /\ \A h \in Handlers : request[h] = NoRequest
  BY DEF VaultInit, VaultRowsInit, ApiInit, HandlersInTurn, OneInFlight, AtRest, NoRequest
<1>4. QED
  BY <1>2, <1>3 DEF VaultInv, VaultRequests, IsLogged, IsLetThrough, NoRequest

\* However requests interleave and the process restarts, a secret was shown
\* for a token of its section that was good when the secret was asked for, and
\* is in the audit trail; one attempt after the other, no more wrong PINs are
\* answered in a window from the last right PIN or restart than the limit, and
\* no token is got after so many (requireVaultScope, checkUnlockRate,
\* recordUnlockFailure, unlock, revealCredential).
THEOREM VaultStaysGuarded == VaultSpec => []VaultIsGuarded
<1>1. ASSUME VaultInv PROVE VaultIsGuarded
  <2>1. ShownToWhoOpened
    BY <1>1 DEF VaultInv, VaultTables, ShownToWhoOpened, Disclosures, TokenRows
  <2>2. WrongPinsAreLimited
    BY <1>1 DEF VaultInv, WrongPinsAreLimited, FewWrong, FewBeforeTokens, FewBeforeShown
  <2>3. QED
    BY <1>1, <2>1, <2>2 DEF VaultInv, VaultTables, VaultIsGuarded
<1>2. QED
  BY <1>1, VaultInvInit, VaultInvNext, PTL DEF VaultSpec

-----------------------------------------------------------------------------
(* Displays *)

DeviceRows ==
  [there : {TRUE}, active : BOOLEAN, code : Codes \cup {NoCode}, until : -1..LastPeriod,
   token : 0..LastToken]

Choosing == [op : {"choose"}, display : Displays]
Coding == [op : {"code"}, display : Displays, code : Codes]
Beginning == [op : {"session"}, display : Displays, screen : Screens, by : {"code", "token"}]

DisplayRequests == {NoRequest} \cup Choosing \cup Coding \cup Beginning

\* A code is the one on the panel and waits alone; a token was signed.
SoundRow(d, row) ==
  /\ row.code = NoCode <=> row.until = -1
  /\ row.token = NoToken \/ row.code = NoCode
  /\ row.token <= tokens
  /\ row.code # NoCode => panel[d] = row.code

\* A token was answered to one screen only.
TokensApart == \A s, t \in Screens : screen[s] = screen[t] /\ screen[s] # NoToken => s = t

DisplayTables ==
  /\ device \in [Displays -> {NoDevice} \cup DeviceRows]
  /\ screen \in [Screens -> 0..tokens]
  /\ tokens \in 0..LastToken
  /\ lifetime \in 0..LastPeriod
  /\ panel \in [Displays -> Codes \cup {NoCode}]
  /\ \A d \in Displays : device[d].there => SoundRow(d, device[d])
  /\ TokensApart

\* What only requests in turn keep.
TidyTables ==
  /\ \A d, e \in Displays, code \in Codes : Holds(d, code) /\ Holds(e, code) => e = d
  /\ \A d \in Displays : device[d].there /\ ~device[d].active =>
       device[d].token = NoToken /\ device[d].code = NoCode

\* A request is of a display that was made.
IsOfDisplay(r) == r.op # "none" => device[r.display].there

\* With nobody else in flight the display is still active and its code free.
IsStillFree(r) ==
  /\ r.op # "none" => device[r.display].active
  /\ r.op = "code" => r.code \in FreeCodes

DisplayInv ==
  /\ HandlersInTurn
  /\ DisplayTables
  /\ \A h \in Handlers : request[h] \in DisplayRequests /\ IsOfDisplay(request[h])
  /\ ~overlapped => TidyTables /\ \A h \in Handlers : IsStillFree(request[h])

USE DisplayAssumption

LEMMA DeviceFacts ==
  /\ NoDevice.there = FALSE /\ NoDevice \notin DeviceRows
  /\ \A row \in DeviceRows : row.there
  /\ NewDevice \in DeviceRows /\ NewDevice.code = NoCode /\ NewDevice.token = NoToken
  /\ NewDevice.until = -1 /\ NewDevice.active
  /\ NoRequest \in DisplayRequests /\ NoRequest.op = "none"
<1>1. -1 \in -1..LastPeriod /\ 0 \in 0..LastToken
  OBVIOUS
<1>2. NoDevice.there = FALSE /\ \A row \in DeviceRows : row.there
  BY DEF NoDevice, DeviceRows
<1>3. NewDevice \in DeviceRows /\ NewDevice.code = NoCode /\ NewDevice.token = NoToken
      /\ NewDevice.until = -1 /\ NewDevice.active
  BY <1>1 DEF DeviceRows, NewDevice, NoCode, NoToken
<1>4. NoRequest \in DisplayRequests /\ NoRequest.op = "none"
  BY DEF NoRequest, DisplayRequests
<1>5. QED
  BY <1>2, <1>3, <1>4

LEMMA TablesFacts ==
  ASSUME DisplayInv
  PROVE  /\ DisplayTables
         /\ tokens \in 0..LastToken /\ tokens <= tokens /\ lifetime \in 0..LastPeriod
         /\ screen \in [Screens -> 0..tokens] /\ panel \in [Displays -> Codes \cup {NoCode}]
         /\ UNCHANGED screen => TokensApart'
BY DEF DisplayInv, TokensApart, DisplayTables

\* What a display that was made looks like.
LEMMA DevicesHaveRows ==
  ASSUME DisplayTables, NEW d \in Displays, device[d].there
  PROVE  device[d] \in DeviceRows /\ SoundRow(d, device[d])
BY DeviceFacts DEF DisplayTables

LEMMA DisplayMoves ==
  ASSUME DisplayInv, DisplayTables', \A d \in Displays : device[d].there => device'[d].there,
         NEW h \in Handlers, NEW r \in DisplayRequests, Moves(h, r), IsOfDisplay(r)',
         ~overlapped => TidyTables' /\ IsStillFree(r)'
  PROVE  DisplayInv'
<1>1. /\ HandlersInTurn'
      /\ request'[h] = r
      /\ \A g \in Handlers \ {h} : request'[g] = request[g]
      /\ ~overlapped' => ~overlapped /\ \A g \in Handlers \ {h} : AtRest(g)'
  BY OthersAtRest DEF DisplayInv
<1>2. ASSUME NEW g \in Handlers PROVE request'[g] \in DisplayRequests /\ IsOfDisplay(request[g])'
  <2>1. CASE g = h
    BY <1>1, <2>1 DEF IsOfDisplay
  <2>2. CASE g # h
    <3>1. PICK q \in DisplayRequests : q = request[g] /\ request'[g] = q /\ IsOfDisplay(q)
      BY <1>1, <2>2 DEF DisplayInv
    <3>2. q.op # "none" => q.display \in Displays
      BY DEF DisplayRequests, NoRequest, Choosing, Coding, Beginning
    <3>3. QED
      BY <3>1, <3>2 DEF IsOfDisplay
  <2>3. QED
    BY <2>1, <2>2
<1>3. ASSUME NEW g \in Handlers, ~overlapped' PROVE IsStillFree(request[g])'
  <2>1. CASE g = h
    BY <1>1, <1>3, <2>1 DEF IsStillFree
  <2>2. CASE g # h
    BY <1>1, <1>3, <2>2 DEF AtRest, IsStillFree
  <2>3. QED
    BY <2>1, <2>2
<1>4. ~overlapped' => TidyTables'
  BY <1>1
<1>5. QED
  BY <1>1, <1>2, <1>3, <1>4 DEF DisplayInv

LEMMA EndsAreFree == IsOfDisplay(NoRequest)' /\ IsStillFree(NoRequest)'
BY DeviceFacts DEF IsOfDisplay, IsStillFree

LEMMA DisplaysStay ==
  ASSUME DisplayTables, UNCHANGED <<device, screen, tokens, lifetime, panel>>
  PROVE  DisplayTables' /\ (TidyTables => TidyTables')
BY DEF DisplayTables, TidyTables, Holds, SoundRow, TokensApart

\* One row changes.
LEMMA RowChanges ==
  ASSUME DisplayTables, NEW d \in Displays, NEW row \in DeviceRows,
         device' = [device EXCEPT ![d] = row],
         tokens' \in 0..LastToken, tokens <= tokens', screen' \in [Screens -> 0..tokens'],
         UNCHANGED lifetime, panel' \in [Displays -> Codes \cup {NoCode}],
         \A e \in Displays \ {d} : panel'[e] = panel[e],
         SoundRow(d, row)', TokensApart'
  PROVE  DisplayTables' /\ \A e \in Displays : device[e].there => device'[e].there
<1>1. device'[d] = row /\ \A e \in Displays \ {d} : device'[e] = device[e]
  BY DEF DisplayTables
<1>2. ASSUME NEW e \in Displays, device'[e].there PROVE SoundRow(e, device[e])'
  <2>1. CASE e = d
    BY <1>1, <2>1 DEF SoundRow
  <2>2. CASE e # d
    <3>1. PICK was : was = device[e] /\ device'[e] = was /\ SoundRow(e, was) /\ was \in DeviceRows
      BY <1>1, <1>2, <2>2, DevicesHaveRows
    <3>2. was.token \in Int /\ tokens \in Int /\ tokens' \in Int
      BY <3>1 DEF DisplayTables, DeviceRows
    <3>3. SoundRow(e, was)'
      BY <2>2, <3>1, <3>2 DEF SoundRow
    <3>4. QED
      BY <3>1, <3>3 DEF SoundRow
  <2>3. QED
    BY <2>1, <2>2
<1>3. QED
  BY <1>1, <1>2, DeviceFacts DEF DisplayTables

\* The row of a request that is alone.
LEMMA RowStaysTidy ==
  ASSUME DisplayTables, TidyTables, NEW d \in Displays, NEW row \in DeviceRows,
         device' = [device EXCEPT ![d] = row], UNCHANGED lifetime,
         row.code \in FreeCodes \cup {NoCode},
         ~row.active => row.token = NoToken /\ row.code = NoCode
  PROVE  TidyTables'
<1>1. device'[d] = row /\ \A e \in Displays \ {d} : device'[e] = device[e]
  BY DEF DisplayTables
<1>2. \A e \in Displays \ {d}, code \in Codes : Holds(e, code)' <=> Holds(e, code)
  BY <1>1 DEF Holds
<1>3. \A code \in Codes : Holds(d, code)' => \A e \in Displays : ~Holds(e, code)
  BY <1>1 DEF Holds, FreeCodes
<1>4. QED
  BY <1>1, <1>2, <1>3 DEF TidyTables

-----------------------------------------------------------------------------
LEMMA CreateStands ==
  ASSUME DisplayInv, NEW h \in Handlers, NEW d \in Displays, CreateDisplay(h, d)
  PROVE  DisplayInv'
<1>1. PICK r \in Choosing : r = [op |-> "choose", display |-> d]
  BY DEF Choosing
<1>2. r \in DisplayRequests /\ r.op = "choose" /\ r.display = d
  BY <1>1 DEF DisplayRequests
<1>3. /\ device' = [device EXCEPT ![d] = NewDevice] /\ Moves(h, r)
      /\ UNCHANGED <<screen, tokens, lifetime, panel>>
  BY <1>1 DEF CreateDisplay, Moves
<1>4. device'[d] = NewDevice
  BY <1>3 DEF DisplayInv, DisplayTables
<1>5. SoundRow(d, NewDevice)'
  BY <1>3, DeviceFacts DEF SoundRow, NoToken, DisplayInv, DisplayTables
<1>6. DisplayTables' /\ \A e \in Displays : device[e].there => device'[e].there
  BY <1>3, <1>5, DeviceFacts, TablesFacts, RowChanges
<1>7. ~overlapped => TidyTables'
  BY <1>3, DeviceFacts, RowStaysTidy DEF DisplayInv
<1>8. IsOfDisplay(r)' /\ IsStillFree(r)'
  BY <1>2, <1>4, DeviceFacts DEF IsOfDisplay, IsStillFree
<1>9. QED
  BY <1>2, <1>3, <1>6, <1>7, <1>8, DisplayMoves

\* A request that only reads.
LEMMA LooksStand ==
  ASSUME DisplayInv, UNCHANGED <<device, screen, tokens, lifetime, panel>>,
         NEW h \in Handlers, NEW r \in DisplayRequests, Moves(h, r), IsOfDisplay(r),
         ~overlapped => IsStillFree(r)
  PROVE  DisplayInv'
<1>1. DisplayTables' /\ (~overlapped => TidyTables')
  BY DisplaysStay DEF DisplayInv
<1>2. IsOfDisplay(r)' /\ (~overlapped => IsStillFree(r)')
  BY DEF IsOfDisplay, IsStillFree, FreeCodes, Holds
<1>3. QED
  BY <1>1, <1>2, DisplayMoves

LEMMA SessionChecksStand ==
  ASSUME DisplayInv, NEW h \in Handlers, NEW s \in Screens,
         CheckRefresh(h, s) \/ \E code \in Codes : CheckPair(h, s, code)
  PROVE  DisplayInv'
<1>1. PICK d \in Displays, by \in {"code", "token"} :
        /\ device[d].there /\ device[d].active
        /\ Hold(h, [op |-> "session", display |-> d, screen |-> s, by |-> by])
        /\ UNCHANGED <<device, screen, tokens, lifetime, panel>>
  BY DEF CheckRefresh, CheckPair, IsCurrent, WithCode
<1>2. PICK r \in Beginning : r = [op |-> "session", display |-> d, screen |-> s, by |-> by]
  BY DEF Beginning
<1>3. r.display = d /\ r.op = "session"
  BY <1>2
<1>4. r \in DisplayRequests /\ Moves(h, r) /\ IsOfDisplay(r) /\ IsStillFree(r)
  BY <1>1, <1>2, <1>3 DEF DisplayRequests, Moves, IsOfDisplay, IsStillFree
<1>5. QED
  BY <1>1, <1>4, LooksStand

\* Between the choice of a code and its statement nobody takes it, alone.
LEMMA ChooseStands ==
  ASSUME DisplayInv, NEW h \in Handlers, ChooseCode(h)
  PROVE  DisplayInv'
<1>1. PICK was \in Choosing : was = request[h] /\ was.op = "choose" /\ IsOfDisplay(was)
  BY DEF ChooseCode, DisplayInv, DisplayRequests, NoRequest, Coding, Beginning
<1>2. PICK d \in Displays : d = was.display
  BY DEF Choosing
<1>3. PICK code \in FreeCodes :
        /\ Continue(h, [op |-> "code", display |-> d, code |-> code])
        /\ UNCHANGED <<device, screen, tokens, lifetime, panel>> /\ ~AtRest(h)
  BY <1>1, <1>2 DEF ChooseCode, AtRest
<1>4. PICK r \in Coding : r = [op |-> "code", display |-> d, code |-> code]
  BY DEF Coding, FreeCodes
<1>5. r.op = "code" /\ r.display = d /\ r.code = code
  BY <1>4
<1>6. device[d].there /\ (~overlapped => device[d].active)
  BY <1>1, <1>2 DEF IsOfDisplay, IsStillFree, DisplayInv
<1>7. r \in DisplayRequests /\ Moves(h, r) /\ IsOfDisplay(r) /\ (~overlapped => IsStillFree(r))
  BY <1>3, <1>4, <1>5, <1>6 DEF DisplayRequests, Moves, IsOfDisplay, IsStillFree
<1>8. QED
  BY <1>3, <1>7, LooksStand

LEMMA SetCodeStands ==
  ASSUME DisplayInv, NEW h \in Handlers, SetPairingCode(h)
  PROVE  DisplayInv'
<1>1. PICK r \in Coding : r = request[h] /\ r.op = "code" /\ IsOfDisplay(r)
                          /\ (~overlapped => IsStillFree(r))
  BY DEF SetPairingCode, DisplayInv, DisplayRequests, NoRequest, Choosing, Beginning
<1>2. PICK d \in Displays, code \in Codes : d = r.display /\ code = r.code
  BY DEF Coding
<1>3. PICK was \in DeviceRows : was = device[d]
  BY <1>1, <1>2, DevicesHaveRows DEF IsOfDisplay, DisplayInv
<1>4. lifetime \in 0..LastPeriod
  BY DEF DisplayInv, DisplayTables
<1>5. PICK row : row = [was EXCEPT !.code = code, !.until = lifetime, !.token = NoToken]
  OBVIOUS
<1>6. /\ row \in DeviceRows /\ row.code = code /\ row.until = lifetime /\ row.token = NoToken
      /\ row.active = was.active
  <2>1. 0 \in 0..LastToken /\ lifetime \in -1..LastPeriod
    BY <1>4
  <2>2. QED
    BY <1>5, <2>1 DEF DeviceRows, NoToken
<1>7. /\ device' = [device EXCEPT ![d] = row] /\ panel' = [panel EXCEPT ![d] = code]
      /\ UNCHANGED <<screen, tokens, lifetime>> /\ Moves(h, NoRequest)
  BY <1>1, <1>2, <1>3, <1>5 DEF SetPairingCode, Answer, Moves, AtRest
<1>8. /\ panel' \in [Displays -> Codes \cup {NoCode}] /\ panel'[d] = code
      /\ \A e \in Displays \ {d} : panel'[e] = panel[e]
  BY <1>7 DEF DisplayInv, DisplayTables
<1>9. SoundRow(d, row)'
  BY <1>4, <1>6, <1>7, <1>8 DEF SoundRow, DisplayInv, DisplayTables, NoToken
<1>10. DisplayTables' /\ \A e \in Displays : device[e].there => device'[e].there
  BY <1>6, <1>7, <1>8, <1>9, TablesFacts, RowChanges
<1>11. ASSUME ~overlapped PROVE TidyTables'
  <2>1. was.active /\ code \in FreeCodes
    BY <1>1, <1>2, <1>3, <1>11 DEF IsStillFree
  <2>2. QED
    BY <1>6, <1>7, <1>11, <2>1, RowStaysTidy DEF DisplayInv
<1>12. QED
  BY <1>7, <1>10, <1>11, EndsAreFree, DeviceFacts, DisplayMoves

LEMMA IssueStands ==
  ASSUME DisplayInv, NEW h \in Handlers, NEW arrives \in BOOLEAN, IssueSession(h, arrives)
  PROVE  DisplayInv'
<1>1. PICK r \in Beginning : r = request[h] /\ r.op = "session" /\ IsOfDisplay(r)
                             /\ (~overlapped => IsStillFree(r))
  BY DEF IssueSession, DisplayInv, DisplayRequests, NoRequest, Choosing, Coding
<1>2. PICK d \in Displays, s \in Screens : d = r.display /\ s = r.screen
  BY DEF Beginning
<1>3. PICK was \in DeviceRows : was = device[d]
  BY <1>1, <1>2, DevicesHaveRows DEF IsOfDisplay, DisplayInv
<1>4. PICK n \in 1..LastToken : n = tokens + 1
  BY DEF IssueSession, DisplayInv, DisplayTables
<1>5. PICK row : row = InSession(was, n)
  OBVIOUS
<1>6. /\ row \in DeviceRows /\ row.code = NoCode /\ row.until = -1 /\ row.token = n
      /\ row.active = was.active
  <2>1. n \in 0..LastToken /\ -1 \in -1..LastPeriod
    BY <1>4
  <2>2. QED
    BY <1>5, <2>1 DEF DeviceRows, InSession, NoCode
<1>7. /\ device' = [device EXCEPT ![d] = row] /\ tokens' = n
      /\ screen' = [screen EXCEPT ![s] = IF arrives THEN n ELSE @]
      /\ UNCHANGED <<panel, lifetime>> /\ Moves(h, NoRequest)
  BY <1>1, <1>2, <1>3, <1>4, <1>5 DEF IssueSession, Answer, Moves, AtRest
<1>8. screen' \in [Screens -> 0..tokens'] /\ tokens' \in 0..LastToken /\ tokens <= tokens'
  BY <1>4, <1>7 DEF DisplayInv, DisplayTables
<1>9. SoundRow(d, row)'
  BY <1>4, <1>6, <1>7 DEF SoundRow, DisplayInv, DisplayTables, NoToken
<1>10. DisplayTables' /\ \A e \in Displays : device[e].there => device'[e].there
  <2>1. \A t \in Screens : screen[t] # n /\ (t # s => screen'[t] = screen[t])
                          /\ screen'[s] \in {screen[s], n}
    BY <1>4, <1>7, TablesFacts
  <2>2. TokensApart'
    BY <2>1 DEF TokensApart, DisplayInv, DisplayTables
  <2>3. QED
    BY <1>6, <1>7, <1>8, <1>9, <2>2, TablesFacts, RowChanges
<1>11. ASSUME ~overlapped PROVE TidyTables'
  <2>1. was.active
    BY <1>1, <1>2, <1>3, <1>11 DEF IsStillFree
  <2>2. QED
    BY <1>6, <1>7, <1>11, <2>1, RowStaysTidy DEF DisplayInv
<1>12. QED
  BY <1>7, <1>10, <1>11, EndsAreFree, DeviceFacts, DisplayMoves

LEMMA RevokeStands ==
  ASSUME DisplayInv, NEW d \in Displays, Revoke(d)
  PROVE  DisplayInv'
<1>1. PICK was \in DeviceRows : was = device[d]
  BY DevicesHaveRows DEF Revoke, DisplayInv
<1>2. PICK row : row = Unpaired(was)
  OBVIOUS
<1>3. row \in DeviceRows /\ row.code = NoCode /\ row.until = -1 /\ row.token = NoToken
  <2>1. 0 \in 0..LastToken /\ -1 \in -1..LastPeriod
    OBVIOUS
  <2>2. QED
    BY <1>2, <2>1 DEF DeviceRows, Unpaired, NoCode, NoToken
<1>4. device' = [device EXCEPT ![d] = row] /\ UNCHANGED <<screen, tokens, lifetime, panel>> /\ AtOnce
  BY <1>1, <1>2 DEF Revoke
<1>5. SoundRow(d, row)'
  BY <1>3, <1>4 DEF SoundRow, DisplayInv, DisplayTables, NoToken
<1>6. DisplayTables' /\ \A e \in Displays : device[e].there => device'[e].there
  BY <1>3, <1>4, <1>5, TablesFacts, RowChanges
<1>7. ~overlapped => TidyTables'
  BY <1>3, <1>4, RowStaysTidy DEF DisplayInv
<1>8. /\ HandlersInTurn' /\ UNCHANGED request
      /\ ~overlapped' => ~overlapped /\ \A g \in Handlers : AtRest(g)'
  BY <1>4, AllAtRest DEF DisplayInv
<1>9. ASSUME NEW h \in Handlers PROVE request'[h] \in DisplayRequests /\ IsOfDisplay(request[h])'
  <2>1. PICK r \in DisplayRequests : r = request[h] /\ request'[h] = r /\ IsOfDisplay(r)
    BY <1>8 DEF DisplayInv
  <2>2. r.op # "none" => r.display \in Displays
    BY DEF DisplayRequests, NoRequest, Choosing, Coding, Beginning
  <2>3. QED
    BY <1>6, <2>1, <2>2 DEF IsOfDisplay
<1>10. ~overlapped' => \A h \in Handlers : IsStillFree(request[h])'
  BY <1>8 DEF AtRest, IsStillFree
<1>11. QED
  BY <1>6, <1>7, <1>8, <1>9, <1>10 DEF DisplayInv

\* Codes that run out are free again.
LEMMA PeriodStands == ASSUME DisplayInv, NextPeriod PROVE DisplayInv'
<1>1. /\ UNCHANGED <<request, overlapped, device, screen, tokens, panel>>
      /\ lifetime' = lifetime + 1 /\ lifetime' \in 0..LastPeriod
  BY DEF NextPeriod, apiVars, DisplayInv, DisplayTables
<1>2. \A d \in Displays, code \in Codes : Holds(d, code)' => Holds(d, code)
  <2> SUFFICES ASSUME NEW d \in Displays, NEW code \in Codes, Holds(d, code)' PROVE Holds(d, code)
    OBVIOUS
  <2>1. device[d].there /\ device[d].code = code /\ device[d].until >= lifetime + 1
    BY <1>1 DEF Holds
  <2>2. device[d].until \in Int /\ lifetime \in Int
    <3>1. device[d] \in DeviceRows
      BY <2>1, DevicesHaveRows DEF DisplayInv
    <3>2. lifetime \in 0..LastPeriod
      BY TablesFacts
    <3>3. QED
      <4>1. PICK u : u = device[d].until /\ u \in -1..LastPeriod
        BY <3>1 DEF DeviceRows
      <4>2. u >= lifetime + 1
        BY <1>1, <2>1, <4>1
      <4>3. QED
        BY <3>2, <4>1, <4>2
  <2>3. QED
    BY <2>1, <2>2 DEF Holds
<1>3. DisplayTables'
  BY <1>1 DEF DisplayInv, DisplayTables, SoundRow, TokensApart
<1>4. TidyTables => TidyTables'
  BY <1>1, <1>2 DEF TidyTables
<1>5. \A r \in DisplayRequests : IsStillFree(r) => IsStillFree(r)'
  BY <1>1, <1>2 DEF IsStillFree, FreeCodes
<1>6. ASSUME NEW h \in Handlers
      PROVE  /\ request'[h] \in DisplayRequests /\ IsOfDisplay(request[h])'
             /\ ~overlapped => IsStillFree(request[h])'
  <2>1. PICK r \in DisplayRequests : r = request[h] /\ request'[h] = r /\ IsOfDisplay(r)
                                     /\ (~overlapped => IsStillFree(r))
    BY <1>1 DEF DisplayInv
  <2>2. ~overlapped => IsStillFree(r)'
    BY <1>5, <2>1
  <2>3. QED
    BY <1>1, <2>1, <2>2 DEF IsOfDisplay, IsStillFree
<1>7. HandlersInTurn'
  BY <1>1 DEF HandlersInTurn, OneInFlight, AtRest, DisplayInv
<1>8. QED
  BY <1>1, <1>3, <1>4, <1>6, <1>7 DEF DisplayInv

LEMMA DisplayInvNext ==
  DisplayInv /\ [DisplayNext \/ DisplayFailure]_displayVars => DisplayInv'
<1>1. ASSUME DisplayInv, UNCHANGED displayVars PROVE DisplayInv'
  BY <1>1 DEF displayVars, apiVars, DisplayInv, DisplayTables, TidyTables, Holds, SoundRow, TokensApart,
     HandlersInTurn, OneInFlight, AtRest, IsOfDisplay, IsStillFree, FreeCodes
<1>2. ASSUME DisplayInv, DisplayFailure PROVE DisplayInv'
  <2>1. PICK h \in Handlers : BreakOff(h) /\ UNCHANGED <<device, screen, tokens, lifetime, panel>>
    BY <1>2 DEF DisplayFailure
  <2>2. Moves(h, NoRequest) /\ IsOfDisplay(NoRequest) /\ IsStillFree(NoRequest)
    BY <2>1, DeviceFacts DEF BreakOff, Answer, Moves, IsOfDisplay, IsStillFree
  <2>3. QED
    BY <1>2, <2>1, <2>2, DeviceFacts, LooksStand
<1>3. ASSUME DisplayInv, DisplayNext PROVE DisplayInv'
  <2>1. ASSUME NEW h \in Handlers, NEW d \in Displays, CheckRePair(h, d) PROVE DisplayInv'
    <3>1. PICK r \in Choosing : r = [op |-> "choose", display |-> d]
      BY DEF Choosing
    <3>2. r.display = d /\ r.op = "choose"
      BY <3>1
    <3>3. r \in DisplayRequests /\ Moves(h, r) /\ IsOfDisplay(r) /\ IsStillFree(r)
      BY <2>1, <3>1, <3>2 DEF CheckRePair, DisplayRequests, Moves, IsOfDisplay, IsStillFree
    <3>4. QED
      BY <1>3, <2>1, <3>3, LooksStand DEF CheckRePair
  <2>2. ASSUME NEW h \in Handlers, NEW s \in Screens,
               CheckRefresh(h, s) \/ \E code \in Codes : CheckPair(h, s, code)
        PROVE  DisplayInv'
    BY <1>3, <2>2, SessionChecksStand
  <2>3. QED
    BY <1>3, <2>1, <2>2, CreateStands, ChooseStands, SetCodeStands, IssueStands, RevokeStands,
       PeriodStands DEF DisplayNext
<1>4. QED
  BY <1>1, <1>2, <1>3

LEMMA DisplayInvInit == DisplayInit => DisplayInv
<1> SUFFICES ASSUME DisplayInit PROVE DisplayInv
  OBVIOUS
<1>1. DisplayTables /\ TidyTables
  BY DeviceFacts DEF DisplayInit, DisplayTables, TidyTables, Holds, NoToken, TokensApart
<1>2. HandlersInTurn /\ \A h \in Handlers : request[h] = NoRequest
  BY DEF DisplayInit, ApiInit, HandlersInTurn, OneInFlight, AtRest, NoRequest
<1>3. QED
  BY <1>1, <1>2, DeviceFacts DEF DisplayInv, IsOfDisplay, IsStillFree

\* However pairing, refreshing and revoking interleave and break off, one screen
\* at most goes on with a display, no code waits beside its session; one after
\* the other, a code leads to the one display that shows it and a revoked display
\* keeps nothing (uniquePairingCode, setPairingCode, pair, issueSession, revoke).
THEOREM PairingsStaySound == DisplaySpec => []PairingsAreSound
<1>1. DisplayInv => PairingsAreSound
  <2> SUFFICES ASSUME DisplayInv PROVE PairingsAreSound
    OBVIOUS
  <2>1. ASSUME NEW d \in Displays, device[d].there
        PROVE  /\ device[d].active \in BOOLEAN /\ device[d].code \in Codes \cup {NoCode}
               /\ device[d].until \in -1..LastPeriod /\ device[d].token \in 0..tokens
               /\ SoundRow(d, device[d])
    <3>1. PICK row \in DeviceRows : row = device[d] /\ SoundRow(d, device[d])
      BY <2>1, DevicesHaveRows DEF DisplayInv
    <3>2. tokens \in 0..LastToken /\ row.token <= tokens
      BY <3>1, TablesFacts DEF SoundRow
    <3>3. row.token \in 0..tokens
      BY <3>2 DEF DeviceRows
    <3>4. QED
      BY <3>1, <3>3 DEF DeviceRows
  <2>2. DisplayTypeOK
    BY <2>1 DEF DisplayTypeOK, DisplayInv, DisplayTables, SoundRow
  <2>3. NeverBoth /\ RevokedIsUnpaired /\ OneScreenGoesOn
    BY <2>1 DEF NeverBoth, RevokedIsUnpaired, OneScreenGoesOn, IsCurrent, TokensApart, SoundRow,
       DisplayInv, DisplayTables, TidyTables
  <2>4. CodeLeadsToItsDisplay
    BY <2>1 DEF CodeLeadsToItsDisplay, Holds, SoundRow, DisplayInv, TidyTables
  <2>5. QED
    BY <2>2, <2>3, <2>4 DEF PairingsAreSound
<1>2. QED
  BY <1>1, DisplayInvInit, DisplayInvNext, PTL DEF DisplaySpec
=============================================================================
