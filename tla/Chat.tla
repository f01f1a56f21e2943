-------------------------------- MODULE Chat --------------------------------
(***************************************************************************)
(* Conversations between two employees, between an administrator and an    *)
(* employee, and of groups (chat.service.ts).  A message is numbered by    *)
(* the moment it is created, and whoever reads marks that moment.          *)
(***************************************************************************)
EXTENDS ApiProcess, Sequences

CONSTANTS
  Talkers,       \* users of the organization
  Employed,      \* those with an active employment
  ChatAdmins,    \* those who administer the organization
  Conversations, \* identities of conversations
  MaxMessages    \* bound: messages sent

VARIABLES
  conversation,  \* type, key and name of each, or NoConversation
  participant,   \* for each conversation and user: role, presence, what is read
  message,       \* the messages in the order they were created
  bell,          \* notifications that wait to be read: user and message
  dismissed      \* observation: those their user read among the notifications

chatVars == <<apiVars, conversation, participant, message, bell, dismissed>>

NoConversation == [type |-> "none"]
NoParticipant == [role |-> "none", there |-> FALSE, read |-> 0]

Exists(c) == conversation[c] # NoConversation
IsThere(c, u) == participant[c][u].there
Present(c) == {u \in Talkers : IsThere(c, u)}
Everybody(c) == {u \in Talkers : participant[c][u].role # "none"}

\* requirePeer and resolveActor.
CanBeAsked(u, peer) == peer # u /\ peer \in Employed
MayChat(u) == u \in Employed \cup ChatAdmins

\* directKeyFor and adminKeyFor: the pair, and whether it is the thread of
\* an administrator.
KeyOf(type, u, peer) == [type |-> type, pair |-> {u, peer}]

Thread(key) == {c \in Conversations : Exists(c) /\ conversation[c].key = key}

\* Participants when a conversation is created.
FirstMembers(u, others) ==
  [v \in Talkers |->
    IF v = u THEN [role |-> "OWNER", there |-> TRUE, read |-> 0]
    ELSE IF v \in others THEN [role |-> "MEMBER", there |-> TRUE, read |-> 0]
    ELSE NoParticipant]

NewRow == CHOOSE c \in Conversations : ~Exists(c)
HasRoom == \E c \in Conversations : ~Exists(c)

Created(type, key, u, others) ==
  /\ HasRoom
  /\ conversation' = [conversation EXCEPT ![NewRow] = [type |-> type, key |-> key, renamed |-> FALSE]]
  /\ participant' = [participant EXCEPT ![NewRow] = FirstMembers(u, others)]
  /\ UNCHANGED <<message, bell, dismissed>>

\* A thread of two that exists is shown; otherwise it is created later.
CheckOpenThread(h, type, u, peer) ==
  /\ u \in IF type = "DIRECT" THEN Employed ELSE ChatAdmins
  /\ CanBeAsked(u, peer)
  /\ Thread(KeyOf(type, u, peer)) = {}
  /\ Hold(h, [op |-> "open", user |-> u, peer |-> peer, type |-> type])
  /\ UNCHANGED <<conversation, participant, message, bell, dismissed>>

\* The key is unique: another request may have created the thread meanwhile.
IsNewKey(key) == Thread(key) = {}

OpenThread(h) ==
  LET r == request[h]
      key == KeyOf(r.type, r.user, r.peer)
  IN /\ r.op = "open"
     /\ IsNewKey(key)
     /\ Created(r.type, key, r.user, {r.peer})
     /\ Answer(h)

CreateGroup(u, others) ==
  /\ u \in Employed
  /\ \A v \in others : CanBeAsked(u, v)
  /\ Created("GROUP", [type |-> "GROUP", pair |-> {}], u, others)
  /\ AtOnce

(* Groups *)

\* requireMembership, for a group.
IsMember(c, u) == Exists(c) /\ MayChat(u) /\ IsThere(c, u)
ManagesGroup(c, u) ==
  /\ IsMember(c, u)
  /\ conversation[c].type = "GROUP"
  /\ participant[c][u].role = "OWNER"

RenameGroup(c, u) ==
  /\ ManagesGroup(c, u)
  /\ conversation' = [conversation EXCEPT ![c].renamed = TRUE]
  /\ AtOnce
  /\ UNCHANGED <<participant, message, bell, dismissed>>

\* Those who are not there yet are asked for one by one and kept.
CheckAddMembers(h, c, u, others) ==
  /\ ManagesGroup(c, u)
  /\ others \ Present(c) # {}
  /\ \A v \in others \ Present(c) : CanBeAsked(u, v)
  /\ Hold(h, [op |-> "add", conversation |-> c, left |-> others \ Present(c)])
  /\ UNCHANGED <<conversation, participant, message, bell, dismissed>>

Returning(row) == [row EXCEPT !.role = "MEMBER", !.there = TRUE]

\* One upsert each: whoever was there before comes back with what was read.
AddMember(h) ==
  LET r == request[h]
  IN /\ r.op = "add"
     /\ \E v \in r.left :
          /\ participant' = [participant EXCEPT ![r.conversation][v] = Returning(@)]
          /\ IF r.left = {v} THEN Answer(h)
             ELSE Continue(h, [r EXCEPT !.left = @ \ {v}])
     /\ UNCHANGED <<conversation, message, bell, dismissed>>

\* Fault: threads of two can be left too.
LeavesAny(c) == TRUE

\* Only groups can be left.
MayBeLeft(c) == conversation[c].type = "GROUP"

LeaveGroup(c, u) ==
  /\ IsMember(c, u)
  /\ MayBeLeft(c)
  /\ participant' = [participant EXCEPT ![c][u].there = FALSE]
  /\ AtOnce
  /\ UNCHANGED <<conversation, message, bell, dismissed>>

(* Messages *)

\* Who is told about a message: those who were there when it was sent.
Recipients(c, u) == Present(c) \ {u}

CheckSend(h, c, u) ==
  /\ Len(message) < MaxMessages
  /\ IsMember(c, u)
  /\ Hold(h, [op |-> "send", conversation |-> c, user |-> u, to |-> Recipients(c, u)])
  /\ UNCHANGED <<conversation, participant, message, bell, dismissed>>

Ringing(r, n) == bell \cup {[user |-> u, message |-> n] : u \in r.to}

\* The message, the sender's own mark and the notifications, in one
\* transaction; the sockets and phones are told after it.
SendMessage(h) ==
  LET r == request[h]
      n == Len(message) + 1
  IN /\ r.op = "send"
     /\ n <= MaxMessages
     /\ message' = Append(message,
                          [conversation |-> r.conversation, sender |-> r.user, to |-> r.to])
     /\ participant' = [participant EXCEPT ![r.conversation][r.user].read = n]
     /\ bell' = Ringing(r, n)
     /\ Answer(h)
     /\ UNCHANGED <<conversation, dismissed>>

\* The date of the mark is taken before the two rows are written.
CheckMarkRead(h, c, u) ==
  /\ IsMember(c, u)
  /\ Hold(h, [op |-> "read", conversation |-> c, user |-> u, date |-> Len(message)])
  /\ UNCHANGED <<conversation, participant, message, bell, dismissed>>

\* The notifications a mark clears: those of its conversation.
OfConversation(c) == {n \in DOMAIN message : message[n].conversation = c}

\* Fault: a mark clears the notifications of all readers.
OfEveryReader(b, u) == TRUE

OfReader(b, u) == b.user = u

MarkRead(h) ==
  LET r == request[h]
  IN /\ r.op = "read"
     /\ participant' = [participant EXCEPT ![r.conversation][r.user].read = r.date]
     /\ bell' = {b \in bell : ~OfReader(b, r.user) \/ b.message \notin OfConversation(r.conversation)}
     /\ Answer(h)
     /\ UNCHANGED <<conversation, message, dismissed>>

(* Notifications (notification.service.ts) *)

\* They are marked read where they are listed; the thread stays unread.
Dismiss(bells) ==
  /\ bell' = bell \ bells
  /\ dismissed' = dismissed \cup bells
  /\ AtOnce
  /\ UNCHANGED <<conversation, participant, message>>

ReadNotification(b) == b \in bell /\ Dismiss({b})

ReadAllNotifications(u) == Dismiss({b \in bell : b.user = u})

\* unreadCount: what others wrote after the mark.
Unread(c, u) ==
  {n \in OfConversation(c) : message[n].sender # u /\ n > participant[c][u].read}

ChatFailure ==
  \E h \in Handlers : BreakOff(h) /\ UNCHANGED <<conversation, participant, message, bell, dismissed>>

ChatInit ==
  /\ conversation = [c \in Conversations |-> NoConversation]
  /\ participant = [c \in Conversations |-> [u \in Talkers |-> NoParticipant]]
  /\ message = <<>>
  /\ bell = {}
  /\ dismissed = {}
  /\ ApiInit

ThreadsNext ==
  \/ \E u \in Talkers :
       \/ \E h \in Handlers, type \in {"DIRECT", "ADMIN"}, peer \in Talkers :
            CheckOpenThread(h, type, u, peer)
       \/ \E others \in SUBSET (Talkers \ {u}) : CreateGroup(u, others)
  \/ \E h \in Handlers : OpenThread(h)

MembersNext ==
  \/ \E u \in Talkers, c \in Conversations :
       \/ RenameGroup(c, u)
       \/ \E h \in Handlers, others \in SUBSET (Talkers \ {u}) : CheckAddMembers(h, c, u, others)
  \/ \E h \in Handlers : AddMember(h)

LeavingNext == \E u \in Talkers, c \in Conversations : LeaveGroup(c, u)

TalkNext ==
  \E h \in Handlers :
    \/ \E u \in Talkers, c \in Conversations : CheckSend(h, c, u) \/ CheckMarkRead(h, c, u)
    \/ SendMessage(h) \/ MarkRead(h)

NoticesNext ==
  \/ \E b \in bell : ReadNotification(b)
  \/ \E u \in Talkers : ReadAllNotifications(u)

ChatNext == ThreadsNext \/ MembersNext \/ LeavingNext \/ TalkNext \/ NoticesNext \/ ChatFailure

ChatSpec == ChatInit /\ [][ChatNext]_chatVars

-----------------------------------------------------------------------------
(* What the chat promises.                                                *)

\* Types of the conversations, their participants and their messages.
ChatTypeOK ==
  /\ \A c \in Conversations :
       /\ conversation[c].type \in {"none", "DIRECT", "ADMIN", "GROUP"}
       /\ \A u \in Talkers :
            /\ participant[c][u].role \in {"none", "OWNER", "MEMBER"}
            /\ participant[c][u].read \in 0..Len(message)
            /\ IsThere(c, u) => Exists(c) /\ participant[c][u].role # "none"
  /\ \A n \in DOMAIN message : message[n].to \subseteq Talkers
  /\ bell \cup dismissed \subseteq [user : Talkers, message : DOMAIN message]

\* Two people have one thread of a kind, whoever opens it and even when both
\* open it at once (openDirect, openAdmin).
OneThreadPerPair ==
  \A c, d \in Conversations :
    Exists(c) /\ Exists(d) /\ conversation[c].type # "GROUP"
      /\ conversation[c].key = conversation[d].key => c = d

\* Both stay in it, so that opening it again always finds the one who opens
\* it (leaveGroup; openDirect: CONVERSATION_NOT_FOUND).
ThreadKeepsBoth ==
  \A c \in Conversations :
    Exists(c) /\ conversation[c].type # "GROUP" => Present(c) = conversation[c].key.pair

\* One request after the other, whoever counts a message as unread that was
\* sent to them has a notification of it that waits too, unless they read it
\* among their notifications (sendMessage, markRead).
UnreadHasItsBell ==
  ~overlapped =>
    \A c \in Conversations, u \in Talkers :
      \A n \in Unread(c, u) : u \in message[n].to => [user |-> u, message |-> n] \in bell \cup dismissed

\* Whether a user wrote in the conversation of a message after it, which marks
\* the message read and leaves its notification (sendMessage).
WroteAfter(u, n) ==
  \E m \in OfConversation(message[n].conversation) : m > n /\ message[m].sender = u

\* One request after the other, a notification that waits is of a message that
\* was sent to its user, and counts as unread, unless that user wrote in the conversation
\* since (markRead, sendMessage; whoever leaves and comes back keeps the mark).
BellIsUnread ==
  ~overlapped =>
    \A b \in bell :
      /\ b.user \in message[b.message].to
      /\ \/ b.message > participant[message[b.message].conversation][b.user].read
         \/ WroteAfter(b.user, b.message)

\* A pair of people always finds the thread it had (openDirect, openAdmin).
ThreadsOfTwo == OneThreadPerPair /\ ThreadKeepsBoth

\* Who is sent a message keeps its notification until it is read, there or among
\* the notifications, and none that was read by opening the conversation waits
\* (sendMessage, markRead, leaveGroup; notificationService).
MembersAreTold == ChatTypeOK /\ UnreadHasItsBell /\ BellIsUnread
=============================================================================
