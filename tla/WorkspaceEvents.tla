--------------------------- MODULE WorkspaceEvents ---------------------------
(***************************************************************************)
(* The live events of the task tracker: each takes the next revision of    *)
(* its workspace, is written to a table, and reaches the open streams      *)
(* through PostgreSQL's NOTIFY and the one connection that listens for it. *)
(* A client that connects is sent the rows it missed, then what comes.     *)
(***************************************************************************)
EXTENDS ApiProcess, Sequences

CONSTANTS
  Clients,      \* a client is the member of the staff who runs it
  Managers,     \* those of them whose role sees all tasks
  Audiences,    \* to whom an event may be visible; to all of Clients if it says nothing
  ReplayLimit,  \* rows sent to a client that connects, getEventsAfterRevision
  MaxRevision   \* bound

ASSUME EventAssumption == ReplayLimit \in Nat /\ MaxRevision \in Nat

VARIABLES
  revision,  \* of the workspace
  rows,      \* tt_workspace_events
  listener,  \* the connection that listens: "none", "connecting", "up", or
             \* "deaf", lost without the process having noticed
  channel,   \* notified and not yet received by the listener
  stream,    \* of each client: whether open, and the revision it resumed after
  got,       \* observation: the revisions each client was sent
  last,      \* the revision each client was sent last, after which it resumes
  cut,       \* observation: the clients once sent fewer rows than they missed
  dropped    \* observation: the connection, or a request, has failed

eventVars ==
  <<revision, rows, listener, channel, stream, got, last, cut, dropped>>

NoStream == [open |-> FALSE, after |-> 0, since |-> 0]

\* subscriberMayReceive, and the same choice among the rows that were missed.
MayReceive(c, e) == c \in Managers \cup e.to

\* Events that a client is sent one after the other, by revision.
Send(c, events) ==
  /\ got' = [got EXCEPT ![c] = @ \cup {e.rev : e \in events}]
  /\ IF events = {} THEN last' = last
     ELSE \E latest \in events :
            /\ \A e \in events : e.rev <= latest.rev
            /\ last' = [last EXCEPT ![c] = latest.rev]

\* Fault: a stream advances with every event it sends.
ReceivesInOrder(c, e) ==
  stream[c].open /\ e.rev > stream[c].after /\ e.rev > last[c] /\ MayReceive(c, e)

Receives(c, e) == stream[c].open /\ e.rev > stream[c].after /\ MayReceive(c, e)

FanOut(e) ==
  /\ got' = [c \in Clients |-> IF Receives(c, e) THEN got[c] \cup {e.rev} ELSE got[c]]
  /\ last' = [c \in Clients |-> IF Receives(c, e) THEN e.rev ELSE last[c]]

\* publishWorkspaceEvent: the revision, the row and the notification are a
\* statement each.
BumpRevision(h, to) ==
  /\ revision < MaxRevision
  /\ revision' = revision + 1
  /\ Hold(h, [op |-> "event", event |-> [rev |-> revision + 1, to |-> to]])
  /\ UNCHANGED <<rows, listener, channel, stream, got, last, cut, dropped>>

InsertEvent(h) ==
  /\ request[h].op = "event"
  /\ rows' = rows \cup {request[h].event}
  /\ Continue(h, [request[h] EXCEPT !.op = "pg_notify"])
  /\ UNCHANGED <<revision, listener, channel, stream, got, last, cut, dropped>>

Notify(h) ==
  LET e == request[h].event
  IN /\ request[h].op = "pg_notify"
     /\ channel' = IF listener = "up" THEN Append(channel, e) ELSE channel
     /\ IF listener = "none" THEN FanOut(e) ELSE UNCHANGED <<got, last>>
     /\ Answer(h)
     /\ UNCHANGED <<revision, rows, listener, stream, cut, dropped>>

\* pg_notify is refused: the event reaches the streams of this process.
NotifyRefused(h) ==
  /\ request[h].op = "pg_notify"
  /\ FanOut(request[h].event)
  /\ Answer(h) /\ dropped' = TRUE
  /\ UNCHANGED <<revision, rows, listener, channel, stream, cut>>

Receive ==
  /\ listener = "up" /\ channel # <<>>
  /\ FanOut(Head(channel))
  /\ channel' = Tail(channel)
  /\ UNCHANGED <<revision, rows, listener, stream, cut, dropped, apiVars>>

-----------------------------------------------------------------------------
\* getEvents: the listener is there first; the rows are read; the client is
\* sent them and subscribed without a pause between.
Connect(h, c) ==
  /\ ~stream[c].open /\ \A g \in Handlers : request[g].op \in {"listen", "subscribe"} => request[g].c # c
  /\ listener' = IF listener = "none" THEN "connecting" ELSE listener
  /\ Hold(h, [op |-> "listen", c |-> c])
  /\ UNCHANGED <<revision, rows, channel, stream, got, last, cut, dropped>>

Newer(after) == {e \in rows : e.rev > after}

\* The first of them by revision, as many as are sent at once.
Missed(after) ==
  {e \in Newer(after) : Cardinality({d \in Newer(after) : d.rev < e.rev}) < ReplayLimit}

GetEventsAfterRevision(h) ==
  LET c == request[h].c
  IN /\ request[h].op = "listen" /\ listener # "connecting"
     /\ Continue(h, [op |-> "subscribe", c |-> c, after |-> last[c],
                     missed |-> {e \in Missed(last[c]) : MayReceive(c, e)}])
     /\ cut' = IF Cardinality(Newer(last[c])) > ReplayLimit THEN cut \cup {c} ELSE cut
     /\ UNCHANGED <<revision, rows, listener, channel, stream, got, last, dropped>>

Subscribe(h) ==
  LET r == request[h]
  IN /\ r.op = "subscribe"
     /\ Send(r.c, r.missed)
     /\ stream' = [stream EXCEPT ![r.c] = [open |-> TRUE, after |-> r.after, since |-> revision]]
     /\ Answer(h)
     /\ UNCHANGED <<revision, rows, listener, channel, cut, dropped>>

Disconnect(c) ==
  /\ stream[c].open
  /\ stream' = [stream EXCEPT ![c] = NoStream]
  /\ UNCHANGED <<revision, rows, listener, channel, got, last, cut, dropped, apiVars>>

-----------------------------------------------------------------------------
\* ensureListenClient: the client is set before it is connected.
ListenConnected ==
  /\ listener = "connecting" /\ listener' = "up"
  /\ UNCHANGED <<revision, rows, channel, stream, got, last, cut, dropped, apiVars>>

\* Connecting fails, or the connection is lost with what was on its way.
ListenFails ==
  /\ \/ listener = "connecting" /\ listener' = "none"
     \/ listener = "up" /\ listener' = "deaf"
  /\ channel' = <<>> /\ dropped' = TRUE
  /\ UNCHANGED <<revision, rows, stream, got, last, cut, apiVars>>

\* The loss is noticed, and after a delay the connection is made anew.
ListenEnds ==
  /\ listener = "deaf" /\ listener' = "none"
  /\ UNCHANGED <<revision, rows, channel, stream, got, last, cut, dropped, apiVars>>

ListenReconnect ==
  /\ dropped /\ listener = "none" /\ listener' = "connecting"
  /\ UNCHANGED <<revision, rows, channel, stream, got, last, cut, dropped, apiVars>>

EventNext ==
  \/ Receive \/ ListenConnected
  \/ \E c \in Clients : Disconnect(c)
  \/ \E h \in Handlers :
       \/ InsertEvent(h) \/ Notify(h) \/ GetEventsAfterRevision(h) \/ Subscribe(h)
       \/ \E to \in Audiences : BumpRevision(h, to)
       \/ \E c \in Clients : Connect(h, c)

ListenerFailure ==
  \/ ListenFails \/ ListenEnds \/ ListenReconnect
  \/ \E h \in Handlers :
       \/ NotifyRefused(h)
       \/ /\ BreakOff(h) /\ dropped' = TRUE
          /\ UNCHANGED <<revision, rows, listener, channel, stream, got, last, cut>>

EventInit ==
  /\ revision = 0 /\ rows = {}
  /\ listener = "none" /\ channel = <<>>
  /\ stream = [c \in Clients |-> NoStream]
  /\ got = [c \in Clients |-> {}] /\ last = [c \in Clients |-> 0]
  /\ cut = {} /\ dropped = FALSE
  /\ ApiInit

EventSpec == EventInit /\ [][EventNext \/ ListenerFailure]_<<eventVars, apiVars>>

-----------------------------------------------------------------------------
(* What the task tracker's live streams promise to their clients.         *)

\* The tables and the connections hold values the code can give them.
EventTypeOK ==
  /\ revision \in 0..MaxRevision
  /\ rows \subseteq [rev : 1..MaxRevision, to : Audiences]
  /\ listener \in {"none", "connecting", "up", "deaf"}
  /\ last \in [Clients -> 0..MaxRevision]

\* bumpWorkspaceRevision: no two events have the same revision, though each is
\* taken in one statement and written in another.
OneEventPerRevision == \A d, e \in rows : d.rev = e.rev => d = e

\* subscriberMayReceive and the filter of the replay: nobody is sent an event
\* that is not meant for them, live, replayed or after the connection that
\* listens was lost.
OnlyForItsAudience ==
  \A c \in Clients, e \in rows : e.rev \in got[c] => c \in Managers \cup e.to

Pending == {request[h].event : h \in {g \in Handlers : request[g].op = "pg_notify"}}

\* fanOut: a stream that is open is sent every event for it that was begun after
\* it was opened, even when a later revision is published first, as long as the
\* connection that listens holds.
OpenStreamMissesNothing ==
  ~dropped /\ channel = <<>> =>
    \A c \in Clients, e \in rows \ Pending :
      stream[c].open /\ e.rev > stream[c].since /\ c \in Managers \cup e.to => e.rev \in got[c]

\* getEvents: a client that comes back was sent everything for it, what it
\* missed while it was away included, unless it was away for more than a replay
\* holds.  With requests one at a time and a connection that holds.
ReturningMissesNothing ==
  ~overlapped /\ ~dropped /\ channel = <<>> /\ (\A h \in Handlers : AtRest(h)) =>
    \A c \in Clients, e \in rows :
      stream[c].open /\ c \notin cut /\ c \in Managers \cup e.to => e.rev \in got[c]

\* Every change reaches the streams it is meant for, live or at their return,
\* and no other, whichever of two changes is published first.
EventsArrive ==
  /\ EventTypeOK /\ OneEventPerRevision /\ OnlyForItsAudience
  /\ OpenStreamMissesNothing /\ ReturningMissesNothing
=============================================================================
