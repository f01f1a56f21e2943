----------------------------- MODULE LeaveProofs -----------------------------
(***************************************************************************)
(* Leave, for any requests, spans, years, policy and handlers.             *)
(*                                                                         *)
(* As long as requests come in turn, so that what a handler checked before *)
(* its transaction is still so when it commits, a half-day is taken off    *)
(* once, by a request answered once, and not worked (Inv).                 *)
(*                                                                         *)
(* The books of annual leave need the operations of the ledger, on any     *)
(* book, and what their folds compute: a sum over buckets, and a           *)
(* settlement over the requests.  However handlers interleave, the books   *)
(* stay good (DeskInv): a bucket that expired, and the one whose opening   *)
(* expired it, are there together, and who read less cannot commit.  In    *)
(* turn they balance (BalanceInv): what a handler is about to commit was   *)
(* computed from the book as it is and fits the requests as they will be.  *)
(***************************************************************************)
EXTENDS LeaveProperties, FiniteSetTheorems, TLAPS

\* Nothing in the code makes them: two handlers may both be past their checks.
RequestsInTurn ==
  \A g, h \in Handlers : g = h \/ proc[g].pc = "idle" \/ proc[h].pc = "idle"

RequestRows == [status : Statuses, span : Spans \cup {NoSpan}]

\* The local state of a handler has these columns, whatever is in its books.
IsLocal(q) ==
  q = [pc |-> q.pc, op |-> q.op, req |-> q.req, span |-> q.span, days |-> q.days,
       seen |-> q.seen, next |-> q.next, epoch |-> q.epoch]

\* What a handler has checked and relies on until it commits.
Relies(q) ==
  q.pc # "idle" =>
    /\ q.op = "create" => /\ q.req \in LeaveRequests /\ q.span \in Spans
                          /\ request[q.req].status = "NONE"
                          /\ ~Overlaps(q.span)
    /\ q.op \in {"CANCELLED", "APPROVED", "REJECTED"} => q.req \in Pending
    /\ q.op = "APPROVED" => q.span = request[q.req].span
    /\ q.op = "APPROVED" /\ q.pc \in {"read", "commit"} => ~HasAttendance(q.span)
    /\ q.pc = "attend" => ~OnApprovedLeave(q.span.first)

Tables ==
  /\ request \in [LeaveRequests -> RequestRows]
  /\ decisions \in [LeaveRequests -> 0..2]
  /\ DaysOffAreClear

Inv ==
  /\ Tables
  /\ proc = [h \in Handlers |-> proc[h]]
  /\ \A h \in Handlers : IsLocal(proc[h]) /\ Relies(proc[h])

USE LeaveAssumption

-----------------------------------------------------------------------------
LEMMA IdleRelies == IsLocal(Idle) /\ Idle.pc = "idle" /\ Relies(Idle) /\ Relies(Idle)'
BY DEF Idle, IsLocal, Relies

\* A handler that moves on keeps what it was asked for.
LEMMA MovesOn ==
  ASSUME NEW q, IsLocal(q), NEW pc, NEW t,
         t = [q EXCEPT !.pc = pc]
  PROVE  /\ IsLocal(t) /\ t.pc = pc /\ t.op = q.op /\ t.req = q.req /\ t.span = q.span
         /\ t.days = q.days /\ t.seen = q.seen /\ t.next = q.next /\ t.epoch = q.epoch
<1>1. PICK f1, f2, f3, f4, f5, f6, f7, f8 :
         q = [pc |-> f1, op |-> f2, req |-> f3, span |-> f4, days |-> f5,
              seen |-> f6, next |-> f7, epoch |-> f8]
  BY DEF IsLocal
<1>2. q \in [pc : {f1}, op : {f2}, req : {f3}, span : {f4}, days : {f5},
             seen : {f6}, next : {f7}, epoch : {f8}]
  BY <1>1
<1>3. t \in [pc : {pc}, op : {f2}, req : {f3}, span : {f4}, days : {f5},
             seen : {f6}, next : {f7}, epoch : {f8}]
  BY <1>2
<1>4. QED
  BY <1>2, <1>3 DEF IsLocal

\* What a handler is after it has read.
Reading(q, seen, next, e, pc) ==
  [q EXCEPT !.seen = seen, !.next = next, !.epoch = e, !.pc = pc]

LEMMA LocalReads ==
  ASSUME NEW q, IsLocal(q), NEW seen, NEW next, NEW e, NEW pc, NEW t,
         t = Reading(q, seen, next, e, pc)
  PROVE  /\ IsLocal(t) /\ t.pc = pc /\ t.op = q.op /\ t.req = q.req /\ t.span = q.span
         /\ t.days = q.days /\ t.seen = seen /\ t.next = next /\ t.epoch = e
<1>1. PICK f1, f2, f3, f4, f5, f6, f7, f8 :
         q = [pc |-> f1, op |-> f2, req |-> f3, span |-> f4, days |-> f5,
              seen |-> f6, next |-> f7, epoch |-> f8]
  BY DEF IsLocal
<1>2. q \in [pc : {f1}, op : {f2}, req : {f3}, span : {f4}, days : {f5},
             seen : {f6}, next : {f7}, epoch : {f8}]
  BY <1>1
<1>3. t \in [pc : {pc}, op : {f2}, req : {f3}, span : {f4}, days : {f5},
             seen : {seen}, next : {next}, epoch : {e}]
  BY <1>2 DEF Reading
<1>4. QED
  BY <1>2, <1>3 DEF IsLocal

\* While the tables stay, everybody still relies on what they relied on.
LEMMA ReadsKeep ==
  ASSUME Inv, UNCHANGED <<request, decisions, attended>>,
         NEW h \in Handlers, NEW q, IsLocal(q), Relies(q), proc' = [proc EXCEPT ![h] = q]
  PROVE  Inv'
<1>1. Tables'
  BY DEF Inv, Tables, DaysOffAreClear, AnsweredOnce, NoDayOffTwice, NoAttendanceOnLeave,
     StandingRequests
<1>2. ASSUME NEW t, Relies(t) PROVE Relies(t)'
  BY <1>2 DEF Relies, Overlaps, StandingRequests, HasAttendance, OnApprovedLeave, Pending
<1>3. /\ proc' = [g \in Handlers |-> proc'[g]]
      /\ proc'[h] = q /\ \A g \in Handlers \ {h} : proc'[g] = proc[g]
  BY DEF Inv
<1>4. ASSUME NEW g \in Handlers PROVE IsLocal(proc[g])' /\ Relies(proc[g])'
  <2>1. PICK t : t = proc'[g] /\ IsLocal(t) /\ Relies(t)
    BY <1>3 DEF Inv
  <2>2. Relies(t)'
    BY <1>2, <2>1
  <2>3. QED
    BY <2>1, <2>2 DEF IsLocal, Relies
<1>5. QED
  BY <1>1, <1>3, <1>4 DEF Inv

LEMMA StillKeeps ==
  ASSUME Inv, UNCHANGED <<request, decisions, attended, proc>>
  PROVE  Inv'
<1>1. Tables'
  BY DEF Inv, Tables, DaysOffAreClear, AnsweredOnce, NoDayOffTwice, NoAttendanceOnLeave,
     StandingRequests
<1>2. ASSUME NEW g \in Handlers PROVE IsLocal(proc[g])' /\ Relies(proc[g])'
  <2>1. IsLocal(proc[g]) /\ Relies(proc[g])
    BY DEF Inv
  <2>2. QED
    BY <2>1 DEF IsLocal, Relies, Overlaps, StandingRequests, HasAttendance, OnApprovedLeave, Pending
<1>3. QED
  BY <1>1, <1>2 DEF Inv

\* A handler that reads and then goes on, or ends.
LEMMA GoesOn ==
  ASSUME Inv, UNCHANGED <<request, decisions, attended>>, NEW h \in Handlers, NEW pc,
         NEW next, Read(h, next, pc) \/ Goto(h, pc),
         proc[h].pc # "idle", pc # "attend",
         proc[h].op = "APPROVED" /\ pc \in {"read", "commit"} => ~HasAttendance(proc[h].span)
  PROVE  Inv'
<1>1. PICK q : q = proc[h] /\ IsLocal(q) /\ Relies(q)
  BY DEF Inv
<1>2. PICK t : /\ IsLocal(t) /\ t.pc = pc /\ t.op = q.op /\ t.req = q.req /\ t.span = q.span
               /\ proc' = [proc EXCEPT ![h] = t]
  <2>1. \/ proc' = [proc EXCEPT ![h] = [q EXCEPT !.pc = pc]]
        \/ proc' = [proc EXCEPT ![h] = [q EXCEPT !.seen = book, !.next = next, !.epoch = epoch,
                                                 !.pc = pc]]
    BY <1>1 DEF Read, Goto, Inv
  <2>2. IsLocal(q)
    BY <1>1
  <2>3. CASE proc' = [proc EXCEPT ![h] = [q EXCEPT !.pc = pc]]
    <3>1. PICK t : t = [q EXCEPT !.pc = pc]
      OBVIOUS
    <3>2. IsLocal(t) /\ t.pc = pc /\ t.op = q.op /\ t.req = q.req /\ t.span = q.span
      BY <2>2, <3>1, MovesOn
    <3>3. QED
      BY <2>3, <3>1, <3>2
  <2>4. CASE proc' = [proc EXCEPT ![h] = [q EXCEPT !.seen = book, !.next = next,
                                                   !.epoch = epoch, !.pc = pc]]
    <3> PICK seen, e : seen = book /\ e = epoch
      OBVIOUS
    <3>1. PICK t : t = Reading(q, seen, next, e, pc)
      OBVIOUS
    <3>2. IsLocal(t) /\ t.pc = pc /\ t.op = q.op /\ t.req = q.req /\ t.span = q.span
      BY <2>2, <3>1, LocalReads
    <3>3. QED
      BY <2>4, <3>1, <3>2 DEF Reading
  <2>5. QED
    BY <2>1, <2>3, <2>4
<1>3. Relies(t)
  BY <1>1, <1>2 DEF Relies
<1>4. QED
  BY <1>2, <1>3, ReadsKeep

LEMMA EndKeeps ==
  ASSUME Inv, UNCHANGED <<request, decisions, attended>>, NEW h \in Handlers, Finish(h)
  PROVE  Inv'
BY IdleRelies, ReadsKeep DEF Finish

\* A commit meets nobody who relies on anything, when requests come in turn.
LEMMA CommitsKeep ==
  ASSUME Inv, RequestsInTurn, NEW h \in Handlers, proc[h].pc # "idle", Finish(h), Tables'
  PROVE  Inv'
<1>1. proc' = [g \in Handlers |-> proc'[g]]
      /\ proc'[h] = Idle /\ \A g \in Handlers \ {h} : proc'[g] = proc[g] /\ proc[g].pc = "idle"
  BY DEF Inv, Finish, RequestsInTurn
<1>2. ASSUME NEW g \in Handlers PROVE IsLocal(proc[g])' /\ Relies(proc[g])'
  <2>1. IsLocal(proc'[g]) /\ proc'[g].pc = "idle"
    BY <1>1, IdleRelies DEF Inv
  <2>2. QED
    BY <2>1 DEF IsLocal, Relies
<1>3. QED
  BY <1>1, <1>2 DEF Inv

-----------------------------------------------------------------------------
(* Requests that begin *)

LEMMA StartKeeps ==
  ASSUME Inv, NEW h \in Handlers, NEW op, NEW r, NEW span, NEW days, NEW pc,
         Start(h, op, r, span, days, pc),
         op = "create" => /\ r \in LeaveRequests /\ span \in Spans
                          /\ request[r].status = "NONE" /\ ~Overlaps(span),
         op \in {"CANCELLED", "APPROVED", "REJECTED"} => r \in Pending,
         op = "APPROVED" => span = request[r].span /\ pc \notin {"read", "commit"},
         pc = "attend" => ~OnApprovedLeave(span.first)
  PROVE  Inv'
<1> DEFINE q == [Idle EXCEPT !.op = op, !.req = r, !.span = span, !.days = days, !.pc = pc]
<1>1. IsLocal(q) /\ q.op = op /\ q.req = r /\ q.span = span /\ q.pc = pc
  <2>1. Idle \in [pc : {"idle"}, op : {"view"}, req : {NoOne}, span : {NoSpan}, days : {0},
                  seen : {EmptyBook}, next : {EmptyBook}, epoch : {0}]
    BY DEF Idle
  <2>2. PICK t : t = q
    OBVIOUS
  <2>3. t \in [pc : {pc}, op : {op}, req : {r}, span : {span}, days : {days},
               seen : {EmptyBook}, next : {EmptyBook}, epoch : {0}]
    BY <2>1, <2>2
  <2>4. IsLocal(t) /\ t.op = op /\ t.req = r /\ t.span = span /\ t.pc = pc
    BY <2>3 DEF IsLocal
  <2>5. QED
    BY <2>2, <2>4
<1>2. proc' = [proc EXCEPT ![h] = q] /\ UNCHANGED <<request, decisions, attended>>
  BY DEF Start
<1> HIDE DEF q
<1>3. Relies(q)
  BY <1>1 DEF Relies
<1>4. QED
  BY <1>1, <1>2, <1>3, ReadsKeep

LEMMA ReceiveKeeps == ASSUME Inv, NEW h \in Handlers, Receive(h) PROVE Inv'
<1>1. CASE ReceiveCreate(h)
  BY <1>1, StartKeeps DEF ReceiveCreate
<1>2. CASE ReceiveCancel(h)
  BY <1>2, StartKeeps DEF ReceiveCancel
<1>3. CASE ReceiveDecide(h)
  <2>1. PICK r \in Pending, verdict \in Verdicts :
           Start(h, verdict, r, request[r].span, 0, "settle")
    BY <1>3 DEF ReceiveDecide
  <2>2. verdict \in {"APPROVED", "REJECTED"}
    BY DEF Verdicts
  <2>3. QED
    BY <2>1, <2>2, StartKeeps
<1>4. CASE ReceiveAdjust(h) \/ ReceiveView(h)
  BY <1>4, StartKeeps DEF ReceiveAdjust, ReceiveView
<1>5. CASE ReceiveCheckIn(h)
  <2>1. [NoSpan EXCEPT !.first = today].first = today
    BY DEF NoSpan
  <2>2. QED
    BY <1>5, <2>1, StartKeeps DEF ReceiveCheckIn
<1>6. QED
  BY <1>1, <1>2, <1>3, <1>4, <1>5 DEF Receive

-----------------------------------------------------------------------------
(* The transactions *)

LEMMA ReadingKeeps ==
  ASSUME Inv, NEW h \in Handlers,
         \/ SettleRead(h) \/ SettleCommit(h) \/ CheckAttendance(h)
         \/ CreateRead(h) \/ AnswerRead(h) \/ AdjustRead(h) \/ Rollback(h)
  PROVE  Inv'
<1>0. proc[h].pc # "idle" /\ UNCHANGED <<request, decisions, attended>>
  BY DEF SettleRead, SettleCommit, CheckAttendance, CreateRead, AnswerRead, AdjustRead, Rollback,
     Read
<1>1. CASE SettleRead(h)
  <2>1. PICK next : Read(h, next, "settleCommit")
    BY <1>1 DEF SettleRead
  <2>2. QED
    BY <1>0, <2>1, GoesOn
<1>2. CASE SettleCommit(h)
  <2>1. \/ Finish(h)
        \/ Goto(h, "attendance")
        \/ Goto(h, "read") /\ proc[h].op # "APPROVED"
    BY <1>2 DEF SettleCommit
  <2>2. QED
    BY <1>0, <2>1, GoesOn, EndKeeps
<1>3. CASE CheckAttendance(h)
  <2>1. Finish(h) \/ (Goto(h, "read") /\ ~HasAttendance(proc[h].span))
    BY <1>3 DEF CheckAttendance
  <2>2. QED
    BY <1>0, <2>1, GoesOn, EndKeeps
<1>4. CASE CreateRead(h) \/ AdjustRead(h)
  <2>1. proc[h].op # "APPROVED" /\ (Finish(h) \/ \E next : Read(h, next, "commit"))
    BY <1>4 DEF CreateRead, AdjustRead
  <2>2. QED
    BY <1>0, <2>1, GoesOn, EndKeeps
<1>5. CASE AnswerRead(h)
  <2>1. PICK next : Read(h, next, "commit")
    BY <1>5 DEF AnswerRead
  <2>2. proc[h].op = "APPROVED" => ~HasAttendance(proc[h].span)
    BY <1>5 DEF AnswerRead, Inv, Relies
  <2>3. QED
    BY <1>0, <2>1, <2>2, GoesOn
<1>6. CASE Rollback(h)
  BY <1>0, <1>6, EndKeeps DEF Rollback
<1>7. QED
  BY <1>1, <1>2, <1>3, <1>4, <1>5, <1>6

\* The new request stands on half-days that no other stands on.
LEMMA CommitCreateKeeps ==
  ASSUME Inv, RequestsInTurn, NEW h \in Handlers, CommitCreate(h)
  PROVE  Inv'
<1>1. PICK r \in LeaveRequests, span \in Spans :
         /\ r = proc[h].req /\ span = proc[h].span
         /\ request[r].status = "NONE" /\ ~Overlaps(span)
  BY DEF CommitCreate, Commits, Inv, Relies
<1>2. /\ proc[h].pc # "idle" /\ Finish(h) /\ UNCHANGED <<attended, decisions>>
      /\ request' = [request EXCEPT ![r] = [status |-> "PENDING", span |-> span]]
  BY <1>1 DEF CommitCreate, Commits
<1>3. /\ request' \in [LeaveRequests -> RequestRows]
      /\ request'[r] = [status |-> "PENDING", span |-> span]
      /\ \A s \in LeaveRequests \ {r} : request'[s] = request[s]
  BY <1>2 DEF Inv, Tables, RequestRows, Statuses
<1>4. AnsweredOnce'
  BY <1>1, <1>2, <1>3 DEF Inv, Tables, DaysOffAreClear, AnsweredOnce
<1>5. NoDayOffTwice'
  <2>1. StandingRequests' = StandingRequests \cup {r}
    BY <1>3 DEF StandingRequests
  <2>2. \A s \in StandingRequests : s # r /\ request[s].span.slots \cap span.slots = {}
    BY <1>1 DEF Overlaps, StandingRequests
  <2>3. \A s \in StandingRequests : request'[s] = request[s]
    BY <1>3, <2>2 DEF StandingRequests
  <2>4. \A s, t \in StandingRequests : s # t =>
          request[s].span.slots \cap request[t].span.slots = {}
    BY DEF Inv, Tables, DaysOffAreClear, NoDayOffTwice
  <2>5. request'[r].span.slots = span.slots
    BY <1>3
  <2>6. QED
    BY <2>1, <2>2, <2>3, <2>4, <2>5 DEF NoDayOffTwice
<1>6. NoAttendanceOnLeave'
  BY <1>2, <1>3 DEF Inv, Tables, DaysOffAreClear, NoAttendanceOnLeave
<1>7. Tables'
  BY <1>2, <1>3, <1>4, <1>5, <1>6 DEF Tables, DaysOffAreClear, Inv
<1>8. QED
  BY <1>2, <1>7, CommitsKeep

\* A request that is answered or withdrawn was still pending; one that is
\* approved meets no attendance.
LEMMA StatusKeeps ==
  ASSUME Inv, RequestsInTurn, NEW h \in Handlers, proc[h].pc # "idle", Finish(h),
         UNCHANGED attended, NEW r \in Pending,
         NEW status \in {"CANCELLED", "APPROVED", "REJECTED"},
         status = "APPROVED" => ~HasAttendance(request[r].span),
         request' = [request EXCEPT ![r].status = status],
         decisions' = [decisions EXCEPT ![r] = IF status = "CANCELLED" THEN 0 ELSE 1]
  PROVE  Inv'
<1>1. r \in LeaveRequests /\ request[r] \in RequestRows /\ request[r].status = "PENDING"
  BY DEF Pending, Inv, Tables
<1>2. /\ request' \in [LeaveRequests -> RequestRows]
      /\ request'[r].status = status /\ request'[r].span = request[r].span
      /\ \A s \in LeaveRequests \ {r} : request'[s] = request[s]
  BY <1>1 DEF Inv, Tables, RequestRows, Statuses
<1>3. AnsweredOnce' /\ decisions' \in [LeaveRequests -> 0..2]
  BY <1>1, <1>2 DEF Inv, Tables, DaysOffAreClear, AnsweredOnce
<1>4. NoDayOffTwice'
  <2>1. StandingRequests' \subseteq StandingRequests
    BY <1>1, <1>2 DEF StandingRequests
  <2>2. \A s \in LeaveRequests : request'[s].span = request[s].span
    BY <1>2
  <2>3. QED
    BY <2>1, <2>2 DEF Inv, Tables, DaysOffAreClear, NoDayOffTwice, StandingRequests
<1>5. NoAttendanceOnLeave'
  BY <1>1, <1>2 DEF Inv, Tables, DaysOffAreClear, NoAttendanceOnLeave, HasAttendance
<1>6. Tables'
  BY <1>2, <1>3, <1>4, <1>5 DEF Tables, DaysOffAreClear
<1>7. QED
  BY <1>6, CommitsKeep

LEMMA CommitCancelKeeps ==
  ASSUME Inv, RequestsInTurn, NEW h \in Handlers, CommitCancel(h)
  PROVE  Inv'
<1>1. PICK r \in Pending : r = proc[h].req
  BY DEF CommitCancel, Commits, Inv, Relies
<1>2. r \in LeaveRequests /\ decisions[r] = 0
  BY DEF Pending, Inv, Tables, DaysOffAreClear, AnsweredOnce
<1>3. /\ proc[h].pc # "idle" /\ Finish(h) /\ UNCHANGED attended
      /\ request' = [request EXCEPT ![r].status = "CANCELLED"]
      /\ decisions' = [decisions EXCEPT ![r] = 0]
  BY <1>1, <1>2 DEF CommitCancel, Commits, Inv, Tables
<1>4. QED
  BY <1>3, StatusKeeps

LEMMA CommitDecisionKeeps ==
  ASSUME Inv, RequestsInTurn, NEW h \in Handlers, CommitDecision(h)
  PROVE  Inv'
<1>1. PICK verdict \in Verdicts :
         /\ Commits(h, verdict)
         /\ request' = [request EXCEPT ![proc[h].req].status = verdict]
         /\ decisions' = [decisions EXCEPT ![proc[h].req] = Min({2, @ + 1})]
  BY DEF CommitDecision
<1>2. PICK r \in Pending : r = proc[h].req
  BY <1>1 DEF Commits, Inv, Relies, Verdicts
<1>3. r \in LeaveRequests /\ decisions[r] = 0
  BY DEF Pending, Inv, Tables, DaysOffAreClear, AnsweredOnce
<1>4. Min({2, decisions[r] + 1}) = 1
  BY <1>3 DEF Min
<1>5. verdict = "APPROVED" => ~HasAttendance(request[r].span)
  BY <1>1, <1>2 DEF Commits, Inv, Relies
<1>6. /\ proc[h].pc # "idle" /\ Finish(h) /\ UNCHANGED attended
      /\ verdict \in {"APPROVED", "REJECTED"}
      /\ request' = [request EXCEPT ![r].status = verdict]
      /\ decisions' = [decisions EXCEPT ![r] = 1]
  BY <1>1, <1>2, <1>3, <1>4 DEF Commits, Verdicts, Inv, Tables
<1>7. QED
  BY <1>5, <1>6, StatusKeeps

LEMMA AttendKeeps ==
  ASSUME Inv, RequestsInTurn, NEW h \in Handlers, Attend(h)
  PROVE  Inv'
<1>1. /\ proc[h].pc # "idle" /\ Finish(h) /\ ~OnApprovedLeave(proc[h].span.first)
      /\ attended' = attended \cup {proc[h].span.first} /\ UNCHANGED <<request, decisions>>
  BY DEF Attend, Inv, Relies
<1>2. NoAttendanceOnLeave'
  BY <1>1 DEF Inv, Tables, DaysOffAreClear, NoAttendanceOnLeave, OnApprovedLeave
<1>3. Tables'
  BY <1>1, <1>2 DEF Inv, Tables, DaysOffAreClear, AnsweredOnce, NoDayOffTwice, StandingRequests
<1>4. QED
  BY <1>1, <1>3, CommitsKeep

-----------------------------------------------------------------------------
LEMMA InvNext == Inv /\ RequestsInTurn /\ [Next]_vars => Inv'
<1> SUFFICES ASSUME Inv, RequestsInTurn, [Next]_vars PROVE Inv'
  OBVIOUS
<1>1. CASE UNCHANGED vars
  BY <1>1, StillKeeps DEF vars
<1>2. CASE NextDay
  BY <1>2, StillKeeps DEF NextDay
<1>3. ASSUME NEW h \in Handlers, CorrectHireDate(h) PROVE Inv'
  BY <1>3, StillKeeps DEF CorrectHireDate
<1>4. ASSUME NEW h \in Handlers, CommitAdjust(h) PROVE Inv'
  BY <1>4, EndKeeps DEF CommitAdjust, Commits
<1>5. ASSUME NEW h \in Handlers, Continue(h) PROVE Inv'
  BY <1>4, <1>5, ReadingKeeps, CommitCreateKeeps, CommitCancelKeeps, CommitDecisionKeeps,
     AttendKeeps DEF Continue
<1>6. QED
  BY <1>1, <1>2, <1>3, <1>5, ReceiveKeeps DEF Next

LEMMA InvInit == Init => Inv
<1> SUFFICES ASSUME Init PROVE Inv
  OBVIOUS
<1>1. /\ request = [r \in LeaveRequests |-> NoRequest] /\ decisions = [r \in LeaveRequests |-> 0]
      /\ attended = {} /\ proc = [h \in Handlers |-> Idle]
  BY DEF Init
<1>2. request \in [LeaveRequests -> RequestRows] /\ decisions \in [LeaveRequests -> 0..2]
  BY <1>1 DEF NoRequest, RequestRows, Statuses
<1>3. DaysOffAreClear
  BY <1>1 DEF DaysOffAreClear, AnsweredOnce, NoDayOffTwice, NoAttendanceOnLeave, StandingRequests,
     NoRequest
<1>4. QED
  BY <1>1, <1>2, <1>3, IdleRelies DEF Inv, Tables

\* As long as requests come in turn, a half-day is taken off once, by a request
\* that was answered once, and not worked, whatever the books of annual leave
\* refuse, roll back or rebuild (create, decide, cancel; check-in).
THEOREM DaysOffStayClear == Spec /\ []RequestsInTurn => []DaysOffAreClear
<1>1. Inv => DaysOffAreClear
  BY DEF Inv, Tables
<1>2. QED
  BY <1>1, InvInit, InvNext, PTL DEF Spec

-----------------------------------------------------------------------------
(* Folds over a finite set.  Nothing may be taken for granted of them: that  *)
(* one exists and is unique is shown with the least number of elements where *)
(* it would fail.                                                            *)

\* Every set of naturals that is not empty has a least element.
LEMMA LeastNatural ==
  ASSUME NEW T \in SUBSET Nat, T # {}
  PROVE  \E n \in T : \A m \in T : n <= m
<1>1. PICK less : less = OpToRel(<, Nat)
  OBVIOUS
<1>2. \A a, b \in Nat : a < b => <<a, b>> \in less
  BY <1>1 DEF OpToRel
<1>3. IsWellFoundedOn(less, Nat)
  BY <1>1, NatLessThanWellFounded
<1>4. PICK n \in T : \A m \in T : ~ (<<m, n>> \in less)
  BY <1>3, WFMin
<1>5. ASSUME NEW m \in T
      PROVE  n <= m
  <2>1. m \in Nat /\ n \in Nat
    BY <1>4
  <2>2. ~ (m < n)
    BY <1>2, <1>4, <2>1
  <2>3. QED
    BY <2>1, <2>2
<1>6. QED
  BY <1>5, Zenon

LEMMA NatInSet ==
  ASSUME NEW N \in SUBSET Nat, 0 \in N, \A n \in N : n + 1 \in N
  PROVE  N = Nat
<1> SUFFICES ASSUME N # Nat PROVE FALSE
  OBVIOUS
<1>1. PICK n \in Nat \ N : \A m \in Nat \ N : n <= m
  BY LeastNatural
<1>2. n # 0 /\ n - 1 \in N
  BY <1>1
<1>3. QED
  BY <1>1, <1>2

\* A function that computes a fold over the subsets of S, one element after the other.
IsFold(g, S, base, pick, step) ==
  \A A \in SUBSET S : g[A] = IF A = {} THEN base ELSE step[<<pick[A], g[A \ {pick[A]}]>>]

SmallSets(S, n) == {A \in SUBSET S : Cardinality(A) <= n}

LEMMA SmallerSet ==
  ASSUME NEW S, IsFiniteSet(S), NEW A \in SUBSET S, NEW x \in A
  PROVE  /\ IsFiniteSet(A) /\ Cardinality(A) \in Nat \ {0}
         /\ A \ {x} \in SUBSET S /\ Cardinality(A \ {x}) = Cardinality(A) - 1
<1>1. IsFiniteSet(A)
  BY FS_Subset
<1>2. Cardinality(A) \in Nat /\ Cardinality(A) # 0
  BY <1>1, FS_CardinalityType, FS_EmptySet
<1>3. QED
  BY <1>1, <1>2, FS_RemoveElement

LEMMA FoldExists ==
  ASSUME NEW S, IsFiniteSet(S), NEW B, NEW base \in B, NEW step \in [S \X B -> B],
         NEW pick, \A A \in SUBSET S : A # {} => pick[A] \in A
  PROVE  \E g \in [SUBSET S -> B] : IsFold(g, S, base, pick, step)
<1> DEFINE FoldsUpTo(g, n) ==
      \A A \in SmallSets(S, n) :
        g[A] = IF A = {} THEN base ELSE step[<<pick[A], g[A \ {pick[A]}]>>]
<1> DEFINE N == {n \in Nat : \E g \in [SmallSets(S, n) -> B] : FoldsUpTo(g, n)}
<1>1. 0 \in N
  <2>1. SmallSets(S, 0) = {{}}
    <3>1. \A A \in SUBSET S : IsFiniteSet(A) /\ Cardinality(A) \in Nat
      BY FS_Subset, FS_CardinalityType
    <3>2. QED
      BY <3>1, FS_EmptySet DEF SmallSets
  <2>2. PICK g : g = [A \in SmallSets(S, 0) |-> base]
    OBVIOUS
  <2>3. g \in [SmallSets(S, 0) -> B] /\ FoldsUpTo(g, 0)
    BY <2>1, <2>2
  <2>4. QED
    BY <2>3
<1>2. ASSUME NEW n \in N PROVE n + 1 \in N
  <2>1. PICK g \in [SmallSets(S, n) -> B] : FoldsUpTo(g, n)
    OBVIOUS
  <2>2. PICK h : h = [A \in SmallSets(S, n + 1) |->
                        IF A \in SmallSets(S, n) THEN g[A]
                        ELSE step[<<pick[A], g[A \ {pick[A]}]>>]]
    OBVIOUS
  <2>3. ASSUME NEW A \in SmallSets(S, n + 1), A # {}
        PROVE  pick[A] \in A /\ A \ {pick[A]} \in SmallSets(S, n)
    BY <2>3, SmallerSet DEF SmallSets
  <2>4. \A A \in SmallSets(S, n) : A \in SmallSets(S, n + 1)
    BY FS_Subset, FS_CardinalityType DEF SmallSets
  <2>5. {} \in SmallSets(S, n)
    BY FS_EmptySet DEF SmallSets
  <2>6. ASSUME NEW A \in SmallSets(S, n + 1)
        PROVE  h[A] \in B /\ h[A] = IF A = {} THEN base ELSE step[<<pick[A], h[A \ {pick[A]}]>>]
    <3>1. CASE A = {}
      BY <2>1, <2>2, <2>5, <3>1
    <3>2. CASE A # {}
      <4>1. PICK x \in S : x = pick[A]
        BY <2>3, <3>2 DEF SmallSets
      <4>2. PICK C \in SmallSets(S, n) : C = A \ {x}
        BY <2>3, <3>2, <4>1
      <4>3. C \in SmallSets(S, n + 1) /\ h[C] = g[C] /\ g[C] \in B
        BY <2>1, <2>2, <2>4, <4>2
      <4>4. step[<<x, g[C]>>] \in B
        BY <4>1, <4>3
      <4>5. h[A] = IF A \in SmallSets(S, n) THEN g[A] ELSE step[<<x, g[C]>>]
        BY <2>2, <4>1, <4>2
      <4>6. A \in SmallSets(S, n) => g[A] = step[<<x, g[C]>>]
        BY <2>1, <3>2, <4>1, <4>2
      <4>7. h[A] = step[<<x, h[C]>>]
        BY <4>3, <4>5, <4>6
      <4>8. QED
        BY <3>2, <4>1, <4>2, <4>3, <4>4, <4>7
    <3>3. QED
      BY <3>1, <3>2
  <2>7. h \in [SmallSets(S, n + 1) -> B]
    BY <2>2, <2>6
  <2>8. FoldsUpTo(h, n + 1)
    BY <2>6
  <2>9. \E f \in [SmallSets(S, n + 1) -> B] : FoldsUpTo(f, n + 1)
    <3> HIDE DEF FoldsUpTo
    <3> QED
      BY <2>7, <2>8
  <2>10. n + 1 \in Nat
    OBVIOUS
  <2>11. QED
    BY <2>9, <2>10
<1> HIDE DEF N
<1>3. N = Nat
  <2>1. N \in SUBSET Nat
    BY DEF N
  <2>2. QED
    BY <1>1, <1>2, <2>1, NatInSet
<1>4. Cardinality(S) \in N
  BY <1>3, FS_CardinalityType
<1>5. SmallSets(S, Cardinality(S)) = SUBSET S
  BY FS_Subset DEF SmallSets
<1>6. QED
  BY <1>4, <1>5 DEF N, IsFold

\* From where g and h agree they go the same step.
StepTogether(g, h, S, pick) ==
  /\ g[{}] = h[{}]
  /\ \A A \in SUBSET S : A # {} => pick[A] \in A
  /\ \A A \in SUBSET S : A # {} /\ g[A \ {pick[A]}] = h[A \ {pick[A]}] => g[A] = h[A]

LEMMA FoldIsUnique ==
  ASSUME NEW S, IsFiniteSet(S), NEW pick, NEW g, NEW h, StepTogether(g, h, S, pick)
  PROVE  \A A \in SUBSET S : g[A] = h[A]
<1> DEFINE N == {n \in Nat : \A A \in SmallSets(S, n) : g[A] = h[A]}
<1> USE DEF StepTogether
<1>1. \A A \in SUBSET S : IsFiniteSet(A) /\ Cardinality(A) \in Nat /\ (Cardinality(A) = 0 <=> A = {})
  BY FS_Subset, FS_CardinalityType, FS_EmptySet
<1>2. 0 \in N
  <2>1. \A A \in SmallSets(S, 0) : A = {}
    BY <1>1 DEF SmallSets
  <2>2. QED
    BY <2>1
<1>3. ASSUME NEW n \in N PROVE n + 1 \in N
  <2>1. ASSUME NEW A \in SmallSets(S, n + 1), A # {} PROVE g[A] = h[A]
    <3>1. A \in SUBSET S
      BY DEF SmallSets
    <3>2. PICK x \in A : x = pick[A]
      BY <2>1, <3>1
    <3>3. A \ {x} \in SUBSET S /\ Cardinality(A \ {x}) = Cardinality(A) - 1
      BY <3>1, <3>2, SmallerSet
    <3>4. A \ {x} \in SmallSets(S, n)
      BY <1>1, <3>1, <3>3 DEF SmallSets
    <3>5. g[A \ {x}] = h[A \ {x}]
      BY <3>4
    <3>6. QED
      BY <2>1, <3>1, <3>2, <3>5
  <2>2. \A A \in SmallSets(S, n + 1) : g[A] = h[A]
    BY <2>1
  <2>3. QED
    BY <2>2
<1> HIDE DEF N
<1>4. N = Nat
  <2>1. N \in SUBSET Nat
    BY DEF N
  <2>2. QED
    BY <1>2, <1>3, <2>1, NatInSet
<1>5. QED
  BY <1>1, <1>4 DEF N, SmallSets

-----------------------------------------------------------------------------
(* Sums *)

IsSum(g, f, S) ==
  \A A \in SUBSET S :
    g[A] = IF A = {} THEN 0 ELSE f[CHOOSE x \in A : TRUE] + g[A \ {CHOOSE x \in A : TRUE}]

\* The sum of f over S satisfies the equation that defines it.
LEMMA SumIsFold ==
  ASSUME NEW f, NEW S, IsFiniteSet(S), \A x \in S : f[x] \in Int
  PROVE  \E g \in [SUBSET S -> Int] : IsSum(g, f, S) /\ SumFunctionOnSet(f, S) = g[S]
<1> DEFINE Equation(g) ==
      g = [A \in SUBSET S |-> IF A = {} THEN 0 ELSE f[CHOOSE x \in A : TRUE] + g[A \ {CHOOSE x \in A : TRUE}]]
<1>1. SumFunctionOnSet(f, S) = (CHOOSE g : Equation(g))[S]
  BY DEF SumFunctionOnSet, FoldFunctionOnSet, MapThenFoldSet
<1>2. PICK pick : pick = [A \in SUBSET S |-> CHOOSE x \in A : TRUE]
  OBVIOUS
<1>3. \A A \in SUBSET S : A # {} => pick[A] \in A
  BY <1>2
<1>4. PICK step : step = [p \in S \X Int |-> f[p[1]] + p[2]]
  OBVIOUS
<1>5. step \in [S \X Int -> Int]
  BY <1>4
<1>6. PICK g \in [SUBSET S -> Int] : IsFold(g, S, 0, pick, step)
  <2>1. 0 \in Int
    OBVIOUS
  <2>2. QED
    BY <1>3, <1>5, <2>1, FoldExists
<1>7. ASSUME NEW A \in SUBSET S
      PROVE  g[A] = IF A = {} THEN 0 ELSE f[CHOOSE x \in A : TRUE] + g[A \ {CHOOSE x \in A : TRUE}]
  <2>1. CASE A = {}
    BY <1>6, <2>1 DEF IsFold
  <2>2. CASE A # {}
    <3>1. PICK x \in S : x = pick[A] /\ x = CHOOSE z \in A : TRUE
      BY <1>2, <1>3, <2>2
    <3>2. A \ {x} \in SUBSET S /\ g[A \ {x}] \in Int
      BY <1>6
    <3>3. step[<<x, g[A \ {x}]>>] = f[x] + g[A \ {x}]
      BY <1>4, <3>2
    <3>4. g[A] = step[<<x, g[A \ {x}]>>]
      BY <1>6, <2>2, <3>1 DEF IsFold
    <3>5. QED
      BY <2>2, <3>1, <3>3, <3>4
  <2>3. QED
    BY <2>1, <2>2
<1>8. Equation(g)
  BY <1>7
<1>9. PICK h : h = CHOOSE g_ : Equation(g_)
  OBVIOUS
<1>10. Equation(h)
  <2> HIDE DEF Equation
  <2>1. \E x : Equation(x)
    BY <1>8
  <2>2. QED
    BY <1>9, <2>1, Zenon
<1>11. IsSum(h, f, S) /\ IsSum(g, f, S)
  BY <1>7, <1>10 DEF IsSum
<1>12. \A A \in SUBSET S : h[A] = g[A]
  <2>1. h[{}] = g[{}]
    BY <1>11 DEF IsSum
  <2>2. ASSUME NEW A \in SUBSET S, A # {}, h[A \ {pick[A]}] = g[A \ {pick[A]}]
        PROVE  h[A] = g[A]
    <3>1. PICK x : x = pick[A] /\ x = CHOOSE z \in A : TRUE
      BY <1>2
    <3>2. h[A] = f[x] + h[A \ {x}] /\ g[A] = f[x] + g[A \ {x}]
      BY <1>11, <2>2, <3>1 DEF IsSum
    <3>3. QED
      BY <2>2, <3>1, <3>2
  <2>3. StepTogether(h, g, S, pick)
    BY <1>3, <2>1, <2>2 DEF StepTogether
  <2>4. QED
    BY <2>3, FoldIsUnique
<1>13. SumFunctionOnSet(f, S) = g[S]
  BY <1>1, <1>9, <1>12
<1>14. QED
  BY <1>11, <1>13

LEMMA SumOfNone == ASSUME NEW f PROVE SumFunctionOnSet(f, {}) = 0
<1>1. IsFiniteSet({})
  BY FS_EmptySet
<1>2. \A x \in {} : f[x] \in Int
  OBVIOUS
<1>3. PICK g \in [SUBSET {} -> Int] : IsSum(g, f, {}) /\ SumFunctionOnSet(f, {}) = g[{}]
  BY <1>1, <1>2, SumIsFold
<1>4. QED
  BY <1>3 DEF IsSum

\* All sums over subsets of S are values of one function.
LEMMA SumsAre ==
  ASSUME NEW f, NEW S, IsFiniteSet(S), \A x \in S : f[x] \in Int
  PROVE  \E g \in [SUBSET S -> Int] :
            IsSum(g, f, S) /\ \A A \in SUBSET S : SumFunctionOnSet(f, A) = g[A]
<1>1. PICK g \in [SUBSET S -> Int] : IsSum(g, f, S)
  BY SumIsFold
<1>2. PICK pick : pick = [A \in SUBSET S |-> CHOOSE x \in A : TRUE]
  OBVIOUS
<1>3. ASSUME NEW A \in SUBSET S PROVE SumFunctionOnSet(f, A) = g[A]
  <2>1. IsFiniteSet(A)
    BY FS_Subset
  <2>2. PICK h \in [SUBSET A -> Int] : IsSum(h, f, A) /\ SumFunctionOnSet(f, A) = h[A]
    BY <2>1, SumIsFold
  <2>3. h[{}] = g[{}]
    BY <1>1, <2>2 DEF IsSum
  <2>4. ASSUME NEW C \in SUBSET A, C # {}
        PROVE  pick[C] \in C /\ (h[C \ {pick[C]}] = g[C \ {pick[C]}] => h[C] = g[C])
    <3>1. PICK x : x = pick[C] /\ x = (CHOOSE z \in C : TRUE) /\ x \in C
      BY <1>2, <2>4
    <3>2. h[C] = f[x] + h[C \ {x}] /\ g[C] = f[x] + g[C \ {x}]
      BY <1>1, <2>2, <2>4, <3>1 DEF IsSum
    <3>3. QED
      BY <3>1, <3>2
  <2>5. StepTogether(h, g, A, pick)
    BY <2>3, <2>4 DEF StepTogether
  <2>6. \A C \in SUBSET A : h[C] = g[C]
    BY <2>1, <2>5, FoldIsUnique
  <2>7. QED
    BY <2>2, <2>6
<1>4. QED
  BY <1>1, <1>3

\* An element may be taken out of a sum first, whichever it is.
LEMMA SumTakesOut ==
  ASSUME NEW f, NEW S, IsFiniteSet(S), \A x \in S : f[x] \in Int, NEW x \in S
  PROVE  /\ SumFunctionOnSet(f, S) = f[x] + SumFunctionOnSet(f, S \ {x})
         /\ SumFunctionOnSet(f, S) \in Int /\ SumFunctionOnSet(f, S \ {x}) \in Int
<1>1. PICK g \in [SUBSET S -> Int] :
        IsSum(g, f, S) /\ \A A \in SUBSET S : SumFunctionOnSet(f, A) = g[A]
  BY SumsAre
<1> DEFINE N == {n \in Nat : \A A \in SmallSets(S, n) : \A y \in A : g[A] = f[y] + g[A \ {y}]}
<1>2. \A A \in SUBSET S : IsFiniteSet(A) /\ Cardinality(A) \in Nat /\ (Cardinality(A) = 0 <=> A = {})
  BY FS_Subset, FS_CardinalityType, FS_EmptySet
<1>3. 0 \in N
  <2>1. \A A \in SmallSets(S, 0) : A = {}
    BY <1>2 DEF SmallSets
  <2>2. QED
    BY <2>1
<1>4. ASSUME NEW n \in N PROVE n + 1 \in N
  <2>1. ASSUME NEW A \in SmallSets(S, n + 1), NEW y \in A PROVE g[A] = f[y] + g[A \ {y}]
    <3>1. PICK c \in A : c = CHOOSE z \in A : TRUE
      OBVIOUS
    <3>2. g[A] = f[c] + g[A \ {c}]
      BY <1>1, <3>1 DEF IsSum, SmallSets
    <3>3. CASE y = c
      BY <3>2, <3>3
    <3>4. CASE y # c
      <4>1. A \ {c} \in SmallSets(S, n) /\ A \ {y} \in SmallSets(S, n)
        BY SmallerSet DEF SmallSets
      <4>2. y \in A \ {c} /\ c \in A \ {y} /\ (A \ {c}) \ {y} = (A \ {y}) \ {c}
        BY <3>4
      <4>3. PICK C \in SUBSET S : C = (A \ {c}) \ {y}
        BY DEF SmallSets
      <4>4. g[A \ {c}] = f[y] + g[C] /\ g[A \ {y}] = f[c] + g[C]
        BY <4>1, <4>2, <4>3
      <4>5. f[y] \in Int /\ f[c] \in Int /\ g[C] \in Int
        BY <1>1 DEF SmallSets
      <4>6. QED
        BY <3>2, <4>4, <4>5
    <3>5. QED
      BY <3>3, <3>4
  <2>2. \A A \in SmallSets(S, n + 1) : \A y \in A : g[A] = f[y] + g[A \ {y}]
    BY <2>1
  <2>3. n + 1 \in Nat
    OBVIOUS
  <2>4. QED
    BY <2>2, <2>3
<1> HIDE DEF N
<1>5. N = Nat
  <2>1. N \in SUBSET Nat
    BY DEF N
  <2>2. QED
    BY <1>3, <1>4, <2>1, NatInSet
<1>6. g[S] = f[x] + g[S \ {x}]
  BY <1>2, <1>5 DEF N, SmallSets
<1>7. QED
  BY <1>1, <1>6

LEMMA SumIsInt ==
  ASSUME NEW f, NEW S, IsFiniteSet(S), \A x \in S : f[x] \in Int
  PROVE  SumFunctionOnSet(f, S) \in Int
<1>1. PICK g \in [SUBSET S -> Int] : IsSum(g, f, S) /\ SumFunctionOnSet(f, S) = g[S]
  BY SumIsFold
<1>2. S \in SUBSET S
  OBVIOUS
<1>3. QED
  BY <1>1, <1>2

\* Induction over the subsets of a finite set.
LEMMA SubsetsInSet ==
  ASSUME NEW S, IsFiniteSet(S), NEW G, {} \in G,
         \A A \in SUBSET S : \A x \in A : A \ {x} \in G => A \in G
  PROVE  SUBSET S \subseteq G
<1> DEFINE N == {n \in Nat : SmallSets(S, n) \subseteq G}
<1>1. \A A \in SUBSET S : IsFiniteSet(A) /\ Cardinality(A) \in Nat /\ (Cardinality(A) = 0 <=> A = {})
  BY FS_Subset, FS_CardinalityType, FS_EmptySet
<1>2. 0 \in N
  <2>1. \A A \in SmallSets(S, 0) : A = {}
    BY <1>1 DEF SmallSets
  <2>2. QED
    BY <2>1
<1>3. ASSUME NEW n \in N PROVE n + 1 \in N
  <2>1. ASSUME NEW A \in SmallSets(S, n + 1), A # {} PROVE A \in G
    <3>1. A \in SUBSET S
      BY DEF SmallSets
    <3>2. PICK x \in A : TRUE
      BY <2>1
    <3>3. A \ {x} \in SUBSET S /\ Cardinality(A \ {x}) = Cardinality(A) - 1
      BY <3>1, SmallerSet
    <3>4. A \ {x} \in SmallSets(S, n)
      BY <1>1, <3>1, <3>3 DEF SmallSets
    <3>5. QED
      BY <3>1, <3>4
  <2>2. \A A \in SmallSets(S, n + 1) : A \in G
    BY <2>1
  <2>3. QED
    BY <2>2
<1> HIDE DEF N
<1>4. N = Nat
  <2>1. N \in SUBSET Nat
    BY DEF N
  <2>2. QED
    BY <1>2, <1>3, <2>1, NatInSet
<1>5. QED
  BY <1>1, <1>4 DEF N, SmallSets

\* Sums compare as their terms do.
LEMMA SumsCompare ==
  ASSUME NEW f, NEW g, NEW S, IsFiniteSet(S),
         \A x \in S : f[x] \in Int /\ g[x] \in Int /\ f[x] <= g[x]
  PROVE  SumFunctionOnSet(f, S) <= SumFunctionOnSet(g, S)
<1> DEFINE G == {A \in SUBSET S : SumFunctionOnSet(f, A) <= SumFunctionOnSet(g, A)}
<1>1. {} \in G
  BY SumOfNone
<1>2. ASSUME NEW A \in SUBSET S, NEW x \in A, A \ {x} \in G PROVE A \in G
  <2>1. IsFiniteSet(A)
    BY FS_Subset
  <2>2. /\ SumFunctionOnSet(f, A) = f[x] + SumFunctionOnSet(f, A \ {x})
        /\ SumFunctionOnSet(f, A \ {x}) \in Int
    BY <2>1, SumTakesOut
  <2>3. /\ SumFunctionOnSet(g, A) = g[x] + SumFunctionOnSet(g, A \ {x})
        /\ SumFunctionOnSet(g, A \ {x}) \in Int
    BY <2>1, SumTakesOut
  <2>4. f[x] \in Int /\ g[x] \in Int /\ f[x] <= g[x]
    OBVIOUS
  <2>5. QED
    BY <1>2, <2>2, <2>3, <2>4
<1> HIDE DEF G
<1>3. SUBSET S \subseteq G
  BY <1>1, <1>2, SubsetsInSet
<1>4. QED
  BY <1>3 DEF G

LEMMA SumsAgree ==
  ASSUME NEW f, NEW g, NEW S, IsFiniteSet(S), \A x \in S : f[x] \in Int /\ g[x] = f[x]
  PROVE  SumFunctionOnSet(f, S) = SumFunctionOnSet(g, S)
<1>1. SumFunctionOnSet(f, S) \in Int /\ SumFunctionOnSet(g, S) \in Int
  BY SumIsInt
<1>2. SumFunctionOnSet(f, S) <= SumFunctionOnSet(g, S) /\ SumFunctionOnSet(g, S) <= SumFunctionOnSet(f, S)
  BY SumsCompare
<1>3. QED
  BY <1>1, <1>2

LEMMA SumOfZeros ==
  ASSUME NEW f, NEW S, IsFiniteSet(S), \A x \in S : f[x] = 0
  PROVE  SumFunctionOnSet(f, S) = 0
<1> DEFINE G == {A \in SUBSET S : SumFunctionOnSet(f, A) = 0}
<1>1. {} \in G
  BY SumOfNone
<1>2. ASSUME NEW A \in SUBSET S, NEW x \in A, A \ {x} \in G PROVE A \in G
  <2>1. IsFiniteSet(A)
    BY FS_Subset
  <2>2. SumFunctionOnSet(f, A) = f[x] + SumFunctionOnSet(f, A \ {x})
    BY <2>1, SumTakesOut
  <2>3. QED
    BY <1>2, <2>2
<1> HIDE DEF G
<1>3. SUBSET S \subseteq G
  BY <1>1, <1>2, SubsetsInSet
<1>4. QED
  BY <1>3 DEF G

LEMMA SumIsNat ==
  ASSUME NEW f, NEW S, IsFiniteSet(S), \A x \in S : f[x] \in Nat
  PROVE  SumFunctionOnSet(f, S) \in Nat
<1>1. PICK zero : zero = [x \in S |-> 0]
  OBVIOUS
<1>2. SumFunctionOnSet(zero, S) = 0 /\ SumFunctionOnSet(f, S) \in Int
  BY <1>1, SumOfZeros, SumIsInt
<1>3. SumFunctionOnSet(zero, S) <= SumFunctionOnSet(f, S)
  BY <1>1, SumsCompare
<1>4. QED
  BY <1>2, <1>3

-----------------------------------------------------------------------------
(* The operations of the ledger, on any book.                                *)

\* No bucket has given more than it was granted.
NotOverdrawn(b) == \A y \in Years : Remaining(b.bucket[y]) >= 0

\* Whatever the operation, a bucket that has expired stays so and keeps what it
\* lost.
KeepsExpired(b, c) ==
  \A y \in Years : b.bucket[y].status = "EXPIRED" =>
    c.bucket[y].status = "EXPIRED" /\ c.bucket[y].expired = b.bucket[y].expired

\* A bucket is opened, then expired, and loses days only when it expires.
Advances(old, new) ==
  /\ new.status # old.status =>
       new.status = "EXPIRED" \/ (old.status = "NONE" /\ new.status = "OPEN")
  /\ new.status = old.status => new.expired = old.expired

Moves(b, c) == \A y \in Years : Advances(b.bucket[y], c.bucket[y])

\* A year that has no bucket: nothing is held of it.
IsBlank(b, y) == b.bucket[y] = NoBucket /\ \A r \in LeaveRequests : b.alloc[r][y] = 0

\* The operation opens and expires no bucket.
Steady(b, c) ==
  \A y \in Years : /\ c.bucket[y].status = b.bucket[y].status
                   /\ c.bucket[y].expired = b.bucket[y].expired
                   /\ IsBlank(b, y) => IsBlank(c, y)

LEMMA MovesKeepExpired ==
  ASSUME NEW b, NEW c, Moves(b, c) PROVE KeepsExpired(b, c)
BY DEF Moves, Advances, KeepsExpired

LEMMA MaxOfTwo == ASSUME NEW a \in Int, NEW c \in Int PROVE Max({a, c}) = IF a >= c THEN a ELSE c
<1> DEFINE m == IF a >= c THEN a ELSE c
<1>1. m \in {a, c} /\ \A x \in {a, c} : m >= x
  OBVIOUS
<1>2. \A x \in {a, c} : (\A z \in {a, c} : x >= z) => x = m
  OBVIOUS
<1>3. QED
  BY <1>1, <1>2 DEF Max

LEMMA MinOfTwo == ASSUME NEW a \in Int, NEW c \in Int PROVE Min({a, c}) = IF a <= c THEN a ELSE c
<1> DEFINE m == IF a <= c THEN a ELSE c
<1>1. m \in {a, c} /\ \A x \in {a, c} : m <= x
  OBVIOUS
<1>2. \A x \in {a, c} : (\A z \in {a, c} : x <= z) => x = m
  OBVIOUS
<1>3. QED
  BY <1>1, <1>2 DEF Min

LEMMA FreeIs ==
  ASSUME NEW b \in Bucket
  PROVE  /\ Remaining(b) \in Int /\ Free(b) \in Nat
         /\ Free(b) = IF Remaining(b) >= 0 THEN Remaining(b) ELSE 0
<1>1. Remaining(b) \in Int
  BY DEF Bucket, Remaining
<1>2. QED
  BY <1>1, MaxOfTwo DEF Free

LEMMA YearsAre == Years \subseteq Nat /\ IsFiniteSet(Years)
<1>1. LastDay \div YearLength \in Nat
  BY LeaveYearAssumption
<1>2. QED
  BY <1>1, FS_Interval DEF Years

\* Among finitely many, one has the largest number.
LEMMA HasLargest ==
  ASSUME NEW S, IsFiniteSet(S), S # {}, NEW f, \A x \in S : f[x] \in Int
  PROVE  \E m \in S : \A x \in S : f[x] <= f[m]
<1> DEFINE G == {A \in SUBSET S : A # {} => \E m \in A : \A x \in A : f[x] <= f[m]}
<1>1. {} \in G
  OBVIOUS
<1>2. ASSUME NEW A \in SUBSET S, NEW z \in A, A \ {z} \in G PROVE A \in G
  <2>1. CASE A \ {z} = {}
    <3>1. \A x \in A : x = z
      BY <2>1
    <3>2. f[z] <= f[z]
      OBVIOUS
    <3>3. \E m \in A : \A x \in A : f[x] <= f[m]
      BY <3>1, <3>2
    <3>4. QED
      BY <3>3
  <2>2. CASE A \ {z} # {}
    <3>1. PICK m \in A \ {z} : \A x \in A \ {z} : f[x] <= f[m]
      BY <1>2, <2>2
    <3>2. CASE f[z] <= f[m]
      <4>1. \A x \in A : f[x] <= f[m]
        BY <3>1, <3>2
      <4>2. QED
        BY <4>1
    <3>3. CASE f[m] <= f[z]
      <4>1. \A x \in A : f[x] <= f[z]
        BY <3>1, <3>3
      <4>2. QED
        BY <4>1
    <3>4. f[z] \in Int /\ f[m] \in Int
      OBVIOUS
    <3>5. QED
      BY <3>2, <3>3, <3>4
  <2>3. QED
    BY <2>1, <2>2
<1> HIDE DEF G
<1>3. SUBSET S \subseteq G
  BY <1>1, <1>2, SubsetsInSet
<1>4. S \in G
  BY <1>3
<1>5. QED
  BY <1>4 DEF G

LEMMA MaxIsIn ==
  ASSUME NEW S \in SUBSET Int, IsFiniteSet(S), S # {}
  PROVE  Max(S) \in S /\ \A x \in S : x <= Max(S)
<1>1. PICK f : f = [x \in S |-> x]
  OBVIOUS
<1>2. PICK m \in S : \A x \in S : f[x] <= f[m]
  BY <1>1, HasLargest
<1>3. m \in S /\ \A x \in S : m >= x
  BY <1>1, <1>2
<1>4. QED
  BY <1>3 DEF Max

\* What buckets could give adds up to a number.
LEMMA FreeAddsUp ==
  ASSUME NEW b \in Book
  PROVE  /\ \A S \in SUBSET Years : SumFunctionOnSet(FreeDays(b), S) \in Nat
         /\ \A y \in Years : FreeBefore(b, y) \in Nat
         /\ \A n \in Int : Shortfall(b, n) \in Nat
<1>1. ASSUME NEW S \in SUBSET Years PROVE SumFunctionOnSet(FreeDays(b), S) \in Nat
  <2>1. IsFiniteSet(S)
    BY YearsAre, FS_Subset
  <2>2. \A y \in S : FreeDays(b)[y] \in Nat
    BY FreeIs DEF FreeDays, Book
  <2>3. QED
    BY <2>1, <2>2, SumIsNat
<1>2. OpenYears(b) \in SUBSET Years
  BY DEF OpenYears
<1>3. ASSUME NEW y \in Years PROVE FreeBefore(b, y) \in Nat
  <2>1. {x \in OpenYears(b) : x < y} \in SUBSET Years
    BY <1>2
  <2>2. QED
    BY <1>1, <2>1 DEF FreeBefore
<1>4. ASSUME NEW n \in Int PROVE Shortfall(b, n) \in Nat
  <2>1. PICK m \in Nat : m = SumFunctionOnSet(FreeDays(b), OpenYears(b))
    BY <1>1, <1>2
  <2>2. Max({0, n - m}) \in Nat
    BY MaxOfTwo
  <2>3. QED
    BY <2>1, <2>2 DEF Shortfall
<1>5. QED
  BY <1>1, <1>3, <1>4

\* What a year earns is a number of days.
LEMMA EntitlementIsNat ==
  ASSUME NEW y \in Years, NEW start \in Int, NEW day \in Int, start <= day
  PROVE  Entitlement(y, start, day) \in Nat
<1>1. ServiceMonths(start, day) \in Nat
  BY LeaveYearAssumption DEF ServiceMonths
<1>2. PICK m \in Nat : m = Min({MonthsPerYear, ServiceMonths(start, day)})
  BY <1>1, MinOfTwo, LeaveYearAssumption
<1>3. PICK n \in Nat : n = BaseAnnual * m
  BY LeaveYearAssumption
<1>4. ProRata(start, day) \in Nat
  BY <1>2, <1>3, LeaveYearAssumption DEF ProRata
<1>5. CompletedYears(start, day) \in Nat
  BY LeaveYearAssumption DEF CompletedYears
<1>6. CASE y = 0
  BY <1>4, <1>5, <1>6, LeaveYearAssumption DEF Entitlement
<1>7. CASE y # 0
  <2>1. y \in Nat \ {0}
    BY <1>7, YearsAre
  <2>2. (y - 1) \div 2 \in Nat
    BY <2>1
  <2>3. QED
    BY <1>7, <2>2, LeaveYearAssumption DEF Entitlement
<1>8. QED
  BY <1>6, <1>7

\* Accrual tops up what is open and expires what is due, and nothing before.
LEMMA AccruedBucketIs ==
  ASSUME NEW b \in Bucket, NEW y \in Years, NEW start \in Int, NEW day \in Int, start <= day,
         NEW c, c = AccruedBucket(b, y, start, day)
  PROVE  /\ c \in Bucket /\ (Remaining(b) >= 0 => Remaining(c) >= 0)
         /\ Advances(b, c)
         /\ c.status = "EXPIRED" /\ b.status # "EXPIRED" => ExpiresOn(y, start) <= day
         /\ c.status = "OPEN" => ~(ExpiresOn(y, start) <= day)
         /\ c.status = "NONE" <=> (b.status = "NONE" /\ ~(y <= CompletedYears(start, day)))
         /\ c.status = "NONE" => c = b
         /\ (b.status = "NONE" => b = NoBucket) =>
              /\ c.used = b.used /\ (c.status # "EXPIRED" => c.pending = b.pending)
              /\ Remaining(b) >= 0 /\ c.status = "EXPIRED" /\ b.status # "EXPIRED" =>
                   c.pending = 0 /\ b.pending <= Remaining(c)
              /\ b.status = "EXPIRED" => c.pending = b.pending /\ Remaining(b) <= Remaining(c)
<1>1. PICK n \in Nat : n = Entitlement(y, start, day)
  BY EntitlementIsNat
<1>2. PICK s : s = IF y <= CompletedYears(start, day) THEN ToppedUp(b, n) ELSE b
  OBVIOUS
<1>3. /\ s \in Bucket /\ (Remaining(b) >= 0 => Remaining(s) >= 0)
      /\ b.status # "NONE" => /\ s.status = b.status /\ s.expired = b.expired
                              /\ s.used = b.used /\ s.pending = b.pending
                              /\ Remaining(b) <= Remaining(s)
      /\ b.status = "NONE" =>
           /\ y <= CompletedYears(start, day) => s.status = "OPEN" /\ s.used = 0 /\ s.pending = 0
           /\ ~(y <= CompletedYears(start, day)) => s = b
  <2>1. CASE s = b /\ ~(y <= CompletedYears(start, day))
    <3>1. Remaining(b) <= Remaining(b)
      BY FreeIs
    <3>2. QED
      BY <2>1, <3>1 DEF Bucket
  <2>2. CASE s = ToppedUp(b, n) /\ b.status = "NONE" /\ y <= CompletedYears(start, day)
    <3>1. s = [status |-> "OPEN", granted |-> n, used |-> 0, pending |-> 0, expired |-> 0]
      BY <2>2 DEF ToppedUp, NoBucket
    <3>2. s \in Bucket
      BY <3>1 DEF Bucket
    <3>3. Remaining(s) = n
      BY <3>1 DEF Remaining
    <3>4. QED
      BY <2>2, <3>1, <3>2, <3>3
  <2>3. CASE s = ToppedUp(b, n) /\ b.status # "NONE"
    <3>1. PICK g \in Nat : g = Max({b.granted, n}) /\ g >= b.granted
      BY MaxOfTwo DEF Bucket
    <3>2. s = [b EXCEPT !.granted = g]
      BY <2>3, <3>1 DEF ToppedUp
    <3>3. /\ s.status = b.status /\ s.granted = g /\ s.used = b.used /\ s.pending = b.pending
          /\ s.expired = b.expired
      BY <3>2 DEF Bucket
    <3>4. s \in Bucket
      BY <3>1, <3>2 DEF Bucket
    <3>5. Remaining(s) = g - b.used - b.pending - b.expired
      BY <3>3 DEF Remaining
    <3>6. (Remaining(b) >= 0 => Remaining(s) >= 0) /\ Remaining(b) <= Remaining(s)
      BY <3>1, <3>5 DEF Bucket, Remaining
    <3>7. QED
      BY <2>3, <3>3, <3>4, <3>6
  <2>4. QED
    BY <1>2, <2>1, <2>2, <2>3
<1>4. c = IF s.status = "OPEN" /\ ExpiresOn(y, start) <= day THEN Expired(s) ELSE s
  BY <1>1, <1>2 DEF AccruedBucket
<1> NoBucket.used = 0 /\ NoBucket.pending = 0
  BY DEF NoBucket
<1>5. CASE c = s /\ ~(s.status = "OPEN" /\ ExpiresOn(y, start) <= day)
  BY <1>3, <1>5 DEF Advances, Bucket
<1>6. CASE c = Expired(s) /\ s.status = "OPEN" /\ ExpiresOn(y, start) <= day
  <2>1. PICK f \in Nat : f = Free(s) /\ f = IF Remaining(s) >= 0 THEN Remaining(s) ELSE 0
    BY <1>3, FreeIs
  <2>2. PICK lost \in Nat : lost = s.expired + f
    BY <1>3 DEF Bucket
  <2>3. c = [s EXCEPT !.status = "EXPIRED", !.expired = lost, !.pending = 0]
    BY <1>6, <2>1, <2>2 DEF Expired
  <2>4. c \in Bucket /\ c.status = "EXPIRED" /\ c.used = s.used /\ c.pending = 0
    <3>1. s \in Bucket
      BY <1>3
    <3>2. /\ c.status = "EXPIRED" /\ c.granted = s.granted /\ c.used = s.used /\ c.pending = 0
          /\ c.expired = lost
      BY <2>3, <3>1 DEF Bucket
    <3>3. c = [status |-> "EXPIRED", granted |-> s.granted, used |-> s.used, pending |-> 0,
               expired |-> lost]
      BY <2>3, <3>1 DEF Bucket
    <3>4. s.granted \in Nat /\ s.used \in Nat
      BY <3>1 DEF Bucket
    <3>5. QED
      BY <3>2, <3>3, <3>4 DEF Bucket
  <2>5. Remaining(c) = s.granted - s.used - lost
    BY <1>3, <2>3 DEF Bucket, Remaining
  <2>6. Remaining(s) >= 0 => Remaining(c) >= 0 /\ s.pending <= Remaining(c)
    BY <1>3, <2>1, <2>2, <2>5 DEF Bucket, Remaining
  <2>7. b.status # "EXPIRED"
    BY <1>3, <1>6
  <2>8. QED
    BY <1>3, <1>6, <2>4, <2>6, <2>7 DEF Advances
<1>7. QED
  BY <1>4, <1>5, <1>6

LEMMA BookIs ==
  ASSUME NEW b \in Book
  PROVE  /\ \A y \in Years : b.bucket[y] \in Bucket
         /\ \A r \in LeaveRequests : b.alloc[r] \in [Years -> Nat]
         /\ b = [bucket |-> b.bucket, alloc |-> b.alloc]
BY DEF Book

LEMMA AccrualKeeps ==
  ASSUME NEW b \in Book, NEW start \in Int, NEW day \in Int,
         NEW c, c = Accrue(b, start, day)
  PROVE  /\ c \in Book /\ c.alloc = b.alloc /\ Moves(b, c)
         /\ NotOverdrawn(b) => NotOverdrawn(c)
<1>1. CASE day < start
  BY <1>1 DEF Accrue, Moves, Advances, NotOverdrawn
<1>2. CASE ~(day < start)
  <2>1. PICK bs : bs = [y \in Years |-> AccruedBucket(b.bucket[y], y, start, day)]
    OBVIOUS
  <2>2. \A y \in Years :
          /\ bs[y] \in Bucket /\ (Remaining(b.bucket[y]) >= 0 => Remaining(bs[y]) >= 0)
          /\ Advances(b.bucket[y], bs[y])
    BY <1>2, <2>1, BookIs, AccruedBucketIs
  <2>3. bs \in [Years -> Bucket]
    BY <2>1, <2>2
  <2>4. c = [b EXCEPT !.bucket = bs]
    BY <1>2, <2>1 DEF Accrue
  <2>5. c \in Book /\ c.bucket = bs /\ c.alloc = b.alloc
    BY <2>3, <2>4 DEF Book
  <2>6. QED
    BY <2>2, <2>5 DEF Moves, NotOverdrawn
<1>3. QED
  BY <1>1, <1>2

\* Oldest first, no bucket gives more than it has.
LEMMA FifoGives ==
  ASSUME NEW b \in Book, NEW n \in Int, NEW y \in Years
  PROVE  /\ AllocateFifo(b, n)[y] \in 0..Free(b.bucket[y])
         /\ b.bucket[y].status # "OPEN" => AllocateFifo(b, n)[y] = 0
<1>0. FreeBefore(b, y) \in Nat
  BY FreeAddsUp
<1>1. PICK f \in Nat : f = Free(b.bucket[y])
  BY BookIs, FreeIs
<1>2. PICK left \in Int : left = n - FreeBefore(b, y)
  BY <1>0
<1>3. PICK m \in Nat : m = Max({0, left})
  BY MaxOfTwo
<1>4. Min({f, m}) \in 0..f
  BY MinOfTwo
<1>5. QED
  BY <1>1, <1>2, <1>3, <1>4 DEF AllocateFifo, OpenYears

\* The same bucket with more used or reserved of it.
LEMMA TakenBucket ==
  ASSUME NEW b \in Bucket, NEW n \in Nat, NEW column \in {"used", "pending"},
         NEW c, c = [b EXCEPT ![column] = @ + n]
  PROVE  /\ c \in Bucket /\ c.status = b.status /\ c.expired = b.expired
         /\ Remaining(c) = Remaining(b) - n /\ (n = 0 => c = b)
         /\ c.granted = b.granted
         /\ c.used = IF column = "used" THEN b.used + n ELSE b.used
         /\ c.pending = IF column = "pending" THEN b.pending + n ELSE b.pending
<1> b = [status |-> b.status, granted |-> b.granted, used |-> b.used,
         pending |-> b.pending, expired |-> b.expired]
  BY DEF Bucket
<1>1. CASE column = "used"
  <2>1. PICK m \in Nat : m = b.used + n
    BY DEF Bucket
  <2>2. c = [b EXCEPT !.used = m]
    BY <1>1, <2>1
  <2>3. c = [status |-> b.status, granted |-> b.granted, used |-> m,
             pending |-> b.pending, expired |-> b.expired]
    BY <2>2 DEF Bucket
  <2>4. b.used \in Nat /\ b.granted \in Nat /\ b.expired \in Nat /\ b.pending \in Nat
    BY DEF Bucket
  <2>5. QED
    BY <2>1, <2>3, <2>4 DEF Bucket, Remaining
<1>2. CASE column = "pending"
  <2>1. PICK m \in Nat : m = b.pending + n
    BY DEF Bucket
  <2>2. c = [b EXCEPT !.pending = m]
    BY <1>2, <2>1
  <2>3. c = [status |-> b.status, granted |-> b.granted, used |-> b.used,
             pending |-> m, expired |-> b.expired]
    BY <2>2 DEF Bucket
  <2>4. b.used \in Nat /\ b.granted \in Nat /\ b.expired \in Nat /\ b.pending \in Nat
    BY DEF Bucket
  <2>5. QED
    BY <2>1, <2>3, <2>4 DEF Bucket, Remaining
<1>3. QED
  BY <1>1, <1>2

\* An operation that treats each bucket by itself.
LEMMA BucketwiseKeeps ==
  ASSUME NEW b \in Book, NEW c, NEW bs \in [Years -> Bucket], NEW as \in [LeaveRequests -> [Years -> Nat]],
         c = [bucket |-> bs, alloc |-> as],
         \A y \in Years : bs[y].status = b.bucket[y].status /\ bs[y].expired = b.bucket[y].expired
  PROVE  /\ c \in Book /\ Moves(b, c)
         /\ (\A y \in Years : IsBlank(b, y) =>
               bs[y] = NoBucket /\ \A r \in LeaveRequests : as[r][y] = 0) => Steady(b, c)
         /\ (\A y \in Years : Remaining(bs[y]) >= 0) => NotOverdrawn(c)
BY DEF Book, Moves, Advances, Steady, IsBlank, NotOverdrawn

\* The days a charge takes of each bucket.
LEMMA TakeIs ==
  ASSUME NEW b \in Book, NEW n \in Nat,
         NEW take, take = WithOverdraw(b, AllocateFifo(b, n), Shortfall(b, n))
  PROVE  /\ take \in [Years -> Nat]
         /\ \A y \in Years : b.bucket[y].status # "OPEN" => take[y] = 0
         /\ Shortfall(b, n) = 0 => \A y \in Years : take[y] <= Free(b.bucket[y])
<1>1. PICK fifo : fifo = AllocateFifo(b, n)
  OBVIOUS
<1>2. \A y \in Years : /\ fifo[y] \in Nat /\ fifo[y] <= Free(b.bucket[y])
                       /\ b.bucket[y].status # "OPEN" => fifo[y] = 0
  BY <1>1, FifoGives, BookIs, FreeIs
<1>3. PICK short \in Nat : short = Shortfall(b, n)
  BY FreeAddsUp
<1>4. take = WithOverdraw(b, fifo, short)
  BY <1>1, <1>3
<1>5. OpenYears(b) \in SUBSET Int /\ IsFiniteSet(OpenYears(b))
  BY YearsAre, FS_Subset DEF OpenYears
<1>6. OpenYears(b) # {} => Max(OpenYears(b)) \in OpenYears(b)
  BY <1>5, MaxIsIn
<1>7. QED
  BY <1>2, <1>3, <1>4, <1>6 DEF WithOverdraw, OpenYears

LEMMA ChargeKeeps ==
  ASSUME NEW b \in Book, NEW r \in LeaveRequests, NEW n \in Nat, NEW column \in {"used", "pending"},
         NEW c, c = Charge(b, r, n, column)
  PROVE  /\ c \in Book /\ Moves(b, c) /\ Steady(b, c)
         /\ NotOverdrawn(b) /\ Shortfall(b, n) = 0 => NotOverdrawn(c)
<1>1. PICK take : take = WithOverdraw(b, AllocateFifo(b, n), Shortfall(b, n))
  OBVIOUS
<1>5. /\ take \in [Years -> Nat]
      /\ \A y \in Years : b.bucket[y].status # "OPEN" => take[y] = 0
      /\ Shortfall(b, n) = 0 => \A y \in Years : take[y] <= Free(b.bucket[y])
  BY <1>1, TakeIs
<1>6. PICK bs : bs = [y \in Years |-> [b.bucket[y] EXCEPT ![column] = @ + take[y]]]
  OBVIOUS
<1>7. PICK as : as = [b.alloc EXCEPT ![r] = [y \in Years |-> IF take[y] > 0 THEN take[y] ELSE @[y]]]
  OBVIOUS
<1>8. c = [bucket |-> bs, alloc |-> as]
  BY <1>1, <1>6, <1>7 DEF Charge
<1>9. \A y \in Years : /\ bs[y] \in Bucket /\ bs[y].status = b.bucket[y].status
                       /\ bs[y].expired = b.bucket[y].expired
                       /\ Remaining(bs[y]) = Remaining(b.bucket[y]) - take[y]
                       /\ take[y] = 0 => bs[y] = b.bucket[y]
  <2> SUFFICES ASSUME NEW y \in Years
               PROVE  /\ bs[y] \in Bucket /\ bs[y].status = b.bucket[y].status
                      /\ bs[y].expired = b.bucket[y].expired
                      /\ Remaining(bs[y]) = Remaining(b.bucket[y]) - take[y]
                      /\ take[y] = 0 => bs[y] = b.bucket[y]
    OBVIOUS
  <2>1. PICK x \in Bucket : x = b.bucket[y]
    BY BookIs
  <2>2. PICK t \in Nat : t = take[y]
    BY <1>5
  <2>3. bs[y] = [x EXCEPT ![column] = @ + t]
    BY <1>6, <2>1, <2>2
  <2>4. QED
    BY <2>1, <2>2, <2>3, TakenBucket
<1>10. /\ bs \in [Years -> Bucket] /\ as \in [LeaveRequests -> [Years -> Nat]]
       /\ \A y \in Years : take[y] = 0 => \A q \in LeaveRequests : as[q][y] = b.alloc[q][y]
  <2>1. bs \in [Years -> Bucket]
    BY <1>6, <1>9
  <2>2. PICK a \in [Years -> Nat] : a = b.alloc[r]
    BY BookIs
  <2>3. PICK row \in [Years -> Nat] : row = [y \in Years |-> IF take[y] > 0 THEN take[y] ELSE a[y]]
    BY <1>5
  <2>4. as = [b.alloc EXCEPT ![r] = row]
    BY <1>7, <2>2, <2>3 DEF Book
  <2>5. as \in [LeaveRequests -> [Years -> Nat]] /\ as[r] = row
        /\ \A q \in LeaveRequests \ {r} : as[q] = b.alloc[q]
    BY <2>4 DEF Book
  <2>6. \A y \in Years : take[y] = 0 => row[y] = a[y]
    BY <2>3
  <2>7. QED
    BY <2>1, <2>2, <2>5, <2>6
<1>11. NotOverdrawn(b) /\ Shortfall(b, n) = 0 => \A y \in Years : Remaining(bs[y]) >= 0
  <2> SUFFICES ASSUME NotOverdrawn(b), Shortfall(b, n) = 0, NEW y \in Years PROVE Remaining(bs[y]) >= 0
    OBVIOUS
  <2>1. Remaining(b.bucket[y]) >= 0 /\ Remaining(b.bucket[y]) \in Int /\ Free(b.bucket[y]) = Remaining(b.bucket[y])
    BY BookIs, FreeIs DEF NotOverdrawn
  <2>2. take[y] \in Nat /\ take[y] <= Free(b.bucket[y])
    BY <1>5
  <2>3. QED
    BY <1>9, <2>1, <2>2
<1>12. \A y \in Years : IsBlank(b, y) =>
         bs[y] = NoBucket /\ \A q \in LeaveRequests : as[q][y] = 0
  <2> SUFFICES ASSUME NEW y \in Years, IsBlank(b, y)
               PROVE  bs[y] = NoBucket /\ \A q \in LeaveRequests : as[q][y] = 0
    OBVIOUS
  <2>1. b.bucket[y].status = "NONE"
    BY DEF IsBlank, NoBucket
  <2>2. take[y] = 0
    BY <1>5, <2>1
  <2>3. QED
    BY <1>9, <1>10, <2>2 DEF IsBlank
<1>13. \A y \in Years : bs[y].status = b.bucket[y].status /\ bs[y].expired = b.bucket[y].expired
  BY <1>9
<1>14. /\ c \in Book /\ Moves(b, c) /\ Steady(b, c)
       /\ (\A y \in Years : Remaining(bs[y]) >= 0) => NotOverdrawn(c)
  <2>1. bs \in [Years -> Bucket] /\ as \in [LeaveRequests -> [Years -> Nat]]
    BY <1>10
  <2>2. QED
    BY <1>8, <1>12, <1>13, <2>1, BucketwiseKeeps
<1>15. QED
  BY <1>11, <1>14

LEMMA ReleasedBucket ==
  ASSUME NEW b \in Bucket, NEW n \in Nat, NEW c, c = Released(b, n)
  PROVE  /\ c \in Bucket /\ c.status = b.status /\ c.expired = b.expired
         /\ Remaining(c) >= Remaining(b) /\ (b = NoBucket => c = b)
         /\ c.used = b.used /\ c.granted = b.granted
         /\ c.pending = IF b.pending >= n THEN b.pending - n ELSE 0
<1>1. PICK m \in Nat : /\ m = Max({0, b.pending - n}) /\ m <= b.pending
                       /\ m = IF b.pending >= n THEN b.pending - n ELSE 0
  BY MaxOfTwo DEF Bucket
<1>2. c = [b EXCEPT !.pending = m]
  BY <1>1 DEF Released, Bucket
<1>3. /\ c = [status |-> b.status, granted |-> b.granted, used |-> b.used,
              pending |-> m, expired |-> b.expired]
      /\ b.used \in Nat /\ b.granted \in Nat /\ b.expired \in Nat /\ b.pending \in Nat
  BY <1>2 DEF Bucket
<1>4. b = NoBucket => c = b
  BY <1>1, <1>3 DEF NoBucket
<1>5. QED
  BY <1>1, <1>3, <1>4 DEF Bucket, Remaining

LEMMA ReleaseKeeps ==
  ASSUME NEW b \in Book, NEW r \in LeaveRequests, NEW c, c = Release(b, r)
  PROVE  c \in Book /\ Moves(b, c) /\ Steady(b, c) /\ (NotOverdrawn(b) => NotOverdrawn(c))
<1>1. PICK bs : bs = [y \in Years |-> Released(b.bucket[y], b.alloc[r][y])]
  OBVIOUS
<1>2. PICK as : as = [b.alloc EXCEPT ![r] = NoAllocation]
  OBVIOUS
<1>3. \A y \in Years : /\ bs[y] \in Bucket /\ bs[y].status = b.bucket[y].status
                       /\ bs[y].expired = b.bucket[y].expired
                       /\ Remaining(bs[y]) >= Remaining(b.bucket[y])
                       /\ Remaining(b.bucket[y]) \in Int /\ Remaining(bs[y]) \in Int
                       /\ b.bucket[y] = NoBucket => bs[y] = NoBucket
  <2> SUFFICES ASSUME NEW y \in Years
               PROVE  /\ bs[y] \in Bucket /\ bs[y].status = b.bucket[y].status
                      /\ bs[y].expired = b.bucket[y].expired
                      /\ Remaining(bs[y]) >= Remaining(b.bucket[y])
                      /\ Remaining(b.bucket[y]) \in Int /\ Remaining(bs[y]) \in Int
                      /\ b.bucket[y] = NoBucket => bs[y] = NoBucket
    OBVIOUS
  <2>1. PICK x \in Bucket : x = b.bucket[y]
    BY BookIs
  <2>2. PICK n \in Nat : n = b.alloc[r][y]
    BY BookIs
  <2>3. bs[y] = Released(x, n)
    BY <1>1, <2>1, <2>2
  <2>4. /\ bs[y] \in Bucket /\ bs[y].status = x.status /\ bs[y].expired = x.expired
        /\ Remaining(bs[y]) >= Remaining(x) /\ (x = NoBucket => bs[y] = x)
    BY <2>3, ReleasedBucket
  <2>5. Remaining(x) \in Int /\ Remaining(bs[y]) \in Int
    BY <2>4, FreeIs
  <2>6. QED
    BY <2>1, <2>4, <2>5
<1>4. bs \in [Years -> Bucket] /\ as \in [LeaveRequests -> [Years -> Nat]]
  BY <1>1, <1>2, <1>3 DEF Book, NoAllocation
<1>5. c = [bucket |-> bs, alloc |-> as]
  BY <1>1, <1>2 DEF Release
<1>6. NotOverdrawn(b) => \A y \in Years : Remaining(bs[y]) >= 0
  BY <1>3 DEF NotOverdrawn
<1>7. \A y \in Years : IsBlank(b, y) =>
         bs[y] = NoBucket /\ \A q \in LeaveRequests : as[q][y] = 0
  BY <1>2, <1>3 DEF IsBlank, NoAllocation, Book
<1>8. QED
  BY <1>3, <1>4, <1>5, <1>6, <1>7, BucketwiseKeeps

LEMMA ConsumedBucket ==
  ASSUME NEW b \in Bucket, NEW n \in Nat, NEW c, c = Consumed(b, n)
  PROVE  /\ c \in Bucket /\ c.status = b.status /\ c.expired = b.expired
         /\ c.used = b.used + n /\ c.granted = b.granted
         /\ c.pending = IF b.pending >= n THEN b.pending - n ELSE 0
         /\ n <= b.pending + Remaining(b) /\ Remaining(b) >= 0 => Remaining(c) >= 0
<1>1. PICK m \in Nat : m = Max({0, b.pending - n}) /\ m = IF b.pending >= n THEN b.pending - n ELSE 0
  BY MaxOfTwo DEF Bucket
<1>2. c = [b EXCEPT !.pending = m, !.used = b.used + n]
  BY <1>1 DEF Consumed, Bucket
<1>3. /\ c = [status |-> b.status, granted |-> b.granted, used |-> b.used + n,
              pending |-> m, expired |-> b.expired]
      /\ b.used \in Nat /\ b.granted \in Nat /\ b.expired \in Nat /\ b.pending \in Nat
  BY <1>2 DEF Bucket
<1>4. QED
  BY <1>1, <1>3 DEF Bucket, Remaining

\* What a request holds of each bucket is still there for it.
IsKeptFor(b, r) ==
  \A y \in Years : b.alloc[r][y] <= b.bucket[y].pending + Remaining(b.bucket[y])

LEMMA ConsumeKeeps ==
  ASSUME NEW b \in Book, NEW r \in LeaveRequests, NEW n \in Nat, NEW start \in Int, NEW day \in Int,
         b.alloc[r] # NoAllocation, NEW c, c = ConsumeReserved(b, r, n, start, day)
  PROVE  /\ c \in Book /\ Moves(b, c) /\ Steady(b, c)
         /\ NotOverdrawn(b) /\ IsKeptFor(b, r) => NotOverdrawn(c)
<1>1. PICK bs : bs = [y \in Years |-> IF b.alloc[r][y] > 0 THEN Consumed(b.bucket[y], b.alloc[r][y])
                                      ELSE b.bucket[y]]
  OBVIOUS
<1>2. \A y \in Years : b.bucket[y] \in Bucket /\ b.alloc[r][y] \in Nat
  BY BookIs
<1>3. \A y \in Years : /\ bs[y] \in Bucket /\ bs[y].status = b.bucket[y].status
                       /\ bs[y].expired = b.bucket[y].expired
                       /\ (/\ b.alloc[r][y] <= b.bucket[y].pending + Remaining(b.bucket[y])
                           /\ Remaining(b.bucket[y]) >= 0)
                            => Remaining(bs[y]) >= 0
  <2> SUFFICES ASSUME NEW y \in Years
               PROVE  /\ bs[y] \in Bucket /\ bs[y].status = b.bucket[y].status
                      /\ bs[y].expired = b.bucket[y].expired
                      /\ (/\ b.alloc[r][y] <= b.bucket[y].pending + Remaining(b.bucket[y])
                          /\ Remaining(b.bucket[y]) >= 0)
                           => Remaining(bs[y]) >= 0
    OBVIOUS
  <2>1. PICK x \in Bucket : x = b.bucket[y]
    BY <1>2
  <2>2. PICK k \in Nat : k = b.alloc[r][y]
    BY <1>2
  <2>3. CASE k > 0
    <3>1. bs[y] = Consumed(x, k)
      BY <1>1, <2>1, <2>2, <2>3
    <3>2. /\ bs[y] \in Bucket /\ bs[y].status = x.status /\ bs[y].expired = x.expired
          /\ (k <= x.pending + Remaining(x) /\ Remaining(x) >= 0) => Remaining(bs[y]) >= 0
      BY <3>1, ConsumedBucket
    <3>3. QED
      BY <2>1, <2>2, <3>2
  <2>4. CASE ~(k > 0)
    BY <1>1, <2>1, <2>2, <2>4
  <2>5. QED
    BY <2>3, <2>4
<1>4. NotOverdrawn(b) /\ IsKeptFor(b, r) => \A y \in Years : Remaining(bs[y]) >= 0
  BY <1>3 DEF NotOverdrawn, IsKeptFor
<1>5. c = [bucket |-> bs, alloc |-> b.alloc]
  <2>1. c = [b EXCEPT !.bucket = bs]
    BY <1>1 DEF ConsumeReserved
  <2>2. QED
    BY <2>1, BookIs DEF Book
<1>6. bs \in [Years -> Bucket] /\ b.alloc \in [LeaveRequests -> [Years -> Nat]]
  BY <1>1, <1>3 DEF Book
<1>7. \A y \in Years : IsBlank(b, y) =>
         bs[y] = NoBucket /\ \A q \in LeaveRequests : b.alloc[q][y] = 0
  BY <1>1 DEF IsBlank
<1>8. QED
  BY <1>3, <1>4, <1>5, <1>6, <1>7, BucketwiseKeeps

LEMMA AdjustKeeps ==
  ASSUME NEW b \in Book, NEW n \in Int, NEW c, c = Adjust(b, n)
  PROVE  /\ c \in Book /\ Moves(b, c) /\ (CanAdjust(b, n) => Steady(b, c))
         /\ NotOverdrawn(b) => NotOverdrawn(c)
         /\ \A y \in Years : c.bucket[y].used >= b.bucket[y].used
<1>1. PICK fifo : fifo = AllocateFifo(b, -n)
  OBVIOUS
<1>2. \A y \in Years : /\ fifo[y] \in 0..Free(b.bucket[y])
                       /\ b.bucket[y].status # "OPEN" => fifo[y] = 0
  BY <1>1, FifoGives
<1>3. PICK bs : bs = [y \in Years |->
           IF n > 0
             THEN IF y = Max(OpenYears(b)) THEN [b.bucket[y] EXCEPT !.granted = @ + n] ELSE b.bucket[y]
             ELSE [b.bucket[y] EXCEPT !.used = @ + fifo[y]]]
  OBVIOUS
<1>4. ASSUME NEW y \in Years
      PROVE  /\ bs[y] \in Bucket /\ bs[y].status = b.bucket[y].status
             /\ bs[y].expired = b.bucket[y].expired
             /\ Remaining(b.bucket[y]) >= 0 => Remaining(bs[y]) >= 0
             /\ bs[y].used >= b.bucket[y].used
             /\ CanAdjust(b, n) /\ b.bucket[y].status = "NONE" => bs[y] = b.bucket[y]
  <2>1. PICK x \in Bucket : x = b.bucket[y]
    BY BookIs
  <2>0. CanAdjust(b, n) /\ n > 0 => Max(OpenYears(b)) \in OpenYears(b)
    <3>1. OpenYears(b) \in SUBSET Int /\ IsFiniteSet(OpenYears(b))
      BY YearsAre, FS_Subset DEF OpenYears
    <3>2. QED
      BY <3>1, MaxIsIn DEF CanAdjust
  <2>2. CASE bs[y] = x
    <3>1. x.used \in Int
      BY DEF Bucket
    <3>2. QED
      BY <2>1, <2>2, <3>1
  <2>3. CASE n > 0 /\ y = Max(OpenYears(b)) /\ bs[y] = [x EXCEPT !.granted = @ + n]
    <3>0. CanAdjust(b, n) => x.status = "OPEN"
      BY <2>0, <2>1, <2>3 DEF OpenYears
    <3>1. /\ bs[y] = [status |-> x.status, granted |-> x.granted + n, used |-> x.used,
                      pending |-> x.pending, expired |-> x.expired]
          /\ x.granted + n \in Nat /\ x.granted \in Nat /\ x.used \in Nat
          /\ x.pending \in Nat /\ x.expired \in Nat
      BY <2>3 DEF Bucket
    <3>2. QED
      BY <2>1, <2>3, <3>0, <3>1 DEF Bucket, Remaining
  <2>4. CASE bs[y] = [x EXCEPT !.used = @ + fifo[y]]
    <3>1. PICK t \in Nat : t = fifo[y] /\ t <= Free(x) /\ (x.status # "OPEN" => t = 0)
      BY <1>2, <2>1, FreeIs
    <3>2. bs[y] = [x EXCEPT !["used"] = @ + t]
      BY <2>4, <3>1
    <3>3. /\ bs[y] \in Bucket /\ bs[y].status = x.status /\ bs[y].expired = x.expired
          /\ Remaining(bs[y]) = Remaining(x) - t /\ (t = 0 => bs[y] = x)
          /\ bs[y].used = x.used + t
      BY <3>2, TakenBucket
    <3> x.used \in Nat
      BY DEF Bucket
    <3>4. Remaining(x) >= 0 => Remaining(bs[y]) >= 0
      BY <3>1, <3>3, FreeIs
    <3>5. QED
      BY <2>1, <3>1, <3>3, <3>4
  <2>5. QED
    BY <1>3, <2>1, <2>2, <2>3, <2>4
<1>5. c = [bucket |-> bs, alloc |-> b.alloc]
  <2>1. c = [b EXCEPT !.bucket = bs]
    BY <1>1, <1>3 DEF Adjust
  <2>2. QED
    BY <2>1, BookIs DEF Book
<1>6. bs \in [Years -> Bucket] /\ b.alloc \in [LeaveRequests -> [Years -> Nat]]
  BY <1>3, <1>4 DEF Book
<1>7. NotOverdrawn(b) => \A y \in Years : Remaining(bs[y]) >= 0
  BY <1>4 DEF NotOverdrawn
<1>8. CanAdjust(b, n) => \A y \in Years : IsBlank(b, y) =>
         bs[y] = NoBucket /\ \A q \in LeaveRequests : b.alloc[q][y] = 0
  BY <1>4 DEF IsBlank, NoBucket
<1>9. \A y \in Years : c.bucket[y].used >= b.bucket[y].used
  BY <1>4, <1>5
<1>10. QED
  BY <1>4, <1>5, <1>6, <1>7, <1>8, <1>9, BucketwiseKeeps

\* Whatever an operation of the ledger is given, it makes a book of a book, it
\* gives back nothing an expired bucket lost, and it overdraws no bucket:
\* a charge as long as its days are covered, the days reserved for a request as
\* long as they are still there for it (ensureAccrual, applyToBuckets,
\* consumeReserved, release and adjust of annual-leave.service).
THEOREM LedgerKeepsTheBook ==
  ASSUME NEW b \in Book, NEW r \in LeaveRequests, NEW n \in Nat, NEW grant \in Int,
         NEW start \in Int, NEW day \in Int, NEW column \in {"used", "pending"},
         NEW c,
         \/ c = Accrue(b, start, day) \/ c = Release(b, r) \/ c = Adjust(b, grant)
         \/ c = Charge(b, r, n, column)
         \/ b.alloc[r] # NoAllocation /\ c = ConsumeReserved(b, r, n, start, day)
  PROVE  /\ c \in Book /\ KeepsExpired(b, c)
         /\ (/\ NotOverdrawn(b) /\ IsKeptFor(b, r)
             /\ (c = Charge(b, r, n, column) => Shortfall(b, n) = 0))
              => NotOverdrawn(c)
<1>1. CASE c = Accrue(b, start, day)
  BY <1>1, AccrualKeeps, MovesKeepExpired
<1>2. CASE c = Release(b, r)
  BY <1>2, ReleaseKeeps, MovesKeepExpired
<1>3. CASE c = Adjust(b, grant)
  BY <1>3, AdjustKeeps, MovesKeepExpired
<1>4. CASE c = Charge(b, r, n, column)
  BY <1>4, ChargeKeeps, MovesKeepExpired
<1>5. CASE b.alloc[r] # NoAllocation /\ c = ConsumeReserved(b, r, n, start, day)
  BY <1>5, ConsumeKeeps, MovesKeepExpired
<1>6. QED
  BY <1>1, <1>2, <1>3, <1>4, <1>5
-----------------------------------------------------------------------------
(* A settlement folds over the requests: what holds of the book it starts    *)
(* from, and stays so whichever request is charged next, holds of its result. *)

LEMMA SyncStaysIn ==
  ASSUME NEW held, NEW size, NEW first, \A r \in LeaveRequests : first[r] \in Int,
         NEW B, NEW b \in B,
         \A c \in B : \A r \in LeaveRequests : SyncOne(c, r, held, size) \in B
  PROVE  Sync(b, held, size, first) \in B
<1> DEFINE Equation(g) ==
      g = [A \in SUBSET LeaveRequests |->
             IF A = {} THEN b
             ELSE SyncOne(g[A \ {Latest(A, first)}], Latest(A, first), held, size)]
<1>1. Sync(b, held, size, first) = (CHOOSE g : Equation(g))[LeaveRequests]
  BY DEF Sync, MapThenFoldSet
<1>2. PICK pick : pick = [A \in SUBSET LeaveRequests |-> Latest(A, first)]
  OBVIOUS
<1>3. \A A \in SUBSET LeaveRequests : A # {} => pick[A] \in A
  <2> SUFFICES ASSUME NEW A \in SUBSET LeaveRequests, A # {} PROVE pick[A] \in A
    OBVIOUS
  <2>1. IsFiniteSet(A)
    BY FiniteAssumption, FS_Subset
  <2>2. \E m \in A : \A x \in A : first[x] <= first[m]
    BY <2>1, HasLargest
  <2>3. QED
    BY <1>2, <2>2 DEF Latest
<1>4. PICK step : step = [p \in LeaveRequests \X B |-> SyncOne(p[2], p[1], held, size)]
  OBVIOUS
<1>5. step \in [LeaveRequests \X B -> B]
  BY <1>4
<1>6. IsFiniteSet(LeaveRequests)
  BY FiniteAssumption
<1>7. PICK g \in [SUBSET LeaveRequests -> B] : IsFold(g, LeaveRequests, b, pick, step)
  BY <1>3, <1>5, <1>6, FoldExists
<1>8. ASSUME NEW A \in SUBSET LeaveRequests
      PROVE  g[A] = IF A = {} THEN b
                    ELSE SyncOne(g[A \ {Latest(A, first)}], Latest(A, first), held, size)
  <2>1. CASE A = {}
    BY <1>7, <2>1 DEF IsFold
  <2>2. CASE A # {}
    <3>1. PICK r \in LeaveRequests : r = pick[A] /\ r = Latest(A, first)
      BY <1>2, <1>3, <2>2
    <3>2. PICK c \in B : c = g[A \ {r}]
      BY <1>7
    <3>3. step[<<r, c>>] = SyncOne(c, r, held, size)
      BY <1>4
    <3>4. g[A] = step[<<r, c>>]
      BY <1>7, <2>2, <3>1, <3>2 DEF IsFold
    <3>5. QED
      BY <2>2, <3>1, <3>2, <3>3, <3>4
  <2>3. QED
    BY <2>1, <2>2
<1>9. Equation(g)
  BY <1>8
<1>10. PICK h : h = CHOOSE g_ : Equation(g_)
  OBVIOUS
<1>11. Equation(h)
  <2> HIDE DEF Equation
  <2>1. \E x : Equation(x)
    BY <1>9
  <2>2. QED
    BY <1>10, <2>1, Zenon
<1>12. h[{}] = g[{}]
  BY <1>9, <1>11
<1>13. ASSUME NEW A \in SUBSET LeaveRequests, A # {}, h[A \ {pick[A]}] = g[A \ {pick[A]}]
       PROVE  h[A] = g[A]
  <2>1. PICK r : r = pick[A] /\ r = Latest(A, first)
    BY <1>2
  <2>2. PICK c : c = g[A \ {r}] /\ c = h[A \ {r}]
    BY <1>13, <2>1
  <2>3. g[A] = SyncOne(c, r, held, size)
    BY <1>8, <1>13, <2>1, <2>2
  <2>4. h[A] = SyncOne(c, r, held, size)
    BY <1>11, <1>13, <2>1, <2>2
  <2>5. QED
    BY <2>3, <2>4
<1>14. StepTogether(h, g, LeaveRequests, pick)
  BY <1>3, <1>12, <1>13 DEF StepTogether
<1>15. \A A \in SUBSET LeaveRequests : h[A] = g[A]
  BY <1>6, <1>14, FoldIsUnique
<1>16. Sync(b, held, size, first) = h[LeaveRequests]
  <2> HIDE DEF Equation
  <2>1. QED
    BY <1>1, <1>10
<1>17. h[LeaveRequests] = g[LeaveRequests] /\ g[LeaveRequests] \in B
  BY <1>7, <1>15
<1>18. QED
  BY <1>16, <1>17
-----------------------------------------------------------------------------
(* Any interleaving of the handlers *)

\* A bucket is expired when the year its carry-over runs out in has begun: the
\* accrual that expires it opens the bucket of that year, which is unique.
Linked(b) ==
  \A y \in Years : b.bucket[y].status = "EXPIRED" <=>
    /\ y + 1 + MaxCarryYears \in Years
    /\ b.bucket[y + 1 + MaxCarryYears].status # "NONE"

\* What is not opened yet is blank.
Blank(b) == \A y \in Years : b.bucket[y].status = "NONE" => IsBlank(b, y)

GoodBook(b) == b \in Book /\ Linked(b) /\ Blank(b)

\* A bucket that is there stays there.
Opened(b, c) == \A y \in Years : b.bucket[y].status # "NONE" => c.bucket[y].status # "NONE"

\* Nothing is opened before its year, or expired before its carry-over ends.
IsFor(b, start, day) ==
  \A y \in Years : /\ b.bucket[y].status # "NONE" => start + y * YearLength <= day
                   /\ b.bucket[y].status = "EXPIRED" => ExpiresOn(y, start) <= day

\* What is due is expired, and the years that have begun have their bucket.
IsCurrent(b, start, day) ==
  \A y \in Years : /\ b.bucket[y].status = "OPEN" => ~(ExpiresOn(y, start) <= day)
                   /\ y <= CompletedYears(start, day) => b.bucket[y].status # "NONE"

\* Nothing more is used.
SameUsed(b, c) == \A y \in Years : c.bucket[y].used = b.bucket[y].used

LEMMA EmptyIsGood == GoodBook(EmptyBook) /\ \A start, day \in Int : IsFor(EmptyBook, start, day)
<1>1. NoBucket \in Bucket /\ NoBucket.status = "NONE"
  BY DEF NoBucket, Bucket
<1>2. \A y \in Years : EmptyBook.bucket[y] = NoBucket /\ \A r \in LeaveRequests : EmptyBook.alloc[r][y] = 0
  BY DEF EmptyBook, NoAllocation
<1>3. EmptyBook \in Book
  BY <1>1 DEF EmptyBook, NoAllocation, Book
<1>4. QED
  BY <1>1, <1>2, <1>3 DEF GoodBook, Linked, Blank, IsBlank, IsFor

LEMMA MovesOnward ==
  ASSUME NEW b, NEW c, NEW d, Moves(b, c), Moves(c, d) PROVE Moves(b, d)
BY DEF Moves, Advances

LEMMA MovesOpen == ASSUME NEW b, NEW c, Moves(b, c) PROVE Opened(b, c)
BY DEF Moves, Advances, Opened

LEMMA StaysPut == ASSUME NEW b PROVE Moves(b, b) /\ Opened(b, b) /\ Steady(b, b)
BY DEF Moves, Advances, Opened, Steady

LEMMA SteadyIsGood ==
  ASSUME NEW b, GoodBook(b), NEW c \in Book, Steady(b, c)
  PROVE  /\ GoodBook(c) /\ Moves(b, c)
         /\ \A start, day \in Int : IsFor(b, start, day) => IsFor(c, start, day)
<1>1. \A y \in Years : c.bucket[y].status = b.bucket[y].status
  BY DEF Steady
<1>2. Linked(c)
  BY <1>1 DEF Linked, GoodBook
<1>3. Blank(c)
  BY <1>1 DEF Blank, GoodBook, Steady
<1>4. Moves(b, c)
  BY DEF Moves, Advances, Steady
<1>5. QED
  BY <1>1, <1>2, <1>3, <1>4 DEF GoodBook, IsFor

LEMMA ProductGrows ==
  ASSUME NEW a \in Int, NEW b \in Int, NEW k \in Nat, a <= b
  PROVE  a * k <= b * k /\ a * k \in Int /\ b * k \in Int
<1>1. PICK d \in Nat : d = b - a
  OBVIOUS
<1>2. d * k \in Nat /\ b * k = a * k + d * k
  BY <1>1
<1>3. QED
  BY <1>2

LEMMA QuotientIs ==
  ASSUME NEW a \in Nat, NEW k \in Nat \ {0}, NEW s \in Nat
  PROVE  a \div k \in Nat /\ (s <= a \div k <=> s * k <= a)
<1>1. PICK q \in Nat, r \in Nat : q = a \div k /\ a = q * k + r /\ r < k
  <2>1. a \div k \in Nat
    OBVIOUS
  <2>2. a % k \in 0..(k - 1)
    OBVIOUS
  <2>3. a = k * (a \div k) + (a % k)
    OBVIOUS
  <2>4. PICK q, r : q = a \div k /\ r = a % k
    OBVIOUS
  <2>5. q \in Nat /\ r \in Nat /\ r < k /\ a = k * q + r
    BY <2>1, <2>2, <2>3, <2>4
  <2>6. k * q = q * k
    BY <2>5
  <2>7. QED
    BY <2>4, <2>5, <2>6
<1>2. CASE s <= q
  BY <1>1, <1>2, ProductGrows
<1>3. CASE q + 1 <= s
  <2>1. (q + 1) * k <= s * k
    BY <1>3, ProductGrows
  <2>2. (q + 1) * k = q * k + k
    OBVIOUS
  <2>3. QED
    BY <1>1, <1>3, <2>1, <2>2
<1>4. QED
  BY <1>1, <1>2, <1>3

\* A year has begun when so many years are completed; a bucket is due when the
\* year in which its carry-over ends has begun.
LEMMA BegunIs ==
  ASSUME NEW start \in Days, NEW day \in Days, start <= day, NEW y \in Nat
  PROVE  /\ y <= CompletedYears(start, day) <=> start + y * YearLength <= day
         /\ ExpiresOn(y, start) <= day <=> y + 1 + MaxCarryYears <= CompletedYears(start, day)
         /\ CompletedYears(start, day) \in Years
<1> USE LeaveYearAssumption
<1>1. day - start \in Nat /\ day - start <= LastDay /\ LastDay \in Nat /\ start \in Int /\ day \in Int
  BY DEF Days
<1>2. ASSUME NEW s \in Nat PROVE s <= CompletedYears(start, day) <=> start + s * YearLength <= day
  <2>1. s <= (day - start) \div YearLength <=> s * YearLength <= day - start
    BY <1>1, QuotientIs
  <2>2. s * YearLength \in Int
    BY ProductGrows
  <2>3. QED
    BY <1>1, <2>1, <2>2 DEF CompletedYears
<1>3. PICK s \in Nat : s = y + 1 + MaxCarryYears
  OBVIOUS
<1>4. ExpiresOn(y, start) = start + s * YearLength
  BY <1>3 DEF ExpiresOn
<1>5. CompletedYears(start, day) \in Years
  <2>1. PICK q \in Nat : q = (day - start) \div YearLength
    BY <1>1, QuotientIs
  <2>2. q * YearLength <= day - start
    BY <1>1, <2>1, QuotientIs
  <2>3. q * YearLength \in Int
    BY ProductGrows
  <2>4. q * YearLength <= LastDay
    BY <1>1, <2>2, <2>3
  <2>5. q <= LastDay \div YearLength /\ LastDay \div YearLength \in Nat
    BY <2>4, QuotientIs
  <2>6. QED
    BY <2>1, <2>5 DEF CompletedYears, Years
<1>6. QED
  BY <1>2, <1>3, <1>4, <1>5

\* What accrual does to a good book.
LEMMA AccrualIsGood ==
  ASSUME NEW b, GoodBook(b), NEW start \in Days, NEW day \in Days,
         NEW c, c = Accrue(b, start, day)
  PROVE  /\ GoodBook(c) /\ Moves(b, c) /\ c.alloc = b.alloc
         /\ IsFor(b, start, day) => IsFor(c, start, day)
         /\ SameUsed(b, c)
         /\ start <= day => IsCurrent(c, start, day)
<1>1. start \in Int /\ day \in Int
  BY DEF Days
<1>2. c \in Book /\ c.alloc = b.alloc /\ Moves(b, c)
  <2>1. b \in Book
    BY DEF GoodBook
  <2>2. QED
    BY <1>1, <2>1, AccrualKeeps, ZenonT(60)
<1>3. CASE day < start
  <2>1. c = b
    BY <1>3 DEF Accrue
  <2>2. SameUsed(b, b)
    BY DEF SameUsed
  <2>3. QED
    BY <1>1, <1>2, <1>3, <2>1, <2>2
<1>4. CASE start <= day
  <2> USE <1>4
  <2>1. PICK bs : bs = [y \in Years |-> AccruedBucket(b.bucket[y], y, start, day)]
    OBVIOUS
  <2>2. c.bucket = bs
    <3>1. c = [b EXCEPT !.bucket = bs]
      BY <1>1, <2>1 DEF Accrue
    <3>2. QED
      BY <3>1 DEF GoodBook, Book
  <2>3. ASSUME NEW y \in Years
        PROVE  /\ bs[y] \in Bucket /\ Advances(b.bucket[y], bs[y])
               /\ bs[y].status = "EXPIRED" /\ b.bucket[y].status # "EXPIRED" => ExpiresOn(y, start) <= day
               /\ bs[y].status = "OPEN" => ~(ExpiresOn(y, start) <= day)
               /\ bs[y].status = "NONE" <=>
                    (b.bucket[y].status = "NONE" /\ ~(y <= CompletedYears(start, day)))
               /\ bs[y].status = "NONE" => bs[y] = b.bucket[y]
               /\ bs[y].used = b.bucket[y].used
    <3>1. PICK x \in Bucket : x = b.bucket[y] /\ (x.status = "NONE" => x = NoBucket)
      BY BookIs DEF GoodBook, Blank, IsBlank
    <3>2. PICK z : z = bs[y] /\ z = AccruedBucket(x, y, start, day)
      BY <2>1, <3>1
    <3>3. QED
      BY <1>1, <3>1, <3>2, AccruedBucketIs
  <2>4. \A y \in Years : y \in Nat
    BY YearsAre
  <2>5. CompletedYears(start, day) \in Years /\ CompletedYears(start, day) \in Nat
    BY <2>4, BegunIs
  <2>6. ASSUME NEW y \in Years, NEW s \in Nat, s = y + 1 + MaxCarryYears
        PROVE  bs[y].status = "EXPIRED" <=> s \in Years /\ bs[s].status # "NONE"
    <3>1. y \in Nat /\ y <= s
      BY <2>4, <2>6, LeaveYearAssumption
    <3>2. ExpiresOn(y, start) <= day <=> s <= CompletedYears(start, day)
      BY <2>6, <3>1, BegunIs
    <3>3. b.bucket[y].status = "EXPIRED" <=> s \in Years /\ b.bucket[s].status # "NONE"
      BY <2>6 DEF GoodBook, Linked
    <3>4. bs[y].status \in {"NONE", "OPEN", "EXPIRED"} /\ b.bucket[y].status \in {"NONE", "OPEN", "EXPIRED"}
      BY <2>3, BookIs DEF Bucket, GoodBook
    <3>5. s <= CompletedYears(start, day) => s \in Years /\ y <= CompletedYears(start, day)
      <4>1. PICK last \in Nat : Years = 0..last
        BY LeaveYearAssumption DEF Years
      <4>2. QED
        BY <2>5, <3>1, <4>1
    <3>6. b.bucket[y].status = "EXPIRED" => bs[y].status = "EXPIRED"
      BY <2>3 DEF Advances
    <3>7. s \in Years => (bs[s].status = "NONE" <=>
             (b.bucket[s].status = "NONE" /\ ~(s <= CompletedYears(start, day))))
      BY <2>3
    <3>8. CASE s <= CompletedYears(start, day)
      BY <2>3, <3>2, <3>4, <3>5, <3>7, <3>8
    <3>9. CASE ~(s <= CompletedYears(start, day))
      BY <2>3, <3>2, <3>3, <3>6, <3>7, <3>9
    <3>10. QED
      BY <3>8, <3>9
  <2>7. Linked(c)
    <3>1. ASSUME NEW y \in Years
          PROVE  c.bucket[y].status = "EXPIRED" <=>
                   y + 1 + MaxCarryYears \in Years /\ c.bucket[y + 1 + MaxCarryYears].status # "NONE"
      <4>1. PICK s \in Nat : s = y + 1 + MaxCarryYears
        BY <2>4, LeaveYearAssumption
      <4>2. QED
        BY <2>2, <2>6, <4>1
    <3>2. QED
      BY <3>1 DEF Linked
  <2>8. Blank(c)
    BY <1>2, <2>2, <2>3 DEF Blank, IsBlank, GoodBook
  <2>9. IsFor(b, start, day) => IsFor(c, start, day)
    <3> SUFFICES ASSUME IsFor(b, start, day), NEW y \in Years
                 PROVE  /\ c.bucket[y].status # "NONE" => start + y * YearLength <= day
                        /\ c.bucket[y].status = "EXPIRED" => ExpiresOn(y, start) <= day
      BY DEF IsFor
    <3>1. y <= CompletedYears(start, day) <=> start + y * YearLength <= day
      BY <2>4, BegunIs
    <3>2. QED
      BY <2>2, <2>3, <3>1 DEF IsFor
  <2>10. QED
    BY <1>2, <2>2, <2>3, <2>7, <2>8, <2>9 DEF GoodBook, IsCurrent, SameUsed
<1>5. QED
  BY <1>1, <1>3, <1>4

\* A commit writes the columns its transaction changed over what is there by now.
LEMMA MergedBucketIs ==
  ASSUME NEW now \in Bucket, NEW seen \in Bucket, NEW next \in Bucket,
         NEW m, m = MergedBucket(now, seen, next)
  PROVE  /\ m \in Bucket /\ (next = seen => m = now)
         /\ m.status = IF next.status # seen.status THEN next.status ELSE now.status
         /\ m.granted = IF next.granted # seen.granted THEN next.granted ELSE now.granted
         /\ m.used = IF next.used # seen.used THEN next.used ELSE now.used
         /\ m.pending = IF next.pending # seen.pending THEN next.pending ELSE now.pending
         /\ m.expired = IF next.expired # seen.expired THEN next.expired ELSE now.expired
<1>1. DOMAIN now = {"status", "granted", "used", "pending", "expired"}
  BY DEF Bucket
<1>2. m = [f \in {"status", "granted", "used", "pending", "expired"} |->
             IF next[f] # seen[f] THEN next[f] ELSE now[f]]
  BY <1>1 DEF MergedBucket
<1>3. m = [status |-> IF next.status # seen.status THEN next.status ELSE now.status,
           granted |-> IF next.granted # seen.granted THEN next.granted ELSE now.granted,
           used |-> IF next.used # seen.used THEN next.used ELSE now.used,
           pending |-> IF next.pending # seen.pending THEN next.pending ELSE now.pending,
           expired |-> IF next.expired # seen.expired THEN next.expired ELSE now.expired]
  BY <1>2
<1>4. m \in Bucket
  BY <1>3 DEF Bucket
<1>5. next = seen => m = now
  BY <1>3 DEF Bucket
<1>6. QED
  BY <1>3, <1>4, <1>5

LEMMA MergedIs ==
  ASSUME book \in Book, NEW p, p.seen \in Book, p.next \in Book, NEW c, c = Merged(p)
  PROVE  /\ c \in Book
         /\ \A y \in Years : c.bucket[y] = MergedBucket(book.bucket[y], p.seen.bucket[y], p.next.bucket[y])
         /\ \A r \in LeaveRequests : \A y \in Years :
              c.alloc[r][y] = IF p.next.alloc[r][y] # p.seen.alloc[r][y]
                                THEN p.next.alloc[r][y] ELSE book.alloc[r][y]
         /\ p.next = p.seen => c = book
<1>1. PICK bs : bs = [y \in Years |-> MergedBucket(book.bucket[y], p.seen.bucket[y], p.next.bucket[y])]
  OBVIOUS
<1>2. PICK as : as = [r \in LeaveRequests |->
                       [y \in Years |-> IF p.next.alloc[r][y] # p.seen.alloc[r][y]
                                          THEN p.next.alloc[r][y] ELSE book.alloc[r][y]]]
  OBVIOUS
<1>3. c = [bucket |-> bs, alloc |-> as]
  BY <1>1, <1>2 DEF Merged
<1>4. \A y \in Years : /\ bs[y] \in Bucket
                       /\ p.next.bucket[y] = p.seen.bucket[y] => bs[y] = book.bucket[y]
  BY <1>1, BookIs, MergedBucketIs
<1>5. bs \in [Years -> Bucket]
  BY <1>1, <1>4
<1>6. as \in [LeaveRequests -> [Years -> Nat]]
  BY <1>2 DEF Book
<1>7. p.next = p.seen => c = book
  <2> SUFFICES ASSUME p.next = p.seen PROVE c = book
    OBVIOUS
  <2>1. book.bucket \in [Years -> Bucket] /\ book.alloc \in [LeaveRequests -> [Years -> Nat]]
    BY DEF Book
  <2>2. bs = book.bucket
    BY <1>4, <1>5, <2>1
  <2>3. \A r \in LeaveRequests : \A y \in Years : as[r][y] = book.alloc[r][y]
    BY <1>2
  <2>4. ASSUME NEW r \in LeaveRequests PROVE as[r] = book.alloc[r]
    <3>1. PICK f \in [Years -> Nat], g \in [Years -> Nat] : f = as[r] /\ g = book.alloc[r]
      BY <1>6, <2>1
    <3>2. \A y \in Years : f[y] = g[y]
      BY <2>3, <3>1
    <3>3. f = g
      BY <3>2
    <3>4. QED
      BY <3>1, <3>3
  <2>5. as = book.alloc
    <3>1. PICK f \in [LeaveRequests -> [Years -> Nat]], g \in [LeaveRequests -> [Years -> Nat]] :
            f = as /\ g = book.alloc
      BY <1>6, <2>1
    <3>2. \A r \in LeaveRequests : f[r] = g[r]
      BY <2>4, <3>1
    <3>3. f = g
      BY <3>2
    <3>4. QED
      BY <3>1, <3>3
  <2>6. QED
    BY <1>3, <2>2, <2>5, BookIs
<1>8. QED
  BY <1>1, <1>2, <1>3, <1>5, <1>6, <1>7 DEF Book

\* However stale the rows it read, a transaction that does not fail leaves a good
\* book, and advances every bucket.
LEMMA MergeIsGood ==
  ASSUME GoodBook(book), NEW p, GoodBook(p.seen), GoodBook(p.next), Moves(p.seen, p.next),
         ~Fails(p), p.epoch = epoch => Opened(p.seen, book), NEW c, c = Merged(p)
  PROVE  /\ GoodBook(c) /\ Moves(book, c) /\ (p.epoch # epoch => c = book)
         /\ \A start, day \in Int :
              IsFor(book, start, day) /\ IsFor(p.next, start, day) => IsFor(c, start, day)
<1> PICK seen, next : seen = p.seen /\ next = p.next
  OBVIOUS
<1>1. seen \in Book /\ next \in Book /\ book \in Book
  BY DEF GoodBook
<1>2. /\ c \in Book /\ (next = seen => c = book)
      /\ \A y \in Years : c.bucket[y] = MergedBucket(book.bucket[y], seen.bucket[y], next.bucket[y])
      /\ \A r \in LeaveRequests : \A y \in Years :
           c.alloc[r][y] = IF next.alloc[r][y] # seen.alloc[r][y]
                             THEN next.alloc[r][y] ELSE book.alloc[r][y]
  BY <1>1, MergedIs
<1>3. p.epoch # epoch => c = book
  BY <1>2 DEF Fails
<1>4. CASE c = book
  BY <1>3, <1>4, StaysPut
<1>5. CASE c # book
  <2>1. Opened(seen, book)
    BY <1>3, <1>5
  <2>2. ASSUME NEW y \in Years
        PROVE  /\ c.bucket[y].status = IF next.bucket[y].status # seen.bucket[y].status
                                         THEN next.bucket[y].status ELSE book.bucket[y].status
               /\ c.bucket[y].expired = IF next.bucket[y].expired # seen.bucket[y].expired
                                          THEN next.bucket[y].expired ELSE book.bucket[y].expired
               /\ next.bucket[y] = seen.bucket[y] => c.bucket[y] = book.bucket[y]
    BY <1>1, <1>2, BookIs, MergedBucketIs
  <2>3. \A y \in Years : /\ book.bucket[y].status \in {"NONE", "OPEN", "EXPIRED"}
                         /\ seen.bucket[y].status \in {"NONE", "OPEN", "EXPIRED"}
                         /\ next.bucket[y].status \in {"NONE", "OPEN", "EXPIRED"}
    BY <1>1, BookIs DEF Bucket
  <2>4. \A y \in Years : Advances(seen.bucket[y], next.bucket[y])
    BY DEF Moves
  <2>5. \A y \in Years : seen.bucket[y].status = "NONE" /\ next.bucket[y].status # "NONE" =>
          book.bucket[y].status = "NONE"
    BY DEF Fails
  <2>6. ASSUME NEW y \in Years, next.bucket[y].status = "EXPIRED", seen.bucket[y].status # "EXPIRED"
        PROVE  book.bucket[y].status # "EXPIRED"
    <3>1. PICK s : s = y + 1 + MaxCarryYears
      OBVIOUS
    <3>2. s \in Years /\ next.bucket[s].status # "NONE" /\ seen.bucket[s].status = "NONE"
      BY <2>6, <3>1 DEF GoodBook, Linked
    <3>3. book.bucket[s].status = "NONE"
      BY <2>5, <3>2
    <3>4. QED
      BY <3>1, <3>2, <3>3 DEF GoodBook, Linked
  <2>7. Moves(book, c)
    <3> SUFFICES ASSUME NEW y \in Years PROVE Advances(book.bucket[y], c.bucket[y])
      BY DEF Moves
    <3>1. CASE next.bucket[y].status = seen.bucket[y].status
      BY <2>2, <2>4, <3>1 DEF Advances
    <3>2. CASE next.bucket[y].status # seen.bucket[y].status
      <4>1. c.bucket[y].status = next.bucket[y].status
        BY <2>2, <3>2
      <4>2. CASE next.bucket[y].status = "EXPIRED"
        BY <2>6, <3>2, <4>1, <4>2 DEF Advances
      <4>3. CASE next.bucket[y].status = "OPEN" /\ seen.bucket[y].status = "NONE"
        BY <2>5, <4>1, <4>3 DEF Advances
      <4>4. QED
        BY <2>4, <3>2, <4>2, <4>3 DEF Advances
    <3>3. QED
      BY <3>1, <3>2
  <2>8. Linked(c)
    <3> SUFFICES ASSUME NEW y \in Years, NEW s, s = y + 1 + MaxCarryYears
                 PROVE  c.bucket[y].status = "EXPIRED" <=> s \in Years /\ c.bucket[s].status # "NONE"
      BY DEF Linked
    <3>1. /\ book.bucket[y].status = "EXPIRED" <=> s \in Years /\ book.bucket[s].status # "NONE"
          /\ seen.bucket[y].status = "EXPIRED" <=> s \in Years /\ seen.bucket[s].status # "NONE"
          /\ next.bucket[y].status = "EXPIRED" <=> s \in Years /\ next.bucket[s].status # "NONE"
      BY DEF GoodBook, Linked
    <3>2. CASE next.bucket[y].status = "EXPIRED" /\ seen.bucket[y].status # "EXPIRED"
      BY <2>2, <2>3, <3>1, <3>2
    <3>3. CASE next.bucket[y].status = "EXPIRED" <=> seen.bucket[y].status = "EXPIRED"
      <4>1. s \in Years => (next.bucket[s].status = "NONE" <=> seen.bucket[s].status = "NONE")
        BY <3>1, <3>3
      <4>2. s \in Years => (c.bucket[s].status = "NONE" <=> book.bucket[s].status = "NONE")
        BY <2>1, <2>2, <2>3, <4>1 DEF Opened
      <4>3. c.bucket[y].status = "EXPIRED" <=> book.bucket[y].status = "EXPIRED"
        <5>1. CASE next.bucket[y].status = seen.bucket[y].status
          BY <2>2, <5>1
        <5>2. CASE next.bucket[y].status = "OPEN" /\ seen.bucket[y].status = "NONE"
          BY <2>2, <2>5, <5>2
        <5>3. QED
          BY <2>4, <3>3, <5>1, <5>2 DEF Advances
      <4>4. QED
        BY <3>1, <4>2, <4>3
    <3>4. QED
      BY <2>4, <3>2, <3>3 DEF Advances
  <2>9. Blank(c)
    <3> SUFFICES ASSUME NEW y \in Years, c.bucket[y].status = "NONE" PROVE IsBlank(c, y)
      BY DEF Blank
    <3>1. book.bucket[y].status = "NONE"
      BY <2>7 DEF Moves, Advances
    <3>2. seen.bucket[y].status = "NONE"
      BY <2>1, <3>1 DEF Opened
    <3>3. next.bucket[y].status = "NONE"
      BY <2>2, <3>2
    <3>4. IsBlank(book, y) /\ IsBlank(seen, y) /\ IsBlank(next, y)
      BY <3>1, <3>2, <3>3 DEF GoodBook, Blank
    <3>5. QED
      BY <1>2, <2>2, <3>4 DEF IsBlank
  <2>10. ASSUME NEW start \in Int, NEW day \in Int, IsFor(book, start, day), IsFor(next, start, day)
         PROVE  IsFor(c, start, day)
    BY <2>2, <2>10 DEF IsFor
  <2>11. QED
    BY <1>2, <1>3, <2>7, <2>8, <2>9, <2>10 DEF GoodBook
<1>6. QED
  BY <1>4, <1>5

\* A settlement accrues, charges what is not charged yet, and accrues.
LEMMA SyncIsSteady ==
  ASSUME NEW b \in Book, NEW held \in [LeaveRequests -> {"none", "pending", "used"}],
         NEW size \in [LeaveRequests -> Nat], NEW first \in [LeaveRequests -> Int]
  PROVE  Sync(b, held, size, first) \in Book /\ Steady(b, Sync(b, held, size, first))
<1> DEFINE B == {c \in Book : Steady(b, c)}
<1>1. b \in B
  BY StaysPut
<1>2. ASSUME NEW c \in B, NEW r \in LeaveRequests PROVE SyncOne(c, r, held, size) \in B
  <2>1. CASE held[r] = "none" \/ c.alloc[r] # NoAllocation
    BY <2>1 DEF SyncOne
  <2>2. CASE ~(held[r] = "none" \/ c.alloc[r] # NoAllocation)
    <3>1. PICK n \in Nat, column \in {"used", "pending"} : n = size[r] /\ column = held[r]
      BY <2>2
    <3>2. PICK d : d = Charge(c, r, n, column) /\ d = SyncOne(c, r, held, size)
      BY <2>2, <3>1 DEF SyncOne
    <3>3. d \in Book /\ Steady(c, d)
      BY <3>2, ChargeKeeps
    <3>4. Steady(b, d)
      BY <3>3 DEF Steady
    <3>5. QED
      BY <3>2, <3>3, <3>4
  <2>3. QED
    BY <2>1, <2>2
<1>3. \A r \in LeaveRequests : first[r] \in Int
  OBVIOUS
<1>4. \A c \in B : \A r \in LeaveRequests : SyncOne(c, r, held, size) \in B
  BY <1>2
<1> HIDE DEF B
<1>5. Sync(b, held, size, first) \in B
  BY <1>1, <1>3, <1>4, SyncStaysIn
<1>6. QED
  BY <1>5 DEF B

LEMMA SettleIsGood ==
  ASSUME NEW b, GoodBook(b), NEW start \in Days, NEW day \in Days, IsFor(b, start, day),
         NEW held \in [LeaveRequests -> {"none", "pending", "used"}],
         NEW size \in [LeaveRequests -> Nat], NEW first \in [LeaveRequests -> Int],
         NEW c, c = Settle(b, held, size, first, start, day)
  PROVE  /\ GoodBook(c) /\ Moves(b, c) /\ IsFor(c, start, day)
         /\ start <= day => IsCurrent(c, start, day)
<1>1. PICK d : d = Accrue(b, start, day)
  OBVIOUS
<1>2. GoodBook(d) /\ Moves(b, d) /\ IsFor(d, start, day)
  BY <1>1, AccrualIsGood
<1>3. PICK e : e = Sync(d, held, size, first)
  OBVIOUS
<1>4. e \in Book /\ Steady(d, e)
  BY <1>2, <1>3, SyncIsSteady DEF GoodBook
<1>5. GoodBook(e) /\ Moves(d, e) /\ IsFor(e, start, day)
  <2>1. start \in Int /\ day \in Int
    BY DEF Days
  <2>2. QED
    BY <1>2, <1>4, <2>1, SteadyIsGood
<1>6. c = Accrue(e, start, day)
  BY <1>1, <1>3 DEF Settle
<1>7. GoodBook(c) /\ Moves(e, c) /\ IsFor(c, start, day)
  BY <1>5, <1>6, AccrualIsGood
<1>8. Moves(b, c)
  BY <1>2, <1>5, <1>7, MovesOnward
<1>9. start <= day => IsCurrent(c, start, day)
  BY <1>5, <1>6, AccrualIsGood
<1>10. QED
  BY <1>7, <1>8, <1>9

LEMMA RebuildIsGood ==
  ASSUME NEW start \in Days, NEW day \in Days,
         NEW held \in [LeaveRequests -> {"none", "pending", "used"}],
         NEW size \in [LeaveRequests -> Nat], NEW first \in [LeaveRequests -> Int],
         NEW c, c = Rebuild(held, size, first, start, day)
  PROVE  GoodBook(c) /\ IsFor(c, start, day)
<1>1. PICK d : d = Accrue(EmptyBook, start, day)
  OBVIOUS
<1>2. start \in Int /\ day \in Int
  BY DEF Days
<1>3. GoodBook(d) /\ IsFor(d, start, day)
  BY <1>1, <1>2, EmptyIsGood, AccrualIsGood
<1>4. c = Sync(d, held, size, first)
  BY <1>1 DEF Rebuild
<1>5. c \in Book /\ Steady(d, c)
  BY <1>3, <1>4, SyncIsSteady DEF GoodBook
<1>6. QED
  BY <1>2, <1>3, <1>5, SteadyIsGood

-----------------------------------------------------------------------------
\* What a handler was asked to do.
Asked(q) ==
  /\ q.op \in Ops
  /\ q.op \in {"create", "CANCELLED", "APPROVED", "REJECTED"} => q.req \in LeaveRequests
  /\ q.op = "create" => q.span \in Spans
  /\ q.op = "adjust" => q.days \in Adjustments
  /\ q.pc = "attend" => q.span.first \in WorkDays

\* What a handler has computed is a good book, for the hire date it read, that
\* advances the one it read; the rows it read are there until a rebuild.
Computed(q) ==
  /\ GoodBook(q.seen) /\ GoodBook(q.next) /\ Moves(q.seen, q.next)
  /\ q.epoch \in Nat /\ q.epoch <= epoch
  /\ q.epoch = epoch => Opened(q.seen, book) /\ IsFor(q.next, hire, today)
  /\ q.op = "adjust" /\ q.pc = "commit" =>
       \A y \in Years : q.next.bucket[y].used >= q.seen.bucket[y].used

Rows ==
  /\ today \in Days /\ hire \in HireDays
  /\ GoodBook(book) /\ IsFor(book, hire, today)
  /\ request \in [LeaveRequests -> RequestRows]
  /\ decisions \in [LeaveRequests -> 0..2]
  /\ deducted \in [Years -> Nat]
  /\ attended \subseteq WorkDays
  /\ epoch \in 0..MaxRebuilt

Adjusting == {h \in Handlers : proc[h].op = "adjust"}

Counted == adjusted \in Nat /\ adjusted + Cardinality(Adjusting) <= MaxAdjusted

DeskInv ==
  /\ Rows /\ Counted
  /\ proc = [h \in Handlers |-> proc[h]]
  /\ \A h \in Handlers : IsLocal(proc[h]) /\ Asked(proc[h]) /\ Computed(proc[h])

LEMMA SizeIsNat ==
  ASSUME NEW s \in Spans \cup {NoSpan} PROVE IsFiniteSet(s.slots) /\ Cardinality(s.slots) \in Nat
<1>1. s.slots \in SUBSET (Days \X Halves)
  BY DEF Span, NoSpan
<1>2. IsFiniteSet(Days \X Halves)
  <2>1. IsFiniteSet(0..LastDay)
    BY LeaveYearAssumption, FS_Interval
  <2>2. IsFiniteSet({"MORNING"})
    BY FS_Singleton
  <2>3. IsFiniteSet({"MORNING"} \cup {"AFTERNOON"})
    BY <2>2, FS_AddElement
  <2>4. Halves = {"MORNING"} \cup {"AFTERNOON"}
    BY DEF Halves
  <2>5. IsFiniteSet(Halves)
    BY <2>3, <2>4
  <2>6. QED
    BY <2>1, <2>5, FS_Product DEF Days
<1>3. IsFiniteSet(s.slots)
  BY <1>1, <1>2, FS_Subset
<1>4. QED
  BY <1>3, FS_CardinalityType

LEMMA InputsAre ==
  ASSUME Rows
  PROVE  /\ HeldNow \in [LeaveRequests -> {"none", "pending", "used"}]
         /\ Sizes \in [LeaveRequests -> Nat]
         /\ StartDates \in [LeaveRequests -> Int]
         /\ hire \in Days /\ today \in Days /\ hire \in Int /\ today \in Int
<1>1. \A s \in Spans \cup {NoSpan} : s.slots \in SUBSET (Days \X Halves) /\ s.first \in Int
  BY DEF Span, NoSpan, Days
<1>3. \A s \in Spans \cup {NoSpan} : Cardinality(s.slots) \in Nat
  BY SizeIsNat
<1>4. \A r \in LeaveRequests : request[r].span \in Spans \cup {NoSpan}
  BY DEF Rows, RequestRows
<1>5. HeldNow \in [LeaveRequests -> {"none", "pending", "used"}]
  <2>1. \A r \in LeaveRequests : Held(r) \in {"none", "pending", "used"}
    BY <1>4 DEF Held
  <2>2. QED
    BY <2>1 DEF HeldNow
<1>6. Sizes \in [LeaveRequests -> Nat]
  BY <1>3, <1>4 DEF Sizes, Size
<1>7. StartDates \in [LeaveRequests -> Int]
  BY <1>1, <1>4 DEF StartDates
<1>8. hire \in Days /\ today \in Days /\ hire \in Int /\ today \in Int
  BY DEF Rows, Days
<1>9. QED
  BY <1>5, <1>6, <1>7, <1>8

\* What one step does to what the others rely on.
Elsewhere ==
  \/ UNCHANGED <<today, hire, epoch>> /\ Opened(book, book')
  \/ UNCHANGED <<hire, epoch, book>> /\ today' = today + 1
  \/ epoch' = epoch + 1

LEMMA ComputedStays ==
  ASSUME Rows, Elsewhere, NEW q, Computed(q) PROVE Computed(q)'
<1>1. epoch \in Nat /\ today \in Int /\ hire \in Int
  BY InputsAre DEF Rows
<1>2. CASE epoch' = epoch + 1
  BY <1>1, <1>2 DEF Computed
<1>3. CASE UNCHANGED <<today, hire, epoch>> /\ Opened(book, book')
  <2>1. Opened(q.seen, book) => Opened(q.seen, book')
    BY <1>3 DEF Opened
  <2>2. QED
    BY <1>3, <2>1 DEF Computed
<1>4. CASE UNCHANGED <<hire, epoch, book>> /\ today' = today + 1
  <2>1. IsFor(q.next, hire, today) => IsFor(q.next, hire, today')
    <3>1. PICK start \in Int, day \in Int, next \in {q.next} : start = hire /\ day = today
      BY <1>1
    <3>2. IsFor(next, start, day) => IsFor(next, start, day + 1)
      <4>1. \A y \in Years : start + y * YearLength \in Int /\ ExpiresOn(y, start) \in Int
        BY YearsAre, LeaveYearAssumption, ProductGrows DEF ExpiresOn
      <4>2. QED
        BY <4>1 DEF IsFor
    <3>3. QED
      BY <1>4, <3>1, <3>2
  <2>2. QED
    BY <1>4, <2>1 DEF Computed
<1>5. QED
  BY <1>2, <1>3, <1>4 DEF Elsewhere

LEMMA IdleIsFine ==
  ASSUME hire \in Int, today \in Int, epoch \in Nat
  PROVE  IsLocal(Idle) /\ Asked(Idle) /\ Computed(Idle)
<1>1. /\ Idle.op = "view" /\ Idle.pc = "idle" /\ Idle.epoch = 0
      /\ Idle.seen = EmptyBook /\ Idle.next = EmptyBook
  BY DEF Idle
<1>2. Opened(EmptyBook, book)
  BY DEF Opened, EmptyBook, NoBucket
<1>3. Asked(Idle)
  BY <1>1 DEF Asked, Ops
<1>4. Computed(Idle)
  BY <1>1, <1>2, EmptyIsGood, StaysPut DEF Computed
<1>5. QED
  BY <1>3, <1>4, IdleRelies

\* Adjustments begun and made stay within the bound.
LEMMA CountStays ==
  ASSUME DeskInv, NEW h \in Handlers, NEW q, proc' = [proc EXCEPT ![h] = q],
         \/ adjusted' = adjusted /\ (q.op = "adjust" => proc[h].op = "adjust")
         \/ adjusted' = adjusted /\ adjusted + Cardinality(Adjusting) < MaxAdjusted
         \/ adjusted' = adjusted + 1 /\ proc[h].op = "adjust" /\ q.op # "adjust"
  PROVE  Counted'
<1>1. IsFiniteSet(Adjusting) /\ Cardinality(Adjusting) \in Nat
  BY FiniteAssumption, FS_Subset, FS_CardinalityType DEF Adjusting
<1>2. proc'[h] = q /\ \A g \in Handlers \ {h} : proc'[g] = proc[g]
  BY DEF DeskInv
<1>3. Adjusting' = IF q.op = "adjust" THEN Adjusting \cup {h} ELSE Adjusting \ {h}
  BY <1>2 DEF Adjusting
<1>4. /\ Cardinality(Adjusting \cup {h}) =
           IF h \in Adjusting THEN Cardinality(Adjusting) ELSE Cardinality(Adjusting) + 1
      /\ Cardinality(Adjusting \ {h}) =
           IF h \in Adjusting THEN Cardinality(Adjusting) - 1 ELSE Cardinality(Adjusting)
  BY <1>1, FS_AddElement, FS_RemoveElement
<1>5. h \in Adjusting <=> proc[h].op = "adjust"
  BY DEF Adjusting
<1>6. PICK n \in Nat, m \in {Cardinality(Adjusting')} : n = Cardinality(Adjusting)
  BY <1>1
<1>7. m = IF q.op = "adjust" THEN IF proc[h].op = "adjust" THEN n ELSE n + 1
                             ELSE IF proc[h].op = "adjust" THEN n - 1 ELSE n
  BY <1>3, <1>4, <1>5, <1>6
<1>8. adjusted \in Nat /\ adjusted + n <= MaxAdjusted
  BY <1>6 DEF DeskInv, Counted
<1>9. (adjusted' \in Nat) /\ adjusted' + m <= MaxAdjusted
  BY <1>6, <1>7, <1>8
<1>10. QED
  BY <1>6, <1>9 DEF Counted

\* A handler moves, by itself or with a commit.
LEMMA DeskMoves ==
  ASSUME DeskInv, Rows', Counted', Elsewhere, NEW h \in Handlers, NEW q,
         proc' = [proc EXCEPT ![h] = q], IsLocal(q), Asked(q), Computed(q)'
  PROVE  DeskInv'
<1>1. /\ proc' = [g \in Handlers |-> proc'[g]]
      /\ proc'[h] = q /\ \A g \in Handlers \ {h} : proc'[g] = proc[g]
  BY DEF DeskInv
<1>2. ASSUME NEW g \in Handlers PROVE (IsLocal(proc[g]) /\ Asked(proc[g]) /\ Computed(proc[g]))'
  <2>1. CASE g = h
    BY <1>1, <2>1 DEF IsLocal, Asked, Computed
  <2>2. CASE g # h
    <3>1. PICK t : t = proc[g] /\ IsLocal(t) /\ Asked(t) /\ Computed(t) /\ proc'[g] = t
      BY <1>1, <2>2 DEF DeskInv
    <3>2. Computed(t)'
      BY <3>1, ComputedStays DEF DeskInv
    <3>3. QED
      BY <3>1, <3>2 DEF IsLocal, Asked, Computed
  <2>3. QED
    BY <2>1, <2>2
<1>3. QED
  BY <1>1, <1>2 DEF DeskInv

LEMMA DeskRests ==
  ASSUME DeskInv, Rows', Elsewhere, UNCHANGED <<proc, adjusted>>
  PROVE  DeskInv'
<1>1. Counted'
  BY DEF DeskInv, Counted, Adjusting
<1>2. ASSUME NEW g \in Handlers PROVE (IsLocal(proc[g]) /\ Asked(proc[g]) /\ Computed(proc[g]))'
  <2>1. PICK t : t = proc[g] /\ IsLocal(t) /\ Asked(t) /\ Computed(t) /\ proc'[g] = t
    BY DEF DeskInv
  <2>2. Computed(t)'
    BY <2>1, ComputedStays DEF DeskInv
  <2>3. QED
    BY <2>1, <2>2 DEF IsLocal, Asked, Computed
<1>3. QED
  BY <1>1, <1>2 DEF DeskInv

LEMMA DeskReads ==
  ASSUME DeskInv, NEW h \in Handlers, NEW next, NEW pc, Read(h, next, pc),
         GoodBook(next), Moves(book, next), IsFor(next, hire, today), pc # "attend",
         proc[h].op = "adjust" /\ pc = "commit" =>
           \A y \in Years : next.bucket[y].used >= book.bucket[y].used
  PROVE  DeskInv'
<1>1. PICK q, seen, e : /\ q = proc[h] /\ seen = book /\ e = epoch
                        /\ IsLocal(q) /\ Asked(q)
  BY DEF DeskInv
<1>2. PICK t : t = Reading(q, seen, next, e, pc)
  OBVIOUS
<1>3. proc' = [proc EXCEPT ![h] = t]
  BY <1>1, <1>2 DEF Read, Reading
<1>4. /\ IsLocal(t) /\ t.pc = pc /\ t.op = q.op /\ t.req = q.req /\ t.span = q.span
      /\ t.days = q.days /\ t.seen = seen /\ t.next = next /\ t.epoch = e
  <2>1. IsLocal(q)
    BY <1>1
  <2>2. QED
    BY <1>2, <2>1, LocalReads
<1>5. UNCHANGED <<today, hire, book, request, decisions, deducted, attended, adjusted, epoch>>
  BY DEF Read
<1>6. Rows' /\ Elsewhere
  BY <1>5, StaysPut DEF DeskInv, Rows, Elsewhere
<1>7. Asked(t)
  BY <1>1, <1>4 DEF Asked
<1>8. Computed(t)
  <2>1. epoch \in Nat /\ GoodBook(book) /\ Opened(book, book)
    BY StaysPut DEF DeskInv, Rows
  <2>2. QED
    BY <1>1, <1>4, <2>1 DEF Computed
<1>9. Computed(t)'
  BY <1>6, <1>8, ComputedStays DEF DeskInv
<1>10. Counted'
  BY <1>1, <1>3, <1>4, <1>5, CountStays
<1>11. QED
  BY <1>3, <1>4, <1>6, <1>7, <1>9, <1>10, DeskMoves

LEMMA DeskGoes ==
  ASSUME DeskInv, Rows', Elsewhere, UNCHANGED adjusted, NEW h \in Handlers,
         NEW pc, pc \notin {"commit", "attend"}, Goto(h, pc)
  PROVE  DeskInv'
<1>1. PICK q : q = proc[h] /\ IsLocal(q) /\ Asked(q) /\ Computed(q)
  BY DEF DeskInv
<1>2. PICK t : t = [q EXCEPT !.pc = pc]
  OBVIOUS
<1>3. proc' = [proc EXCEPT ![h] = t]
  BY <1>1, <1>2 DEF Goto
<1>4. /\ IsLocal(t) /\ t.pc = pc /\ t.op = q.op /\ t.req = q.req /\ t.span = q.span
      /\ t.days = q.days /\ t.seen = q.seen /\ t.next = q.next /\ t.epoch = q.epoch
  BY <1>1, <1>2, MovesOn
<1>5. Asked(t) /\ Computed(t)
  BY <1>1, <1>4 DEF Asked, Computed
<1>6. Computed(t)'
  BY <1>5, ComputedStays DEF DeskInv
<1>7. Counted'
  BY <1>1, <1>3, <1>4, CountStays
<1>8. QED
  BY <1>3, <1>4, <1>5, <1>6, <1>7, DeskMoves

LEMMA DeskEnds ==
  ASSUME DeskInv, Rows', Elsewhere, NEW h \in Handlers, Finish(h),
         UNCHANGED adjusted \/ (adjusted' = adjusted + 1 /\ proc[h].op = "adjust")
  PROVE  DeskInv'
<1>1. hire \in Int /\ today \in Int /\ epoch \in Nat
  BY InputsAre DEF DeskInv, Rows
<1>2. IsLocal(Idle) /\ Asked(Idle) /\ Computed(Idle) /\ Idle.op = "view"
  BY <1>1, IdleIsFine DEF Idle
<1>3. Computed(Idle)'
  <2>1. PICK t : t = Idle
    OBVIOUS
  <2>2. Computed(t)'
    BY <1>2, <2>1, ComputedStays DEF DeskInv
  <2>3. QED
    BY <2>1, <2>2 DEF Computed, Idle, EmptyBook, NoAllocation
<1>4. PICK t : t = Idle /\ proc' = [proc EXCEPT ![h] = t]
  BY DEF Finish
<1>5. Counted'
  BY <1>2, <1>4, CountStays
<1>6. IsLocal(t) /\ Asked(t) /\ Computed(t)'
  <2>1. Computed(t)
    BY <1>2, <1>4
  <2>2. QED
    BY <1>2, <1>4, <2>1, ComputedStays DEF DeskInv
<1>7. QED
  BY <1>4, <1>5, <1>6, DeskMoves

LEMMA DeskStarts ==
  ASSUME DeskInv, NEW h \in Handlers, NEW op \in Ops, NEW r, NEW span, NEW days, NEW pc,
         Start(h, op, r, span, days, pc),
         op \in {"create", "CANCELLED", "APPROVED", "REJECTED"} => r \in LeaveRequests,
         op = "create" => span \in Spans,
         op = "adjust" => days \in Adjustments /\ adjusted + Cardinality(Adjusting) < MaxAdjusted,
         pc = "attend" => span.first \in WorkDays
  PROVE  DeskInv'
<1>1. PICK t : t = [Idle EXCEPT !.op = op, !.req = r, !.span = span, !.days = days, !.pc = pc]
  OBVIOUS
<1>2. Idle \in [pc : {"idle"}, op : {"view"}, req : {NoOne}, span : {NoSpan}, days : {0},
                seen : {EmptyBook}, next : {EmptyBook}, epoch : {0}]
  BY DEF Idle
<1>3. t \in [pc : {pc}, op : {op}, req : {r}, span : {span}, days : {days},
             seen : {EmptyBook}, next : {EmptyBook}, epoch : {0}]
  BY <1>1, <1>2
<1>4. /\ IsLocal(t) /\ t.pc = pc /\ t.op = op /\ t.req = r /\ t.span = span
      /\ t.days = days /\ t.seen = EmptyBook /\ t.next = EmptyBook /\ t.epoch = 0
  BY <1>3 DEF IsLocal
<1>5. /\ proc' = [proc EXCEPT ![h] = t]
      /\ UNCHANGED <<today, hire, book, request, decisions, deducted, attended, adjusted, epoch>>
  BY <1>1 DEF Start
<1>6. Rows' /\ Elsewhere
  BY <1>5, StaysPut DEF DeskInv, Rows, Elsewhere
<1>7. Asked(t)
  BY <1>4 DEF Asked
<1>8. Computed(t)
  <2>1. epoch \in Nat /\ hire \in Int /\ today \in Int
    BY InputsAre DEF DeskInv, Rows
  <2>2. Opened(EmptyBook, book)
    BY DEF Opened, EmptyBook, NoBucket
  <2>3. \A y \in Years : EmptyBook.bucket[y].used >= EmptyBook.bucket[y].used
    BY DEF EmptyBook, NoBucket
  <2>4. QED
    BY <1>4, <2>1, <2>2, <2>3, EmptyIsGood, StaysPut DEF Computed
<1>9. Computed(t)'
  BY <1>6, <1>8, ComputedStays DEF DeskInv
<1>10. Counted'
  BY <1>4, <1>5, CountStays
<1>11. QED
  BY <1>4, <1>5, <1>6, <1>7, <1>9, <1>10, DeskMoves

LEMMA DeskReceives == ASSUME DeskInv, NEW h \in Handlers, Receive(h) PROVE DeskInv'
<1>1. CASE ReceiveCreate(h)
  BY <1>1, DeskStarts DEF ReceiveCreate, Ops
<1>2. CASE ReceiveCancel(h)
  BY <1>2, DeskStarts DEF ReceiveCancel, Pending, Ops
<1>3. CASE ReceiveDecide(h)
  <2>1. PICK r \in Pending, verdict \in Verdicts :
           Start(h, verdict, r, request[r].span, 0, "settle")
    BY <1>3 DEF ReceiveDecide
  <2>2. verdict \in {"APPROVED", "REJECTED"} /\ verdict \in Ops /\ r \in LeaveRequests
    BY DEF Verdicts, Ops, Pending
  <2>3. QED
    BY <2>1, <2>2, DeskStarts
<1>4. CASE ReceiveAdjust(h)
  <2>1. PICK n \in Adjustments :
           /\ adjusted + Cardinality({g \in Handlers : proc[g].op = "adjust"}) < MaxAdjusted
           /\ Start(h, "adjust", NoOne, NoSpan, n, "settle")
    BY <1>4 DEF ReceiveAdjust
  <2>2. adjusted + Cardinality(Adjusting) < MaxAdjusted
    BY <2>1 DEF Adjusting
  <2>3. "adjust" \in Ops
    BY DEF Ops
  <2>4. QED
    BY <2>1, <2>2, <2>3, DeskStarts
<1>5. CASE ReceiveView(h)
  <2>1. Start(h, "view", NoOne, NoSpan, 0, "settle") /\ "view" \in Ops
    BY <1>5 DEF ReceiveView, Ops
  <2>2. QED
    BY <2>1, DeskStarts
<1>6. CASE ReceiveCheckIn(h)
  <2>1. [NoSpan EXCEPT !.first = today].first = today
    BY DEF NoSpan
  <2>2. "checkIn" \in Ops
    BY DEF Ops
  <2>3. QED
    BY <1>6, <2>1, <2>2, DeskStarts DEF ReceiveCheckIn
<1>7. QED
  BY <1>1, <1>2, <1>3, <1>4, <1>5, <1>6 DEF Receive

LEMMA DeskCommits ==
  ASSUME DeskInv, NEW h \in Handlers, ~Fails(proc[h]), book' = Merged(proc[h]),
         UNCHANGED <<today, hire, epoch>>
  PROVE  Elsewhere /\ Moves(book, book') /\ GoodBook(book') /\ IsFor(book', hire, today)
<1>1. PICK q : q = proc[h] /\ Computed(q)
  BY DEF DeskInv
<1>2. PICK c : c = book' /\ c = Merged(q)
  BY <1>1
<1>3. GoodBook(book) /\ IsFor(book, hire, today) /\ hire \in Int /\ today \in Int
  BY InputsAre DEF DeskInv, Rows
<1>4. /\ GoodBook(c) /\ Moves(book, c) /\ (q.epoch # epoch => c = book)
      /\ \A start, day \in Int :
              IsFor(book, start, day) /\ IsFor(q.next, start, day) => IsFor(c, start, day)
  BY <1>1, <1>2, <1>3, MergeIsGood DEF Computed
<1>5. IsFor(c, hire, today)
  BY <1>1, <1>3, <1>4 DEF Computed
<1>6. Opened(book, c)
  BY <1>4, MovesOpen
<1>7. QED
  BY <1>2, <1>4, <1>5, <1>6 DEF Elsewhere

-----------------------------------------------------------------------------
(* The steps *)

LEMMA LaterIsFor ==
  ASSUME NEW b, NEW start \in Int, NEW day \in Int, IsFor(b, start, day)
  PROVE  IsFor(b, start, day + 1)
<1>1. \A y \in Years : start + y * YearLength \in Int /\ ExpiresOn(y, start) \in Int
  BY YearsAre, LeaveYearAssumption, ProductGrows DEF ExpiresOn
<1>2. QED
  BY <1>1 DEF IsFor

LEMMA DeskSettles == ASSUME DeskInv, NEW h \in Handlers, SettleRead(h) PROVE DeskInv'
<1>1. PICK next : /\ next = Settle(book, HeldNow, Sizes, StartDates, hire, today)
                  /\ Read(h, next, "settleCommit")
  BY DEF SettleRead
<1>2. PICK held \in [LeaveRequests -> {"none", "pending", "used"}],
           size \in [LeaveRequests -> Nat], first \in [LeaveRequests -> Int] :
         held = HeldNow /\ size = Sizes /\ first = StartDates
  BY InputsAre DEF DeskInv
<1>3. PICK start \in Days, day \in Days : start = hire /\ day = today
  BY InputsAre DEF DeskInv
<1>4. next = Settle(book, held, size, first, start, day)
  BY <1>1, <1>2, <1>3
<1>5. GoodBook(book) /\ IsFor(book, start, day)
  BY <1>3 DEF DeskInv, Rows
<1>6. GoodBook(next) /\ Moves(book, next) /\ IsFor(next, start, day)
  BY <1>4, <1>5, SettleIsGood
<1>7. QED
  BY <1>1, <1>3, <1>6, DeskReads

LEMMA DeskSettled == ASSUME DeskInv, NEW h \in Handlers, SettleCommit(h) PROVE DeskInv'
<1>1. UNCHANGED <<today, hire, request, decisions, deducted, attended, adjusted, epoch>>
  BY DEF SettleCommit
<1>2. CASE Fails(proc[h])
  <2>1. Finish(h) /\ UNCHANGED book
    BY <1>2 DEF SettleCommit
  <2>2. Rows' /\ Elsewhere
    BY <1>1, <2>1, StaysPut DEF DeskInv, Rows, Elsewhere
  <2>3. QED
    BY <1>1, <2>1, <2>2, DeskEnds
<1>3. CASE ~Fails(proc[h])
  <2>1. /\ book' = Merged(proc[h])
        /\ Finish(h) \/ Goto(h, "attendance") \/ Goto(h, "read")
    BY <1>3 DEF SettleCommit
  <2>2. Elsewhere /\ GoodBook(book') /\ IsFor(book', hire, today)
    BY <1>1, <1>3, <2>1, DeskCommits
  <2>3. Rows'
    BY <1>1, <2>2 DEF DeskInv, Rows
  <2>4. QED
    BY <1>1, <2>1, <2>2, <2>3, DeskEnds, DeskGoes
<1>4. QED
  BY <1>2, <1>3

\* A book that accrued, and was charged or answered for.
LEMMA AccruedOnce ==
  ASSUME DeskInv, NEW a, a = Accrue(book, hire, today), NEW c \in Book, Steady(a, c)
  PROVE  /\ GoodBook(a) /\ GoodBook(c) /\ Moves(book, c) /\ IsFor(c, hire, today)
         /\ \A y \in Years : a.bucket[y].used = book.bucket[y].used
<1>1. PICK start \in Days, day \in Days : start = hire /\ day = today
  BY InputsAre DEF DeskInv
<1>2. GoodBook(book) /\ IsFor(book, start, day)
  BY <1>1 DEF DeskInv, Rows
<1>3. /\ GoodBook(a) /\ Moves(book, a) /\ IsFor(a, start, day)
      /\ \A y \in Years : a.bucket[y].used = book.bucket[y].used
  <2>1. PICK b : b = book /\ GoodBook(b) /\ IsFor(b, start, day) /\ a = Accrue(b, start, day)
    BY <1>1, <1>2
  <2>2. GoodBook(a) /\ Moves(b, a) /\ IsFor(a, start, day)
    BY <2>1, AccrualIsGood
  <2>3. SameUsed(b, a)
    BY <2>1, AccrualIsGood
  <2>4. QED
    BY <2>1, <2>2, <2>3 DEF SameUsed
<1>4. start \in Int /\ day \in Int
  BY DEF Days
<1>5. GoodBook(c) /\ Moves(a, c) /\ IsFor(c, start, day)
  BY <1>3, <1>4, SteadyIsGood
<1>6. Moves(book, c)
  BY <1>3, <1>5, MovesOnward
<1>7. QED
  BY <1>1, <1>3, <1>5, <1>6

LEMMA AccruedIsBook ==
  ASSUME DeskInv, NEW a, a = Accrue(book, hire, today)
  PROVE  a \in Book
<1>1. hire \in Int /\ today \in Int /\ book \in Book
  BY InputsAre DEF DeskInv, Rows, GoodBook
<1>2. QED
  BY <1>1, AccrualKeeps

LEMMA DeskCreates == ASSUME DeskInv, NEW h \in Handlers, CreateRead(h) PROVE DeskInv'
<1>1. PICK q : q = proc[h] /\ Asked(q) /\ q.op = "create"
  BY DEF DeskInv, CreateRead
<1>2. PICK a \in Book : a = Accrue(book, hire, today)
  BY AccruedIsBook
<1>3. PICK n \in Nat : n = Cardinality(q.span.slots)
  BY <1>1, SizeIsNat DEF Asked
<1>4. \/ Read(h, book, "commit")
      \/ Read(h, Charge(a, q.req, n, "pending"), "commit")
      \/ /\ Finish(h)
         /\ UNCHANGED <<today, hire, book, request, decisions, deducted, attended, adjusted, epoch>>
  BY <1>1, <1>2, <1>3 DEF CreateRead
<1>5. CASE Read(h, book, "commit")
  <2>1. GoodBook(book) /\ IsFor(book, hire, today) /\ Moves(book, book)
    BY StaysPut DEF DeskInv, Rows
  <2>2. proc[h].op # "adjust"
    BY <1>1
  <2>3. QED
    BY <1>5, <2>1, <2>2, DeskReads
<1>6. CASE Read(h, Charge(a, q.req, n, "pending"), "commit")
  <2>1. PICK c : c = Charge(a, q.req, n, "pending")
    OBVIOUS
  <2>2. q.req \in LeaveRequests
    BY <1>1 DEF Asked
  <2>3. c \in Book /\ Steady(a, c)
    BY <2>1, <2>2, ChargeKeeps
  <2>4. GoodBook(c) /\ Moves(book, c) /\ IsFor(c, hire, today)
    BY <1>2, <2>3, AccruedOnce
  <2>5. QED
    BY <1>1, <1>6, <2>1, <2>4, DeskReads
<1>7. CASE /\ Finish(h)
           /\ UNCHANGED <<today, hire, book, request, decisions, deducted, attended, adjusted, epoch>>
  <2>1. Rows' /\ Elsewhere
    BY <1>7, StaysPut DEF DeskInv, Rows, Elsewhere
  <2>2. QED
    BY <1>7, <2>1, DeskEnds
<1>8. QED
  BY <1>4, <1>5, <1>6, <1>7

LEMMA DeskAnswers == ASSUME DeskInv, NEW h \in Handlers, AnswerRead(h) PROVE DeskInv'
<1>1. PICK q, r : /\ q = proc[h] /\ Asked(q) /\ r = q.req
                  /\ q.op \in {"CANCELLED", "REJECTED", "APPROVED"}
  BY DEF DeskInv, AnswerRead
<1>2. r \in LeaveRequests /\ proc[h].op # "adjust"
  BY <1>1 DEF Asked
<1>3. PICK n \in Nat : n = Size(r)
  BY <1>2, InputsAre DEF DeskInv, Sizes
<1>4. PICK next : /\ Read(h, next, "commit")
                  /\ \/ next = book \/ next = ConsumeReserved(book, r, n, hire, today)
                     \/ next = Release(book, r)
  <2>1. PICK next : /\ Read(h, next, "commit")
                    /\ next = CASE ~request[r].span.tracked -> book
                                [] request[r].span.tracked /\ q.op = "APPROVED" ->
                                     ConsumeReserved(book, r, Size(r), hire, today)
                                [] OTHER -> Release(book, r)
    BY <1>1 DEF AnswerRead
  <2>2. QED
    BY <1>3, <2>1
<1>5. /\ GoodBook(book) /\ IsFor(book, hire, today) /\ book \in Book
      /\ hire \in Int /\ today \in Int
  BY InputsAre DEF DeskInv, Rows, GoodBook
<1>6. ASSUME next \in Book, Steady(book, next)
      PROVE  GoodBook(next) /\ Moves(book, next) /\ IsFor(next, hire, today)
  BY <1>5, <1>6, SteadyIsGood
<1>7. GoodBook(next) /\ Moves(book, next) /\ IsFor(next, hire, today)
  <2>1. CASE next = book
    BY <1>5, <2>1, StaysPut
  <2>2. CASE next = Release(book, r)
    <3>1. PICK b \in Book : b = book
      BY <1>5
    <3>2. next \in Book /\ Steady(b, next)
      BY <1>2, <2>2, <3>1, ReleaseKeeps
    <3>3. QED
      BY <1>6, <3>1, <3>2
  <2>3. CASE next = ConsumeReserved(book, r, n, hire, today) /\ book.alloc[r] # NoAllocation
    <3>1. PICK b \in Book, start \in Int, day \in Int : b = book /\ start = hire /\ day = today
      BY <1>5
    <3>2. next \in Book /\ Steady(b, next)
      BY <1>2, <2>3, <3>1, ConsumeKeeps
    <3>3. QED
      BY <1>6, <3>1, <3>2
  <2>4. CASE next = ConsumeReserved(book, r, n, hire, today) /\ book.alloc[r] = NoAllocation
    <3>1. PICK a \in Book : a = Accrue(book, hire, today)
      BY AccruedIsBook
    <3>2. next = Charge(a, r, n, "used")
      BY <2>4, <3>1 DEF ConsumeReserved
    <3>3. next \in Book /\ Steady(a, next)
      BY <1>2, <3>2, ChargeKeeps
    <3>4. QED
      BY <3>1, <3>3, AccruedOnce
  <2>5. QED
    BY <1>4, <2>1, <2>2, <2>3, <2>4
<1>8. QED
  BY <1>2, <1>4, <1>7, DeskReads

LEMMA DeskAdjusts == ASSUME DeskInv, NEW h \in Handlers, AdjustRead(h) PROVE DeskInv'
<1>1. PICK q, n : q = proc[h] /\ Asked(q) /\ q.op = "adjust" /\ n = q.days
  BY DEF DeskInv, AdjustRead
<1>2. n \in Int
  BY <1>1 DEF Asked
<1>3. PICK a \in Book : a = Accrue(book, hire, today)
  BY AccruedIsBook
<1>4. \/ CanAdjust(a, n) /\ Read(h, Adjust(a, n), "commit")
      \/ /\ Finish(h)
         /\ UNCHANGED <<today, hire, book, request, decisions, deducted, attended, adjusted, epoch>>
  BY <1>1, <1>3 DEF AdjustRead
<1>5. CASE CanAdjust(a, n) /\ Read(h, Adjust(a, n), "commit")
  <2>1. PICK c : c = Adjust(a, n)
    OBVIOUS
  <2>2. c \in Book /\ Steady(a, c) /\ \A y \in Years : c.bucket[y].used >= a.bucket[y].used
    BY <1>2, <1>5, <2>1, AdjustKeeps
  <2>3. /\ GoodBook(c) /\ Moves(book, c) /\ IsFor(c, hire, today)
        /\ \A y \in Years : a.bucket[y].used = book.bucket[y].used
    BY <1>3, <2>2, AccruedOnce
  <2>4. \A y \in Years : c.bucket[y].used >= book.bucket[y].used
    BY <2>2, <2>3
  <2>5. QED
    BY <1>5, <2>1, <2>3, <2>4, DeskReads
<1>6. CASE /\ Finish(h)
           /\ UNCHANGED <<today, hire, book, request, decisions, deducted, attended, adjusted, epoch>>
  <2>1. Rows' /\ Elsewhere
    BY <1>6, StaysPut DEF DeskInv, Rows, Elsewhere
  <2>2. QED
    BY <1>6, <2>1, DeskEnds
<1>7. QED
  BY <1>4, <1>5, <1>6

LEMMA DeskChecks ==
  ASSUME DeskInv, NEW h \in Handlers, CheckAttendance(h) \/ Rollback(h) \/ Attend(h)
  PROVE  DeskInv'
<1>1. UNCHANGED <<today, hire, book, request, decisions, deducted, adjusted, epoch>>
  BY DEF CheckAttendance, Rollback, Attend
<1>2. Elsewhere
  BY <1>1, StaysPut DEF Elsewhere
<1>3. attended' \subseteq WorkDays
  BY DEF CheckAttendance, Rollback, Attend, DeskInv, Rows, Asked
<1>4. Rows'
  BY <1>1, <1>3 DEF DeskInv, Rows
<1>5. Finish(h) \/ Goto(h, "read")
  BY DEF CheckAttendance, Rollback, Attend
<1>6. QED
  BY <1>1, <1>2, <1>4, <1>5, DeskEnds, DeskGoes

LEMMA DeskWrites ==
  ASSUME DeskInv, NEW h \in Handlers,
         CommitCreate(h) \/ CommitCancel(h) \/ CommitDecision(h) \/ CommitAdjust(h)
  PROVE  DeskInv'
<1>1. PICK q : q = proc[h] /\ Asked(q) /\ Computed(q)
  BY DEF DeskInv
<1>2. /\ q.pc = "commit" /\ ~Fails(proc[h]) /\ book' = Merged(proc[h])
      /\ Finish(h) /\ UNCHANGED <<today, hire, attended, epoch>>
  BY <1>1 DEF CommitCreate, CommitCancel, CommitDecision, CommitAdjust, Commits
<1>3. Elsewhere /\ GoodBook(book') /\ IsFor(book', hire, today)
  BY <1>2, DeskCommits
<1>4. ASSUME request' \in [LeaveRequests -> RequestRows], decisions' \in [LeaveRequests -> 0..2],
             deducted' \in [Years -> Nat]
      PROVE  Rows'
  BY <1>2, <1>3, <1>4 DEF DeskInv, Rows
<1>5. /\ request \in [LeaveRequests -> RequestRows]
      /\ decisions \in [LeaveRequests -> 0..2] /\ deducted \in [Years -> Nat]
  BY DEF DeskInv, Rows
<1>6. CASE CommitCreate(h)
  <2>1. q.req \in LeaveRequests /\ q.span \in Spans
    BY <1>1, <1>6 DEF CommitCreate, Commits, Asked
  <2>2. /\ request' = [request EXCEPT ![q.req] = [status |-> "PENDING", span |-> q.span]]
        /\ UNCHANGED <<decisions, deducted, adjusted>>
    BY <1>1, <1>6 DEF CommitCreate
  <2>3. request' \in [LeaveRequests -> RequestRows]
    BY <1>5, <2>1, <2>2 DEF RequestRows, Statuses
  <2>4. QED
    BY <1>2, <1>3, <1>4, <1>5, <2>2, <2>3, DeskEnds
<1>7. CASE CommitCancel(h)
  <2>1. /\ request' = [request EXCEPT ![q.req].status = "CANCELLED"]
        /\ UNCHANGED <<decisions, deducted, adjusted>>
    BY <1>1, <1>7 DEF CommitCancel
  <2>2. request' \in [LeaveRequests -> RequestRows]
    BY <1>5, <2>1 DEF RequestRows, Statuses
  <2>3. QED
    BY <1>2, <1>3, <1>4, <1>5, <2>1, <2>2, DeskEnds
<1>8. CASE CommitDecision(h)
  <2>1. PICK verdict \in Verdicts :
          /\ request' = [request EXCEPT ![q.req].status = verdict]
          /\ decisions' = [decisions EXCEPT ![q.req] = Min({2, @ + 1})]
          /\ UNCHANGED <<deducted, adjusted>>
    BY <1>1, <1>8 DEF CommitDecision
  <2>2. request' \in [LeaveRequests -> RequestRows]
    BY <1>5, <2>1 DEF RequestRows, Statuses, Verdicts
  <2>3. \A n \in 0..2 : Min({2, n + 1}) \in 0..2
    BY MinOfTwo
  <2>4. decisions' \in [LeaveRequests -> 0..2]
    BY <1>5, <2>1, <2>3
  <2>5. QED
    BY <1>2, <1>3, <1>4, <1>5, <2>1, <2>2, <2>4, DeskEnds
<1>9. CASE CommitAdjust(h)
  <2>1. /\ q.op = "adjust"
        /\ deducted' = [y \in Years |-> deducted[y] + q.next.bucket[y].used - q.seen.bucket[y].used]
        /\ adjusted' = adjusted + 1 /\ UNCHANGED <<request, decisions>>
    BY <1>1, <1>9 DEF CommitAdjust, Commits
  <2>2. \A y \in Years : /\ q.next.bucket[y].used >= q.seen.bucket[y].used
                         /\ q.next.bucket[y].used \in Nat /\ q.seen.bucket[y].used \in Nat
    BY <1>1, <1>2, <2>1, BookIs DEF Computed, GoodBook, Bucket
  <2>3. \A y \in Years : deducted[y] + q.next.bucket[y].used - q.seen.bucket[y].used \in Nat
    BY <1>5, <2>2
  <2>4. deducted' \in [Years -> Nat]
    BY <2>1, <2>3
  <2>5. QED
    BY <1>1, <1>2, <1>3, <1>4, <1>5, <2>1, <2>4, DeskEnds
<1>10. QED
  BY <1>6, <1>7, <1>8, <1>9

LEMMA DeskRebuilds == ASSUME DeskInv, NEW h \in Handlers, CorrectHireDate(h) PROVE DeskInv'
<1>1. PICK d \in HireDays : hire' = d /\ book' = Rebuild(HeldNow, Sizes, StartDates, d, today)
  BY DEF CorrectHireDate
<1>2. /\ epoch < MaxRebuilt /\ deducted' = [y \in Years |-> 0] /\ epoch' = epoch + 1
      /\ UNCHANGED <<today, request, decisions, attended, proc, adjusted>>
  BY DEF CorrectHireDate
<1>3. PICK held \in [LeaveRequests -> {"none", "pending", "used"}],
           size \in [LeaveRequests -> Nat], first \in [LeaveRequests -> Int] :
         held = HeldNow /\ size = Sizes /\ first = StartDates
  BY InputsAre DEF DeskInv
<1>4. PICK day \in Days : day = today
  BY DEF DeskInv, Rows
<1>5. PICK c : c = book' /\ c = Rebuild(held, size, first, d, day)
  BY <1>1, <1>3, <1>4
<1>6. d \in Days
  OBVIOUS
<1>7. GoodBook(c) /\ IsFor(c, d, day)
  BY <1>5, <1>6, RebuildIsGood
<1>8. Elsewhere
  BY <1>2 DEF Elsewhere
<1>9. Rows'
  BY <1>1, <1>2, <1>4, <1>5, <1>7 DEF DeskInv, Rows
<1>10. QED
  BY <1>2, <1>8, <1>9, DeskRests

LEMMA DeskAges == ASSUME DeskInv, NextDay PROVE DeskInv'
<1>1. /\ today' = today + 1 /\ today < LastDay
      /\ UNCHANGED <<hire, book, request, decisions, deducted, attended, proc, adjusted, epoch>>
  BY DEF NextDay
<1>2. today \in Int /\ hire \in Int /\ IsFor(book, hire, today)
  BY InputsAre DEF DeskInv, Rows
<1>3. IsFor(book, hire, today + 1)
  BY <1>2, LaterIsFor
<1>4. today' \in Days
  BY <1>1, LeaveYearAssumption DEF DeskInv, Rows, Days
<1>5. Rows'
  BY <1>1, <1>3, <1>4 DEF DeskInv, Rows
<1>6. Elsewhere
  BY <1>1 DEF Elsewhere
<1>7. QED
  BY <1>1, <1>5, <1>6, DeskRests

LEMMA DeskInit == Init => DeskInv
<1> SUFFICES ASSUME Init PROVE DeskInv
  OBVIOUS
<1>1. today \in Days /\ hire \in HireDays /\ hire \in Int /\ today \in Int
  BY DEF Init, Days
<1>2. Rows
  <2>1. book = EmptyBook /\ GoodBook(book) /\ IsFor(book, hire, today)
    BY <1>1, EmptyIsGood DEF Init
  <2>2. request \in [LeaveRequests -> RequestRows] /\ epoch \in 0..MaxRebuilt
    BY DEF Init, NoRequest, RequestRows, Statuses
  <2>3. QED
    BY <1>1, <2>1, <2>2 DEF Rows, Init
<1>3. IsLocal(Idle) /\ Asked(Idle) /\ Computed(Idle) /\ Idle.op = "view"
  <2>1. epoch \in Nat
    BY DEF Init
  <2>2. QED
    BY <1>1, <2>1, IdleIsFine DEF Idle
<1>4. proc = [h \in Handlers |-> Idle] /\ adjusted = 0
  BY DEF Init
<1>5. Counted
  <2>1. Adjusting = {}
    BY <1>3, <1>4 DEF Adjusting
  <2>2. Cardinality(Adjusting) = 0
    BY <2>1, FS_EmptySet
  <2>3. QED
    BY <1>4, <2>2 DEF Counted
<1>6. QED
  BY <1>2, <1>3, <1>4, <1>5 DEF DeskInv

LEMMA DeskNext == DeskInv /\ [Next]_vars => DeskInv'
<1> SUFFICES ASSUME DeskInv, [Next]_vars PROVE DeskInv'
  OBVIOUS
<1>1. CASE UNCHANGED vars
  <2>1. UNCHANGED <<today, hire, book, request, decisions, deducted, attended, proc, adjusted, epoch>>
    BY <1>1 DEF vars
  <2>2. Rows' /\ Elsewhere
    BY <2>1, StaysPut DEF DeskInv, Rows, Elsewhere
  <2>3. QED
    BY <2>1, <2>2, DeskRests
<1>2. CASE NextDay
  BY <1>2, DeskAges
<1>3. ASSUME NEW h \in Handlers, Continue(h) PROVE DeskInv'
  BY <1>3, DeskSettles, DeskSettled, DeskCreates, DeskAnswers, DeskAdjusts, DeskChecks, DeskWrites
     DEF Continue
<1>4. QED
  BY <1>1, <1>2, <1>3, DeskReceives, DeskRebuilds DEF Next

\* However the handlers interleave, every table and every handler holds values
\* the code can give it: no column of a bucket is negative (annual-leave.service,
\* decide, create, adjust).
THEOREM LeaveTypeCorrect == Spec => []TypeOK
<1>1. DeskInv => TypeOK
  <2> SUFFICES ASSUME DeskInv PROVE TypeOK
    OBVIOUS
  <2>1. Cardinality(Adjusting) \in Nat
    BY FiniteAssumption, FS_Subset, FS_CardinalityType DEF Adjusting
  <2>2. adjusted \in 0..MaxAdjusted
    BY <2>1 DEF DeskInv, Counted
  <2>3. QED
    BY <2>2 DEF DeskInv, Rows, GoodBook, Asked, Computed, TypeOK, RequestRows
<1>2. QED
  BY <1>1, DeskInit, DeskNext, PTL DEF Spec

\* However the handlers interleave and however stale the rows they read, leave
\* is carried over for as long as the policy gives it and, once a balance has
\* been shown, no longer (expireBuckets, settle).
THEOREM CarryOverStaysKept == Spec => []CarryOverIsKept
<1>1. DeskInv => CarryOverIsKept
  <2> SUFFICES ASSUME DeskInv PROVE CarryOverIsKept
    OBVIOUS
  <2>1. CarriedOverForLongEnough
    <3> SUFFICES ASSUME NEW y \in Years, book.bucket[y].status = "EXPIRED"
                 PROVE  today >= hire + (y + 1 + MaxCarryYears) * YearLength
      BY DEF CarriedOverForLongEnough
    <3>1. ExpiresOn(y, hire) <= today
      BY DEF DeskInv, Rows, IsFor
    <3>2. PICK n \in Int, day \in Int : n = ExpiresOn(y, hire) /\ day = today
      <4>1. y + 1 + MaxCarryYears \in Int /\ YearLength \in Nat
        BY YearsAre, LeaveYearAssumption
      <4>2. QED
        BY <4>1, InputsAre, ProductGrows DEF DeskInv, ExpiresOn
    <3>3. day >= n
      BY <3>1, <3>2
    <3>4. QED
      BY <3>2, <3>3 DEF ExpiresOn
  <2>2. SettledIsCurrent
    <3> SUFFICES ASSUME NEW y \in Years, hire <= today, NEW c,
                        c = Settle(book, HeldNow, Sizes, StartDates, hire, today)
                 PROVE  c.bucket[y].status = "OPEN"
                          <=> y <= CompletedYears(hire, today) /\ today < ExpiresOn(y, hire)
      BY DEF SettledIsCurrent
    <3>1. PICK held \in [LeaveRequests -> {"none", "pending", "used"}],
               size \in [LeaveRequests -> Nat], first \in [LeaveRequests -> Int] :
             held = HeldNow /\ size = Sizes /\ first = StartDates
      BY InputsAre DEF DeskInv
    <3>2. PICK start \in Days, day \in Days : start = hire /\ day = today /\ start <= day
      BY InputsAre DEF DeskInv
    <3>3. c = Settle(book, held, size, first, start, day)
      BY <3>1, <3>2
    <3>4. GoodBook(book) /\ IsFor(book, start, day)
      BY <3>2 DEF DeskInv, Rows
    <3>5. GoodBook(c) /\ IsFor(c, start, day) /\ IsCurrent(c, start, day)
      BY <3>2, <3>3, <3>4, SettleIsGood
    <3>6. y <= CompletedYears(start, day) <=> start + y * YearLength <= day
      BY <3>2, YearsAre, BegunIs
    <3>7. c.bucket[y].status \in {"NONE", "OPEN", "EXPIRED"}
      BY <3>5, BookIs DEF GoodBook, Bucket
    <3>8. ExpiresOn(y, start) <= day <=> ~(day < ExpiresOn(y, start))
      <4>1. ExpiresOn(y, start) \in Int /\ day \in Int
        <5>1. y + 1 + MaxCarryYears \in Int /\ YearLength \in Nat
          BY YearsAre, LeaveYearAssumption
        <5>2. (y + 1 + MaxCarryYears) * YearLength \in Int
          BY <5>1, ProductGrows
        <5>3. QED
          BY <5>2 DEF ExpiresOn, Days
      <4>2. QED
        BY <4>1
    <3>9. c.bucket[y].status = "OPEN" <=> y <= CompletedYears(start, day) /\ day < ExpiresOn(y, start)
      BY <3>5, <3>6, <3>7, <3>8 DEF IsFor, IsCurrent
    <3>10. QED
      BY <3>2, <3>9
  <2>3. QED
    BY <2>1, <2>2 DEF CarryOverIsKept
<1>2. QED
  BY <1>1, DeskInit, DeskNext, PTL DEF Spec

LEMMA BooksMove ==
  ASSUME DeskInv, [Next]_vars, epoch' = epoch PROVE Moves(book, book')
<1>1. epoch \in Nat
  BY DEF DeskInv, Rows
<1>2. CASE UNCHANGED book
  BY <1>2, StaysPut
<1>3. ASSUME NEW h \in Handlers, ~Fails(proc[h]), book' = Merged(proc[h]), UNCHANGED <<today, hire, epoch>>
      PROVE  Moves(book, book')
  BY <1>3, DeskCommits
<1>4. ASSUME NEW h \in Handlers, SettleCommit(h) PROVE Moves(book, book')
  BY <1>2, <1>3, <1>4 DEF SettleCommit
<1>5. ASSUME NEW h \in Handlers,
             CommitCreate(h) \/ CommitCancel(h) \/ CommitDecision(h) \/ CommitAdjust(h)
      PROVE  Moves(book, book')
  BY <1>3, <1>5 DEF CommitCreate, CommitCancel, CommitDecision, CommitAdjust, Commits
<1>6. ASSUME NEW h \in Handlers, Continue(h) PROVE Moves(book, book')
  BY <1>2, <1>4, <1>5, <1>6 DEF Continue, SettleRead, CheckAttendance, CreateRead, AnswerRead,
     AdjustRead, Rollback, Attend, Read
<1>7. ASSUME NEW h \in Handlers, Receive(h) PROVE UNCHANGED book
  BY <1>7 DEF Receive, ReceiveCreate, ReceiveCancel, ReceiveDecide, ReceiveAdjust, ReceiveView,
     ReceiveCheckIn, Start
<1>8. ASSUME NEW h \in Handlers, CorrectHireDate(h) PROVE FALSE
  BY <1>1, <1>8 DEF CorrectHireDate
<1>9. QED
  BY <1>2, <1>6, <1>7, <1>8 DEF Next, NextDay, vars

\* Carry-over that expired does not come back, however stale the rows a
\* transaction read, until a corrected hire date replaces the book: who would
\* expire a bucket twice would open the same bucket twice (ensureAccrual).
THEOREM ExpiredNeverReturns == Spec => ExpiredStaysExpired
<1>1. DeskInv /\ [Next]_vars =>
        [\A y \in Years :
           epoch' = epoch /\ book.bucket[y].status = "EXPIRED" =>
             /\ book'.bucket[y].status = "EXPIRED"
             /\ book'.bucket[y].expired = book.bucket[y].expired]_vars
  <2> SUFFICES ASSUME DeskInv, [Next]_vars, epoch' = epoch, NEW y \in Years,
                      book.bucket[y].status = "EXPIRED"
               PROVE  /\ book'.bucket[y].status = "EXPIRED"
                      /\ book'.bucket[y].expired = book.bucket[y].expired
    OBVIOUS
  <2>1. Moves(book, book')
    BY BooksMove
  <2>2. QED
    BY <2>1 DEF Moves, Advances
<1>2. QED
  BY <1>1, DeskInit, DeskNext, PTL DEF Spec, ExpiredStaysExpired

-----------------------------------------------------------------------------
(* The books balance: what a bucket counts is what the requests hold of it. *)

\* The numbers of a set below the next number.
LEMMA BelowNext ==
  ASSUME NEW S \in SUBSET Nat, NEW k \in Nat
  PROVE  /\ {y \in S : y < 0} = {}
         /\ k \notin S => {y \in S : y < k + 1} = {y \in S : y < k}
         /\ k \in S => {y \in S : y < k + 1} \ {k} = {y \in S : y < k} /\ k \in {y \in S : y < k + 1}
<1>1. \A y \in S : y \in Nat /\ (y < k + 1 <=> y < k \/ y = k)
  OBVIOUS
<1>2. \A y \in S : ~(y < 0) /\ (y = k => ~(y < k))
  OBVIOUS
<1>3. QED
  BY <1>1, <1>2, Zenon

Below(f, S, k) == SumFunctionOnSet(f, {y \in S : y < k})

\* A sum over the numbers below the next number.
LEMMA SumBelow ==
  ASSUME NEW S \in SUBSET Nat, IsFiniteSet(S), NEW f, \A y \in S : f[y] \in Int, NEW k \in Nat
  PROVE  /\ Below(f, S, 0) = 0
         /\ Below(f, S, k + 1) = IF k \in S THEN f[k] + Below(f, S, k) ELSE Below(f, S, k)
<1>1. Below(f, S, 0) = 0
  BY BelowNext, SumOfNone DEF Below
<1>2. ASSUME k \notin S PROVE Below(f, S, k + 1) = Below(f, S, k)
  <2>1. {y \in S : y < k + 1} = {y \in S : y < k}
    BY <1>2, BelowNext
  <2>2. QED
    BY <2>1 DEF Below
<1>3. ASSUME k \in S PROVE Below(f, S, k + 1) = f[k] + Below(f, S, k)
  <2>1. PICK A \in SUBSET S : A = {y \in S : y < k + 1}
    OBVIOUS
  <2>2. k \in A /\ A \ {k} = {y \in S : y < k}
    BY <1>3, <2>1, BelowNext
  <2>3. IsFiniteSet(A)
    BY FS_Subset
  <2>4. SumFunctionOnSet(f, A) = f[k] + SumFunctionOnSet(f, A \ {k})
    <3>1. PICK x \in A : x = k
      BY <2>2
    <3>2. \A y \in A : f[y] \in Int
      OBVIOUS
    <3>3. SumFunctionOnSet(f, A) = f[x] + SumFunctionOnSet(f, A \ {x})
      BY <2>3, <3>2, SumTakesOut, ZenonT(60)
    <3>4. QED
      BY <3>1, <3>3
  <2>5. QED
    BY <2>1, <2>2, <2>4 DEF Below
<1>4. QED
  BY <1>1, <1>2, <1>3

LEMMA FifoStep ==
  ASSUME NEW f \in Nat, NEW g \in Nat, NEW n \in Nat, NEW t,
         t = Min({f, Max({0, n - g})})
  PROVE  t \in Nat /\ (IF n <= g THEN n ELSE g) + t = IF n <= g + f THEN n ELSE g + f
<1>1. PICK m \in Nat : m = Max({0, n - g}) /\ m = IF n >= g THEN n - g ELSE 0
  BY MaxOfTwo
<1>2. t = IF f <= m THEN f ELSE m
  <2>1. t = Min({f, m})
    BY <1>1
  <2>2. QED
    BY <2>1, MinOfTwo
<1>3. QED
  BY <1>1, <1>2

\* Oldest first, the buckets give all the days asked for, or all they have.
LEMMA FifoAddsUp ==
  ASSUME NEW b \in Book, NEW n \in Nat, NEW have,
         have = SumFunctionOnSet(FreeDays(b), OpenYears(b))
  PROVE  /\ have \in Nat
         /\ SumFunctionOnSet(AllocateFifo(b, n), Years) = IF n <= have THEN n ELSE have
<1>1. PICK fifo : fifo = AllocateFifo(b, n)
  OBVIOUS
<1>2. PICK free : free = FreeDays(b)
  OBVIOUS
<1>3. \A y \in Years : fifo[y] \in Nat /\ free[y] \in Nat /\ (y \notin OpenYears(b) => fifo[y] = 0)
  BY <1>1, <1>2, FifoGives, BookIs, FreeIs DEF FreeDays, OpenYears
<1>4. OpenYears(b) \in SUBSET Years
  BY DEF OpenYears
<1>0. Years \in SUBSET Nat /\ OpenYears(b) \in SUBSET Nat
  BY <1>4, YearsAre
<1> DEFINE N == {k \in Nat : /\ Below(free, OpenYears(b), k) \in Nat
                             /\ Below(fifo, Years, k) = IF n <= Below(free, OpenYears(b), k) THEN n
                                                      ELSE Below(free, OpenYears(b), k)}
<1>2a. IsFiniteSet(Years) /\ IsFiniteSet(OpenYears(b))
  BY <1>4, YearsAre, FS_Subset
<1>2b. /\ \A y \in Years : fifo[y] \in Int
       /\ \A y \in OpenYears(b) : free[y] \in Int
  BY <1>3, <1>4
<1>5. 0 \in N
  BY <1>0, <1>2a, <1>2b, SumBelow
<1>6. ASSUME NEW k \in N PROVE k + 1 \in N
  <2>0. PICK d : d = Below(fifo, Years, k)
    OBVIOUS
  <2>1. PICK g \in Nat : /\ g = Below(free, OpenYears(b), k) /\ d = Below(fifo, Years, k)
                         /\ d = IF n <= g THEN n ELSE g
    BY <2>0
  <2>2. k \in Nat
    OBVIOUS
  <2>3. PICK g2, d2 : g2 = Below(free, OpenYears(b), k + 1) /\ d2 = Below(fifo, Years, k + 1)
    OBVIOUS
  <2>4. d2 = IF k \in Years THEN fifo[k] + d ELSE d
    BY <1>0, <1>2a, <1>2b, <2>1, <2>2, <2>3, SumBelow
  <2>5. g2 = IF k \in OpenYears(b) THEN free[k] + g ELSE g
    BY <1>0, <1>2a, <1>2b, <2>1, <2>2, <2>3, SumBelow
  <2>6. (g2 \in Nat) /\ d2 = IF n <= g2 THEN n ELSE g2
    <3>1. CASE k \in OpenYears(b)
      <4>0. PICK t : t = fifo[k]
        OBVIOUS
      <4>1. PICK f \in Nat : f = free[k] /\ t = fifo[k] /\ k \in Years
        BY <1>3, <1>4, <3>1, <4>0
      <4>2. g = FreeBefore(b, k) /\ Free(b.bucket[k]) = f
        BY <1>2, <2>1, <4>1 DEF FreeBefore, FreeDays, Below
      <4>3. t = Min({Free(b.bucket[k]), Max({0, n - FreeBefore(b, k)})})
        BY <1>1, <3>1, <4>1 DEF AllocateFifo
      <4>4. t = Min({f, Max({0, n - g})})
        BY <4>2, <4>3
      <4>5. t \in Nat /\ (IF n <= g THEN n ELSE g) + t = IF n <= g + f THEN n ELSE g + f
        BY <4>4, FifoStep
      <4>6. g2 = f + g /\ d2 = t + d
        BY <2>4, <2>5, <3>1, <4>1
      <4>7. QED
        BY <2>1, <4>5, <4>6
    <3>2. CASE k \notin OpenYears(b)
      <4>1. d2 = d /\ g2 = g
        BY <1>3, <2>1, <2>4, <2>5, <3>2
      <4>2. QED
        BY <2>1, <4>1
    <3>3. QED
      BY <3>1, <3>2
  <2>7. k + 1 \in Nat
    BY <2>2
  <2>8. QED
    BY <2>3, <2>6, <2>7
<1> HIDE DEF N
<1>7. N = Nat
  <2>1. N \in SUBSET Nat
    BY DEF N
  <2>2. QED
    BY <1>5, <1>6, <2>1, NatInSet
<1>8. PICK last \in Nat : Years = 0..last
  BY LeaveYearAssumption DEF Years
<1>9. {y \in Years : y < last + 1} = Years /\ {y \in OpenYears(b) : y < last + 1} = OpenYears(b)
  BY <1>4, <1>8
<1>10. last + 1 \in N
  BY <1>7
<1>11. PICK g \in Nat : /\ g = Below(free, OpenYears(b), last + 1)
                        /\ Below(fifo, Years, last + 1) = IF n <= g THEN n ELSE g
  BY <1>10 DEF N
<1>12. /\ g = have
       /\ Below(fifo, Years, last + 1) = SumFunctionOnSet(AllocateFifo(b, n), Years)
  BY <1>1, <1>2, <1>9, <1>11 DEF Below
<1>13. QED
  BY <1>11, <1>12

\* Nothing is missing: the days asked for are taken, no more.
LEMMA TakeAddsUp ==
  ASSUME NEW b \in Book, NEW n \in Nat, Shortfall(b, n) = 0,
         NEW take, take = WithOverdraw(b, AllocateFifo(b, n), Shortfall(b, n))
  PROVE  SumFunctionOnSet(take, Years) = n
<1>1. PICK fifo : fifo = AllocateFifo(b, n) /\ fifo = [y \in Years |-> fifo[y]]
  BY DEF AllocateFifo
<1>2. take = fifo
  BY <1>1 DEF WithOverdraw
<1>3. PICK have \in Nat : /\ have = SumFunctionOnSet(FreeDays(b), OpenYears(b))
                          /\ SumFunctionOnSet(fifo, Years) = IF n <= have THEN n ELSE have
  BY <1>1, FifoAddsUp
<1>4. Max({0, n - have}) = IF n <= have THEN 0 ELSE n - have
  BY MaxOfTwo
<1>5. n <= have
  BY <1>3, <1>4 DEF Shortfall
<1>6. QED
  BY <1>2, <1>3, <1>5

\* The days of year y that the requests of the given status hold.
Total(alloc, q, status, y) ==
  SumFunctionOnSet([r \in LeaveRequests |-> alloc[r][y]],
                   {r \in LeaveRequests : q[r].status = status})

\* What request r adds to it.
Share(alloc, q, status, y, r) == IF q[r].status = status THEN alloc[r][y] ELSE 0

Counts(row) == row.status \in {"PENDING", "APPROVED"} /\ row.span.tracked

Agrees(b, q, by) ==
  /\ \A y \in Years : b.bucket[y].used = Total(b.alloc, q, "APPROVED", y) + by[y]
  /\ \A y \in Years : b.bucket[y].status # "EXPIRED" =>
                        b.bucket[y].pending = Total(b.alloc, q, "PENDING", y)
  /\ \A r \in LeaveRequests : ~Counts(q[r]) => b.alloc[r] = NoAllocation

Solvent(b, q) ==
  /\ NotOverdrawn(b)
  /\ \A y \in Years : b.bucket[y].status = "EXPIRED" =>
         /\ b.bucket[y].pending = 0
         /\ Total(b.alloc, q, "PENDING", y) <= Remaining(b.bucket[y])
  /\ \A r \in LeaveRequests : Counts(q[r]) =>
         SumFunctionOnSet(b.alloc[r], Years) = Cardinality(q[r].span.slots)

Allocs == [LeaveRequests -> [Years -> Nat]]

\* The two tables differ in request r only.
Beside(q, q2, r) == \A s \in LeaveRequests \ {r} : q2[s] = q[s]

LEMMA RowsAdd ==
  ASSUME NEW alloc \in Allocs, NEW q, NEW status, NEW y \in Years, NEW r \in LeaveRequests,
         NEW rest,
         rest = SumFunctionOnSet([s \in LeaveRequests |-> alloc[s][y]],
                                 {s \in LeaveRequests : q[s].status = status} \ {r})
  PROVE  /\ rest \in Nat
         /\ Total(alloc, q, status, y) = rest + Share(alloc, q, status, y, r)
<1>1. PICK f \in [LeaveRequests -> Nat] : f = [s \in LeaveRequests |-> alloc[s][y]]
  BY DEF Allocs
<1>2. PICK S \in SUBSET LeaveRequests : S = {s \in LeaveRequests : q[s].status = status}
  OBVIOUS
<1>3. IsFiniteSet(S) /\ IsFiniteSet(S \ {r})
  BY FiniteAssumption, FS_Subset
<1>4. rest = SumFunctionOnSet(f, S \ {r}) /\ Total(alloc, q, status, y) = SumFunctionOnSet(f, S)
  BY <1>1, <1>2 DEF Total
<1>5. \A s \in S : f[s] \in Int
  OBVIOUS
<1>6. \A s \in S \ {r} : f[s] \in Nat
  OBVIOUS
<1>7. rest \in Nat
  BY <1>3, <1>4, <1>6, SumIsNat
<1>8. CASE q[r].status = status
  <2>1. r \in S /\ Share(alloc, q, status, y, r) = f[r] /\ f[r] \in Nat
    BY <1>1, <1>2, <1>8 DEF Share
  <2>2. SumFunctionOnSet(f, S) = f[r] + SumFunctionOnSet(f, S \ {r})
    BY <1>3, <1>5, <2>1, SumTakesOut, ZenonT(60)
  <2>3. QED
    BY <1>4, <1>7, <2>1, <2>2
<1>9. CASE q[r].status # status
  <2>1. S \ {r} = S /\ Share(alloc, q, status, y, r) = 0
    BY <1>2, <1>9 DEF Share
  <2>2. SumFunctionOnSet(f, S \ {r}) = SumFunctionOnSet(f, S)
    BY <2>1
  <2>3. QED
    BY <1>4, <1>7, <2>1, <2>2
<1>10. QED
  BY <1>7, <1>8, <1>9

\* A total changes by what the row that changes adds to it.
LEMMA OneRowChanges ==
  ASSUME NEW alloc \in Allocs, NEW alloc2 \in Allocs, NEW q, NEW q2, NEW r \in LeaveRequests,
         Beside(q, q2, r), Beside(alloc, alloc2, r), NEW y \in Years, NEW status
  PROVE  \E rest \in Nat : /\ Total(alloc, q, status, y) = rest + Share(alloc, q, status, y, r)
                           /\ Total(alloc2, q2, status, y) = rest + Share(alloc2, q2, status, y, r)
<1>1. PICK f \in [LeaveRequests -> Nat] : f = [s \in LeaveRequests |-> alloc[s][y]]
  BY DEF Allocs
<1>2. PICK f2 \in [LeaveRequests -> Nat] : f2 = [s \in LeaveRequests |-> alloc2[s][y]]
  BY DEF Allocs
<1>3. PICK S \in SUBSET LeaveRequests : S = {s \in LeaveRequests : q[s].status = status} \ {r}
  OBVIOUS
<1>4. S = {s \in LeaveRequests : q2[s].status = status} \ {r}
  BY <1>3 DEF Beside
<1>5. \A s \in S : f[s] \in Int /\ f2[s] = f[s]
  BY <1>1, <1>2, <1>3 DEF Beside
<1>6. IsFiniteSet(S)
  BY FiniteAssumption, FS_Subset
<1>7. SumFunctionOnSet(f, S) = SumFunctionOnSet(f2, S)
  BY <1>5, <1>6, SumsAgree
<1>8. PICK rest, rest2 : rest = SumFunctionOnSet(f, S) /\ rest2 = SumFunctionOnSet(f2, S)
  OBVIOUS
<1>9. rest \in Nat /\ Total(alloc, q, status, y) = rest + Share(alloc, q, status, y, r)
  <2>1. rest = SumFunctionOnSet([s \in LeaveRequests |-> alloc[s][y]],
                                {s \in LeaveRequests : q[s].status = status} \ {r})
    BY <1>1, <1>3, <1>8
  <2>2. rest \in Nat
    BY <1>6, <1>8, SumIsNat
  <2>3. Total(alloc, q, status, y) = rest + Share(alloc, q, status, y, r)
    BY <2>1, RowsAdd
  <2>4. QED
    BY <2>2, <2>3
<1>10. Total(alloc2, q2, status, y) = rest2 + Share(alloc2, q2, status, y, r)
  <2>1. rest2 = SumFunctionOnSet([s \in LeaveRequests |-> alloc2[s][y]],
                                 {s \in LeaveRequests : q2[s].status = status} \ {r})
    BY <1>2, <1>4, <1>8
  <2>2. QED
    BY <2>1, RowsAdd
<1>11. QED
  BY <1>7, <1>8, <1>9, <1>10

LEMMA TotalIsNat ==
  ASSUME NEW b \in Book, NEW q, NEW status, NEW y \in Years
  PROVE  Total(b.alloc, q, status, y) \in Nat
<1>1. PICK f \in [LeaveRequests -> Nat] : f = [r \in LeaveRequests |-> b.alloc[r][y]]
  <2>1. \A r \in LeaveRequests : b.alloc[r][y] \in Nat
    BY BookIs
  <2>2. QED
    BY <2>1
<1>2. PICK S \in SUBSET LeaveRequests : S = {r \in LeaveRequests : q[r].status = status}
  OBVIOUS
<1>3. IsFiniteSet(S) /\ \A r \in S : f[r] \in Nat
  BY FiniteAssumption, FS_Subset
<1>4. SumFunctionOnSet(f, S) \in Nat
  BY <1>3, SumIsNat
<1>5. QED
  BY <1>1, <1>2, <1>4 DEF Total

\* A pending request's days are reserved, or were left when the bucket expired.
LEMMA HoldsEnough ==
  ASSUME NEW b \in Book, NEW q, NEW by, Agrees(b, q, by), NEW r \in LeaveRequests, NEW y \in Years,
         q[r].status = "PENDING"
  PROVE  /\ b.alloc[r][y] \in Nat
         /\ b.bucket[y].status # "EXPIRED" => b.alloc[r][y] <= b.bucket[y].pending
         /\ Solvent(b, q) /\ b.bucket[y].status = "EXPIRED" => b.alloc[r][y] <= Remaining(b.bucket[y])
<1>1. PICK alloc \in Allocs : alloc = b.alloc
  BY DEF Book, Allocs
<1>2. Beside(q, q, r) /\ Beside(alloc, alloc, r)
  BY DEF Beside
<1>3. PICK rest \in Nat : Total(alloc, q, "PENDING", y) = rest + Share(alloc, q, "PENDING", y, r)
  BY <1>2, OneRowChanges
<1>4. Share(alloc, q, "PENDING", y, r) = alloc[r][y] /\ alloc[r][y] \in Nat
  BY DEF Share, Allocs
<1>5. PICK t \in Nat : t = Total(alloc, q, "PENDING", y) /\ alloc[r][y] <= t
  BY <1>3, <1>4
<1>6. b.bucket[y].status # "EXPIRED" => b.bucket[y].pending = t
  BY <1>1, <1>5 DEF Agrees
<1>7. Solvent(b, q) /\ b.bucket[y].status = "EXPIRED" => t <= Remaining(b.bucket[y])
  BY <1>1, <1>5 DEF Solvent
<1>8. Remaining(b.bucket[y]) \in Int
  BY BookIs, FreeIs
<1>9. QED
  BY <1>1, <1>4, <1>5, <1>6, <1>7, <1>8

\* One bucket when request r, by hand or not, changes what is used or reserved of it.
YearAgrees(b, c, q, q2, by, by2, r, y) ==
  /\ c.bucket[y].status = b.bucket[y].status
  /\ c.bucket[y].used = b.bucket[y].used
                          - Share(b.alloc, q, "APPROVED", y, r) + Share(c.alloc, q2, "APPROVED", y, r)
                          - by[y] + by2[y]
  /\ b.bucket[y].status # "EXPIRED" =>
       c.bucket[y].pending = b.bucket[y].pending
                               - Share(b.alloc, q, "PENDING", y, r) + Share(c.alloc, q2, "PENDING", y, r)

YearSolvent(b, c, q, q2, r, y) ==
  /\ Remaining(c.bucket[y]) >= 0
  /\ b.bucket[y].status = "EXPIRED" =>
       /\ c.bucket[y].pending = 0
       /\ Remaining(c.bucket[y]) >= Remaining(b.bucket[y])
                                      - Share(b.alloc, q, "PENDING", y, r)
                                      + Share(c.alloc, q2, "PENDING", y, r)

LEMMA RowAgrees ==
  ASSUME NEW b \in Book, NEW c \in Book, NEW q, NEW q2, NEW by \in [Years -> Int],
         NEW by2 \in [Years -> Int], NEW r \in LeaveRequests,
         Agrees(b, q, by), Beside(q, q2, r), Beside(b.alloc, c.alloc, r),
         ~Counts(q2[r]) => c.alloc[r] = NoAllocation,
         \A y \in Years : YearAgrees(b, c, q, q2, by, by2, r, y)
  PROVE  Agrees(c, q2, by2)
<1>1. PICK alloc \in Allocs, alloc2 \in Allocs : alloc = b.alloc /\ alloc2 = c.alloc
  BY DEF Book, Allocs
<1>2. ASSUME NEW y \in Years
      PROVE  /\ c.bucket[y].used = Total(alloc2, q2, "APPROVED", y) + by2[y]
             /\ c.bucket[y].status # "EXPIRED" =>
                  c.bucket[y].pending = Total(alloc2, q2, "PENDING", y)
  <2>1. YearAgrees(b, c, q, q2, by, by2, r, y)
    OBVIOUS
  <2>2. PICK n \in Nat : /\ Total(alloc, q, "APPROVED", y) = n + Share(alloc, q, "APPROVED", y, r)
                         /\ Total(alloc2, q2, "APPROVED", y) = n + Share(alloc2, q2, "APPROVED", y, r)
    BY <1>1, OneRowChanges
  <2>3. PICK m \in Nat : /\ Total(alloc, q, "PENDING", y) = m + Share(alloc, q, "PENDING", y, r)
                         /\ Total(alloc2, q2, "PENDING", y) = m + Share(alloc2, q2, "PENDING", y, r)
    BY <1>1, OneRowChanges
  <2>4. /\ b.bucket[y].used = Total(alloc, q, "APPROVED", y) + by[y]
        /\ b.bucket[y].status # "EXPIRED" => b.bucket[y].pending = Total(alloc, q, "PENDING", y)
    BY <1>1 DEF Agrees
  <2>5. by[y] \in Int /\ by2[y] \in Int
    OBVIOUS
  <2>6. PICK a1 \in Nat, a2 \in Nat, p1 \in Nat, p2 \in Nat :
          /\ a1 = Share(alloc, q, "APPROVED", y, r) /\ a2 = Share(alloc2, q2, "APPROVED", y, r)
          /\ p1 = Share(alloc, q, "PENDING", y, r) /\ p2 = Share(alloc2, q2, "PENDING", y, r)
    <3>1. \A status : Share(alloc, q, status, y, r) \in Nat /\ Share(alloc2, q2, status, y, r) \in Nat
      BY DEF Share, Allocs
    <3>2. QED
      BY <3>1
  <2>7. /\ c.bucket[y].status = b.bucket[y].status
        /\ c.bucket[y].used = b.bucket[y].used - a1 + a2 - by[y] + by2[y]
        /\ b.bucket[y].status # "EXPIRED" => c.bucket[y].pending = b.bucket[y].pending - p1 + p2
    BY <1>1, <2>1, <2>6 DEF YearAgrees
  <2>8. QED
    BY <2>2, <2>3, <2>4, <2>5, <2>6, <2>7
<1>3. ASSUME NEW s \in LeaveRequests, ~Counts(q2[s]) PROVE c.alloc[s] = NoAllocation
  BY <1>3 DEF Agrees, Beside
<1>4. QED
  BY <1>1, <1>2, <1>3 DEF Agrees

LEMMA RowSolvent ==
  ASSUME NEW b \in Book, NEW c \in Book, NEW q, NEW q2, NEW r \in LeaveRequests,
         Solvent(b, q), Beside(q, q2, r), Beside(b.alloc, c.alloc, r),
         Counts(q2[r]) => SumFunctionOnSet(c.alloc[r], Years) = Cardinality(q2[r].span.slots),
         \A y \in Years : c.bucket[y].status = b.bucket[y].status /\ YearSolvent(b, c, q, q2, r, y)
  PROVE  Solvent(c, q2)
<1>1. PICK alloc \in Allocs, alloc2 \in Allocs : alloc = b.alloc /\ alloc2 = c.alloc
  BY DEF Book, Allocs
<1>2. ASSUME NEW y \in Years, c.bucket[y].status = "EXPIRED"
      PROVE  /\ c.bucket[y].pending = 0
             /\ Total(alloc2, q2, "PENDING", y) <= Remaining(c.bucket[y])
  <2>1. YearSolvent(b, c, q, q2, r, y) /\ b.bucket[y].status = "EXPIRED"
    BY <1>2
  <2>2. PICK m \in Nat : /\ Total(alloc, q, "PENDING", y) = m + Share(alloc, q, "PENDING", y, r)
                         /\ Total(alloc2, q2, "PENDING", y) = m + Share(alloc2, q2, "PENDING", y, r)
    BY <1>1, OneRowChanges
  <2>3. PICK p1 \in Nat, p2 \in Nat :
           p1 = Share(alloc, q, "PENDING", y, r) /\ p2 = Share(alloc2, q2, "PENDING", y, r)
    <3>1. \A status : Share(alloc, q, status, y, r) \in Nat /\ Share(alloc2, q2, status, y, r) \in Nat
      BY DEF Share, Allocs
    <3>2. QED
      BY <3>1
  <2>4. Total(alloc, q, "PENDING", y) <= Remaining(b.bucket[y])
    BY <1>1, <2>1 DEF Solvent
  <2>5. PICK x1 \in Int, x2 \in Int : x1 = Remaining(b.bucket[y]) /\ x2 = Remaining(c.bucket[y])
    BY BookIs, FreeIs
  <2>6. c.bucket[y].pending = 0 /\ x2 >= x1 - p1 + p2
    BY <1>1, <2>1, <2>3, <2>5 DEF YearSolvent
  <2>7. QED
    BY <2>2, <2>3, <2>4, <2>5, <2>6
<1>3. ASSUME NEW s \in LeaveRequests, Counts(q2[s])
      PROVE  SumFunctionOnSet(c.alloc[s], Years) = Cardinality(q2[s].span.slots)
  BY <1>3 DEF Solvent, Beside
<1>4. NotOverdrawn(c)
  BY DEF NotOverdrawn, YearSolvent
<1>5. QED
  BY <1>1, <1>2, <1>3, <1>4 DEF Solvent

LEMMA AccrualFits ==
  ASSUME NEW b, GoodBook(b), NEW q, NEW by, Agrees(b, q, by),
         NEW start \in Days, NEW day \in Days, NEW c, c = Accrue(b, start, day)
  PROVE  /\ Agrees(c, q, by) /\ c.alloc = b.alloc
         /\ Solvent(b, q) => Solvent(c, q)
<1>1. CASE day < start
  BY <1>1 DEF Accrue
<1>2. CASE ~(day < start)
  <2>1. PICK bs : bs = [y \in Years |-> AccruedBucket(b.bucket[y], y, start, day)]
    OBVIOUS
  <2>2. c.bucket = bs /\ c.alloc = b.alloc
    <3>1. c = [b EXCEPT !.bucket = bs]
      BY <1>2, <2>1 DEF Accrue
    <3>2. QED
      BY <3>1 DEF GoodBook, Book
  <2>3. ASSUME NEW y \in Years, NEW x \in Bucket, x = b.bucket[y], NEW z, z = c.bucket[y]
        PROVE  /\ z.used = x.used /\ (z.status # "EXPIRED" => x.status # "EXPIRED" /\ z.pending = x.pending)
               /\ Remaining(x) >= 0 => Remaining(z) >= 0
               /\ Remaining(x) >= 0 /\ z.status = "EXPIRED" /\ x.status # "EXPIRED" =>
                    z.pending = 0 /\ x.pending <= Remaining(z)
               /\ x.status = "EXPIRED" => z.pending = x.pending /\ Remaining(x) <= Remaining(z)
               /\ z \in Bucket
    <3>1. x.status = "NONE" => x = NoBucket
      BY <2>3 DEF GoodBook, Blank, IsBlank
    <3>2. z = AccruedBucket(x, y, start, day)
      BY <2>1, <2>2, <2>3
    <3>3. start \in Int /\ day \in Int /\ start <= day
      BY <1>2 DEF Days
    <3>4. QED
      BY <3>1, <3>2, <3>3, AccruedBucketIs DEF Advances
  <2>4. \A y \in Years : b.bucket[y] \in Bucket
    BY BookIs DEF GoodBook
  <2>5. Agrees(c, q, by)
    BY <2>2, <2>3, <2>4 DEF Agrees
  <2>6. ASSUME Solvent(b, q) PROVE Solvent(c, q)
    <3>1. NotOverdrawn(c)
      BY <2>3, <2>4, <2>6 DEF Solvent, NotOverdrawn
    <3>2. ASSUME NEW y \in Years, c.bucket[y].status = "EXPIRED"
          PROVE  /\ c.bucket[y].pending = 0
                 /\ Total(c.alloc, q, "PENDING", y) <= Remaining(c.bucket[y])
      <4>1. PICK x \in Bucket, z \in Bucket : x = b.bucket[y] /\ z = c.bucket[y]
        BY <2>3, <2>4
      <4>2. PICK t : t = Total(b.alloc, q, "PENDING", y) /\ t = Total(c.alloc, q, "PENDING", y)
        BY <2>2
      <4>3. Remaining(x) \in Int /\ Remaining(z) \in Int /\ Remaining(x) >= 0
        BY <2>6, <4>1, FreeIs DEF Solvent, NotOverdrawn
      <4>4. CASE x.status = "EXPIRED"
        <5>1. x.pending = 0 /\ t <= Remaining(x)
          BY <2>6, <4>1, <4>2, <4>4 DEF Solvent
        <5>2. z.pending = x.pending /\ Remaining(x) <= Remaining(z)
          BY <2>3, <4>1, <4>4
        <5>3. t \in Int
          BY <4>2, TotalIsNat DEF GoodBook
        <5>4. QED
          BY <4>1, <4>2, <4>3, <5>1, <5>2, <5>3
      <4>5. CASE x.status # "EXPIRED"
        <5>1. z.pending = 0 /\ x.pending <= Remaining(z)
          BY <2>3, <3>2, <4>1, <4>3, <4>5
        <5>2. x.pending = t
          BY <4>1, <4>2, <4>5 DEF Agrees
        <5>3. QED
          BY <4>1, <4>2, <5>1, <5>2
      <4>6. QED
        BY <4>4, <4>5
    <3>3. QED
      BY <2>2, <2>6, <3>1, <3>2 DEF Solvent
  <2>7. QED
    BY <2>2, <2>5, <2>6
<1>3. QED
  BY <1>1, <1>2

\* Bucket x after t of its days were taken into the column.
Taken(z, x, t, column) ==
  /\ z \in Bucket /\ z.status = x.status
  /\ Remaining(z) = Remaining(x) - t
  /\ z.used = IF column = "used" THEN x.used + t ELSE x.used
  /\ z.pending = IF column = "pending" THEN x.pending + t ELSE x.pending

\* The structure of a charge.
LEMMA ChargeIs ==
  ASSUME NEW b \in Book, NEW r \in LeaveRequests, b.alloc[r] = NoAllocation,
         NEW n \in Nat, NEW column \in {"used", "pending"}, NEW c, c = Charge(b, r, n, column),
         NEW take, take = WithOverdraw(b, AllocateFifo(b, n), Shortfall(b, n))
  PROVE  /\ Beside(b.alloc, c.alloc, r) /\ c.alloc[r] = take
         /\ \A y \in Years : Taken(c.bucket[y], b.bucket[y], take[y], column)
<1>1. PICK as : as = [b.alloc EXCEPT ![r] = [y \in Years |-> IF take[y] > 0 THEN take[y] ELSE @[y]]]
  OBVIOUS
<1>2. PICK bs : bs = [y \in Years |-> [b.bucket[y] EXCEPT ![column] = @ + take[y]]]
  OBVIOUS
<1>3. c = [bucket |-> bs, alloc |-> as]
  BY <1>1, <1>2 DEF Charge
<1>4. take \in [Years -> Nat]
  BY TakeIs
<1>5. PICK a \in [Years -> Nat] : a = b.alloc[r] /\ \A y \in Years : a[y] = 0
  BY BookIs DEF NoAllocation
<1>6. PICK row \in [Years -> Nat] : row = [y \in Years |-> IF take[y] > 0 THEN take[y] ELSE a[y]]
  BY <1>4
<1>7. row = take
  <2>1. \A y \in Years : row[y] = take[y]
    BY <1>4, <1>5, <1>6
  <2>2. QED
    BY <1>4, <2>1
<1>8. as = [b.alloc EXCEPT ![r] = row]
  BY <1>1, <1>5, <1>6 DEF Book
<1>9. as[r] = row /\ Beside(b.alloc, as, r)
  BY <1>8 DEF Book, Beside
<1>10. c.alloc = as /\ c.bucket = bs
  BY <1>3
<1>11. Beside(b.alloc, c.alloc, r) /\ c.alloc[r] = take
  BY <1>7, <1>9, <1>10
<1>12. ASSUME NEW y \in Years PROVE Taken(c.bucket[y], b.bucket[y], take[y], column)
  <2>1. PICK x \in Bucket : x = b.bucket[y]
    BY BookIs
  <2>2. PICK t \in Nat : t = take[y]
    BY <1>4
  <2>3. bs[y] = [x EXCEPT ![column] = @ + t]
    BY <1>2, <2>1, <2>2
  <2>4. /\ bs[y] \in Bucket /\ bs[y].status = x.status /\ bs[y].expired = x.expired
        /\ Remaining(bs[y]) = Remaining(x) - t /\ (t = 0 => bs[y] = x)
        /\ bs[y].granted = x.granted
        /\ bs[y].used = IF column = "used" THEN x.used + t ELSE x.used
        /\ bs[y].pending = IF column = "pending" THEN x.pending + t ELSE x.pending
    BY <2>1, <2>2, <2>3, TakenBucket
  <2>5. QED
    BY <1>10, <2>1, <2>2, <2>4 DEF Taken
<1>13. QED
  BY <1>11, <1>12

LEMMA ChargeFits ==
  ASSUME NEW b \in Book, NEW q, NEW q2, NEW by \in [Years -> Int], Agrees(b, q, by),
         NEW r \in LeaveRequests, b.alloc[r] = NoAllocation, Beside(q, q2, r), Counts(q2[r]),
         NEW n \in Nat, NEW column \in {"used", "pending"},
         q2[r].status = IF column = "used" THEN "APPROVED" ELSE "PENDING",
         NEW c, c = Charge(b, r, n, column)
  PROVE  /\ Agrees(c, q2, by)
         /\ (/\ Solvent(b, q) /\ Shortfall(b, n) = 0
             /\ n = Cardinality(q2[r].span.slots)) => Solvent(c, q2)
<1>1. PICK take : take = WithOverdraw(b, AllocateFifo(b, n), Shortfall(b, n))
  OBVIOUS
<1>2. /\ take \in [Years -> Nat]
      /\ \A y \in Years : b.bucket[y].status # "OPEN" => take[y] = 0
      /\ Shortfall(b, n) = 0 => \A y \in Years : take[y] <= Free(b.bucket[y])
  BY <1>1, TakeIs
<1>3. /\ Beside(b.alloc, c.alloc, r) /\ c.alloc[r] = take
      /\ \A y \in Years : Taken(c.bucket[y], b.bucket[y], take[y], column)
  BY <1>1, ChargeIs
<1>4. c \in Book
  BY ChargeKeeps
<1>5. ASSUME NEW y \in Years, NEW x \in Bucket, x = b.bucket[y], NEW t \in Nat, t = take[y]
      PROVE  /\ YearAgrees(b, c, q, q2, by, by, r, y) /\ c.bucket[y].status = b.bucket[y].status
             /\ Solvent(b, q) /\ Shortfall(b, n) = 0 => YearSolvent(b, c, q, q2, r, y)
  <2>1. PICK z : z = c.bucket[y]
    OBVIOUS
  <2>2. /\ z \in Bucket /\ z.status = x.status
        /\ Remaining(z) = Remaining(x) - t
        /\ z.used = IF column = "used" THEN x.used + t ELSE x.used
        /\ z.pending = IF column = "pending" THEN x.pending + t ELSE x.pending
    BY <1>3, <1>5, <2>1 DEF Taken
  <2>3. \A status : Share(b.alloc, q, status, y, r) = 0
    BY DEF Share, NoAllocation
  <2>4. /\ Share(c.alloc, q2, "APPROVED", y, r) = IF column = "used" THEN t ELSE 0
        /\ Share(c.alloc, q2, "PENDING", y, r) = IF column = "pending" THEN t ELSE 0
    BY <1>3, <1>5 DEF Share
  <2>5. x.used \in Nat /\ x.pending \in Nat /\ by[y] \in Int
    BY DEF Bucket
  <2>6. YearAgrees(b, c, q, q2, by, by, r, y)
    BY <1>5, <2>1, <2>2, <2>3, <2>4, <2>5 DEF YearAgrees
  <2>7. ASSUME Solvent(b, q), Shortfall(b, n) = 0 PROVE YearSolvent(b, c, q, q2, r, y)
    <3>1. Remaining(x) \in Int /\ Remaining(x) >= 0 /\ Free(x) = Remaining(x)
      BY <1>5, <2>7, FreeIs DEF Solvent, NotOverdrawn
    <3>2. t <= Free(x)
      BY <1>2, <1>5, <2>7
    <3>3. x.status = "EXPIRED" => t = 0 /\ x.pending = 0
      BY <1>2, <1>5, <2>7 DEF Solvent
    <3>4. PICK x1 \in Nat, z1 \in Int :
            x1 = Remaining(x) /\ z1 = Remaining(z) /\ z1 = x1 - t /\ t <= x1
      BY <2>2, <3>1, <3>2
    <3>5. z1 \in Int /\ z1 >= 0
      BY <3>4
    <3>6. x.status = "EXPIRED" =>
            z.pending = 0 /\ z1 >= x1 - 0 + (IF column = "pending" THEN t ELSE 0)
      BY <2>2, <3>3, <3>4
    <3>7. QED
      BY <1>5, <2>1, <2>3, <2>4, <3>4, <3>5, <3>6 DEF YearSolvent
  <2>8. QED
    BY <1>5, <2>1, <2>2, <2>6, <2>7
<1>6. \A y \in Years : b.bucket[y] \in Bucket /\ take[y] \in Nat
  BY <1>2, BookIs
<1>7. Agrees(c, q2, by)
  <2>1. \A y \in Years : YearAgrees(b, c, q, q2, by, by, r, y)
    BY <1>5, <1>6
  <2>2. QED
    BY <1>3, <1>4, <2>1, RowAgrees
<1>8. ASSUME Solvent(b, q), Shortfall(b, n) = 0, n = Cardinality(q2[r].span.slots)
      PROVE  Solvent(c, q2)
  <2>1. \A y \in Years : c.bucket[y].status = b.bucket[y].status /\ YearSolvent(b, c, q, q2, r, y)
    BY <1>5, <1>6, <1>8
  <2>2. SumFunctionOnSet(c.alloc[r], Years) = Cardinality(q2[r].span.slots)
    BY <1>1, <1>3, <1>8, TakeAddsUp
  <2>3. QED
    BY <1>3, <1>4, <1>8, <2>1, <2>2, RowSolvent
<1>9. QED
  BY <1>7, <1>8

LEMMA ReleaseFits ==
  ASSUME NEW b \in Book, NEW q, NEW q2, NEW by \in [Years -> Int], Agrees(b, q, by),
         NEW r \in LeaveRequests, q[r].status = "PENDING", Beside(q, q2, r),
         q2[r].status \notin {"PENDING", "APPROVED"}, NEW c, c = Release(b, r)
  PROVE  /\ Agrees(c, q2, by)
         /\ Solvent(b, q) => Solvent(c, q2)
<1>1. c \in Book
  BY ReleaseKeeps
<1>2. /\ Beside(b.alloc, c.alloc, r) /\ c.alloc[r] = NoAllocation
      /\ \A y \in Years : c.bucket[y] = Released(b.bucket[y], b.alloc[r][y])
  BY DEF Release, Beside, Book
<1>3. ASSUME NEW y \in Years, NEW x \in Bucket, x = b.bucket[y], NEW k \in Nat, k = b.alloc[r][y]
      PROVE  /\ YearAgrees(b, c, q, q2, by, by, r, y) /\ c.bucket[y].status = b.bucket[y].status
             /\ Solvent(b, q) => YearSolvent(b, c, q, q2, r, y)
  <2>1. PICK z : z = c.bucket[y] /\ z = Released(x, k)
    BY <1>2, <1>3
  <2>2. /\ z \in Bucket /\ z.status = x.status /\ Remaining(z) >= Remaining(x)
        /\ z.used = x.used
        /\ z.pending = IF x.pending >= k THEN x.pending - k ELSE 0
    BY <2>1, ReleasedBucket
  <2>3. \A status : Share(c.alloc, q2, status, y, r) = 0
    BY <1>2 DEF Share, NoAllocation
  <2>4. Share(b.alloc, q, "APPROVED", y, r) = 0 /\ Share(b.alloc, q, "PENDING", y, r) = k
    BY <1>3 DEF Share
  <2>5. x.used \in Nat /\ x.pending \in Nat /\ by[y] \in Int
    BY DEF Bucket
  <2>6. x.status # "EXPIRED" => k <= x.pending
    BY <1>3, HoldsEnough
  <2>7. YearAgrees(b, c, q, q2, by, by, r, y)
    BY <1>3, <2>1, <2>2, <2>3, <2>4, <2>5, <2>6 DEF YearAgrees
  <2>8. ASSUME Solvent(b, q) PROVE YearSolvent(b, c, q, q2, r, y)
    <3>1. Remaining(x) \in Int /\ Remaining(x) >= 0 /\ Remaining(z) \in Int
      BY <1>3, <2>2, <2>8, FreeIs DEF Solvent, NotOverdrawn
    <3>2. x.status = "EXPIRED" => x.pending = 0
      BY <1>3, <2>8 DEF Solvent
    <3>3. QED
      BY <1>3, <2>1, <2>2, <2>3, <2>4, <2>5, <3>1, <3>2 DEF YearSolvent
  <2>9. QED
    BY <1>3, <2>1, <2>2, <2>7, <2>8
<1>4. \A y \in Years : b.bucket[y] \in Bucket /\ b.alloc[r][y] \in Nat
  BY BookIs
<1>5. Agrees(c, q2, by)
  <2>1. \A y \in Years : YearAgrees(b, c, q, q2, by, by, r, y)
    BY <1>3, <1>4
  <2>2. QED
    BY <1>1, <1>2, <2>1, RowAgrees
<1>6. ASSUME Solvent(b, q) PROVE Solvent(c, q2)
  <2>1. \A y \in Years : c.bucket[y].status = b.bucket[y].status /\ YearSolvent(b, c, q, q2, r, y)
    BY <1>3, <1>4, <1>6
  <2>2. ~Counts(q2[r])
    BY DEF Counts
  <2>3. QED
    BY <1>1, <1>2, <1>6, <2>1, <2>2, RowSolvent
<1>7. QED
  BY <1>5, <1>6

LEMMA ConsumeFits ==
  ASSUME NEW b \in Book, NEW q, NEW q2, NEW by \in [Years -> Int], Agrees(b, q, by),
         NEW r \in LeaveRequests, q[r].status = "PENDING", Beside(q, q2, r),
         q2[r].status = "APPROVED", q2[r].span = q[r].span, q[r].span.tracked,
         b.alloc[r] # NoAllocation, NEW n, NEW start, NEW day,
         NEW c \in Book, c = ConsumeReserved(b, r, n, start, day)
  PROVE  /\ Agrees(c, q2, by)
         /\ Solvent(b, q) => Solvent(c, q2)
<1>1. Counts(q[r]) /\ Counts(q2[r])
  BY DEF Counts
<1>2. /\ c.alloc = b.alloc
      /\ \A y \in Years : c.bucket[y] = IF b.alloc[r][y] > 0 THEN Consumed(b.bucket[y], b.alloc[r][y])
                                        ELSE b.bucket[y]
  BY DEF ConsumeReserved, Book
<1>3. ASSUME NEW y \in Years, NEW x \in Bucket, x = b.bucket[y], NEW k \in Nat, k = b.alloc[r][y]
      PROVE  /\ YearAgrees(b, c, q, q2, by, by, r, y) /\ c.bucket[y].status = b.bucket[y].status
             /\ Solvent(b, q) => YearSolvent(b, c, q, q2, r, y)
  <2>1. PICK z : z = c.bucket[y] /\ z = IF k > 0 THEN Consumed(x, k) ELSE x
    BY <1>2, <1>3
  <2>2. x.used \in Nat /\ x.pending \in Nat /\ by[y] \in Int /\ x.granted \in Nat /\ x.expired \in Nat
    BY DEF Bucket
  <2>3. /\ z \in Bucket /\ z.status = x.status /\ z.expired = x.expired /\ z.granted = x.granted
        /\ z.used = x.used + k
        /\ z.pending = IF x.pending >= k THEN x.pending - k ELSE 0
    <3>1. CASE k > 0
      <4>1. z = Consumed(x, k)
        BY <2>1, <3>1
      <4>2. QED
        BY <4>1, ConsumedBucket
    <3>2. CASE k = 0
      BY <2>1, <2>2, <3>2
    <3>3. QED
      BY <3>1, <3>2
  <2>4. Share(b.alloc, q, "APPROVED", y, r) = 0 /\ Share(b.alloc, q, "PENDING", y, r) = k
    BY <1>3 DEF Share
  <2>5. Share(c.alloc, q2, "APPROVED", y, r) = k /\ Share(c.alloc, q2, "PENDING", y, r) = 0
    BY <1>2, <1>3 DEF Share
  <2>6. x.status # "EXPIRED" => k <= x.pending
    BY <1>3, HoldsEnough
  <2>7. YearAgrees(b, c, q, q2, by, by, r, y)
    BY <1>3, <2>1, <2>2, <2>3, <2>4, <2>5, <2>6 DEF YearAgrees
  <2>8. ASSUME Solvent(b, q) PROVE YearSolvent(b, c, q, q2, r, y)
    <3>1. Remaining(x) >= 0
      BY <1>3, <2>8 DEF Solvent, NotOverdrawn
    <3>2. x.status = "EXPIRED" => x.pending = 0 /\ k <= Remaining(x)
      BY <1>3, <2>8, HoldsEnough DEF Solvent
    <3>3. PICK x1, z1 : /\ x1 = Remaining(x) /\ z1 = Remaining(z)
                        /\ x1 = x.granted - x.used - x.pending - x.expired
                        /\ z1 = x.granted - (x.used + k) - z.pending - x.expired
      BY <2>3 DEF Remaining
    <3>4. (z1 >= 0) /\ (x.status = "EXPIRED" => z.pending = 0 /\ z1 >= x1 - k + 0)
      BY <2>2, <2>3, <2>6, <3>1, <3>2, <3>3
    <3>5. QED
      BY <1>3, <2>1, <2>4, <2>5, <3>3, <3>4 DEF YearSolvent
  <2>9. QED
    BY <1>3, <2>1, <2>3, <2>7, <2>8
<1>4. \A y \in Years : b.bucket[y] \in Bucket /\ b.alloc[r][y] \in Nat
  BY BookIs
<1>5. Beside(b.alloc, c.alloc, r)
  BY <1>2 DEF Beside
<1>6. Agrees(c, q2, by)
  <2>1. \A y \in Years : YearAgrees(b, c, q, q2, by, by, r, y)
    BY <1>3, <1>4
  <2>2. QED
    BY <1>1, <1>5, <2>1, RowAgrees
<1>7. ASSUME Solvent(b, q) PROVE Solvent(c, q2)
  <2>1. \A y \in Years : c.bucket[y].status = b.bucket[y].status /\ YearSolvent(b, c, q, q2, r, y)
    BY <1>3, <1>4, <1>7
  <2>2. SumFunctionOnSet(c.alloc[r], Years) = Cardinality(q2[r].span.slots)
    BY <1>1, <1>2, <1>7 DEF Solvent
  <2>3. QED
    BY <1>5, <1>7, <2>1, <2>2, RowSolvent
<1>8. QED
  BY <1>6, <1>7

\* An adjustment changes what is granted or used of open buckets only.
Adjusted(z, x) ==
  /\ z.status = x.status /\ z.pending = x.pending
  /\ x.status # "OPEN" => z = x

LEMMA AdjustIs ==
  ASSUME NEW b \in Book, NEW n \in Int, CanAdjust(b, n), NEW c, c = Adjust(b, n)
  PROVE  c.alloc = b.alloc /\ \A y \in Years : Adjusted(c.bucket[y], b.bucket[y])
<1>1. PICK fifo : fifo = AllocateFifo(b, -n)
  OBVIOUS
<1>2. \A y \in Years : fifo[y] \in Nat /\ (b.bucket[y].status # "OPEN" => fifo[y] = 0)
  <2>1. \A y \in Years : Free(b.bucket[y]) \in Nat
    BY BookIs, FreeIs
  <2>2. QED
    BY <1>1, <2>1, FifoGives
<1>3. PICK bs : bs = [y \in Years |->
           IF n > 0
             THEN IF y = Max(OpenYears(b)) THEN [b.bucket[y] EXCEPT !.granted = @ + n] ELSE b.bucket[y]
             ELSE [b.bucket[y] EXCEPT !.used = @ + fifo[y]]]
  OBVIOUS
<1>4. n > 0 => Max(OpenYears(b)) \in OpenYears(b)
  <2>1. OpenYears(b) \in SUBSET Int /\ IsFiniteSet(OpenYears(b))
    <3>1. OpenYears(b) \in SUBSET Years
      BY DEF OpenYears
    <3>2. IsFiniteSet(OpenYears(b))
      BY <3>1, YearsAre, FS_Subset
    <3>3. OpenYears(b) \in SUBSET Int
      <4>1. \A y \in Years : y \in Int
        BY YearsAre
      <4>2. QED
        BY <3>1, <4>1
    <3>4. QED
      BY <3>2, <3>3
  <2>2. QED
    BY <2>1, MaxIsIn DEF CanAdjust
<1>5. ASSUME NEW y \in Years PROVE Adjusted(bs[y], b.bucket[y])
  <2>1. PICK x \in Bucket : x = b.bucket[y]
    BY BookIs
  <2>2. CASE n > 0 /\ y = Max(OpenYears(b))
    <3>1. x.status = "OPEN"
      BY <1>4, <2>1, <2>2 DEF OpenYears
    <3>2. bs[y] = [x EXCEPT !.granted = @ + n]
      BY <1>3, <2>1, <2>2
    <3>3. bs[y].status = x.status /\ bs[y].pending = x.pending
      BY <3>2 DEF Bucket
    <3>4. QED
      BY <2>1, <3>1, <3>3 DEF Adjusted
  <2>3. CASE n > 0 /\ y # Max(OpenYears(b))
    BY <1>3, <2>3 DEF Adjusted
  <2>4. CASE ~(n > 0)
    <3>1. PICK t \in Nat : t = fifo[y] /\ (x.status # "OPEN" => t = 0)
      BY <1>2, <2>1
    <3>2. bs[y] = [x EXCEPT !["used"] = @ + t]
      BY <1>3, <2>1, <2>4, <3>1
    <3>3. /\ bs[y].status = x.status /\ (t = 0 => bs[y] = x)
          /\ bs[y].pending = IF "used" = "pending" THEN x.pending + t ELSE x.pending
      BY <3>2, TakenBucket
    <3>4. QED
      BY <2>1, <3>1, <3>3 DEF Adjusted
  <2>5. QED
    BY <2>2, <2>3, <2>4
<1>6. c.bucket = bs /\ c.alloc = b.alloc
  <2>1. c = [b EXCEPT !.bucket = bs]
    BY <1>1, <1>3 DEF Adjust
  <2>2. QED
    BY <2>1 DEF Book
<1>7. QED
  BY <1>5, <1>6

\* What an adjustment takes is entered by hand.
Entered(b, c, by) == [y \in Years |-> by[y] + c.bucket[y].used - b.bucket[y].used]

LEMMA AdjustFits ==
  ASSUME NEW b \in Book, NEW q, NEW by \in [Years -> Int], Agrees(b, q, by),
         NEW n \in Int, CanAdjust(b, n), NEW c, c = Adjust(b, n)
  PROVE  /\ Agrees(c, q, Entered(b, c, by))
         /\ Solvent(b, q) => Solvent(c, q)
<1>1. c \in Book /\ (NotOverdrawn(b) => NotOverdrawn(c))
  BY AdjustKeeps
<1>2. c.alloc = b.alloc /\ \A y \in Years : Adjusted(c.bucket[y], b.bucket[y])
  BY AdjustIs
<1>3. ASSUME NEW y \in Years
      PROVE  c.bucket[y].used = Total(b.alloc, q, "APPROVED", y) + Entered(b, c, by)[y]
  <2>1. PICK x \in Nat, z \in Nat, k \in Int : x = b.bucket[y].used /\ z = c.bucket[y].used /\ k = by[y]
    BY <1>1, BookIs DEF Bucket
  <2>2. PICK t \in Nat : t = Total(b.alloc, q, "APPROVED", y)
    BY TotalIsNat
  <2>3. x = t + k
    BY <2>1, <2>2 DEF Agrees
  <2>4. Entered(b, c, by)[y] = k + z - x
    BY <2>1 DEF Entered
  <2>5. QED
    BY <2>1, <2>2, <2>3, <2>4
<1>4. \A y \in Years : c.bucket[y].status # "EXPIRED" =>
        c.bucket[y].pending = Total(c.alloc, q, "PENDING", y)
  BY <1>2 DEF Adjusted, Agrees
<1>5. Agrees(c, q, Entered(b, c, by))
  BY <1>2, <1>3, <1>4 DEF Agrees
<1>6. ASSUME NEW y \in Years, c.bucket[y].status = "EXPIRED"
      PROVE  b.bucket[y].status = "EXPIRED" /\ c.bucket[y] = b.bucket[y]
  BY <1>2, <1>6 DEF Adjusted
<1>7. Solvent(b, q) => Solvent(c, q)
  BY <1>1, <1>2, <1>6 DEF Solvent
<1>8. QED
  BY <1>5, <1>7

\* A request that does not count before or after holds nothing.
LEMMA UntrackedFits ==
  ASSUME NEW b \in Book, NEW q, NEW q2, NEW by \in [Years -> Int], Agrees(b, q, by),
         NEW r \in LeaveRequests, ~Counts(q[r]), ~Counts(q2[r]), Beside(q, q2, r)
  PROVE  /\ Agrees(b, q2, by)
         /\ Solvent(b, q) => Solvent(b, q2)
<1>1. b.alloc[r] = NoAllocation
  BY DEF Agrees
<1>2. Beside(b.alloc, b.alloc, r)
  BY DEF Beside
<1>3. ASSUME NEW y \in Years
      PROVE  /\ YearAgrees(b, b, q, q2, by, by, r, y)
             /\ Solvent(b, q) => YearSolvent(b, b, q, q2, r, y)
  <2>1. \A rows, status : Share(b.alloc, rows, status, y, r) = 0
    BY <1>1 DEF Share, NoAllocation
  <2>2. PICK x \in Bucket : x = b.bucket[y]
    BY BookIs
  <2>3. x.used \in Nat /\ x.pending \in Nat /\ by[y] \in Int /\ Remaining(x) \in Int
    BY FreeIs DEF Bucket
  <2>4. YearAgrees(b, b, q, q2, by, by, r, y)
    BY <2>1, <2>2, <2>3 DEF YearAgrees
  <2>5. ASSUME Solvent(b, q) PROVE YearSolvent(b, b, q, q2, r, y)
    <3>1. Remaining(x) >= 0 /\ (x.status = "EXPIRED" => x.pending = 0)
      BY <2>2, <2>5 DEF Solvent, NotOverdrawn
    <3>2. QED
      BY <2>1, <2>2, <2>3, <3>1 DEF YearSolvent
  <2>6. QED
    BY <2>4, <2>5
<1>4. Agrees(b, q2, by)
  BY <1>1, <1>2, <1>3, RowAgrees
<1>5. ASSUME Solvent(b, q) PROVE Solvent(b, q2)
  <2>1. \A y \in Years : b.bucket[y].status = b.bucket[y].status /\ YearSolvent(b, b, q, q2, r, y)
    BY <1>3, <1>5
  <2>2. QED
    BY <1>2, <1>5, <2>1, RowSolvent
<1>6. QED
  BY <1>4, <1>5

\* The column in which a row is held, and what it asks for.
Columns(held, size, q) ==
  \A r \in LeaveRequests :
    /\ size[r] = Cardinality(q[r].span.slots)
    /\ held[r] # "none" =>
         /\ Counts(q[r]) /\ size[r] > 0
         /\ q[r].status = IF held[r] = "used" THEN "APPROVED" ELSE "PENDING"

LEMMA AllocatedWhenSolvent ==
  ASSUME NEW b, NEW q, Solvent(b, q), NEW r \in LeaveRequests, Counts(q[r]),
         Cardinality(q[r].span.slots) > 0
  PROVE  b.alloc[r] # NoAllocation
<1>1. \A y \in Years : NoAllocation[y] = 0
  BY DEF NoAllocation
<1>2. SumFunctionOnSet(NoAllocation, Years) = 0
  BY <1>1, YearsAre, SumOfZeros
<1>3. SumFunctionOnSet(b.alloc[r], Years) = Cardinality(q[r].span.slots)
  BY DEF Solvent
<1>4. QED
  BY <1>2, <1>3

LEMMA SyncFits ==
  ASSUME NEW b \in Book, NEW q, NEW by \in [Years -> Int], Agrees(b, q, by),
         NEW held \in [LeaveRequests -> {"none", "pending", "used"}],
         NEW size \in [LeaveRequests -> Nat], NEW first \in [LeaveRequests -> Int],
         Columns(held, size, q)
  PROVE  /\ Agrees(Sync(b, held, size, first), q, by)
         /\ Solvent(b, q) => Sync(b, held, size, first) = b
<1>1. \A r \in LeaveRequests : first[r] \in Int
  OBVIOUS
<1>2. PICK B : B = {c \in Book : Agrees(c, q, by)}
  OBVIOUS
<1>3. ASSUME NEW c \in B, NEW r \in LeaveRequests PROVE SyncOne(c, r, held, size) \in B
  <2>1. CASE held[r] = "none" \/ c.alloc[r] # NoAllocation
    BY <2>1 DEF SyncOne
  <2>2. CASE ~(held[r] = "none" \/ c.alloc[r] # NoAllocation)
    <3>1. PICK n \in Nat, column \in {"used", "pending"} : n = size[r] /\ column = held[r]
      BY <2>2
    <3>2. PICK d : d = Charge(c, r, n, column) /\ d = SyncOne(c, r, held, size)
      BY <2>2, <3>1 DEF SyncOne
    <3>3. c \in Book /\ Agrees(c, q, by)
      BY <1>2
    <3>4. d \in Book
      BY <3>2, <3>3, ChargeKeeps
    <3>5. Counts(q[r]) /\ q[r].status = IF column = "used" THEN "APPROVED" ELSE "PENDING"
      BY <2>2, <3>1 DEF Columns
    <3>6. Beside(q, q, r)
      BY DEF Beside
    <3>7. c.alloc[r] = NoAllocation
      BY <2>2
    <3>8. Agrees(d, q, by)
      BY <3>2, <3>3, <3>5, <3>6, <3>7, ChargeFits
    <3>9. QED
      BY <1>2, <3>2, <3>4, <3>8
  <2>3. QED
    BY <2>1, <2>2
<1>4. Sync(b, held, size, first) \in B
  <2>1. b \in B
    BY <1>2
  <2>2. QED
    BY <1>1, <1>3, <2>1, SyncStaysIn
<1>5. ASSUME Solvent(b, q) PROVE Sync(b, held, size, first) = b
  <2>1. ASSUME NEW r \in LeaveRequests PROVE SyncOne(b, r, held, size) = b
    <3>1. held[r] # "none" => b.alloc[r] # NoAllocation
      BY <1>5, AllocatedWhenSolvent DEF Columns
    <3>2. QED
      BY <3>1 DEF SyncOne
  <2>2. PICK S : S = {b}
    OBVIOUS
  <2>3. b \in S /\ \A c \in S : \A r \in LeaveRequests : SyncOne(c, r, held, size) \in S
    BY <2>1, <2>2
  <2>4. Sync(b, held, size, first) \in S
    BY <1>1, <2>3, SyncStaysIn
  <2>5. QED
    BY <2>2, <2>4
<1>6. QED
  BY <1>2, <1>4, <1>5

LEMMA SettleFits ==
  ASSUME NEW b, GoodBook(b), NEW q, NEW by \in [Years -> Int], Agrees(b, q, by),
         NEW start \in Days, NEW day \in Days,
         NEW held \in [LeaveRequests -> {"none", "pending", "used"}],
         NEW size \in [LeaveRequests -> Nat], NEW first \in [LeaveRequests -> Int],
         Columns(held, size, q), NEW c, c = Settle(b, held, size, first, start, day)
  PROVE  /\ Agrees(c, q, by)
         /\ Solvent(b, q) => Solvent(c, q)
<1>1. PICK d : d = Accrue(b, start, day)
  OBVIOUS
<1>2. GoodBook(d)
  BY <1>1, AccrualIsGood
<1>3. Agrees(d, q, by) /\ (Solvent(b, q) => Solvent(d, q))
  BY <1>1, AccrualFits
<1>4. PICK e : e = Sync(d, held, size, first)
  OBVIOUS
<1>5. d \in Book /\ e \in Book /\ Steady(d, e)
  BY <1>2, <1>4, SyncIsSteady DEF GoodBook
<1>6. GoodBook(e)
  BY <1>2, <1>5, SteadyIsGood
<1>7. Agrees(e, q, by) /\ (Solvent(d, q) => e = d)
  BY <1>3, <1>4, <1>5, SyncFits
<1>8. c = Accrue(e, start, day)
  BY <1>1, <1>4 DEF Settle
<1>9. Agrees(c, q, by) /\ (Solvent(e, q) => Solvent(c, q))
  BY <1>6, <1>7, <1>8, AccrualFits
<1>10. QED
  BY <1>3, <1>7, <1>9

\* An empty book agrees with any requests, as long as nothing was entered by hand.
LEMMA EmptyAgrees ==
  ASSUME NEW q, NEW by, \A y \in Years : by[y] = 0
  PROVE  /\ Agrees(EmptyBook, q, by)
         /\ (\A r \in LeaveRequests : ~Counts(q[r])) => Solvent(EmptyBook, q)
<1>1. /\ \A y \in Years : EmptyBook.bucket[y] = NoBucket
      /\ \A r \in LeaveRequests : EmptyBook.alloc[r] = NoAllocation
  BY DEF EmptyBook
<1>2. ASSUME NEW status, NEW y \in Years PROVE Total(EmptyBook.alloc, q, status, y) = 0
  <2>1. PICK f : f = [r \in LeaveRequests |-> EmptyBook.alloc[r][y]]
    OBVIOUS
  <2>2. PICK S \in SUBSET LeaveRequests : S = {r \in LeaveRequests : q[r].status = status}
    OBVIOUS
  <2>3. \A r \in S : f[r] = 0
    BY <1>1, <2>1 DEF NoAllocation
  <2>4. IsFiniteSet(S)
    BY FiniteAssumption, FS_Subset
  <2>5. SumFunctionOnSet(f, S) = 0
    BY <2>3, <2>4, SumOfZeros
  <2>6. QED
    BY <2>1, <2>2, <2>5 DEF Total
<1>3. Agrees(EmptyBook, q, by)
  BY <1>1, <1>2 DEF Agrees, NoBucket
<1>4. Remaining(NoBucket) = 0
  BY DEF Remaining, NoBucket
<1>5. ASSUME \A r \in LeaveRequests : ~Counts(q[r]) PROVE Solvent(EmptyBook, q)
  BY <1>1, <1>4, <1>5 DEF Solvent, NotOverdrawn, NoBucket
<1>6. QED
  BY <1>3, <1>5

LEMMA RebuildFits ==
  ASSUME NEW q, NEW by \in [Years -> Int], \A y \in Years : by[y] = 0,
         NEW start \in Days, NEW day \in Days,
         NEW held \in [LeaveRequests -> {"none", "pending", "used"}],
         NEW size \in [LeaveRequests -> Nat], NEW first \in [LeaveRequests -> Int],
         Columns(held, size, q), NEW c, c = Rebuild(held, size, first, start, day)
  PROVE  Agrees(c, q, by)
<1>1. PICK d : d = Accrue(EmptyBook, start, day)
  OBVIOUS
<1>2. GoodBook(EmptyBook) /\ Agrees(EmptyBook, q, by)
  BY EmptyIsGood, EmptyAgrees
<1>3. d \in Book
  BY <1>1, <1>2, AccrualIsGood DEF GoodBook
<1>4. Agrees(d, q, by)
  BY <1>1, <1>2, AccrualFits
<1>5. c = Sync(d, held, size, first)
  BY <1>1 DEF Rebuild
<1>6. QED
  BY <1>3, <1>4, <1>5, SyncFits

-----------------------------------------------------------------------------
(* The books balance, as long as transactions come in turn *)

\* Until the first corrected hire date the books are solvent; they agree with
\* the requests even after it.
Fits(b, q, by, n) == Agrees(b, q, by) /\ (n = 0 => Solvent(b, q))

\* The requests, and what is entered by hand, after a commit.
Wrote(op, r, span, q) ==
  CASE op = "create" -> [q EXCEPT ![r] = [status |-> "PENDING", span |-> span]]
    [] op \in {"CANCELLED", "APPROVED", "REJECTED"} -> [q EXCEPT ![r].status = op]
    [] OTHER -> q

WroteBy(op, b, c, by) == IF op = "adjust" THEN Entered(b, c, by) ELSE by

\* What a handler is about to commit was computed from the book as it is, and
\* fits the requests as they will be.
Proposes(p, b, q, by, n) ==
  /\ p.pc \in {"settleCommit", "commit"} => p.seen = b
  /\ p.pc = "settleCommit" => Fits(p.next, q, by, n)
  /\ p.pc = "commit" => Fits(p.next, Wrote(p.op, p.req, p.span, q), WroteBy(p.op, p.seen, p.next, by), n)

Balanced(b, q, by, n, ps) ==
  Fits(b, q, by, n) /\ \A h \in Handlers : Proposes(ps[h], b, q, by, n)

BalanceInv == Balanced(book, request, deducted, epoch, proc)

LEMMA BalanceKeeps ==
  ASSUME DeskInv, BalanceInv, UNCHANGED <<book, request, deducted, epoch>>, NEW h \in Handlers,
         NEW t, proc' = [proc EXCEPT ![h] = t], Proposes(t, book, request, deducted, epoch)
  PROVE  BalanceInv'
<1>1. PICK b, q, by, n, ps : /\ b = book /\ q = request /\ by = deducted /\ n = epoch /\ ps = proc'
  OBVIOUS
<1>2. ps[h] = t /\ \A g \in Handlers \ {h} : ps[g] = proc[g]
  BY <1>1 DEF DeskInv
<1>3. Balanced(b, q, by, n, ps)
  BY <1>1, <1>2 DEF BalanceInv, Balanced
<1>4. QED
  BY <1>1, <1>3 DEF BalanceInv, Balanced

LEMMA BalanceWrites ==
  ASSUME DeskInv, NEW h \in Handlers, NEW t, proc' = [proc EXCEPT ![h] = t],
         t.pc \notin {"settleCommit", "commit"}, \A g \in Handlers \ {h} : proc[g].pc = "idle",
         Fits(book', request', deducted', epoch')
  PROVE  BalanceInv'
<1>1. PICK b, q, by, n, ps : /\ b = book' /\ q = request' /\ by = deducted' /\ n = epoch' /\ ps = proc'
  OBVIOUS
<1>2. ps[h] = t /\ \A g \in Handlers \ {h} : ps[g] = proc[g]
  BY <1>1 DEF DeskInv
<1>3. \A g \in Handlers : ps[g].pc \notin {"settleCommit", "commit"}
  BY <1>2
<1>4. Balanced(b, q, by, n, ps)
  BY <1>1, <1>3 DEF Balanced, Proposes
<1>5. QED
  BY <1>1, <1>4 DEF BalanceInv, Balanced

LEMMA BalanceReads ==
  ASSUME DeskInv, BalanceInv, NEW h \in Handlers, NEW next, NEW pc, Read(h, next, pc),
         NEW op, NEW r, NEW span, op = proc[h].op, r = proc[h].req, span = proc[h].span,
         pc \in {"settleCommit", "commit"},
         pc = "settleCommit" => Fits(next, request, deducted, epoch),
         pc = "commit" => Fits(next, Wrote(op, r, span, request), WroteBy(op, book, next, deducted), epoch)
  PROVE  BalanceInv'
<1>1. PICK q, seen, e : q = proc[h] /\ seen = book /\ e = epoch /\ IsLocal(q)
  BY DEF DeskInv
<1>2. PICK t : t = Reading(q, seen, next, e, pc)
  OBVIOUS
<1>3. proc' = [proc EXCEPT ![h] = t] /\ UNCHANGED <<book, request, deducted, epoch>>
  BY <1>1, <1>2 DEF Read, Reading
<1>4. /\ t.pc = pc /\ t.op = q.op /\ t.req = q.req /\ t.span = q.span
      /\ t.seen = seen /\ t.next = next
  BY <1>1, <1>2, LocalReads
<1>5. Proposes(t, book, request, deducted, epoch)
  BY <1>1, <1>4 DEF Proposes
<1>6. QED
  BY <1>3, <1>5, BalanceKeeps

\* A handler that ends, or goes on to a step that does not commit.
LEMMA BalanceGoes ==
  ASSUME DeskInv, BalanceInv, NEW h \in Handlers, NEW pc \in {"read", "attendance"},
         UNCHANGED <<book, request, deducted, epoch>>, Finish(h) \/ Goto(h, pc)
  PROVE  BalanceInv'
<1>1. PICK q : q = proc[h] /\ IsLocal(q)
  BY DEF DeskInv
<1>2. CASE Finish(h)
  <2>1. PICK t : t = Idle /\ proc' = [proc EXCEPT ![h] = t]
    BY <1>2 DEF Finish
  <2>2. Proposes(t, book, request, deducted, epoch)
    BY <2>1 DEF Idle, Proposes
  <2>3. QED
    BY <2>1, <2>2, BalanceKeeps
<1>3. CASE Goto(h, pc)
  <2>1. PICK t : t = [q EXCEPT !.pc = pc]
    OBVIOUS
  <2>2. t.pc = pc
    BY <1>1, <2>1, MovesOn
  <2>3. proc' = [proc EXCEPT ![h] = t]
    BY <1>1, <1>3, <2>1 DEF Goto
  <2>4. Proposes(t, book, request, deducted, epoch)
    BY <2>2 DEF Proposes
  <2>5. QED
    BY <2>3, <2>4, BalanceKeeps
<1>4. QED
  BY <1>2, <1>3

LEMMA BalanceStarts ==
  ASSUME DeskInv, BalanceInv, NEW h \in Handlers, NEW op, NEW r, NEW span, NEW days,
         NEW pc \in {"read", "settle", "attend"}, Start(h, op, r, span, days, pc)
  PROVE  BalanceInv'
<1>1. PICK t : t = [Idle EXCEPT !.op = op, !.req = r, !.span = span, !.days = days, !.pc = pc]
  OBVIOUS
<1>2. t.pc = pc
  <2>1. Idle \in [pc : {"idle"}, op : {"view"}, req : {NoOne}, span : {NoSpan}, days : {0},
                  seen : {EmptyBook}, next : {EmptyBook}, epoch : {0}]
    BY DEF Idle
  <2>2. t \in [pc : {pc}, op : {op}, req : {r}, span : {span}, days : {days},
               seen : {EmptyBook}, next : {EmptyBook}, epoch : {0}]
    BY <1>1, <2>1
  <2>3. QED
    BY <2>2
<1>3. proc' = [proc EXCEPT ![h] = t] /\ UNCHANGED <<book, request, deducted, epoch>>
  BY <1>1 DEF Start
<1>4. Proposes(t, book, request, deducted, epoch)
  BY <1>2 DEF Proposes
<1>5. QED
  BY <1>3, <1>4, BalanceKeeps

LEMMA BalanceReceives ==
  ASSUME DeskInv, BalanceInv, NEW h \in Handlers, Receive(h) PROVE BalanceInv'
<1>1. \E op, r, span, days : \E pc \in {"read", "settle", "attend"} : Start(h, op, r, span, days, pc)
  <2>1. CASE ReceiveCreate(h)
    BY <2>1 DEF ReceiveCreate
  <2>2. CASE ReceiveCancel(h)
    BY <2>2 DEF ReceiveCancel
  <2>3. CASE ReceiveDecide(h)
    BY <2>3 DEF ReceiveDecide
  <2>4. CASE ReceiveAdjust(h) \/ ReceiveView(h)
    BY <2>4 DEF ReceiveAdjust, ReceiveView
  <2>5. CASE ReceiveCheckIn(h)
    BY <2>5 DEF ReceiveCheckIn
  <2>6. QED
    BY <2>1, <2>2, <2>3, <2>4, <2>5 DEF Receive
<1>2. QED
  BY <1>1, BalanceStarts

\* With nobody in between, a commit writes what its transaction computed.
LEMMA MergedUnseen ==
  ASSUME book \in Book, NEW p, p.seen = book, p.next \in Book
  PROVE  Merged(p) = p.next
<1>0. PICK c : c = Merged(p)
  OBVIOUS
<1>1. PICK b \in Book, next \in Book : b = book /\ next = p.next /\ c = Merged(p)
  BY <1>0
<1>2. /\ c \in Book
      /\ \A y \in Years : c.bucket[y] = MergedBucket(b.bucket[y], b.bucket[y], next.bucket[y])
      /\ \A r \in LeaveRequests : \A y \in Years :
           c.alloc[r][y] = IF next.alloc[r][y] # b.alloc[r][y] THEN next.alloc[r][y] ELSE b.alloc[r][y]
  BY <1>1, MergedIs
<1>3. ASSUME NEW y \in Years PROVE c.bucket[y] = next.bucket[y]
  <2>1. PICK x \in Bucket, z \in Bucket, m \in Bucket :
           x = b.bucket[y] /\ z = next.bucket[y] /\ m = c.bucket[y]
    BY <1>2, BookIs
  <2>2. m = MergedBucket(x, x, z)
    BY <1>2, <2>1
  <2>3. /\ m.status = z.status /\ m.granted = z.granted /\ m.used = z.used
        /\ m.pending = z.pending /\ m.expired = z.expired
    BY <2>2, MergedBucketIs
  <2>4. m = z
    BY <2>3 DEF Bucket
  <2>5. QED
    BY <2>1, <2>4
<1>4. PICK f \in [Years -> Bucket], f2 \in [Years -> Bucket] : f = c.bucket /\ f2 = next.bucket
  BY <1>2 DEF Book
<1>5. f = f2
  BY <1>3, <1>4
<1>6. PICK a \in Allocs, a2 \in Allocs : a = c.alloc /\ a2 = next.alloc
  BY <1>2 DEF Book, Allocs
<1>7. ASSUME NEW r \in LeaveRequests PROVE a[r] = a2[r]
  <2>1. PICK g \in [Years -> Nat], g2 \in [Years -> Nat] : g = a[r] /\ g2 = a2[r]
    BY DEF Allocs
  <2>2. \A y \in Years : g[y] = g2[y]
    BY <1>2, <1>6, <2>1
  <2>3. g = g2
    BY <2>2
  <2>4. QED
    BY <2>1, <2>3
<1>8. a = a2
  BY <1>7 DEF Allocs
<1>9. c = next
  BY <1>2, <1>4, <1>5, <1>6, <1>8, BookIs
<1>10. QED
  BY <1>1, <1>9

LEMMA WroteIs ==
  ASSUME NEW q \in [LeaveRequests -> RequestRows], NEW r \in LeaveRequests,
         NEW op \in {"CANCELLED", "APPROVED", "REJECTED"}, NEW span, NEW rows,
         rows = Wrote(op, r, span, q)
  PROVE  Beside(q, rows, r) /\ rows[r].status = op /\ rows[r].span = q[r].span
<1>1. rows = [q EXCEPT ![r].status = op]
  BY DEF Wrote
<1>2. rows[r] = [q[r] EXCEPT !.status = op] /\ \A s \in LeaveRequests \ {r} : rows[s] = q[s]
  BY <1>1
<1>3. q[r] \in RequestRows
  OBVIOUS
<1>4. QED
  BY <1>2, <1>3 DEF Beside, RequestRows

\* A tracked request asks for at least a half-day.
LEMMA SlotsCount ==
  ASSUME NEW span \in Spans \cup {NoSpan}, span.tracked
  PROVE  Cardinality(span.slots) \in Nat /\ Cardinality(span.slots) > 0
<1>1. span \in Spans
  BY DEF NoSpan
<1>2. span.slots # {}
  BY <1>1, LeaveAssumption
<1>3. IsFiniteSet(span.slots) /\ Cardinality(span.slots) \in Nat
  BY SizeIsNat
<1>4. Cardinality(span.slots) # 0
  BY <1>2, <1>3, FS_EmptySet
<1>5. QED
  BY <1>3, <1>4

LEMMA HeldColumns ==
  ASSUME DeskInv
  PROVE  Columns(HeldNow, Sizes, request)
<1>1. ASSUME NEW r \in LeaveRequests
      PROVE  /\ Sizes[r] = Cardinality(request[r].span.slots)
             /\ HeldNow[r] # "none" =>
                  /\ Counts(request[r]) /\ Sizes[r] > 0
                  /\ request[r].status = IF HeldNow[r] = "used" THEN "APPROVED" ELSE "PENDING"
  <2>1. PICK row \in RequestRows : row = request[r]
    BY DEF DeskInv, Rows
  <2>2. Sizes[r] = Cardinality(row.span.slots)
    BY <2>1 DEF Sizes, Size
  <2>3. HeldNow[r] = Held(r)
    BY DEF HeldNow
  <2>4. Counts(row) => Cardinality(row.span.slots) > 0
    BY SlotsCount DEF Counts, RequestRows
  <2>5. Held(r) # "none" =>
          Counts(row) /\ row.status = IF Held(r) = "used" THEN "APPROVED" ELSE "PENDING"
    BY <2>1 DEF Held, Counts
  <2>6. QED
    BY <2>1, <2>2, <2>3, <2>4, <2>5
<1>2. QED
  BY <1>1 DEF Columns

\* What the steps work on.
LEMMA BalanceOf ==
  ASSUME DeskInv, BalanceInv
  PROVE  /\ book \in Book /\ GoodBook(book) /\ deducted \in [Years -> Int]
         /\ Agrees(book, request, deducted) /\ (epoch = 0 => Solvent(book, request))
         /\ request \in [LeaveRequests -> RequestRows]
<1>1. deducted \in [Years -> Int]
  BY DEF DeskInv, Rows
<1>2. GoodBook(book) /\ book \in Book /\ request \in [LeaveRequests -> RequestRows]
  BY DEF DeskInv, Rows, GoodBook
<1>3. QED
  BY <1>1, <1>2 DEF BalanceInv, Balanced, Fits

LEMMA BalanceSettles ==
  ASSUME DeskInv, BalanceInv, NEW h \in Handlers, SettleRead(h) PROVE BalanceInv'
<1>1. PICK next : /\ next = Settle(book, HeldNow, Sizes, StartDates, hire, today)
                  /\ Read(h, next, "settleCommit")
  BY DEF SettleRead
<1>2. PICK held \in [LeaveRequests -> {"none", "pending", "used"}],
           size \in [LeaveRequests -> Nat], first \in [LeaveRequests -> Int] :
         held = HeldNow /\ size = Sizes /\ first = StartDates
  BY InputsAre DEF DeskInv
<1>3. PICK start \in Days, day \in Days : start = hire /\ day = today
  BY InputsAre DEF DeskInv
<1> PICK by \in [Years -> Int] : by = deducted
  BY BalanceOf
<1>4. PICK b, q : b = book /\ q = request /\ by = deducted
  OBVIOUS
<1>5. next = Settle(b, held, size, first, start, day)
  BY <1>1, <1>2, <1>3, <1>4
<1>6. Columns(held, size, q) /\ GoodBook(b) /\ Agrees(b, q, by)
  BY <1>2, <1>4, HeldColumns, BalanceOf
<1>7. Agrees(next, q, by) /\ (Solvent(b, q) => Solvent(next, q))
  BY <1>5, <1>6, SettleFits
<1>8. Fits(next, request, deducted, epoch)
  BY <1>4, <1>7, BalanceOf DEF Fits
<1>9. PICK op, r, span : op = proc[h].op /\ r = proc[h].req /\ span = proc[h].span
  OBVIOUS
<1>10. QED
  BY <1>1, <1>8, <1>9, BalanceReads

LEMMA BalanceCreates ==
  ASSUME Inv, DeskInv, BalanceInv, NEW h \in Handlers, CreateRead(h) PROVE BalanceInv'
<1>1. PICK p, r, span, n : p = proc[h] /\ r = p.req /\ span = p.span /\ n = Cardinality(span.slots)
  OBVIOUS
<1>2. p.op = "create" /\ p.pc = "read"
  BY <1>1 DEF CreateRead
<1>3. /\ r \in LeaveRequests /\ span \in Spans /\ request[r].status = "NONE" /\ n \in Nat
  BY <1>1, <1>2, SizeIsNat DEF Inv, Relies
<1>4. PICK a : a = Accrue(book, hire, today)
  OBVIOUS
<1> PICK by \in [Years -> Int] : by = deducted
  BY BalanceOf
<1>5. PICK b, q : b = book /\ q = request /\ by = deducted
  OBVIOUS
<1>6. PICK rows : rows = [q EXCEPT ![r] = [status |-> "PENDING", span |-> span]]
  OBVIOUS
<1>7. Beside(q, rows, r) /\ rows[r].status = "PENDING" /\ rows[r].span = span
  <2>1. q \in [LeaveRequests -> RequestRows]
    BY <1>5, BalanceOf
  <2>2. QED
    BY <1>3, <1>6, <2>1 DEF Beside
<1>8. ~Counts(q[r])
  BY <1>3, <1>5 DEF Counts
<1>9. ASSUME NEW next, Agrees(next, rows, by), epoch = 0 => Solvent(next, rows), Read(h, next, "commit")
      PROVE  BalanceInv'
  <2>1. Fits(next, rows, by, epoch)
    BY <1>9 DEF Fits
  <2>2. Wrote("create", r, span, request) = rows /\ WroteBy("create", book, next, deducted) = by
    BY <1>5, <1>6 DEF Wrote, WroteBy
  <2>3. Fits(next, Wrote("create", r, span, request), WroteBy("create", book, next, deducted), epoch)
    BY <2>1, <2>2
  <2>4. QED
    BY <1>1, <1>2, <1>9, <2>3, BalanceReads
<1>10. CASE ~span.tracked
  <2>1. Read(h, book, "commit")
    BY <1>1, <1>10 DEF CreateRead
  <2>2. ~Counts(rows[r])
    BY <1>7, <1>10 DEF Counts
  <2>3. b \in Book /\ Agrees(b, q, by)
    BY <1>5, BalanceOf
  <2>4. Agrees(b, rows, by) /\ (Solvent(b, q) => Solvent(b, rows))
    BY <1>3, <1>7, <1>8, <2>2, <2>3, UntrackedFits
  <2>5. QED
    BY <1>5, <1>9, <2>1, <2>4, BalanceOf
<1>11. CASE span.tracked /\ Shortfall(a, n) = 0
  <2>1. PICK next : next = Charge(a, r, n, "pending") /\ Read(h, next, "commit")
    BY <1>1, <1>4, <1>11 DEF CreateRead
  <2>2. PICK start \in Days, day \in Days : start = hire /\ day = today
    BY InputsAre DEF DeskInv
  <2>3. a = Accrue(b, start, day) /\ GoodBook(b) /\ Agrees(b, q, by)
    BY <1>4, <1>5, <2>2, BalanceOf
  <2>4. Agrees(a, q, by) /\ (Solvent(b, q) => Solvent(a, q))
    BY <2>3, AccrualFits
  <2>5. a \in Book
    BY <1>4, AccruedIsBook
  <2>6. Counts(rows[r]) /\ rows[r].status = IF "pending" = "used" THEN "APPROVED" ELSE "PENDING"
    BY <1>7, <1>11 DEF Counts
  <2>7. a.alloc[r] = NoAllocation
    BY <1>3, <1>8, <2>4 DEF Agrees
  <2>8. n = Cardinality(rows[r].span.slots)
    BY <1>1, <1>7
  <2>9. Agrees(next, rows, by) /\ (Solvent(a, q) => Solvent(next, rows))
    BY <1>3, <1>7, <1>11, <2>1, <2>4, <2>5, <2>6, <2>7, <2>8, ChargeFits
  <2>10. QED
    BY <1>5, <1>9, <2>1, <2>4, <2>9, BalanceOf
<1>12. CASE span.tracked /\ Shortfall(a, n) # 0
  <2>1. Finish(h) /\ UNCHANGED <<book, request, deducted, epoch>>
    BY <1>1, <1>4, <1>12 DEF CreateRead
  <2>2. QED
    BY <2>1, BalanceGoes
<1>13. QED
  BY <1>10, <1>11, <1>12

LEMMA BalanceAnswers ==
  ASSUME Inv, DeskInv, BalanceInv, NEW h \in Handlers, AnswerRead(h) PROVE BalanceInv'
<1>1. PICK p, r, op, span, n : p = proc[h] /\ r = p.req /\ op = p.op /\ span = p.span /\ n = Size(r)
  OBVIOUS
<1>2. op \in {"CANCELLED", "APPROVED", "REJECTED"} /\ p.pc = "read"
  BY <1>1 DEF AnswerRead
<1>3. r \in LeaveRequests /\ request[r].status = "PENDING"
  BY <1>1, <1>2 DEF Inv, Relies, Pending
<1> PICK by \in [Years -> Int] : by = deducted
  BY BalanceOf
<1>4. PICK b, q : b = book /\ q = request /\ by = deducted
  OBVIOUS
<1>5. b \in Book /\ GoodBook(b) /\ Agrees(b, q, by) /\ q \in [LeaveRequests -> RequestRows]
  BY <1>4, BalanceOf
<1>6. PICK rows : rows = Wrote(op, r, span, q)
  OBVIOUS
<1>7. Beside(q, rows, r) /\ rows[r].status = op /\ rows[r].span = q[r].span
  BY <1>2, <1>3, <1>5, <1>6, WroteIs
<1>8. PICK next : /\ Read(h, next, "commit")
                  /\ next = CASE ~q[r].span.tracked -> b
                              [] q[r].span.tracked /\ op = "APPROVED" ->
                                   ConsumeReserved(b, r, n, hire, today)
                              [] OTHER -> Release(b, r)
  BY <1>1, <1>4 DEF AnswerRead
<1>9. Agrees(next, rows, by) /\ (epoch = 0 => Solvent(next, rows))
  <2>1. epoch = 0 => Solvent(b, q)
    BY <1>4, BalanceOf
  <2>2. CASE ~q[r].span.tracked
    <3>1. next = b /\ ~Counts(q[r]) /\ ~Counts(rows[r])
      BY <1>7, <1>8, <2>2 DEF Counts
    <3>2. Agrees(b, rows, by) /\ (Solvent(b, q) => Solvent(b, rows))
      BY <1>3, <1>5, <1>7, <3>1, UntrackedFits
    <3>3. QED
      BY <2>1, <3>1, <3>2
  <2>3. CASE q[r].span.tracked /\ op # "APPROVED"
    <3>1. next = Release(b, r) /\ rows[r].status \notin {"PENDING", "APPROVED"} /\ q[r].status = "PENDING"
      BY <1>2, <1>3, <1>4, <1>7, <1>8, <2>3
    <3>2. Agrees(next, rows, by) /\ (Solvent(b, q) => Solvent(next, rows))
      BY <1>3, <1>5, <1>7, <3>1, ReleaseFits
    <3>3. QED
      BY <2>1, <3>2
  <2>4. CASE q[r].span.tracked /\ op = "APPROVED"
    <3>1. PICK start \in Days, day \in Days : start = hire /\ day = today
      BY InputsAre DEF DeskInv
    <3>2. next = ConsumeReserved(b, r, n, start, day) /\ q[r].status = "PENDING" /\ Counts(q[r])
      BY <1>3, <1>4, <1>8, <2>4, <3>1 DEF Counts
    <3>3. n \in Nat /\ start \in Int /\ day \in Int /\ n = Cardinality(q[r].span.slots) /\ n > 0
      <4>1. q[r].span \in Spans \cup {NoSpan}
        BY <1>3, <1>5 DEF RequestRows
      <4>2. n = Cardinality(q[r].span.slots)
        BY <1>1, <1>4 DEF Size
      <4>3. QED
        BY <2>4, <4>1, <4>2, SlotsCount DEF Days
    <3>4. CASE b.alloc[r] # NoAllocation
      <4>1. next \in Book
        BY <1>3, <1>5, <3>2, <3>3, <3>4, ConsumeKeeps
      <4>2. Agrees(next, rows, by) /\ (Solvent(b, q) => Solvent(next, rows))
        BY <1>3, <1>5, <1>7, <2>4, <3>2, <3>4, <4>1, ConsumeFits
      <4>3. QED
        BY <2>1, <4>2
    <3>5. CASE b.alloc[r] = NoAllocation
      <4>1. PICK a : a = Accrue(b, start, day)
        OBVIOUS
      <4>2. next = Charge(a, r, n, "used")
        BY <3>2, <3>5, <4>1 DEF ConsumeReserved
      <4>3. Agrees(a, q, by) /\ a.alloc = b.alloc
        BY <1>5, <4>1, AccrualFits
      <4>4. a \in Book
        BY <1>5, <3>3, <4>1, AccrualKeeps
      <4>5. Counts(rows[r]) /\ rows[r].status = IF "used" = "used" THEN "APPROVED" ELSE "PENDING"
        BY <1>7, <2>4 DEF Counts
      <4>6. a.alloc[r] = NoAllocation
        BY <3>5, <4>3
      <4>7. Agrees(next, rows, by)
        BY <1>3, <1>7, <3>3, <4>2, <4>3, <4>4, <4>5, <4>6, ChargeFits
      <4>8. ~Solvent(b, q)
        BY <1>3, <3>2, <3>3, <3>5, AllocatedWhenSolvent
      <4>9. QED
        BY <2>1, <4>7, <4>8
    <3>6. QED
      BY <3>4, <3>5
  <2>5. QED
    BY <2>2, <2>3, <2>4
<1>10. Fits(next, rows, by, epoch)
  BY <1>9 DEF Fits
<1>11. Wrote(op, r, span, request) = rows /\ WroteBy(op, book, next, deducted) = by
  BY <1>2, <1>4, <1>6 DEF WroteBy
<1>12. Fits(next, Wrote(op, r, span, request), WroteBy(op, book, next, deducted), epoch)
  BY <1>10, <1>11
<1>13. op = proc[h].op /\ r = proc[h].req /\ span = proc[h].span /\ Read(h, next, "commit")
  BY <1>1, <1>8
<1>14. QED
  BY <1>12, <1>13, BalanceReads

LEMMA BalanceAdjusts ==
  ASSUME DeskInv, BalanceInv, NEW h \in Handlers, AdjustRead(h) PROVE BalanceInv'
<1>1. PICK p, n, r, span : p = proc[h] /\ n = p.days /\ r = p.req /\ span = p.span /\ Asked(p)
  BY DEF DeskInv
<1>2. p.op = "adjust" /\ n \in Int
  BY <1>1 DEF AdjustRead, Asked
<1>3. PICK a \in Book : a = Accrue(book, hire, today)
  BY AccruedIsBook
<1>4. CASE CanAdjust(a, n)
  <2>1. PICK next : next = Adjust(a, n) /\ Read(h, next, "commit")
    BY <1>1, <1>3, <1>4 DEF AdjustRead
  <2> PICK by \in [Years -> Int] : by = deducted
    BY BalanceOf
  <2>2. PICK b, q : b = book /\ q = request /\ by = deducted
    OBVIOUS
  <2>3. PICK start \in Days, day \in Days : start = hire /\ day = today
    BY InputsAre DEF DeskInv
  <2>4. a = Accrue(b, start, day) /\ GoodBook(b) /\ Agrees(b, q, by)
    BY <1>3, <2>2, <2>3, BalanceOf
  <2>5. Agrees(a, q, by) /\ (Solvent(b, q) => Solvent(a, q))
    BY <2>4, AccrualFits
  <2>6. Agrees(next, q, Entered(a, next, by)) /\ (Solvent(a, q) => Solvent(next, q))
    BY <1>2, <1>4, <2>1, <2>5, AdjustFits
  <2>7. Entered(a, next, by) = Entered(b, next, by)
    <3>1. SameUsed(b, a)
      BY <2>4, AccrualIsGood
    <3>2. QED
      BY <3>1 DEF SameUsed, Entered
  <2>8. Wrote("adjust", r, span, request) = q /\ WroteBy("adjust", book, next, deducted) = Entered(a, next, by)
    BY <2>2, <2>7 DEF Wrote, WroteBy
  <2>9. Fits(next, q, Entered(a, next, by), epoch)
    BY <2>2, <2>5, <2>6, BalanceOf DEF Fits
  <2>10. Fits(next, Wrote("adjust", r, span, request), WroteBy("adjust", book, next, deducted), epoch)
    BY <2>8, <2>9
  <2>11. QED
    BY <1>1, <1>2, <2>1, <2>10, BalanceReads
<1>5. CASE ~CanAdjust(a, n)
  <2>1. Finish(h) /\ UNCHANGED <<book, request, deducted, epoch>>
    BY <1>1, <1>3, <1>5 DEF AdjustRead
  <2>2. QED
    BY <2>1, BalanceGoes
<1>6. QED
  BY <1>4, <1>5

\* The others wait while a handler commits.
LEMMA BalanceSettled ==
  ASSUME DeskInv, BalanceInv, NEW h \in Handlers, SettleCommit(h),
         \A g \in Handlers \ {h} : proc[g].pc = "idle"
  PROVE  BalanceInv'
<1>1. PICK p : p = proc[h] /\ p.pc = "settleCommit" /\ IsLocal(p) /\ Computed(p)
  BY DEF DeskInv, SettleCommit
<1>2. UNCHANGED <<request, deducted, epoch>>
  BY DEF SettleCommit
<1>3. CASE Fails(proc[h])
  <2>1. Finish(h) /\ UNCHANGED book
    BY <1>3 DEF SettleCommit
  <2>2. QED
    BY <1>2, <2>1, BalanceGoes
<1>4. CASE ~Fails(proc[h])
  <2>1. book' = Merged(p) /\ (Finish(h) \/ Goto(h, "attendance") \/ Goto(h, "read"))
    BY <1>1, <1>4 DEF SettleCommit
  <2>2. p.seen = book /\ Fits(p.next, request, deducted, epoch)
    BY <1>1 DEF BalanceInv, Balanced, Proposes
  <2>3. book' = p.next
    BY <1>1, <2>1, <2>2, BalanceOf, MergedUnseen DEF Computed, GoodBook
  <2>4. Fits(book', request', deducted', epoch')
    BY <1>2, <2>2, <2>3
  <2>5. \E t : proc' = [proc EXCEPT ![h] = t] /\ t.pc \notin {"settleCommit", "commit"}
    <3>1. CASE Finish(h)
      <4>1. PICK t : t = Idle /\ t.pc = "idle"
        BY IdleRelies
      <4>2. proc' = [proc EXCEPT ![h] = t]
        BY <3>1, <4>1 DEF Finish
      <4>3. QED
        BY <4>1, <4>2
    <3>2. ASSUME NEW pc \in {"attendance", "read"}, Goto(h, pc)
          PROVE  \E t : proc' = [proc EXCEPT ![h] = t] /\ t.pc \notin {"settleCommit", "commit"}
      <4>1. PICK t : t = [p EXCEPT !.pc = pc]
        OBVIOUS
      <4>2. t.pc = pc
        BY <1>1, <4>1, MovesOn
      <4>3. proc' = [proc EXCEPT ![h] = t]
        BY <1>1, <3>2, <4>1 DEF Goto
      <4>4. QED
        BY <4>2, <4>3
    <3>3. QED
      BY <2>1, <3>1, <3>2
  <2>6. QED
    BY <2>4, <2>5, BalanceWrites
<1>5. QED
  BY <1>3, <1>4

LEMMA BalanceCommits ==
  ASSUME DeskInv, BalanceInv, NEW h \in Handlers,
         CommitCreate(h) \/ CommitCancel(h) \/ CommitDecision(h) \/ CommitAdjust(h),
         \A g \in Handlers \ {h} : proc[g].pc = "idle"
  PROVE  BalanceInv'
<1>1. PICK p, op, r, span : /\ p = proc[h] /\ op = p.op /\ r = p.req /\ span = p.span /\ Computed(p)
  BY DEF DeskInv
<1>2. /\ p.pc = "commit" /\ book' = Merged(p) /\ Finish(h) /\ epoch' = epoch
  BY <1>1 DEF CommitCreate, CommitCancel, CommitDecision, CommitAdjust, Commits
<1>3. p.seen = book /\ Fits(p.next, Wrote(op, r, span, request), WroteBy(op, p.seen, p.next, deducted), epoch)
  BY <1>1, <1>2 DEF BalanceInv, Balanced, Proposes
<1>4. book' = p.next
  BY <1>1, <1>2, <1>3, BalanceOf, MergedUnseen DEF Computed, GoodBook
<1>5. request' = Wrote(op, r, span, request) /\ deducted' = WroteBy(op, p.seen, p.next, deducted)
  <2>1. CASE CommitCreate(h)
    BY <1>1, <2>1 DEF CommitCreate, Commits, Wrote, WroteBy
  <2>2. CASE CommitCancel(h)
    BY <1>1, <2>2 DEF CommitCancel, Commits, Wrote, WroteBy
  <2>3. CASE CommitDecision(h)
    BY <1>1, <2>3 DEF CommitDecision, Commits, Verdicts, Wrote, WroteBy
  <2>4. CASE CommitAdjust(h)
    BY <1>1, <2>4 DEF CommitAdjust, Commits, Wrote, WroteBy, Entered
  <2>5. QED
    BY <2>1, <2>2, <2>3, <2>4
<1>6. Fits(book', request', deducted', epoch')
  BY <1>2, <1>3, <1>4, <1>5
<1>7. PICK t : t = Idle /\ proc' = [proc EXCEPT ![h] = t]
  BY <1>2 DEF Finish
<1>8. t.pc \notin {"settleCommit", "commit"}
  BY <1>7 DEF Idle
<1>9. QED
  BY <1>6, <1>7, <1>8, BalanceWrites

\* The book is built again while nobody is at work on it.
LEMMA BalanceRebuilds ==
  ASSUME DeskInv, NEW h \in Handlers, CorrectHireDate(h), \A g \in Handlers : proc[g].pc = "idle"
  PROVE  BalanceInv'
<1>1. PICK d \in HireDays : hire' = d /\ book' = Rebuild(HeldNow, Sizes, StartDates, d, today)
  BY DEF CorrectHireDate
<1>2. /\ deducted' = [y \in Years |-> 0] /\ epoch' = epoch + 1 /\ UNCHANGED <<request, proc>>
  BY DEF CorrectHireDate
<1>3. PICK held \in [LeaveRequests -> {"none", "pending", "used"}],
           size \in [LeaveRequests -> Nat], first \in [LeaveRequests -> Int] :
         held = HeldNow /\ size = Sizes /\ first = StartDates
  BY InputsAre DEF DeskInv
<1>4. PICK day \in Days : day = today
  BY DEF DeskInv, Rows
<1>5. PICK c, q : c = book' /\ c = Rebuild(held, size, first, d, day) /\ q = request
  BY <1>1, <1>3, <1>4
<1> PICK by \in [Years -> {0}] : by = [y \in Years |-> 0]
  OBVIOUS
<1>6. by = [y \in Years |-> 0] /\ by \in [Years -> Int] /\ \A y \in Years : by[y] = 0
  OBVIOUS
<1>7. Columns(held, size, q)
  BY <1>3, <1>5, HeldColumns
<1>8. d \in Days
  OBVIOUS
<1>9. Agrees(c, q, by)
  BY <1>5, <1>6, <1>7, <1>8, RebuildFits
<1>10. epoch + 1 # 0
  BY DEF DeskInv, Rows
<1>11. Fits(c, q, by, epoch + 1)
  BY <1>9, <1>10 DEF Fits
<1>12. Fits(book', request', deducted', epoch')
  BY <1>2, <1>5, <1>6, <1>11
<1>13. PICK t : t = proc[h] /\ proc' = [proc EXCEPT ![h] = t] /\ t.pc = "idle"
  BY <1>2 DEF DeskInv
<1>14. QED
  BY <1>12, <1>13, BalanceWrites

\* A hire date is corrected while no request is handled.
CorrectsInTurn == epoch' # epoch => \A h \in Handlers : proc[h].pc = "idle"

LEMMA BalanceSteps ==
  ASSUME Inv, DeskInv, BalanceInv, RequestsInTurn, [Next]_vars, [CorrectsInTurn]_vars
  PROVE  BalanceInv'
<1>1. CASE UNCHANGED vars
  <2>1. UNCHANGED <<book, request, deducted, epoch, proc>>
    BY <1>1 DEF vars
  <2>2. PICK b, q, by, n, ps : b = book /\ q = request /\ by = deducted /\ n = epoch /\ ps = proc
    OBVIOUS
  <2>3. Balanced(b, q, by, n, ps)
    BY <2>2 DEF BalanceInv
  <2>4. QED
    BY <2>1, <2>2, <2>3 DEF BalanceInv
<1>2. CASE NextDay
  <2>1. UNCHANGED <<book, request, deducted, epoch, proc>>
    BY <1>2 DEF NextDay
  <2>2. PICK b, q, by, n, ps : b = book /\ q = request /\ by = deducted /\ n = epoch /\ ps = proc
    OBVIOUS
  <2>3. Balanced(b, q, by, n, ps)
    BY <2>2 DEF BalanceInv
  <2>4. QED
    BY <2>1, <2>2, <2>3 DEF BalanceInv
<1>3. ASSUME NEW h \in Handlers, Receive(h) PROVE BalanceInv'
  BY <1>3, BalanceReceives
<1>4. ASSUME NEW h \in Handlers, Continue(h) PROVE BalanceInv'
  <2>1. CASE SettleRead(h)
    BY <2>1, BalanceSettles
  <2>2. CASE CreateRead(h)
    BY <2>2, BalanceCreates
  <2>3. CASE AnswerRead(h)
    BY <2>3, BalanceAnswers
  <2>4. CASE AdjustRead(h)
    BY <2>4, BalanceAdjusts
  <2>5. CASE CheckAttendance(h) \/ Rollback(h) \/ Attend(h)
    <3>1. UNCHANGED <<book, request, deducted, epoch>> /\ (Finish(h) \/ Goto(h, "read"))
      BY <2>5 DEF CheckAttendance, Rollback, Attend
    <3>2. QED
      BY <3>1, BalanceGoes
  <2>6. CASE SettleCommit(h)
    <3>1. \A g \in Handlers \ {h} : proc[g].pc = "idle"
      BY <2>6 DEF SettleCommit, RequestsInTurn
    <3>2. QED
      BY <2>6, <3>1, BalanceSettled
  <2>7. CASE CommitCreate(h) \/ CommitCancel(h) \/ CommitDecision(h) \/ CommitAdjust(h)
    <3>1. \A g \in Handlers \ {h} : proc[g].pc = "idle"
      BY <2>7 DEF CommitCreate, CommitCancel, CommitDecision, CommitAdjust, Commits, RequestsInTurn
    <3>2. QED
      BY <2>7, <3>1, BalanceCommits
  <2>8. QED
    BY <1>4, <2>1, <2>2, <2>3, <2>4, <2>5, <2>6, <2>7 DEF Continue
<1>5. ASSUME NEW h \in Handlers, CorrectHireDate(h) PROVE BalanceInv'
  <2>1. epoch' = epoch + 1 /\ epoch \in Nat
    BY <1>5 DEF CorrectHireDate, DeskInv, Rows
  <2>2. epoch' # epoch
    BY <2>1
  <2>3. \A g \in Handlers : proc[g].pc = "idle"
    BY <2>2 DEF CorrectsInTurn, vars
  <2>4. QED
    BY <1>5, <2>3, BalanceRebuilds
<1>6. QED
  BY <1>1, <1>2, <1>3, <1>4, <1>5 DEF Next

LEMMA BalanceInit == Init => BalanceInv
<1> SUFFICES ASSUME Init PROVE BalanceInv
  OBVIOUS
<1>1. PICK b, q, by, n, ps : b = book /\ q = request /\ by = deducted /\ n = epoch /\ ps = proc
  OBVIOUS
<1>2. /\ b = EmptyBook /\ q = [r \in LeaveRequests |-> NoRequest]
      /\ by = [y \in Years |-> 0] /\ ps = [h \in Handlers |-> Idle]
  BY <1>1 DEF Init
<1>3. \A r \in LeaveRequests : ~Counts(q[r])
  BY <1>2 DEF Counts, NoRequest
<1>4. \A y \in Years : by[y] = 0
  BY <1>2
<1>5. Agrees(b, q, by) /\ Solvent(b, q)
  BY <1>2, <1>3, <1>4, EmptyAgrees
<1>6. \A h \in Handlers : Proposes(ps[h], b, q, by, n)
  BY <1>2, IdleRelies DEF Proposes
<1>7. Balanced(b, q, by, n, ps)
  BY <1>5, <1>6 DEF Balanced, Fits
<1>8. QED
  BY <1>1, <1>7 DEF BalanceInv

LEMMA BalancedBooks == DeskInv /\ BalanceInv => BooksBalance
<1> SUFFICES ASSUME DeskInv, BalanceInv PROVE BooksBalance
  OBVIOUS
<1>1. /\ Agrees(book, request, deducted) /\ (epoch = 0 => Solvent(book, request))
      /\ request \in [LeaveRequests -> RequestRows]
  BY BalanceOf
<1>2. \A status : \A y \in Years : HeldBy(status, y) = Total(book.alloc, request, status, y)
  BY DEF HeldBy, Total
<1>3. BucketsAgreeWithRequests
  BY <1>1, <1>2 DEF Agrees, BucketsAgreeWithRequests
<1>4. NeverOverdrawn
  BY <1>1 DEF Solvent, NotOverdrawn, NeverOverdrawn
<1>5. ASSUME epoch = 0, NEW r \in LeaveRequests
      PROVE  SumFunctionOnSet(book.alloc[r], Years)
               = IF r \in StandingRequests /\ request[r].span.tracked THEN Size(r) ELSE 0
  <2>1. r \in StandingRequests /\ request[r].span.tracked <=> Counts(request[r])
    BY DEF StandingRequests, Counts
  <2>2. CASE Counts(request[r])
    BY <1>1, <1>5, <2>1, <2>2 DEF Solvent, Size
  <2>3. CASE ~Counts(request[r])
    <3>1. book.alloc[r] = NoAllocation
      BY <1>1, <2>3 DEF Agrees
    <3>2. \A y \in Years : NoAllocation[y] = 0
      BY DEF NoAllocation
    <3>3. SumFunctionOnSet(NoAllocation, Years) = 0
      BY <3>2, YearsAre, SumOfZeros
    <3>4. QED
      BY <2>1, <2>3, <3>1, <3>3
  <2>4. QED
    BY <2>2, <2>3
<1>6. HeldInFull
  BY <1>5 DEF HeldInFull
<1>7. QED
  BY <1>3, <1>4, <1>6 DEF BooksBalance

\* As long as requests, and corrections of a hire date, come in turn, every day
\* taken, reserved or deducted is held against a bucket that was granted it
\* (reserve, consume, release, expire, adjust, rebuild).
THEOREM BooksStayBalanced ==
  Spec /\ []RequestsInTurn /\ [][CorrectsInTurn]_vars => []BooksBalance
<1>1. Inv /\ DeskInv /\ BalanceInv /\ RequestsInTurn /\ [Next]_vars /\ [CorrectsInTurn]_vars
        => Inv' /\ DeskInv' /\ BalanceInv'
  BY BalanceSteps, InvNext, DeskNext
<1>2. QED
  BY <1>1, InvInit, DeskInit, BalanceInit, BalancedBooks, PTL DEF Spec
=============================================================================
