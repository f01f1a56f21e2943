----------------------------- MODULE LeaveDesk -----------------------------
(***************************************************************************)
(* The leave requests of one employee, the annual leave book they draw on  *)
(* and the check-ins they must not meet.                                   *)
(*                                                                         *)
(* A handler of the API checks a request outside any transaction, then     *)
(* opens one: it reads rows, awaits, and writes the columns it computed    *)
(* from what it read, over whatever the rows hold by then.  Each handler   *)
(* is a process with a step for its checks, one for what its transaction   *)
(* reads and one for its commit; steps of different handlers interleave.   *)
(***************************************************************************)
EXTENDS AnnualLeave

CONSTANTS
  Handlers,      \* handlers of the API process in flight at once
  Spans,         \* the leave an employee may ask for
  HireDays,      \* the employment start dates an administrator may enter
  NoOne,         \* no request
  Adjustments,   \* the half-days an administrator may add or take away
  WorkDays,      \* the days on which the employee may check in
  MaxAdjusted,   \* bound: adjustments in a behaviour
  MaxRebuilt     \* bound: corrections of the employment start date

Halves == {"MORNING", "AFTERNOON"}

Span == [first : Days, last : Days, slots : SUBSET (Days \X Halves), tracked : BOOLEAN]

\* A span covers half-days of the working days in its range, at least one.
ASSUME LeaveAssumption ==
  /\ Spans \subseteq Span
  /\ \A s \in Spans : s.slots # {} /\ \A p \in s.slots : p[1] \in s.first..s.last
  /\ HireDays \subseteq Days /\ HireDays # {}
  /\ Adjustments \subseteq Int \ {0}
  /\ WorkDays \subseteq Days
  /\ NoOne \notin LeaveRequests
  /\ MaxAdjusted \in Nat /\ MaxRebuilt \in Nat

\* An employee's requests, and the handlers at work, are rows and callbacks.
ASSUME FiniteAssumption == IsFiniteSet(LeaveRequests) /\ IsFiniteSet(Handlers)

VARIABLES
  today,      \* the date in the employee's zone
  hire,       \* Employee.employmentStartDate
  book,       \* the tables AnnualLeaveBucket and LeaveBalanceAllocation
  request,    \* the tables LeaveRequest and LeaveRequestDay
  decisions,  \* the rows of LeaveDecision of each request (max 2)
  deducted,   \* the deductions of ADJUST rows of the ledger, by bucket
  attended,   \* the days that have a Timesheet
  proc,       \* the local state of every handler
  adjusted,   \* adjustments made (bound)
  epoch       \* times the book was rebuilt: its rows have new identities

vars == <<today, hire, book, request, decisions, deducted, attended, proc,
          adjusted, epoch>>

-----------------------------------------------------------------------------
Statuses == {"NONE", "PENDING", "APPROVED", "REJECTED", "CANCELLED"}

NoSpan == [first |-> 0, last |-> 0, slots |-> {}, tracked |-> FALSE]

NoRequest == [status |-> "NONE", span |-> NoSpan]

Verdicts == {"APPROVED", "REJECTED"}

Ops == {"create", "CANCELLED", "adjust", "view", "checkIn"} \cup Verdicts

\* A handler at rest; req, span and days are its input, seen and next the book
\* its transaction read and the one it wants, of the given epoch.
Idle == [pc |-> "idle", op |-> "view", req |-> NoOne, span |-> NoSpan, days |-> 0,
         seen |-> EmptyBook, next |-> EmptyBook, epoch |-> 0]

Size(r) == Cardinality(request[r].span.slots)

Sizes == [r \in LeaveRequests |-> Size(r)]

\* The column of the book in which a request that still counts is held.
Held(r) ==
  CASE ~request[r].span.tracked -> "none"
    [] request[r].status = "PENDING" /\ request[r].span.tracked -> "pending"
    [] request[r].status = "APPROVED" /\ request[r].span.tracked -> "used"
    [] OTHER -> "none"

HeldNow == [r \in LeaveRequests |-> Held(r)]

StartDates == [r \in LeaveRequests |-> request[r].span.first]

-----------------------------------------------------------------------------
(* The checks made outside a transaction *)

StandingRequests == {r \in LeaveRequests : request[r].status \in {"PENDING", "APPROVED"}}

\* Fault: an approved request no longer stands in the way.
OverlapsPending(span) ==
  \E r \in LeaveRequests : /\ request[r].status = "PENDING"
                           /\ request[r].span.slots \cap span.slots # {}

Overlaps(span) == \E r \in StandingRequests : request[r].span.slots \cap span.slots # {}

HasAttendance(span) == \E d \in attended : d \in span.first..span.last

Pending == {r \in LeaveRequests : request[r].status = "PENDING"}

OnApprovedLeave(d) ==
  \E r \in LeaveRequests :
    request[r].status = "APPROVED" /\ d \in request[r].span.first..request[r].span.last

-----------------------------------------------------------------------------
Goto(h, pc) == proc' = [proc EXCEPT ![h].pc = pc]

Finish(h) == proc' = [proc EXCEPT ![h] = Idle]

Start(h, op, r, span, days, pc) ==
  /\ proc[h].pc = "idle"
  /\ proc' = [proc EXCEPT ![h] = [Idle EXCEPT !.op = op, !.req = r, !.span = span,
                                              !.days = days, !.pc = pc]]
  /\ UNCHANGED <<today, hire, book, request, decisions, deducted, attended, adjusted, epoch>>

\* POST /leave: no attendance in the range, no leave on the same half-day.
ReceiveCreate(h) ==
  \E r \in LeaveRequests, span \in Spans :
    /\ request[r].status = "NONE"
    /\ \A g \in Handlers : proc[g].req # r
    /\ ~HasAttendance(span)
    /\ ~Overlaps(span)
    /\ Start(h, "create", r, span, 0, "read")

\* The employee cancels a request that is still pending.
ReceiveCancel(h) ==
  \E r \in Pending : Start(h, "CANCELLED", r, NoSpan, 0, "read")

\* adminGet reads the request and then settles the balance it shows.
ReceiveDecide(h) ==
  \E r \in Pending, verdict \in Verdicts :
    Start(h, verdict, r, request[r].span, 0, "settle")

ReceiveAdjust(h) ==
  \E n \in Adjustments :
    /\ adjusted + Cardinality({g \in Handlers : proc[g].op = "adjust"}) < MaxAdjusted
    /\ Start(h, "adjust", NoOne, NoSpan, n, "settle")

ReceiveView(h) == Start(h, "view", NoOne, NoSpan, 0, "settle")

\* Check-in, as far as it concerns leave: none is approved for today.
ReceiveCheckIn(h) ==
  /\ today \in WorkDays \ attended
  /\ ~OnApprovedLeave(today)
  /\ Start(h, "checkIn", NoOne, [NoSpan EXCEPT !.first = today], 0, "attend")

-----------------------------------------------------------------------------
(* The transactions *)

Read(h, next, pc) ==
  /\ proc' = [proc EXCEPT ![h].seen = book, ![h].next = next,
                          ![h].epoch = epoch, ![h].pc = pc]
  /\ UNCHANGED <<today, hire, book, request, decisions, deducted, attended, adjusted, epoch>>

\* balanceForEmployee.
SettleRead(h) ==
  /\ proc[h].pc = "settle"
  /\ Read(h, Settle(book, HeldNow, Sizes, StartDates, hire, today), "settleCommit")

\* Fault: the whole row is saved.
SavedBucket(now, seen, next) == IF next # seen THEN next ELSE now

\* The columns a transaction computed; a column it leaves as it read it is not
\* written.
MergedBucket(now, seen, next) ==
  [f \in DOMAIN now |-> IF next[f] # seen[f] THEN next[f] ELSE now[f]]

Merged(p) ==
  [bucket |-> [y \in Years |-> MergedBucket(book.bucket[y], p.seen.bucket[y], p.next.bucket[y])],
   alloc  |-> [r \in LeaveRequests |->
                 [y \in Years |-> IF p.next.alloc[r][y] # p.seen.alloc[r][y]
                                    THEN p.next.alloc[r][y] ELSE book.alloc[r][y]]]]

\* A transaction fails when the bucket it creates exists by now, or the rows it
\* updates have been deleted.
Fails(p) ==
  \/ \E y \in Years : /\ p.seen.bucket[y].status = "NONE" /\ p.next.bucket[y].status # "NONE"
                      /\ book.bucket[y].status # "NONE"
  \/ p.epoch # epoch /\ p.next # p.seen

SettleCommit(h) ==
  /\ proc[h].pc = "settleCommit"
  /\ IF Fails(proc[h])
       THEN Finish(h) /\ UNCHANGED book
       ELSE /\ book' = Merged(proc[h])
            /\ CASE proc[h].op = "view" -> Finish(h)
                 [] proc[h].op = "APPROVED" -> Goto(h, "attendance")
                 [] OTHER -> Goto(h, "read")
  /\ UNCHANGED <<today, hire, request, decisions, deducted, attended, adjusted, epoch>>

\* decide: no attendance in the range of a request that is to be approved.
CheckAttendance(h) ==
  /\ proc[h].pc = "attendance"
  /\ IF HasAttendance(proc[h].span) THEN Finish(h) ELSE Goto(h, "read")
  /\ UNCHANGED <<today, hire, book, request, decisions, deducted, attended, adjusted, epoch>>

\* create: the days are reserved; not enough of them rolls the request back.
CreateRead(h) ==
  LET p == proc[h]
      accrued == Accrue(book, hire, today)
      days == Cardinality(p.span.slots)
  IN /\ p.pc = "read" /\ p.op = "create"
     /\ IF ~p.span.tracked THEN Read(h, book, "commit")
        ELSE IF Shortfall(accrued, days) = 0
          THEN Read(h, Charge(accrued, p.req, days, "pending"), "commit")
          ELSE /\ Finish(h)
               /\ UNCHANGED <<today, hire, book, request, decisions, deducted, attended,
                              adjusted, epoch>>

\* cancel and reject give the days back; approve consumes them.
AnswerRead(h) ==
  LET p == proc[h]
      r == p.req
  IN /\ p.pc = "read" /\ p.op \in {"CANCELLED", "REJECTED", "APPROVED"}
     /\ Read(h, CASE ~request[r].span.tracked -> book
                  [] request[r].span.tracked /\ p.op = "APPROVED" ->
                       ConsumeReserved(book, r, Size(r), hire, today)
                  [] OTHER -> Release(book, r),
             "commit")

AdjustRead(h) ==
  LET p == proc[h]
      accrued == Accrue(book, hire, today)
  IN /\ p.pc = "read" /\ p.op = "adjust"
     /\ IF CanAdjust(accrued, p.days)
          THEN Read(h, Adjust(accrued, p.days), "commit")
          ELSE /\ Finish(h)
               /\ UNCHANGED <<today, hire, book, request, decisions, deducted, attended,
                              adjusted, epoch>>

Rollback(h) ==
  /\ proc[h].pc = "commit" /\ Fails(proc[h])
  /\ Finish(h)
  /\ UNCHANGED <<today, hire, book, request, decisions, deducted, attended, adjusted, epoch>>

Commits(h, op) ==
  /\ proc[h].pc = "commit" /\ proc[h].op = op /\ ~Fails(proc[h])
  /\ book' = Merged(proc[h])
  /\ Finish(h)
  /\ UNCHANGED <<today, hire, attended, epoch>>

CommitCreate(h) ==
  /\ Commits(h, "create")
  /\ request' = [request EXCEPT ![proc[h].req] = [status |-> "PENDING", span |-> proc[h].span]]
  /\ UNCHANGED <<decisions, deducted, adjusted>>

CommitCancel(h) ==
  /\ Commits(h, "CANCELLED")
  /\ request' = [request EXCEPT ![proc[h].req].status = "CANCELLED"]
  /\ UNCHANGED <<decisions, deducted, adjusted>>

CommitDecision(h) ==
  \E verdict \in Verdicts :
    /\ Commits(h, verdict)
    /\ request' = [request EXCEPT ![proc[h].req].status = verdict]
    /\ decisions' = [decisions EXCEPT ![proc[h].req] = Min({2, @ + 1})]
    /\ UNCHANGED <<deducted, adjusted>>

CommitAdjust(h) ==
  /\ Commits(h, "adjust")
  /\ deducted' = [y \in Years |-> deducted[y] + proc[h].next.bucket[y].used
                                              - proc[h].seen.bucket[y].used]
  /\ adjusted' = adjusted + 1
  /\ UNCHANGED <<request, decisions>>

\* The transaction of check-in creates today's timesheet.
Attend(h) ==
  /\ proc[h].pc = "attend"
  /\ attended' = attended \cup {proc[h].span.first}
  /\ Finish(h)
  /\ UNCHANGED <<today, hire, book, request, decisions, deducted, adjusted, epoch>>

\* A corrected employment start date: the book is deleted and built again from
\* the requests, in one transaction that holds every row it deletes.
CorrectHireDate(h) ==
  /\ proc[h].pc = "idle"
  /\ epoch < MaxRebuilt
  /\ \E d \in HireDays \ {hire} :
       /\ hire' = d
       /\ book' = Rebuild(HeldNow, Sizes, StartDates, d, today)
  /\ deducted' = [y \in Years |-> 0]
  /\ epoch' = epoch + 1
  /\ UNCHANGED <<today, request, decisions, attended, proc, adjusted>>

NextDay ==
  /\ today < LastDay
  /\ today' = today + 1
  /\ UNCHANGED <<hire, book, request, decisions, deducted, attended, proc, adjusted, epoch>>

-----------------------------------------------------------------------------
Init ==
  /\ today \in HireDays
  /\ hire \in HireDays
  /\ book = EmptyBook
  /\ request = [r \in LeaveRequests |-> NoRequest]
  /\ decisions = [r \in LeaveRequests |-> 0]
  /\ deducted = [y \in Years |-> 0]
  /\ attended = {}
  /\ proc = [h \in Handlers |-> Idle]
  /\ adjusted = 0
  /\ epoch = 0

Receive(h) ==
  \/ ReceiveCreate(h) \/ ReceiveCancel(h) \/ ReceiveDecide(h)
  \/ ReceiveAdjust(h) \/ ReceiveView(h) \/ ReceiveCheckIn(h)

Continue(h) ==
  \/ SettleRead(h) \/ SettleCommit(h) \/ CheckAttendance(h)
  \/ CreateRead(h) \/ AnswerRead(h) \/ AdjustRead(h) \/ Rollback(h)
  \/ CommitCreate(h) \/ CommitCancel(h) \/ CommitDecision(h) \/ CommitAdjust(h)
  \/ Attend(h)

Next ==
  \/ \E h \in Handlers : Receive(h) \/ Continue(h) \/ CorrectHireDate(h)
  \/ NextDay

Spec == Init /\ [][Next]_vars
=============================================================================
