----------------------------- MODULE Attendance -----------------------------
(***************************************************************************)
(* The timesheets of employees under everything that writes them: the      *)
(* check-in and check-out requests of an app that retries with the same    *)
(* idempotency key, the auto-checkout and missing-checkout jobs (processes *)
(* of their own) and an administrator's correction.                        *)
(*                                                                         *)
(* Every handler reads, awaits, and writes later in a transaction, at READ *)
(* COMMITTED: a transaction sees what others committed before each of its  *)
(* statements.  A handler is therefore a process that takes one step per   *)
(* read and one per committed write; steps of different processes          *)
(* interleave.  A transaction whose first statement locks the row is one   *)
(* step.                                                                   *)
(***************************************************************************)
EXTENDS DayClock, FiniteSets

CONSTANTS
  Employees,
  Keys,        \* the idempotency keys (UUIDs) clients make up
  Messages,    \* the requests clients send, each under a key of its own
  Requests,    \* handlers of the API process that can be in flight at once
  Jobs,        \* rows the cron jobs can be working on at once
  AdminTimes,  \* the times an administrator may type into a correction
  NoKey,       \* a null idempotency key
  ServerKey    \* a key the server makes up itself, never a client's

ASSUME AttendanceAssumption ==
  /\ Employees # {}
  /\ Requests \cap Jobs = {}
  /\ Messages \subseteq [op : {"checkIn", "checkOut"}, emp : Employees, key : Keys]
  /\ \A m, n \in Messages : m.key = n.key => m = n
  /\ AdminTimes \subseteq Instants
  /\ NoKey \notin Keys /\ ServerKey \notin Keys /\ NoKey # ServerKey

VARIABLES
  sheet,        \* the table Timesheet, by its unique (employeeId, workDate)
  proc,         \* the local state of every handler
  autoEnabled,  \* Organization.attendanceAutoCheckoutEnabled
  now,          \* the server's clock
  done,         \* observation: the keys whose request has changed a sheet
  marks,        \* observation: missing-checkout notices since the sheet was
                \*   last opened (max 2)
  settled       \* observation: the sheets an administrator has written

vars == <<sheet, proc, autoEnabled, now, done, marks, settled>>

-----------------------------------------------------------------------------
Procs == Requests \cup Jobs

Ids == Employees \X Days

Sources == {"NONE", "EMPLOYEE", "SYSTEM", "ADMIN"}

\* AttendanceStatus; the ON_TIME and LATE variants are not told apart.  ABSENT
\* is a row that does not exist.
Statuses == {"ABSENT", "PRESENT", "COMPLETED", "MISSING_CHECKOUT"}

Sheet ==
  [status   : Statuses,
   open     : BOOLEAN,
   checkIn  : Instants \cup {NoInstant},
   checkOut : Instants \cup {NoInstant},
   source   : Sources,
   missing  : BOOLEAN,
   inKey    : Keys \cup {NoKey, ServerKey},
   outKey   : Keys \cup {NoKey, ServerKey}]

NoSheet ==
  [status |-> "ABSENT", open |-> FALSE, checkIn |-> NoInstant,
   checkOut |-> NoInstant, source |-> "NONE", missing |-> FALSE,
   inKey |-> NoKey, outKey |-> NoKey]

\* Where a handler is: the next step it takes.
ClientSteps == {"readToday", "guardOpen", "writeIn", "findOpen", "closeEmployee"}

Steps == ClientSteps \cup {"idle", "closeSystem", "mark", "correct", "approve"}

\* The local state of a handler: the sheet it works on, its key, the time it
\* read from the clock and the row it read.
Proc == [pc : Steps, id : Ids, key : Keys \cup {NoKey},
         at : Instants, row : Sheet]

Exists(id) == sheet[id].status # "ABSENT"

OpenIdsOf(e) == {id \in Ids : id[1] = e /\ sheet[id].open}

CanReCheckIn(row) == ~row.open /\ row.source = "EMPLOYEE"

Bump(n) == IF n < 2 THEN n + 1 ELSE n

Idle == [pc |-> "idle", id |-> CHOOSE id \in Ids : TRUE, key |-> NoKey,
         at |-> [day |-> 0, tick |-> 0], row |-> NoSheet]

Goto(p, l) == proc' = [proc EXCEPT ![p].pc = l]

\* The handler answers, or throws: it holds nothing afterwards.
End(p) == proc' = [proc EXCEPT ![p] = Idle]

-----------------------------------------------------------------------------
Init ==
  /\ sheet = [id \in Ids |-> NoSheet]
  /\ proc = [p \in Procs |-> Idle]
  /\ autoEnabled \in BOOLEAN
  /\ now = [day |-> 0, tick |-> 0]
  /\ done = {}
  /\ marks = [id \in Ids |-> 0]
  /\ settled = {}

-----------------------------------------------------------------------------
(* Check-in and check-out requests.  A client may send a request at any time *)
(* and any number of times: retries and late duplicates are deliveries.      *)

ReceiveCheckIn(p, m) ==
  /\ proc[p].pc = "idle"
  /\ m.op = "checkIn"
  /\ IF \E id \in Ids : sheet[id].inKey = m.key
     THEN UNCHANGED proc
     ELSE proc' = [proc EXCEPT ![p] = [pc |-> "readToday", id |-> <<m.emp, now.day>>,
                                       key |-> m.key, at |-> now, row |-> NoSheet]]
  /\ UNCHANGED <<sheet, autoEnabled, now, done, marks, settled>>

\* The sheet of today: open, it is the answer; closed for good, the day cannot
\* be checked in again.
ReadToday(p) ==
  LET row == sheet[proc[p].id] IN
  /\ proc[p].pc = "readToday"
  /\ IF row.status # "ABSENT" /\ ~CanReCheckIn(row)
     THEN End(p)
     ELSE proc' = [proc EXCEPT ![p].pc = "guardOpen", ![p].row = row]
  /\ UNCHANGED <<sheet, autoEnabled, now, done, marks, settled>>

\* Fault: a shift carried over from an earlier day does not count.
BlockingToday(p) == {id \in OpenIdsOf(proc[p].id[1]) : id = proc[p].id}

\* The transaction's first statement: no open shift on any day.
BlockingShifts(p) == OpenIdsOf(proc[p].id[1])

GuardOpenShift(p) ==
  /\ proc[p].pc = "guardOpen"
  /\ IF BlockingShifts(p) # {} THEN End(p) ELSE Goto(p, "writeIn")
  /\ UNCHANGED <<sheet, autoEnabled, now, done, marks, settled>>

FirstCheckIn(p) ==
  LET id == proc[p].id
      k  == proc[p].key
  IN
  /\ proc[p].pc = "writeIn"
  /\ proc[p].row = NoSheet
  /\ IF Exists(id) \/ \E i \in Ids : sheet[i].inKey = k
     THEN UNCHANGED <<sheet, done, marks, settled>>
     ELSE /\ sheet' = [sheet EXCEPT ![id] =
                         [NoSheet EXCEPT !.status = "PRESENT", !.open = TRUE,
                                         !.checkIn = proc[p].at, !.inKey = k]]
          /\ done' = done \cup {k}
          /\ marks' = [marks EXCEPT ![id] = 0]
  /\ End(p)
  /\ UNCHANGED <<autoEnabled, now, settled>>

\* Fault: the check-out key is left behind.
ReopenedKeepingKey(row) ==
  [row EXCEPT !.status = "PRESENT", !.open = TRUE, !.checkOut = NoInstant,
              !.source = "NONE", !.missing = FALSE]

Reopened(row) ==
  [row EXCEPT !.status = "PRESENT", !.open = TRUE, !.checkOut = NoInstant,
              !.source = "NONE", !.missing = FALSE, !.outKey = NoKey]

\* The where clause of the update: the row may have changed since it was read.
StillReopenable(id) == CanReCheckIn(sheet[id])

\* The first check-in and its key stay; the request's own key is not stored.
ReCheckIn(p) ==
  LET id == proc[p].id IN
  /\ proc[p].pc = "writeIn"
  /\ proc[p].row # NoSheet
  /\ IF StillReopenable(id)
     THEN /\ sheet' = [sheet EXCEPT ![id] = Reopened(@)]
          /\ done' = done \cup {proc[p].key}
          /\ marks' = [marks EXCEPT ![id] = 0]
     ELSE UNCHANGED <<sheet, done, marks, settled>>
  /\ End(p)
  /\ UNCHANGED <<autoEnabled, now, settled>>

ReceiveCheckOut(p, m) ==
  /\ proc[p].pc = "idle"
  /\ m.op = "checkOut"
  /\ IF \E id \in Ids : sheet[id].outKey = m.key
     THEN UNCHANGED proc
     ELSE proc' = [proc EXCEPT ![p] = [pc |-> "findOpen", id |-> <<m.emp, now.day>>,
                                       key |-> m.key, at |-> now, row |-> NoSheet]]
  /\ UNCHANGED <<sheet, autoEnabled, now, done, marks, settled>>

FindOpenShift(p) ==
  /\ proc[p].pc = "findOpen"
  /\ \/ /\ OpenIdsOf(proc[p].id[1]) = {}
        /\ End(p)
     \/ \E id \in OpenIdsOf(proc[p].id[1]) :
          proc' = [proc EXCEPT ![p] = [pc |-> "closeEmployee", id |-> id,
                                       key |-> @.key, at |-> now, row |-> sheet[id]]]
  /\ UNCHANGED <<sheet, autoEnabled, now, done, marks, settled>>

-----------------------------------------------------------------------------
(* Closing a shift, shared by the check-out request and the auto-checkout    *)
(* job.  Flag and status come from the row that was read earlier.            *)

\* Fault: the date of the check-out is not looked at.
ClosedIgnoringDate(current, row, id, at, src, k) ==
  LET missing == src = "SYSTEM" \/ row.missing
  IN [current EXCEPT !.open = FALSE, !.checkOut = at, !.source = src,
                     !.missing = missing, !.outKey = k,
                     !.status = IF missing THEN "MISSING_CHECKOUT" ELSE "COMPLETED"]

Closed(current, row, id, at, src, k) ==
  LET missing == \/ src = "SYSTEM"
                 \/ row.missing
                 \/ IsCrossDay(id[2], at)
  IN [current EXCEPT !.open = FALSE, !.checkOut = at, !.source = src,
                     !.missing = missing, !.outKey = k,
                     !.status = IF missing THEN "MISSING_CHECKOUT" ELSE "COMPLETED"]

\* Fault: isOpen is missing from the where clause.
AnySheet(id) == Exists(id)

StillToClose(id) == sheet[id].open

CloseByEmployee(p) ==
  LET id == proc[p].id
      k  == proc[p].key
  IN
  /\ proc[p].pc = "closeEmployee"
  /\ IF StillToClose(id) /\ \A i \in Ids : sheet[i].outKey # k
     THEN /\ sheet' = [sheet EXCEPT ![id] =
                         Closed(@, proc[p].row, id, proc[p].at, "EMPLOYEE", k)]
          /\ done' = done \cup {k}
     ELSE UNCHANGED <<sheet, done>>
  /\ End(p)
  /\ UNCHANGED <<autoEnabled, now, marks, settled>>

CloseBySystem(p) ==
  LET id == proc[p].id IN
  /\ proc[p].pc = "closeSystem"
  /\ IF StillToClose(id)
     THEN sheet' = [sheet EXCEPT ![id] =
                      Closed(@, proc[p].row, id, SystemCheckoutAt(id[2], proc[p].at),
                             "SYSTEM", ServerKey)]
     ELSE UNCHANGED sheet
  /\ End(p)
  /\ UNCHANGED <<autoEnabled, now, done, marks, settled>>

-----------------------------------------------------------------------------
(* The jobs.  A run reads its candidates at once and then works through      *)
(* them; each row is one member of Jobs, read when the run started.          *)

StartJob(p, id, l) ==
  /\ proc[p].pc = "idle"
  /\ proc' = [proc EXCEPT ![p] = [pc |-> l, id |-> id, key |-> NoKey,
                                  at |-> now, row |-> sheet[id]]]
  /\ UNCHANGED <<sheet, autoEnabled, now, done, marks, settled>>

AutoCheckoutRead(p, id) ==
  /\ sheet[id].open
  /\ sheet[id].checkOut = NoInstant
  /\ autoEnabled
  /\ IsEligibleForAutoCheckout(sheet[id].checkIn, now)
  /\ StartJob(p, id, "closeSystem")

\* Fault: only today's shifts are scanned.
IsOverdueToday(d, t) == t.day = d /\ Before(ScheduledOut(d), t)

\* MISSING_CHECKOUT_GRACE_MINUTES is shorter than a tick.
IsOverdue(d, t) == Before(ScheduledOut(d), t)

MissingCheckoutRead(p, id) ==
  /\ sheet[id].open
  /\ ~sheet[id].missing
  /\ IsOverdue(id[2], now)
  /\ StartJob(p, id, "mark")

\* Fault: isMissingCheckout is missing from the where clause.
StillOpen(id) == sheet[id].open

StillUnflagged(id) == sheet[id].open /\ ~sheet[id].missing

MarkMissing(p) ==
  LET id == proc[p].id IN
  /\ proc[p].pc = "mark"
  /\ IF StillUnflagged(id)
     THEN /\ sheet' = [sheet EXCEPT ![id].missing = TRUE,
                                    ![id].status = "MISSING_CHECKOUT"]
          /\ marks' = [marks EXCEPT ![id] = Bump(@)]
     ELSE UNCHANGED <<sheet, marks>>
  /\ End(p)
  /\ UNCHANGED <<autoEnabled, now, done, settled>>

-----------------------------------------------------------------------------
(* An administrator corrects a sheet: the transaction overwrites it whatever *)
(* happened to it since it was read.                                         *)

CorrectRead(p, id) ==
  /\ Exists(id)
  /\ StartJob(p, id, "correct")

\* Fault: the order of the two times is not checked.
RangeUnchecked(in, out) == out # NoInstant

IsValidRange(in, out) == out # NoInstant /\ Before(in, out)

Corrected(row, in, out) ==
  [row EXCEPT !.checkIn = in, !.checkOut = out, !.open = FALSE, !.missing = FALSE,
              !.source = "ADMIN", !.status = "COMPLETED"]

CorrectTimesheet(p) ==
  LET id  == proc[p].id
      row == proc[p].row
  IN
  /\ proc[p].pc = "correct"
  /\ \E in \in AdminTimes \cup {row.checkIn}, out \in AdminTimes \cup {row.checkOut} :
       /\ IsValidRange(in, out)
       /\ sheet' = [sheet EXCEPT ![id] = Corrected(@, in, out)]
  /\ settled' = settled \cup {id}
  /\ End(p)
  /\ UNCHANGED <<autoEnabled, now, done, marks>>

-----------------------------------------------------------------------------
(* An administrator approves an employee's correctness request for a past    *)
(* day: no transaction, and the sheet is created when there was none.  Who   *)
(* closed the sheet is not written.  The requests are not modelled here.     *)

ApproveRead(p, id) ==
  /\ id[2] < now.day
  /\ StartJob(p, id, "approve")

ByRequest(row, in, out) ==
  [row EXCEPT !.checkIn = in, !.checkOut = out, !.open = FALSE, !.missing = FALSE,
              !.status = "COMPLETED"]

ApproveCorrectness(p) ==
  LET id  == proc[p].id
      row == proc[p].row
  IN
  /\ proc[p].pc = "approve"
  /\ IF row = NoSheet /\ Exists(id)
     THEN UNCHANGED <<sheet, settled>>
     ELSE /\ \E times \in SessionActuals(id[2]) :
               LET old == IF row = NoSheet
                          THEN [NoSheet EXCEPT !.inKey = ServerKey, !.outKey = ServerKey]
                          ELSE sheet[id]
               IN sheet' = [sheet EXCEPT ![id] = ByRequest(old, times[1], times[2])]
          /\ settled' = settled \cup {id}
  /\ End(p)
  /\ UNCHANGED <<autoEnabled, now, done, marks>>

-----------------------------------------------------------------------------
\* Leave, holiday, geofence, photo, late reason or worksheet rejects the request,
\* the database rolls its transaction back, or the process dies: nothing of it
\* stays in the database.
Fail(p) ==
  /\ proc[p].pc # "idle"
  /\ End(p)
  /\ UNCHANGED <<sheet, autoEnabled, now, done, marks, settled>>

SetAutoCheckout ==
  /\ autoEnabled' = ~autoEnabled
  /\ UNCHANGED <<sheet, proc, now, done, marks, settled>>

Tick ==
  /\ now # LastInstant
  /\ now' = Successor(now)
  /\ UNCHANGED <<sheet, proc, autoEnabled, done, marks, settled>>

Next ==
  \/ \E p \in Requests, m \in Messages : ReceiveCheckIn(p, m) \/ ReceiveCheckOut(p, m)
  \/ \E p \in Requests, id \in Ids : CorrectRead(p, id) \/ ApproveRead(p, id)
  \/ \E p \in Jobs, id \in Ids : AutoCheckoutRead(p, id) \/ MissingCheckoutRead(p, id)
  \/ \E p \in Procs :
       \/ ReadToday(p) \/ GuardOpenShift(p) \/ FirstCheckIn(p) \/ ReCheckIn(p)
       \/ FindOpenShift(p) \/ CloseByEmployee(p) \/ CloseBySystem(p)
       \/ MarkMissing(p) \/ CorrectTimesheet(p) \/ ApproveCorrectness(p)
       \/ Fail(p)
  \/ SetAutoCheckout
  \/ Tick

Spec == Init /\ [][Next]_vars
=============================================================================
