------------------------ MODULE AttendanceProperties ------------------------
(***************************************************************************)
(* What the timesheet handlers owe: the type invariant, the safety         *)
(* properties and the liveness properties of module Attendance.            *)
(***************************************************************************)
EXTENDS Attendance

\* Every variable has its type, and a handler of a client's request holds the
\* key of that request.
TypeOK ==
  /\ sheet \in [Ids -> Sheet]
  /\ proc \in [Procs -> Proc]
  /\ \A p \in Procs : proc[p].pc \in ClientSteps => proc[p].key \in Keys
  /\ autoEnabled \in BOOLEAN
  /\ now \in [day : Days, tick : 0..LastTick]
  /\ done \subseteq Keys
  /\ marks \in [Ids -> 0..2]
  /\ settled \subseteq Ids

-----------------------------------------------------------------------------
(* Safety *)

\* The columns that describe the end of a shift agree, although they are
\* written by seven handlers, three of them from a row read earlier: a sheet is
\* open exactly while it has no check-out time, and has no source while it is
\* open; a stored check-out key belongs to a closed sheet (a retry is answered
\* from it); the status says "missing check-out" exactly when the flag does; and
\* until an administrator settles it, a closed sheet says who closed it and is
\* flagged if that was the system.
RecordConsistent ==
  \A id \in Ids : LET s == sheet[id] IN
    /\ s.status = "ABSENT" => s = NoSheet
    /\ Exists(id) => /\ s.open <=> s.checkOut = NoInstant
                     /\ s.open => s.source = "NONE"
                     /\ ~s.open /\ id \notin settled => s.source # "NONE"
                     /\ s.status = "COMPLETED" => ~s.open
                     /\ s.status = "PRESENT" => s.open
    /\ s.outKey # NoKey => ~s.open
    /\ s.missing <=> s.status = "MISSING_CHECKOUT"
    /\ s.source = "SYSTEM" /\ id \notin settled => s.missing

\* A day closed by the system or by an administrator is never opened again, and
\* the system never takes over what an administrator closed ("Same-day re-entry
\* is allowed only after an employee checkout").
SealedForever ==
  [][\A id \in Ids :
       /\ sheet[id].source \in {"SYSTEM", "ADMIN"} => ~sheet'[id].open
       /\ sheet[id].source = "ADMIN" => sheet'[id].source = "ADMIN"]_sheet

\* A shift closed by its employee ends no earlier than it began, whatever was
\* written between the handler's reading of the row and its own write, and a
\* corrected one ends later than it began.  (An employee's shift that a
\* correctness approval has given other times is left out.)
EndsAfterItBegan ==
  \A id \in Ids :
    /\ sheet[id].source = "EMPLOYEE" /\ id \notin settled =>
         ~Before(sheet[id].checkOut, sheet[id].checkIn)
    /\ Exists(id) /\ id \in settled /\ ~sheet[id].open /\ sheet[id].source = "ADMIN" =>
         ~Before(sheet[id].checkOut, sheet[id].checkIn)

\* While a shift is open the missing-checkout job announces it at most once,
\* even when runs of the job overlap.
OneNoticePerShift == \A id \in Ids : marks[id] <= 1

\* A shift its employee closed on a later day is flagged as a missing check-out
\* until an administrator settles it.
CarriedOverIsFlagged ==
  \A id \in Ids \ settled :
    sheet[id].source = "EMPLOYEE" /\ sheet[id].checkOut.day > id[2] =>
      sheet[id].missing

\* An employee has at most one open shift ("Close your open shift with checkout
\* before checking in again").
OneOpenShift == \A e \in Employees : Cardinality(OpenIdsOf(e)) <= 1

\* A request takes effect once, however often it is delivered: no handler of a
\* key that has already changed a sheet changes one.  Check-in stores its key
\* with the first check-in of a day, check-out stores one that re-entry erases.
EachKeyTakesEffectOnce ==
  [][\A p \in Requests :
       proc[p].pc \in {"closeEmployee", "writeIn"} /\ proc'[p] # proc[p] /\ sheet' # sheet =>
         proc[p].key \notin done]_vars

\* What a handler remembers from its reads is still good enough when it writes:
\* its clock value is not in the future, the sheet it is about to close or
\* correct exists, and unless an administrator has written that sheet its
\* check-in is the one that was read, not later than the handler's clock.
StaleRowsAgree ==
  /\ \A p \in Procs : LET q == proc[p] IN
       /\ ~Before(now, q.at)
       /\ q.pc \in {"closeEmployee", "closeSystem", "mark", "correct"} => Exists(q.id)
       /\ q.pc = "approve" /\ q.row # NoSheet => Exists(q.id)
       /\ q.pc = "closeEmployee" /\ q.id \notin settled =>
            /\ ~Before(q.at, q.row.checkIn)
            /\ sheet[q.id].checkIn = q.row.checkIn
  /\ \A id \in Ids :
       /\ Exists(id) /\ id \notin settled => ~Before(now, sheet[id].checkIn)
       /\ sheet[id].source = "ADMIN" => id \in settled

\* Seven handlers write a timesheet, three of them from a row they read before
\* other requests ran: the columns stay typed and consistent, and what each
\* handler remembers is still good enough when it writes.
TimesheetsAreSound == TypeOK /\ RecordConsistent /\ StaleRowsAgree

-----------------------------------------------------------------------------
(* Every behaviour of the handlers is, seen day by day, one of the abstract  *)
(* lifecycle's.                                                              *)

PhaseOf(s) ==
  IF s.status = "ABSENT" THEN "absent"
  ELSE IF s.open         THEN "open"
  ELSE IF CanReCheckIn(s) THEN "left"
                          ELSE "sealed"

Lifecycle == INSTANCE DayLifecycle WITH
  phase   <- [id \in Ids |-> PhaseOf(sheet[id])],
  flagged <- [id \in Ids |-> sheet[id].missing]

\* The timesheets implement the abstract lifecycle of a day: absent, open, left
\* and open again, or sealed for good, with the missing-check-out flag set and
\* cleared only where the lifecycle says.
ImplementsLifecycle == Lifecycle!DaySpec

-----------------------------------------------------------------------------
(* Liveness.  The cron daemon starts the jobs again and again, so a job      *)
(* whose work stays possible is started infinitely often, and a run that is  *)
(* killed (Fail) is followed by one that is not.                             *)

JobFairness ==
  /\ WF_vars(Tick)
  /\ \A p \in Jobs :
       /\ SF_vars(CloseBySystem(p))
       /\ SF_vars(MarkMissing(p))
       /\ \A id \in Ids : /\ SF_vars(AutoCheckoutRead(p, id))
                          /\ SF_vars(MissingCheckoutRead(p, id))

\* With auto-checkout left enabled, every open shift is closed: at the auto time
\* of its day or, begun after that, of the next day.  The last day has no next.
OpenShiftIsClosed ==
  <>[]autoEnabled =>
    \A id \in Ids :
      sheet[id].open /\ Before(sheet[id].checkIn, AutoCheckoutAt(LastInstant))
        ~> ~sheet[id].open

\* A shift open past its scheduled end is flagged or closed.
ForgottenShiftIsFlagged ==
  \A id \in Ids :
    sheet[id].open /\ Before(ScheduledOut(id[2]), LastInstant)
      ~> sheet[id].missing \/ ~sheet[id].open
=============================================================================
