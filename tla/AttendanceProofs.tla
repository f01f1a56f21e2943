-------------------------- MODULE AttendanceProofs --------------------------
(***************************************************************************)
(* Machine-checked proofs about module Attendance, for every set of        *)
(* employees, keys, requests and jobs and every calendar.                  *)
(***************************************************************************)
EXTENDS AttendanceProperties, FiniteSetTheorems, TLAPS

\* The calendar's days and instants are what the comparisons expect.
LEMMA InstantFacts ==
  /\ Instants \subseteq [day : Int, tick : Int]
  /\ NoInstant \in [day : Int, tick : Int]
  /\ NoInstant \notin Instants
  /\ [day : Days, tick : 0..LastTick] \subseteq Instants
  /\ [day |-> 0, tick |-> 0] \in [day : Days, tick : 0..LastTick]
BY ClockAssumption DEF Instants, NoInstant, Days

\* What the system records as a check-out is an instant of the calendar.
LEMMA ScheduleFacts ==
  ASSUME NEW d \in Days
  PROVE  /\ ScheduledIn(d) \in Instants
         /\ ScheduledOut(d) \in Instants
         /\ Before(ScheduledIn(d), ScheduledOut(d))
         /\ \A t \in [day : Days, tick : 0..LastTick] : SystemCheckoutAt(d, t) \in Instants
<1>1. /\ ScheduledIn(d) \in Instants
      /\ ScheduledOut(d) \in Instants
      /\ Before(ScheduledIn(d), ScheduledOut(d))
  BY ClockAssumption DEF Days, Instants, ScheduledIn, ScheduledOut, Before
<1>2. \A t \in [day : Days, tick : 0..LastTick] : AutoCheckoutAt(t) \in Instants
  BY ClockAssumption DEF Days, Instants, AutoCheckoutAt
<1>3. QED
  BY <1>1, <1>2 DEF SystemCheckoutAt

\* An approved request writes two instants of the calendar, in order.
LEMMA SessionFacts ==
  ASSUME NEW d \in Days, NEW times \in SessionActuals(d)
  PROVE  times[1] \in Instants /\ times[2] \in Instants
BY ScheduleFacts DEF SessionActuals

\* The clock stays within the calendar.
LEMMA SuccessorFacts ==
  ASSUME NEW t \in [day : Days, tick : 0..LastTick], t # LastInstant
  PROVE  /\ Successor(t) \in [day : Days, tick : 0..LastTick]
         /\ Before(t, Successor(t))
BY ClockAssumption DEF Successor, LastInstant, Days, Before

\* There is a day of an employee, so an idle handler is well typed.
LEMMA IdleFacts == Idle \in Proc /\ NoSheet \in Sheet
<1>1. \E id : id \in Ids
  <2>1. PICK e : e \in Employees
    BY AttendanceAssumption
  <2>2. <<e, 0>> \in Ids
    BY <2>1, ClockAssumption DEF Ids, Days
  <2>3. QED
    BY <2>2
<1>2. (CHOOSE id \in Ids : TRUE) \in Ids
  BY <1>1
<1>3. NoSheet \in Sheet
  BY DEF NoSheet, Sheet, Statuses, Sources
<1>4. [day |-> 0, tick |-> 0] \in Instants
  BY InstantFacts
<1>5. QED
  BY <1>2, <1>3, <1>4 DEF Idle, Proc, Steps

-----------------------------------------------------------------------------
(* Type correctness. *)

\* The row writers produce rows.
LEMMA RowFacts ==
  ASSUME NEW s \in Sheet, NEW row \in Sheet, NEW id \in Ids,
         NEW in \in Instants \cup {NoInstant}, NEW out \in Instants \cup {NoInstant},
         NEW src \in Sources, NEW k \in Keys \cup {NoKey, ServerKey}
  PROVE  /\ Reopened(s) \in Sheet
         /\ Closed(s, row, id, out, src, k) \in Sheet
         /\ Corrected(s, in, out) \in Sheet
         /\ ByRequest(s, in, out) \in Sheet
<1>1. Reopened(s) \in Sheet
  BY DEF Reopened, Sheet, Statuses, Sources
<1>2. Closed(s, row, id, out, src, k) \in Sheet
  <2>1. ASSUME NEW m \in BOOLEAN, NEW st \in Statuses
        PROVE  [s EXCEPT !.open = FALSE, !.checkOut = out, !.source = src,
                         !.missing = m, !.outKey = k, !.status = st] \in Sheet
    BY DEF Sheet
  <2>2. (src = "SYSTEM" \/ row.missing \/ IsCrossDay(id[2], out)) \in BOOLEAN
    BY DEF Sheet
  <2>3. QED
    BY <2>1, <2>2 DEF Closed, Statuses
<1>3. Corrected(s, in, out) \in Sheet
  BY DEF Corrected, Sheet, Statuses, Sources
<1>4. ByRequest(s, in, out) \in Sheet
  BY DEF ByRequest, Sheet, Statuses, Sources
<1>5. QED
  BY <1>1, <1>2, <1>3, <1>4

\* A handler's local state, and what an update of one handler leaves of it.
LocalOK(q) == q \in Proc /\ (q.pc \in ClientSteps => q.key \in Keys)

LEMMA LocalFacts ==
  ASSUME TypeOK, NEW p \in Procs
  PROVE  /\ LocalOK(proc[p])
         /\ \A q : LocalOK(q) /\ proc' = [proc EXCEPT ![p] = q] =>
              /\ proc' \in [Procs -> Proc]
              /\ \A r \in Procs : proc'[r].pc \in ClientSteps => proc'[r].key \in Keys
         /\ End(p) =>
              /\ proc' \in [Procs -> Proc]
              /\ \A r \in Procs : proc'[r].pc \in ClientSteps => proc'[r].key \in Keys
<1>1. LocalOK(proc[p])
  BY DEF TypeOK, LocalOK
<1>2. ASSUME NEW q, LocalOK(q), proc' = [proc EXCEPT ![p] = q]
      PROVE  /\ proc' \in [Procs -> Proc]
             /\ \A r \in Procs : proc'[r].pc \in ClientSteps => proc'[r].key \in Keys
  BY <1>2 DEF TypeOK, LocalOK
<1>3. LocalOK(Idle)
  BY IdleFacts DEF LocalOK, Idle, ClientSteps
<1>4. QED
  BY <1>1, <1>2, <1>3 DEF End

\* A handler that moves on keeps a well-typed local state.
LEMMA GotoFacts ==
  ASSUME NEW q, LocalOK(q), q.pc \in ClientSteps, NEW l \in Steps, NEW s \in Sheet
  PROVE  /\ LocalOK([q EXCEPT !.pc = l])
         /\ LocalOK([q EXCEPT !.pc = l, !.row = s])
BY DEF LocalOK, Proc

\* Every step of a handler, a job, an administrator or the clock keeps the
\* types of the tables.
LEMMA TypeStep == TypeOK /\ [Next]_vars => TypeOK'
<1> SUFFICES ASSUME TypeOK, [Next]_vars PROVE TypeOK'
  OBVIOUS
<1>1. \A p \in Procs : LocalOK(proc[p]) /\ proc[p].id \in Ids /\ proc[p].at \in Instants
                         /\ proc[p].row \in Sheet /\ sheet[proc[p].id] \in Sheet
  BY LocalFacts DEF TypeOK, LocalOK, Proc
<1>2. now \in Instants /\ (\A id \in Ids : sheet[id] \in Sheet) /\ NoSheet \in Sheet
  BY InstantFacts, IdleFacts DEF TypeOK
<1>3. ASSUME NEW p \in Requests, NEW m \in Messages, ReceiveCheckIn(p, m)
      PROVE  TypeOK'
  <2> DEFINE q == [pc |-> "readToday", id |-> <<m.emp, now.day>>,
                   key |-> m.key, at |-> now, row |-> NoSheet]
  <2>1. LocalOK(q)
    BY <1>2, AttendanceAssumption DEF LocalOK, Proc, Steps, ClientSteps, Ids, TypeOK
  <2>2. p \in Procs
    BY DEF Procs
  <2> HIDE DEF q
  <2>3. CASE UNCHANGED proc
    BY <1>3, <2>3 DEF ReceiveCheckIn, TypeOK
  <2>4. CASE proc' = [proc EXCEPT ![p] = q]
    BY <1>3, <2>1, <2>2, <2>4, LocalFacts DEF ReceiveCheckIn, TypeOK
  <2>5. QED
    BY <1>3, <2>3, <2>4 DEF ReceiveCheckIn, q
<1>4. ASSUME NEW p \in Requests, NEW m \in Messages, ReceiveCheckOut(p, m)
      PROVE  TypeOK'
  <2> DEFINE q == [pc |-> "findOpen", id |-> <<m.emp, now.day>>,
                   key |-> m.key, at |-> now, row |-> NoSheet]
  <2>1. LocalOK(q)
    BY <1>2, AttendanceAssumption DEF LocalOK, Proc, Steps, ClientSteps, Ids, TypeOK
  <2>2. p \in Procs
    BY DEF Procs
  <2> HIDE DEF q
  <2>3. CASE UNCHANGED proc
    BY <1>4, <2>3 DEF ReceiveCheckOut, TypeOK
  <2>4. CASE proc' = [proc EXCEPT ![p] = q]
    BY <1>4, <2>1, <2>2, <2>4, LocalFacts DEF ReceiveCheckOut, TypeOK
  <2>5. QED
    BY <1>4, <2>3, <2>4 DEF ReceiveCheckOut, q
<1>5. ASSUME NEW p \in Procs, NEW id \in Ids,
             NEW l \in {"closeSystem", "mark", "correct", "approve"}, StartJob(p, id, l)
      PROVE  TypeOK'
  <2> DEFINE q == [pc |-> l, id |-> id, key |-> NoKey, at |-> now, row |-> sheet[id]]
  <2>1. LocalOK(q)
    BY <1>2 DEF LocalOK, Proc, Steps, ClientSteps
  <2>2. proc' = [proc EXCEPT ![p] = q]
    BY <1>5 DEF StartJob
  <2> HIDE DEF q
  <2>3. QED
    BY <1>5, <2>1, <2>2, LocalFacts DEF StartJob, TypeOK
<1>6. ASSUME NEW p \in Procs, End(p),
             UNCHANGED <<sheet, autoEnabled, now, done, marks, settled>>
      PROVE  TypeOK'
  BY <1>6, LocalFacts DEF TypeOK
<1>7. ASSUME NEW p \in Procs, ReadToday(p)
      PROVE  TypeOK'
  <2> DEFINE q == [proc[p] EXCEPT !.pc = "guardOpen", !.row = sheet[proc[p].id]]
  <2>1. LocalOK(q)
    BY <1>1, <1>7, GotoFacts DEF ReadToday, ClientSteps, Steps
  <2>2. CASE End(p)
    BY <1>6, <1>7, <2>2 DEF ReadToday
  <2>3. CASE ~End(p)
    <3>1. proc' = [proc EXCEPT ![p] = q]
      BY <1>7, <2>3 DEF ReadToday
    <3> HIDE DEF q
    <3>2. QED
      BY <1>7, <2>1, <3>1, LocalFacts DEF ReadToday, TypeOK
  <2>4. QED
    BY <2>2, <2>3
<1>8. ASSUME NEW p \in Procs, GuardOpenShift(p)
      PROVE  TypeOK'
  <2> DEFINE q == [proc[p] EXCEPT !.pc = "writeIn"]
  <2>1. LocalOK(q)
    BY <1>1, <1>8, GotoFacts DEF GuardOpenShift, ClientSteps, Steps
  <2>2. CASE End(p)
    BY <1>6, <1>8, <2>2 DEF GuardOpenShift
  <2>3. CASE ~End(p)
    <3>1. proc' = [proc EXCEPT ![p] = q]
      BY <1>8, <2>3 DEF GuardOpenShift, Goto
    <3> HIDE DEF q
    <3>2. QED
      BY <1>8, <2>1, <3>1, LocalFacts DEF GuardOpenShift, TypeOK
  <2>4. QED
    BY <2>2, <2>3
<1>9. ASSUME NEW p \in Procs, FindOpenShift(p)
      PROVE  TypeOK'
  <2>1. CASE End(p)
    BY <1>6, <1>9, <2>1 DEF FindOpenShift
  <2>2. CASE ~End(p)
    <3> DEFINE q(id) == [pc |-> "closeEmployee", id |-> id,
                         key |-> proc[p].key, at |-> now, row |-> sheet[id]]
    <3>1. PICK id \in OpenIdsOf(proc[p].id[1]) : proc' = [proc EXCEPT ![p] = q(id)]
      BY <1>9, <2>2 DEF FindOpenShift
    <3>2. proc[p].key \in Keys /\ id \in Ids
      BY <1>1, <1>9 DEF FindOpenShift, ClientSteps, LocalOK, OpenIdsOf
    <3>3. LocalOK(q(id))
      BY <1>2, <3>2 DEF LocalOK, Proc, Steps, ClientSteps
    <3> HIDE DEF q
    <3>4. QED
      BY <1>9, <3>1, <3>3, LocalFacts DEF FindOpenShift, TypeOK
  <2>3. QED
    BY <2>1, <2>2
<1>10. ASSUME NEW p \in Procs, FirstCheckIn(p)
       PROVE  TypeOK'
  <2> DEFINE new == [NoSheet EXCEPT !.status = "PRESENT", !.open = TRUE,
                                    !.checkIn = proc[p].at, !.inKey = proc[p].key]
  <2>1. proc[p].key \in Keys
    BY <1>1, <1>10 DEF FirstCheckIn, ClientSteps, LocalOK
  <2>2. new \in Sheet
    BY <1>1, <2>1 DEF NoSheet, Sheet, Statuses, Sources
  <2>3. End(p) /\ UNCHANGED <<autoEnabled, now, settled>>
    BY <1>10 DEF FirstCheckIn
  <2>4. \/ UNCHANGED <<sheet, done, marks>>
        \/ /\ sheet' = [sheet EXCEPT ![proc[p].id] = new]
           /\ done' = done \cup {proc[p].key}
           /\ marks' = [marks EXCEPT ![proc[p].id] = 0]
    BY <1>10 DEF FirstCheckIn
  <2> HIDE DEF new
  <2>5. QED
    BY <1>1, <2>1, <2>2, <2>3, <2>4, LocalFacts DEF TypeOK
<1>11. ASSUME NEW p \in Procs, ReCheckIn(p)
       PROVE  TypeOK'
  <2>1. proc[p].key \in Keys
    BY <1>1, <1>11 DEF ReCheckIn, ClientSteps, LocalOK
  <2>2. Reopened(sheet[proc[p].id]) \in Sheet
    BY <1>1 DEF Reopened, Sheet, Statuses, Sources
  <2>3. End(p) /\ UNCHANGED <<autoEnabled, now, settled>>
    BY <1>11 DEF ReCheckIn
  <2>4. \/ UNCHANGED <<sheet, done, marks>>
        \/ /\ sheet' = [sheet EXCEPT ![proc[p].id] = Reopened(sheet[proc[p].id])]
           /\ done' = done \cup {proc[p].key}
           /\ marks' = [marks EXCEPT ![proc[p].id] = 0]
    BY <1>11 DEF ReCheckIn
  <2>5. QED
    BY <1>1, <2>1, <2>2, <2>3, <2>4, LocalFacts DEF TypeOK
<1>12. ASSUME NEW p \in Procs, CloseByEmployee(p)
       PROVE  TypeOK'
  <2> DEFINE new == Closed(sheet[proc[p].id], proc[p].row, proc[p].id, proc[p].at,
                           "EMPLOYEE", proc[p].key)
  <2>1. proc[p].key \in Keys
    BY <1>1, <1>12 DEF CloseByEmployee, ClientSteps, LocalOK
  <2>2. new \in Sheet
    BY <1>1, <2>1, RowFacts DEF Sources
  <2>3. End(p) /\ UNCHANGED <<autoEnabled, now, marks, settled>>
    BY <1>12 DEF CloseByEmployee
  <2>4. \/ UNCHANGED <<sheet, done>>
        \/ /\ sheet' = [sheet EXCEPT ![proc[p].id] = new]
           /\ done' = done \cup {proc[p].key}
    BY <1>12 DEF CloseByEmployee
  <2> HIDE DEF new
  <2>5. QED
    BY <1>1, <2>1, <2>2, <2>3, <2>4, LocalFacts DEF TypeOK
<1>13. ASSUME NEW p \in Procs, CloseBySystem(p)
       PROVE  TypeOK'
  <2> DEFINE out == SystemCheckoutAt(proc[p].id[2], proc[p].at)
             new == Closed(sheet[proc[p].id], proc[p].row, proc[p].id, out,
                           "SYSTEM", ServerKey)
  <2>1. out \in Instants
    <3>1. proc[p].id[2] \in Days
      BY <1>1 DEF Ids
    <3>2. AutoCheckoutAt(proc[p].at) \in Instants
      BY <1>1, ClockAssumption DEF AutoCheckoutAt, Instants
    <3>3. QED
      BY <3>1, <3>2, ScheduleFacts DEF SystemCheckoutAt
  <2>2. new \in Sheet
    BY <1>1, <2>1, RowFacts DEF Sources
  <2>3. End(p) /\ UNCHANGED <<autoEnabled, now, done, marks, settled>>
    BY <1>13 DEF CloseBySystem
  <2>4. UNCHANGED sheet \/ sheet' = [sheet EXCEPT ![proc[p].id] = new]
    BY <1>13 DEF CloseBySystem
  <2> HIDE DEF new
  <2>5. QED
    BY <1>1, <2>2, <2>3, <2>4, LocalFacts DEF TypeOK
<1>14. ASSUME NEW p \in Procs, MarkMissing(p)
       PROVE  TypeOK'
  <2> DEFINE new == [sheet[proc[p].id] EXCEPT !.missing = TRUE,
                                              !.status = "MISSING_CHECKOUT"]
  <2>1. new \in Sheet
    BY <1>1 DEF Sheet, Statuses
  <2>2. End(p) /\ UNCHANGED <<autoEnabled, now, done, settled>>
    BY <1>14 DEF MarkMissing
  <2>3. \/ UNCHANGED <<sheet, marks>>
        \/ /\ sheet' = [sheet EXCEPT ![proc[p].id] = new]
           /\ marks' = [marks EXCEPT ![proc[p].id] = Bump(marks[proc[p].id])]
    BY <1>1, <1>14 DEF MarkMissing
  <2>4. \A n \in 0..2 : Bump(n) \in 0..2
    BY DEF Bump
  <2> HIDE DEF new
  <2>5. QED
    BY <1>1, <2>1, <2>2, <2>3, <2>4, LocalFacts DEF TypeOK
<1>15. ASSUME NEW p \in Procs, CorrectTimesheet(p)
       PROVE  TypeOK'
  <2>1. PICK in \in AdminTimes \cup {proc[p].row.checkIn},
             out \in AdminTimes \cup {proc[p].row.checkOut} :
          sheet' = [sheet EXCEPT ![proc[p].id] = Corrected(sheet[proc[p].id], in, out)]
    BY <1>15 DEF CorrectTimesheet
  <2>2. in \in Instants \cup {NoInstant} /\ out \in Instants \cup {NoInstant}
    BY <1>1, AttendanceAssumption DEF Sheet
  <2>3. Corrected(sheet[proc[p].id], in, out) \in Sheet
    BY <1>1, <2>2 DEF Corrected, Sheet, Statuses, Sources
  <2>4. /\ End(p) /\ UNCHANGED <<autoEnabled, now, done, marks>>
        /\ settled' = settled \cup {proc[p].id}
    BY <1>15 DEF CorrectTimesheet
  <2>5. QED
    BY <1>1, <2>1, <2>3, <2>4, LocalFacts DEF TypeOK
<1>16. ASSUME NEW p \in Procs, ApproveCorrectness(p)
       PROVE  TypeOK'
  <2>1. End(p) /\ UNCHANGED <<autoEnabled, now, done, marks>>
    BY <1>16 DEF ApproveCorrectness
  <2>2. CASE UNCHANGED <<sheet, settled>>
    BY <1>6, <2>1, <2>2
  <2>3. CASE ~UNCHANGED <<sheet, settled>>
    <3> DEFINE old == IF proc[p].row = NoSheet
                      THEN [NoSheet EXCEPT !.inKey = ServerKey, !.outKey = ServerKey]
                      ELSE sheet[proc[p].id]
    <3>1. PICK times \in SessionActuals(proc[p].id[2]) :
            sheet' = [sheet EXCEPT ![proc[p].id] = ByRequest(old, times[1], times[2])]
      BY <1>16, <2>3 DEF ApproveCorrectness
    <3>2. settled' = settled \cup {proc[p].id}
      BY <1>16, <2>3 DEF ApproveCorrectness
    <3>3. old \in Sheet
      BY <1>1, <1>2 DEF NoSheet, Sheet, Statuses, Sources
    <3>4. times[1] \in Instants /\ times[2] \in Instants
      <4>1. proc[p].id[2] \in Days
        BY <1>1 DEF Ids
      <4>2. QED
        BY <4>1, SessionFacts
    <3> HIDE DEF old
    <3>5. ByRequest(old, times[1], times[2]) \in Sheet
      BY <3>3, <3>4 DEF ByRequest, Sheet, Statuses, Sources
    <3>6. QED
      BY <1>1, <2>1, <3>1, <3>2, <3>5, LocalFacts DEF TypeOK
  <2>4. QED
    BY <2>2, <2>3
<1>17. ASSUME NEW p \in Procs, Fail(p)
       PROVE  TypeOK'
  BY <1>6, <1>17 DEF Fail
<1>18. CASE SetAutoCheckout
  BY <1>18 DEF SetAutoCheckout, TypeOK
<1>19. CASE Tick
  <2>1. now' \in [day : Days, tick : 0..LastTick]
    BY <1>19, SuccessorFacts DEF Tick, TypeOK
  <2>2. QED
    BY <1>19, <2>1 DEF Tick, TypeOK
<1>20. CASE UNCHANGED vars
  BY <1>20 DEF vars, TypeOK
<1>21. QED
  <2>1. ASSUME NEW p \in Procs, NEW id \in Ids,
               \/ CorrectRead(p, id) \/ ApproveRead(p, id)
               \/ AutoCheckoutRead(p, id) \/ MissingCheckoutRead(p, id)
        PROVE  TypeOK'
    BY <1>5, <2>1 DEF CorrectRead, ApproveRead, AutoCheckoutRead, MissingCheckoutRead
  <2>2. QED
    BY <1>3, <1>4, <1>7, <1>8, <1>9, <1>10, <1>11, <1>12, <1>13, <1>14, <1>15, <1>16,
       <1>17, <1>18, <1>19, <1>20, <2>1 DEF Next, Procs

\* Every state the timesheet handlers reach is well typed, whatever the number
\* of employees, requests, jobs and days.
THEOREM TypeCorrect == Spec => []TypeOK
<1>1. Init => TypeOK
  <2>1. ASSUME Init PROVE \A p \in Procs : proc[p] = Idle
    BY <2>1 DEF Init
  <2>2. Idle.pc \notin ClientSteps
    BY DEF Idle, ClientSteps
  <2>3. QED
    BY <2>1, <2>2, IdleFacts, InstantFacts DEF Init, TypeOK
<1>2. QED
  BY <1>1, TypeStep, PTL DEF Spec

-----------------------------------------------------------------------------
(* The writes.  Seven steps change the table; each changes one sheet, and    *)
(* everything below is argued about that one sheet.                          *)

\* Handler p makes row t of the sheet it works on.
Opened(s, t, q) ==
  /\ s.status = "ABSENT"
  /\ t = [NoSheet EXCEPT !.status = "PRESENT", !.open = TRUE,
                         !.checkIn = q.at, !.inKey = q.key]

LeftByEmployee(s, t, q) ==
  /\ q.pc = "closeEmployee" /\ s.open
  /\ t = Closed(s, q.row, q.id, q.at, "EMPLOYEE", q.key)

LeftToSystem(s, t, q) ==
  /\ q.pc = "closeSystem" /\ s.open
  /\ t = Closed(s, q.row, q.id, SystemCheckoutAt(q.id[2], q.at), "SYSTEM", ServerKey)

Marked(s, t) ==
  /\ s.open /\ ~s.missing
  /\ t = [s EXCEPT !.missing = TRUE, !.status = "MISSING_CHECKOUT"]

CorrectedTo(s, t, q) ==
  /\ q.pc = "correct"
  /\ \E in, out \in Instants \cup {NoInstant} :
       IsValidRange(in, out) /\ t = Corrected(s, in, out)

ApprovedTo(s, t, q) ==
  \E times \in SessionActuals(q.id[2]) :
    \/ t = ByRequest(s, times[1], times[2])
    \/ /\ s.status = "ABSENT"
       /\ t = ByRequest([NoSheet EXCEPT !.inKey = ServerKey, !.outKey = ServerKey],
                        times[1], times[2])

Written(p, t) ==
  LET q == proc[p]
      s == sheet[q.id]
  IN
  /\ sheet' = [sheet EXCEPT ![q.id] = t]
  /\ UNCHANGED now
  /\ \/ /\ Opened(s, t, q) \/ (CanReCheckIn(s) /\ t = Reopened(s))
        /\ settled' = settled
        /\ marks' = [marks EXCEPT ![q.id] = 0]
     \/ /\ LeftByEmployee(s, t, q) \/ LeftToSystem(s, t, q)
        /\ UNCHANGED <<settled, marks>>
     \/ /\ Marked(s, t)
        /\ settled' = settled
        /\ marks' = [marks EXCEPT ![q.id] = Bump(@)]
     \/ /\ CorrectedTo(s, t, q) \/ ApprovedTo(s, t, q)
        /\ settled' = settled \cup {q.id}
        /\ UNCHANGED marks

\* A step writes no sheet, or one handler writes the sheet it works on in one of
\* these ways.
LEMMA WriteStep ==
  ASSUME TypeOK, [Next]_vars
  PROVE  UNCHANGED <<sheet, settled, marks>> \/ \E p \in Procs, t \in Sheet : Written(p, t)
<1> DEFINE Goal == \/ UNCHANGED <<sheet, settled, marks>>
                   \/ \E p \in Procs, t \in Sheet : Written(p, t)
<1>1. \A p \in Procs : /\ proc[p] \in Proc /\ proc[p].id \in Ids /\ proc[p].row \in Sheet
                       /\ sheet[proc[p].id] \in Sheet /\ proc[p].id[2] \in Days
  BY DEF TypeOK, Proc, Ids
<1>2. sheet' \in [Ids -> Sheet]
  BY TypeStep DEF TypeOK
<1>3. ASSUME NEW p \in Procs, NEW t, sheet' = [sheet EXCEPT ![proc[p].id] = t]
      PROVE  t \in Sheet
  BY <1>1, <1>2, <1>3 DEF TypeOK
<1>4. ASSUME NEW p \in Procs, FirstCheckIn(p)
      PROVE  Goal
  <2> DEFINE t == [NoSheet EXCEPT !.status = "PRESENT", !.open = TRUE,
                                  !.checkIn = proc[p].at, !.inKey = proc[p].key]
  <2>1. CASE UNCHANGED <<sheet, done, marks, settled>>
    BY <2>1
  <2>2. CASE ~UNCHANGED <<sheet, done, marks, settled>>
    <3>1. /\ sheet' = [sheet EXCEPT ![proc[p].id] = t]
          /\ marks' = [marks EXCEPT ![proc[p].id] = 0]
          /\ settled' = settled /\ now' = now
          /\ sheet[proc[p].id].status = "ABSENT"
      BY <1>4, <2>2 DEF FirstCheckIn, Exists
    <3>2. Opened(sheet[proc[p].id], t, proc[p])
      BY <3>1 DEF Opened
    <3> HIDE DEF t
    <3>3. Written(p, t) /\ t \in Sheet
      BY <1>3, <3>1, <3>2 DEF Written
    <3>4. QED
      BY <3>3
  <2>3. QED
    BY <2>1, <2>2
<1>5. ASSUME NEW p \in Procs, ReCheckIn(p)
      PROVE  Goal
  <2> DEFINE t == Reopened(sheet[proc[p].id])
  <2>1. CASE UNCHANGED <<sheet, done, marks, settled>>
    BY <2>1
  <2>2. CASE ~UNCHANGED <<sheet, done, marks, settled>>
    <3>1. /\ sheet' = [sheet EXCEPT ![proc[p].id] = t]
          /\ marks' = [marks EXCEPT ![proc[p].id] = 0]
          /\ settled' = settled /\ now' = now
          /\ CanReCheckIn(sheet[proc[p].id])
      BY <1>5, <2>2 DEF ReCheckIn, StillReopenable
    <3>2. Written(p, t) /\ t \in Sheet
      BY <1>3, <3>1 DEF Written
    <3>3. QED
      BY <3>2
  <2>3. QED
    BY <2>1, <2>2
<1>6. ASSUME NEW p \in Procs, CloseByEmployee(p)
      PROVE  Goal
  <2> DEFINE t == Closed(sheet[proc[p].id], proc[p].row, proc[p].id, proc[p].at,
                         "EMPLOYEE", proc[p].key)
  <2>1. CASE UNCHANGED sheet
    BY <1>6, <2>1 DEF CloseByEmployee
  <2>2. CASE ~UNCHANGED sheet
    <3>1. /\ sheet' = [sheet EXCEPT ![proc[p].id] = t]
          /\ UNCHANGED <<settled, marks, now>>
          /\ proc[p].pc = "closeEmployee" /\ sheet[proc[p].id].open
      BY <1>6, <2>2 DEF CloseByEmployee, StillToClose
    <3>2. LeftByEmployee(sheet[proc[p].id], t, proc[p])
      BY <3>1 DEF LeftByEmployee
    <3> HIDE DEF t
    <3>3. Written(p, t) /\ t \in Sheet
      BY <1>3, <3>1, <3>2 DEF Written
    <3>4. QED
      BY <3>3
  <2>3. QED
    BY <2>1, <2>2
<1>7. ASSUME NEW p \in Procs, CloseBySystem(p)
      PROVE  Goal
  <2> DEFINE t == Closed(sheet[proc[p].id], proc[p].row, proc[p].id,
                         SystemCheckoutAt(proc[p].id[2], proc[p].at), "SYSTEM", ServerKey)
  <2>1. CASE UNCHANGED sheet
    BY <1>7, <2>1 DEF CloseBySystem
  <2>2. CASE ~UNCHANGED sheet
    <3>1. /\ sheet' = [sheet EXCEPT ![proc[p].id] = t]
          /\ UNCHANGED <<settled, marks, now>>
          /\ proc[p].pc = "closeSystem" /\ sheet[proc[p].id].open
      BY <1>7, <2>2 DEF CloseBySystem, StillToClose
    <3>2. LeftToSystem(sheet[proc[p].id], t, proc[p])
      BY <3>1 DEF LeftToSystem
    <3> HIDE DEF t
    <3>3. Written(p, t) /\ t \in Sheet
      BY <1>3, <3>1, <3>2 DEF Written
    <3>4. QED
      BY <3>3
  <2>3. QED
    BY <2>1, <2>2
<1>8. ASSUME NEW p \in Procs, MarkMissing(p)
      PROVE  Goal
  <2> DEFINE t == [sheet[proc[p].id] EXCEPT !.missing = TRUE,
                                            !.status = "MISSING_CHECKOUT"]
  <2>1. CASE UNCHANGED <<sheet, marks>>
    BY <1>8, <2>1 DEF MarkMissing
  <2>2. CASE ~UNCHANGED <<sheet, marks>>
    <3>1. /\ sheet' = [sheet EXCEPT ![proc[p].id] = t]
          /\ marks' = [marks EXCEPT ![proc[p].id] = Bump(@)]
          /\ UNCHANGED <<settled, now>>
          /\ sheet[proc[p].id].open /\ ~sheet[proc[p].id].missing
      BY <1>1, <1>8, <2>2 DEF MarkMissing, StillUnflagged
    <3>2. Marked(sheet[proc[p].id], t)
      BY <3>1 DEF Marked
    <3> HIDE DEF t
    <3>3. Written(p, t) /\ t \in Sheet
      BY <1>3, <3>1, <3>2 DEF Written
    <3>4. QED
      BY <3>3
  <2>3. QED
    BY <2>1, <2>2
<1>9. ASSUME NEW p \in Procs, CorrectTimesheet(p)
      PROVE  Goal
  <2>1. PICK in \in AdminTimes \cup {proc[p].row.checkIn},
             out \in AdminTimes \cup {proc[p].row.checkOut} :
          /\ IsValidRange(in, out)
          /\ sheet' = [sheet EXCEPT ![proc[p].id] = Corrected(sheet[proc[p].id], in, out)]
    BY <1>9 DEF CorrectTimesheet
  <2> DEFINE t == Corrected(sheet[proc[p].id], in, out)
  <2>2. in \in Instants \cup {NoInstant} /\ out \in Instants \cup {NoInstant}
    BY <1>1, AttendanceAssumption DEF Sheet
  <2>3. proc[p].pc = "correct" /\ settled' = settled \cup {proc[p].id} /\ UNCHANGED <<marks, now>>
    BY <1>9 DEF CorrectTimesheet
  <2>4. CorrectedTo(sheet[proc[p].id], t, proc[p])
    BY <2>1, <2>2, <2>3 DEF CorrectedTo
  <2>5. sheet' = [sheet EXCEPT ![proc[p].id] = t]
    BY <2>1
  <2> HIDE DEF t
  <2>6. Written(p, t) /\ t \in Sheet
    BY <1>3, <2>3, <2>4, <2>5 DEF Written
  <2>7. QED
    BY <2>6
<1>10. ASSUME NEW p \in Procs, ApproveCorrectness(p)
       PROVE  Goal
  <2>1. CASE UNCHANGED <<sheet, settled>>
    BY <1>10, <2>1 DEF ApproveCorrectness
  <2>2. CASE ~UNCHANGED <<sheet, settled>>
    <3> DEFINE old == IF proc[p].row = NoSheet
                      THEN [NoSheet EXCEPT !.inKey = ServerKey, !.outKey = ServerKey]
                      ELSE sheet[proc[p].id]
    <3>1. PICK times \in SessionActuals(proc[p].id[2]) :
            sheet' = [sheet EXCEPT ![proc[p].id] = ByRequest(old, times[1], times[2])]
      BY <1>10, <2>2 DEF ApproveCorrectness
    <3> DEFINE t == ByRequest(old, times[1], times[2])
    <3>2. /\ settled' = settled \cup {proc[p].id} /\ UNCHANGED <<marks, now>>
          /\ proc[p].row = NoSheet => sheet[proc[p].id].status = "ABSENT"
      BY <1>10, <2>2 DEF ApproveCorrectness, Exists
    <3>3. ApprovedTo(sheet[proc[p].id], t, proc[p])
      BY <3>2 DEF ApprovedTo
    <3>4. sheet' = [sheet EXCEPT ![proc[p].id] = t]
      BY <3>1
    <3> HIDE DEF t
    <3>5. Written(p, t) /\ t \in Sheet
      BY <1>3, <3>2, <3>3, <3>4 DEF Written
    <3>6. QED
      BY <3>5
  <2>3. QED
    BY <2>1, <2>2
<1>11. ASSUME NEW p \in Procs, ReadToday(p) \/ GuardOpenShift(p) \/ FindOpenShift(p) \/ Fail(p)
       PROVE  Goal
  BY <1>11 DEF ReadToday, GuardOpenShift, FindOpenShift, Fail
<1>12. ASSUME NEW p \in Procs, NEW id \in Ids,
              \/ CorrectRead(p, id) \/ ApproveRead(p, id)
              \/ AutoCheckoutRead(p, id) \/ MissingCheckoutRead(p, id)
       PROVE  Goal
  BY <1>12 DEF CorrectRead, ApproveRead, AutoCheckoutRead, MissingCheckoutRead, StartJob
<1>13. ASSUME NEW p \in Requests, NEW m \in Messages, ReceiveCheckIn(p, m) \/ ReceiveCheckOut(p, m)
       PROVE  Goal
  BY <1>13 DEF ReceiveCheckIn, ReceiveCheckOut
<1>14. SetAutoCheckout \/ Tick \/ UNCHANGED vars => Goal
  BY DEF SetAutoCheckout, Tick, vars
<1> HIDE DEF Goal
<1>15. Goal
  BY <1>4, <1>5, <1>6, <1>7, <1>8, <1>9, <1>10, <1>11, <1>12, <1>13, <1>14 DEF Next, Procs
<1>16. QED
  BY <1>15 DEF Goal

-----------------------------------------------------------------------------
(* The safety invariants.                                                    *)

\* RecordConsistent, of one sheet.
Consistent(s, isSettled) ==
  /\ s.status = "ABSENT" => s = NoSheet
  /\ s.status # "ABSENT" => /\ s.open <=> s.checkOut = NoInstant
                            /\ s.open => s.source = "NONE"
                            /\ ~s.open /\ ~isSettled => s.source # "NONE"
                            /\ s.status = "COMPLETED" => ~s.open
                            /\ s.status = "PRESENT" => s.open
  /\ s.outKey # NoKey => ~s.open
  /\ s.missing <=> s.status = "MISSING_CHECKOUT"
  /\ s.source = "SYSTEM" /\ ~isSettled => s.missing

LEMMA ConsistentFacts ==
  /\ RecordConsistent <=> \A id \in Ids : Consistent(sheet[id], id \in settled)
  /\ RecordConsistent' <=> \A id \in Ids : Consistent(sheet'[id], id \in settled')
BY DEF RecordConsistent, Consistent, Exists

\* Whatever a handler makes of a consistent sheet is consistent.
LEMMA WrittenConsistent ==
  ASSUME TypeOK, NEW p \in Procs, NEW t \in Sheet, Written(p, t),
         Consistent(sheet[proc[p].id], proc[p].id \in settled)
  PROVE  Consistent(t, proc[p].id \in settled')
<1> DEFINE q == proc[p]
           s == sheet[q.id]
           b == q.id \in settled
<1>1. /\ q \in Proc /\ q.id \in Ids /\ s \in Sheet /\ q.id[2] \in Days
      /\ q.at \in Instants /\ q.row \in Sheet
  BY DEF TypeOK, Proc, Ids
<1>2. NoInstant \notin Instants
  BY InstantFacts
<1>3. CASE Opened(s, t, q) /\ settled' = settled
  BY <1>1, <1>3, AttendanceAssumption DEF Opened, Consistent, NoSheet
<1>4. CASE CanReCheckIn(s) /\ t = Reopened(s) /\ settled' = settled
  BY <1>1, <1>4 DEF CanReCheckIn, Reopened, Consistent, Sheet
<1>5. ASSUME NEW row \in Sheet, NEW out \in Instants, NEW src \in {"EMPLOYEE", "SYSTEM"}, NEW k,
             t = Closed(s, row, q.id, out, src, k)
      PROVE  Consistent(t, b)
  <2>1. PICK m \in BOOLEAN : /\ t = [s EXCEPT !.open = FALSE, !.checkOut = out, !.source = src,
                                     !.missing = m, !.outKey = k,
                                     !.status = IF m THEN "MISSING_CHECKOUT" ELSE "COMPLETED"]
                             /\ src = "SYSTEM" => m
    <3>1. (src = "SYSTEM" \/ row.missing \/ IsCrossDay(q.id[2], out)) \in BOOLEAN
      BY DEF Sheet
    <3>2. QED
      BY <1>5, <3>1 DEF Closed
  <2>2. /\ t.status # "ABSENT" /\ t.status # "PRESENT" /\ ~t.open /\ t.checkOut # NoInstant
        /\ t.source = src /\ t.missing = m
        /\ t.status = IF m THEN "MISSING_CHECKOUT" ELSE "COMPLETED"
    BY <1>1, <1>2, <2>1 DEF Sheet
  <2>3. QED
    BY <2>1, <2>2 DEF Consistent
<1>6. CASE LeftByEmployee(s, t, q) /\ settled' = settled
  BY <1>1, <1>5, <1>6 DEF LeftByEmployee
<1>7. CASE LeftToSystem(s, t, q) /\ settled' = settled
  <2>1. AutoCheckoutAt(q.at) \in Instants
    BY <1>1, ClockAssumption DEF AutoCheckoutAt, Instants
  <2>2. SystemCheckoutAt(q.id[2], q.at) \in Instants
    BY <1>1, <2>1, ScheduleFacts DEF SystemCheckoutAt
  <2>3. QED
    BY <1>1, <1>5, <1>7, <2>2 DEF LeftToSystem
<1>8. CASE Marked(s, t) /\ settled' = settled
  BY <1>1, <1>8 DEF Marked, Consistent, Sheet, NoSheet
<1>9. CASE CorrectedTo(s, t, q) /\ settled' = settled \cup {q.id}
  <2>1. PICK in, out \in Instants \cup {NoInstant} :
          IsValidRange(in, out) /\ t = Corrected(s, in, out)
    BY <1>9 DEF CorrectedTo
  <2>2. QED
    BY <1>1, <1>9, <2>1 DEF Corrected, IsValidRange, Consistent, Sheet
<1>10. CASE ApprovedTo(s, t, q) /\ settled' = settled \cup {q.id}
  <2>1. PICK old \in Sheet, in \in Instants, out \in Instants : t = ByRequest(old, in, out)
    <3>1. [NoSheet EXCEPT !.inKey = ServerKey, !.outKey = ServerKey] \in Sheet
      BY IdleFacts DEF Sheet
    <3>2. QED
      BY <1>1, <1>10, <3>1, SessionFacts DEF ApprovedTo
  <2>2. QED
    BY <1>2, <1>10, <2>1 DEF ByRequest, Consistent, Sheet
<1>11. QED
  BY <1>3, <1>4, <1>6, <1>7, <1>8, <1>9, <1>10 DEF Written

LEMMA RecordStep == TypeOK /\ RecordConsistent /\ [Next]_vars => RecordConsistent'
<1> SUFFICES ASSUME TypeOK, RecordConsistent, [Next]_vars, NEW id \in Ids
             PROVE  Consistent(sheet'[id], id \in settled')
  BY ConsistentFacts
<1>1. Consistent(sheet[id], id \in settled)
  BY ConsistentFacts
<1>2. CASE UNCHANGED <<sheet, settled, marks>>
  BY <1>1, <1>2
<1>3. ASSUME NEW p \in Procs, NEW t \in Sheet, Written(p, t)
      PROVE  Consistent(sheet'[id], id \in settled')
  <2>1. Consistent(t, proc[p].id \in settled')
    BY <1>3, WrittenConsistent, ConsistentFacts DEF TypeOK, Proc
  <2>2. /\ sheet' = [sheet EXCEPT ![proc[p].id] = t]
        /\ id # proc[p].id => (id \in settled' <=> id \in settled)
    BY <1>3 DEF Written
  <2>3. CASE id = proc[p].id
    BY <2>1, <2>2, <2>3 DEF TypeOK
  <2>4. CASE id # proc[p].id
    <3>1. sheet'[id] = sheet[id] /\ (id \in settled') = (id \in settled)
      BY <2>2, <2>4 DEF TypeOK
    <3>2. QED
      BY <1>1, <3>1
  <2>5. QED
    BY <2>3, <2>4
<1>4. QED
  BY <1>2, <1>3, WriteStep

\* The columns that describe the end of a shift agree in every reachable state,
\* although the handlers write them from rows read earlier.
THEOREM RecordsStayConsistent == Spec => []RecordConsistent
<1>1. Init => RecordConsistent
  BY DEF Init, RecordConsistent, NoSheet, Exists
<1>2. QED
  BY <1>1, TypeCorrect, RecordStep, PTL DEF Spec

\* A day the system or an administrator closed stays closed, and stays an
\* administrator's once it is one, in every step of every handler.
THEOREM SealedStaysSealed == Spec => SealedForever
<1> DEFINE Sealed == \A id \in Ids :
              /\ sheet[id].source \in {"SYSTEM", "ADMIN"} => ~sheet'[id].open
              /\ sheet[id].source = "ADMIN" => sheet'[id].source = "ADMIN"
<1>1. ASSUME TypeOK, RecordConsistent, [Next]_vars
      PROVE  [Sealed]_sheet
  <2> SUFFICES ASSUME NEW p \in Procs, NEW t \in Sheet, Written(p, t), NEW id \in Ids
               PROVE  /\ sheet[id].source \in {"SYSTEM", "ADMIN"} => ~sheet'[id].open
                      /\ sheet[id].source = "ADMIN" => sheet'[id].source = "ADMIN"
    BY <1>1, WriteStep
  <2>1. sheet[id] \in Sheet /\ sheet'[id] = IF id = proc[p].id THEN t ELSE sheet[id]
    BY <1>1 DEF Written, TypeOK
  <2>2. /\ sheet[id].source \in {"SYSTEM", "ADMIN"} =>
             ~sheet[id].open /\ sheet[id].status # "ABSENT"
    BY <1>1 DEF RecordConsistent, Exists, NoSheet
  <2>3. CASE id # proc[p].id
    BY <2>1, <2>2, <2>3
  <2>4. CASE id = proc[p].id /\ sheet[id].source \in {"SYSTEM", "ADMIN"}
    <3>1. CorrectedTo(sheet[id], t, proc[p]) \/ ApprovedTo(sheet[id], t, proc[p])
      BY <2>2, <2>4 DEF Written, Opened, CanReCheckIn, LeftByEmployee, LeftToSystem, Marked
    <3>2. ~t.open /\ (sheet[id].source = "ADMIN" => t.source = "ADMIN")
      BY <2>1, <2>2, <3>1 DEF CorrectedTo, ApprovedTo, Corrected, ByRequest, Sheet
    <3>3. QED
      BY <2>1, <2>4, <3>2
  <2>5. QED
    BY <2>1, <2>3, <2>4
<1>2. QED
  BY <1>1, TypeCorrect, RecordsStayConsistent, PTL DEF Spec, SealedForever

-----------------------------------------------------------------------------
(* Notices.  An open sheet without the flag has been announced by nobody     *)
(* since it was opened, and the mark that announces it sets the flag.        *)

NoticesCounted ==
  \A id \in Ids : marks[id] <= 1 /\ (sheet[id].open /\ ~sheet[id].missing => marks[id] = 0)

LEMMA NoticeStep ==
  TypeOK /\ RecordConsistent /\ NoticesCounted /\ [Next]_vars => NoticesCounted'
<1> SUFFICES ASSUME TypeOK, RecordConsistent, NoticesCounted, [Next]_vars
             PROVE  NoticesCounted'
  OBVIOUS
<1>1. CASE UNCHANGED <<sheet, settled, marks>>
  BY <1>1 DEF NoticesCounted
<1>2. ASSUME NEW p \in Procs, NEW t \in Sheet, Written(p, t), NEW id \in Ids
      PROVE  marks'[id] <= 1 /\ (sheet'[id].open /\ ~sheet'[id].missing => marks'[id] = 0)
  <2>1. /\ sheet'[id] = IF id = proc[p].id THEN t ELSE sheet[id]
        /\ marks[id] \in 0..2 /\ sheet[id] \in Sheet
        /\ marks[id] <= 1 /\ (sheet[id].open /\ ~sheet[id].missing => marks[id] = 0)
    BY <1>2 DEF Written, TypeOK, NoticesCounted
  <2>2. CASE id # proc[p].id
    <3>1. marks'[id] = marks[id]
      BY <1>2, <2>2 DEF Written, TypeOK
    <3>2. QED
      BY <2>1, <2>2, <3>1
  <2>3. CASE id = proc[p].id
    <3>1. CASE marks' = [marks EXCEPT ![id] = 0]
      BY <3>1 DEF TypeOK
    <3>2. CASE UNCHANGED marks /\ ~t.open
      BY <2>1, <2>3, <3>2
    <3>3. CASE Marked(sheet[id], t) /\ marks' = [marks EXCEPT ![id] = Bump(@)]
      <4>1. marks'[id] = 1 /\ t.missing
        BY <2>1, <3>3 DEF Marked, Bump, TypeOK, Sheet
      <4>2. QED
        BY <2>1, <2>3, <4>1
    <3>4. LeftByEmployee(sheet[id], t, proc[p]) \/ LeftToSystem(sheet[id], t, proc[p])
            \/ CorrectedTo(sheet[id], t, proc[p]) \/ ApprovedTo(sheet[id], t, proc[p]) => ~t.open
      BY <2>1, IdleFacts DEF LeftByEmployee, LeftToSystem, CorrectedTo, ApprovedTo,
         Closed, Corrected, ByRequest, Sheet
    <3>5. QED
      BY <1>2, <2>3, <3>1, <3>2, <3>3, <3>4 DEF Written
  <2>4. QED
    BY <2>2, <2>3
<1>3. QED
  BY <1>1, <1>2, WriteStep DEF NoticesCounted

\* Overlapping runs of the missing-checkout job announce an open shift at most
\* once, however many runs overlap.
THEOREM NoticesAreSingle == Spec => []OneNoticePerShift
<1>1. Init => NoticesCounted
  BY DEF Init, NoticesCounted
<1>2. NoticesCounted => OneNoticePerShift
  BY DEF NoticesCounted, OneNoticePerShift
<1>3. QED
  BY <1>1, <1>2, TypeCorrect, RecordsStayConsistent, NoticeStep, PTL DEF Spec

-----------------------------------------------------------------------------
(* Stale rows.  A handler that writes from what it read earlier is safe      *)
(* because rows are never deleted, a check-in time is written once unless an *)
(* administrator writes it, and the clock does not go back.                  *)

LEMMA OrderFacts ==
  /\ \A s, t \in Instants \cup {NoInstant} : Before(s, t) => ~Before(t, s)
  /\ \A s, t, u \in Instants \cup {NoInstant} : ~Before(t, s) /\ ~Before(u, t) => ~Before(u, s)
  /\ \A s \in Instants \cup {NoInstant} : ~Before(s, s)
BY InstantFacts DEF Before

LEMMA ClockStep ==
  ASSUME TypeOK, [Next]_vars
  PROVE  \A t \in Instants \cup {NoInstant} : ~Before(now, t) => ~Before(now', t)
<1>1. now \in Instants /\ now' \in Instants
  BY TypeStep, InstantFacts DEF TypeOK
<1>2. now' = now \/ Before(now, now')
  <2>1. CASE Tick
    BY <2>1, SuccessorFacts DEF Tick, TypeOK
  <2>2. CASE ~Tick
    BY <2>2 DEF Next, vars, SetAutoCheckout, ReadToday, GuardOpenShift, FindOpenShift, Fail,
       FirstCheckIn, ReCheckIn, CloseByEmployee, CloseBySystem, MarkMissing, CorrectTimesheet,
       ApproveCorrectness, ReceiveCheckIn, ReceiveCheckOut, CorrectRead, ApproveRead,
       AutoCheckoutRead, MissingCheckoutRead, StartJob
  <2>3. QED
    BY <2>1, <2>2
<1>3. QED
  BY <1>1, <1>2, OrderFacts

\* What closing a sheet leaves in its columns.
LEMMA ClosedFacts ==
  ASSUME NEW s \in Sheet, NEW row \in Sheet, NEW id, NEW at, NEW src, NEW k
  PROVE  LET t == Closed(s, row, id, at, src, k) IN
         /\ ~t.open /\ t.checkOut = at /\ t.source = src /\ t.checkIn = s.checkIn
         /\ t.missing <=> src = "SYSTEM" \/ row.missing \/ IsCrossDay(id[2], at)
         /\ t.status = IF t.missing THEN "MISSING_CHECKOUT" ELSE "COMPLETED"
         /\ t.status # "ABSENT"
<1> DEFINE m == src = "SYSTEM" \/ row.missing \/ IsCrossDay(id[2], at)
<1>1. m \in BOOLEAN
  BY DEF Sheet
<1>2. Closed(s, row, id, at, src, k) =
        [s EXCEPT !.open = FALSE, !.checkOut = at, !.source = src, !.missing = m,
                  !.outKey = k, !.status = IF m THEN "MISSING_CHECKOUT" ELSE "COMPLETED"]
  BY DEF Closed
<1> HIDE DEF m
<1>3. QED
  BY <1>1, <1>2 DEF Sheet, m

LEMMA TableStep ==
  ASSUME TypeOK, RecordConsistent, [Next]_vars
  PROVE  /\ settled \subseteq settled'
         /\ \A id \in Ids : Exists(id) =>
              /\ sheet'[id].status # "ABSENT"
              /\ id \notin settled' => sheet'[id].checkIn = sheet[id].checkIn
<1>1. CASE UNCHANGED <<sheet, settled, marks>>
  BY <1>1 DEF Exists
<1>2. ASSUME NEW p \in Procs, NEW t \in Sheet, Written(p, t)
      PROVE  /\ settled \subseteq settled'
             /\ \A id \in Ids : Exists(id) =>
                  /\ sheet'[id].status # "ABSENT"
                  /\ id \notin settled' => sheet'[id].checkIn = sheet[id].checkIn
  <2>1. settled \subseteq settled'
    BY <1>2 DEF Written
  <2>2. ASSUME NEW id \in Ids, Exists(id)
        PROVE  /\ sheet'[id].status # "ABSENT"
               /\ id \notin settled' => sheet'[id].checkIn = sheet[id].checkIn
    <3>1. sheet[id] \in Sheet /\ sheet'[id] = IF id = proc[p].id THEN t ELSE sheet[id]
      BY <1>2 DEF Written, TypeOK
    <3>2. CASE id # proc[p].id
      BY <2>2, <3>1, <3>2 DEF Exists
    <3>3. CASE id = proc[p].id
      <4> DEFINE s == sheet[id]
                 q == proc[p]
      <4>0. q.row \in Sheet
        BY DEF TypeOK, Proc
      <4>1. CASE id \in settled'
        <5>1. CASE CorrectedTo(s, t, q) \/ ApprovedTo(s, t, q)
          <6>1. t.status = "COMPLETED"
            BY <3>1, <5>1, IdleFacts DEF CorrectedTo, ApprovedTo, Corrected, ByRequest, Sheet
          <6>2. QED
            BY <3>1, <3>3, <4>1, <6>1
        <5>2. CASE Opened(s, t, q) \/ (CanReCheckIn(s) /\ t = Reopened(s)) \/ Marked(s, t)
          <6>1. t.status \in {"PRESENT", "MISSING_CHECKOUT"}
            BY <3>1, <5>2, IdleFacts DEF Opened, Reopened, Marked, Sheet
          <6>2. QED
            BY <3>1, <3>3, <4>1, <6>1
        <5>3. CASE LeftByEmployee(s, t, q) \/ LeftToSystem(s, t, q)
          BY <3>1, <3>3, <4>0, <5>3, ClosedFacts DEF LeftByEmployee, LeftToSystem
        <5>4. QED
          BY <1>2, <3>3, <5>1, <5>2, <5>3 DEF Written
      <4>2. CASE id \notin settled'
        <5>1. CASE Opened(s, t, q)
          BY <2>2, <5>1 DEF Opened, Exists
        <5>2. CASE (CanReCheckIn(s) /\ t = Reopened(s)) \/ Marked(s, t)
          <6>1. t.status # "ABSENT" /\ t.checkIn = s.checkIn
            BY <3>1, <5>2 DEF Reopened, Marked, Sheet
          <6>2. QED
            BY <3>1, <3>3, <6>1
        <5>3. CASE LeftByEmployee(s, t, q) \/ LeftToSystem(s, t, q)
          BY <3>1, <3>3, <4>0, <5>3, ClosedFacts DEF LeftByEmployee, LeftToSystem
        <5>4. QED
          BY <1>2, <3>3, <4>2, <5>1, <5>2, <5>3 DEF Written
      <4>3. QED
        BY <4>1, <4>2
    <3>4. QED
      BY <3>2, <3>3
  <2>3. QED
    BY <2>1, <2>2
<1>3. QED
  BY <1>1, <1>2, WriteStep

\* A handler keeps its local state, forgets it, moves on with the clock value it
\* had, or has just read the clock and perhaps a row.
LEMMA HandlerStep ==
  ASSUME TypeOK, RecordConsistent, [Next]_vars, NEW p \in Procs
  PROVE  \/ proc'[p] = proc[p] \/ proc'[p] = Idle
         \/ proc'[p].pc \in {"guardOpen", "writeIn"} /\ proc'[p].at = proc[p].at
         \/ proc'[p].pc \in {"readToday", "findOpen"} /\ proc'[p].at = now
         \/ /\ UNCHANGED <<sheet, settled, now>>
            /\ proc'[p].at = now /\ proc'[p].id \in Ids
            /\ proc'[p].row = sheet[proc'[p].id]
            /\ proc'[p].pc # "approve" => Exists(proc'[p].id)
<1> DEFINE Goal == \/ proc'[p] = proc[p] \/ proc'[p] = Idle
                   \/ proc'[p].pc \in {"guardOpen", "writeIn"} /\ proc'[p].at = proc[p].at
                   \/ proc'[p].pc \in {"readToday", "findOpen"} /\ proc'[p].at = now
                   \/ /\ UNCHANGED <<sheet, settled, now>>
                      /\ proc'[p].at = now /\ proc'[p].id \in Ids
                      /\ proc'[p].row = sheet[proc'[p].id]
                      /\ proc'[p].pc # "approve" => Exists(proc'[p].id)
<1>1. /\ DOMAIN proc = Procs
      /\ \A r \in Procs : proc[r] \in Proc /\ proc[r].id \in Ids
      /\ \A id \in Ids : sheet[id].open => Exists(id)
  BY DEF TypeOK, Proc, RecordConsistent, Exists, NoSheet
<1>2. ASSUME NEW r \in Procs, End(r) PROVE Goal
  BY <1>1, <1>2 DEF End
<1>3. ASSUME NEW r \in Procs,
             \/ Fail(r) \/ FirstCheckIn(r) \/ ReCheckIn(r) \/ CloseByEmployee(r)
             \/ CloseBySystem(r) \/ MarkMissing(r) \/ CorrectTimesheet(r) \/ ApproveCorrectness(r)
      PROVE  Goal
  BY <1>2, <1>3 DEF Fail, FirstCheckIn, ReCheckIn, CloseByEmployee, CloseBySystem, MarkMissing,
     CorrectTimesheet, ApproveCorrectness
<1>4. ASSUME NEW r \in Procs, ReadToday(r) PROVE Goal
  <2>1. CASE End(r)
    BY <1>2, <2>1
  <2>2. CASE proc' = [proc EXCEPT ![r].pc = "guardOpen", ![r].row = sheet[proc[r].id]]
    BY <1>1, <2>2 DEF Proc
  <2>3. QED
    BY <1>4, <2>1, <2>2 DEF ReadToday
<1>5. ASSUME NEW r \in Procs, GuardOpenShift(r) PROVE Goal
  <2>1. CASE End(r)
    BY <1>2, <2>1
  <2>2. CASE proc' = [proc EXCEPT ![r].pc = "writeIn"]
    BY <1>1, <2>2 DEF Proc
  <2>3. QED
    BY <1>5, <2>1, <2>2 DEF GuardOpenShift, Goto
<1>6. ASSUME NEW r \in Procs, FindOpenShift(r) PROVE Goal
  <2>1. CASE End(r)
    BY <1>2, <2>1
  <2>2. CASE ~End(r)
    <3>1. PICK id \in OpenIdsOf(proc[r].id[1]) :
            proc' = [proc EXCEPT ![r] = [pc |-> "closeEmployee", id |-> id,
                                         key |-> proc[r].key, at |-> now, row |-> sheet[id]]]
      BY <1>6, <2>2 DEF FindOpenShift
    <3>2. id \in Ids /\ Exists(id) /\ UNCHANGED <<sheet, settled, now>>
      BY <1>1, <1>6 DEF OpenIdsOf, FindOpenShift
    <3>3. QED
      BY <1>1, <3>1, <3>2
  <2>3. QED
    BY <2>1, <2>2
<1>7. ASSUME NEW r \in Procs, NEW id \in Ids, NEW l, StartJob(r, id, l),
             l # "approve" => Exists(id)
      PROVE  Goal
  BY <1>1, <1>7 DEF StartJob
<1>8. ASSUME NEW r \in Procs, NEW id \in Ids,
             \/ CorrectRead(r, id) \/ ApproveRead(r, id)
             \/ AutoCheckoutRead(r, id) \/ MissingCheckoutRead(r, id)
      PROVE  Goal
  BY <1>1, <1>7, <1>8 DEF CorrectRead, ApproveRead, AutoCheckoutRead, MissingCheckoutRead
<1>9. ASSUME NEW r \in Requests, NEW m \in Messages, ReceiveCheckIn(r, m) \/ ReceiveCheckOut(r, m)
      PROVE  Goal
  BY <1>1, <1>9 DEF ReceiveCheckIn, ReceiveCheckOut, Procs
<1>10. SetAutoCheckout \/ Tick \/ UNCHANGED vars => Goal
  BY DEF SetAutoCheckout, Tick, vars
<1> HIDE DEF Goal
<1>11. Goal
  BY <1>3, <1>4, <1>5, <1>6, <1>8, <1>9, <1>10 DEF Next, Procs
<1>12. QED
  BY <1>11 DEF Goal

\* What a handler remembers: StaleRowsAgree, of one handler.
Remembers(q) ==
  /\ ~Before(now, q.at)
  /\ q.pc \in {"closeEmployee", "closeSystem", "mark", "correct"} => Exists(q.id)
  /\ q.pc = "approve" /\ q.row # NoSheet => Exists(q.id)
  /\ q.pc = "closeEmployee" /\ q.id \notin settled =>
       /\ ~Before(q.at, q.row.checkIn)
       /\ sheet[q.id].checkIn = q.row.checkIn

LEMMA StaleHandlers ==
  ASSUME TypeOK, RecordConsistent, StaleRowsAgree, [Next]_vars, NEW p \in Procs
  PROVE  Remembers(proc[p])'
<1>1. /\ proc[p] \in Proc /\ proc[p].at \in Instants /\ proc[p].id \in Ids /\ now \in Instants
      /\ proc'[p] \in Proc /\ proc'[p].at \in Instants /\ now' \in Instants
  BY TypeStep, InstantFacts DEF TypeOK, Proc
<1>2. Remembers(proc[p])
  BY DEF StaleRowsAgree, Remembers
<1>3. CASE proc'[p] = proc[p]
  <2>1. ~Before(now', proc[p].at)
    BY <1>1, <1>2, ClockStep DEF Remembers
  <2>2. QED
    BY <1>1, <1>2, <1>3, <2>1, TableStep DEF Remembers, Exists
<1>4. CASE proc'[p] = Idle
  <2>1. ~Before(now', Idle.at)
    <3>1. now'.day \in Nat /\ now'.tick \in Nat
      BY <1>1, ClockAssumption DEF Instants
    <3>2. QED
      BY <3>1 DEF Before, Idle
  <2>2. QED
    BY <1>4, <2>1 DEF Remembers, Idle
<1>5. CASE proc'[p].pc \in {"guardOpen", "writeIn"} /\ proc'[p].at = proc[p].at
  BY <1>1, <1>2, <1>5, ClockStep DEF Remembers
<1>6. CASE proc'[p].pc \in {"readToday", "findOpen"} /\ proc'[p].at = now
  BY <1>1, <1>6, ClockStep, OrderFacts DEF Remembers
<1>7. CASE /\ UNCHANGED <<sheet, settled, now>>
           /\ proc'[p].at = now /\ proc'[p].id \in Ids
           /\ proc'[p].row = sheet[proc'[p].id]
           /\ proc'[p].pc # "approve" => Exists(proc'[p].id)
  <2>1. Exists(proc'[p].id) /\ proc'[p].id \notin settled =>
          ~Before(now, sheet[proc'[p].id].checkIn)
    BY <1>7 DEF StaleRowsAgree
  <2>2. sheet[proc'[p].id] # NoSheet => Exists(proc'[p].id)
    BY <1>7 DEF RecordConsistent, Exists
  <2>3. QED
    BY <1>1, <1>7, <2>1, <2>2, OrderFacts DEF Remembers, Exists
<1>8. QED
  BY <1>3, <1>4, <1>5, <1>6, <1>7, HandlerStep

\* The rest of StaleRowsAgree, with the two properties it is needed for, of one
\* sheet.
RowInOrder(s, id, isSettled) ==
  /\ s.status # "ABSENT" /\ ~isSettled => ~Before(now, s.checkIn)
  /\ s.source = "ADMIN" => isSettled
  /\ s.source = "EMPLOYEE" /\ ~isSettled => /\ ~Before(s.checkOut, s.checkIn)
                                            /\ s.checkOut.day > id[2] => s.missing
  /\ s.status # "ABSENT" /\ isSettled /\ ~s.open /\ s.source = "ADMIN" =>
       ~Before(s.checkOut, s.checkIn)

InOrder == \A id \in Ids : RowInOrder(sheet[id], id, id \in settled)

LEMMA InOrderFacts ==
  /\ StaleRowsAgree <=> /\ \A p \in Procs : Remembers(proc[p])
                        /\ \A id \in Ids :
                             /\ Exists(id) /\ id \notin settled => ~Before(now, sheet[id].checkIn)
                             /\ sheet[id].source = "ADMIN" => id \in settled
  /\ StaleRowsAgree' <=> /\ \A p \in Procs : Remembers(proc[p])'
                         /\ \A id \in Ids :
                              /\ sheet'[id].status # "ABSENT" /\ id \notin settled' =>
                                   ~Before(now', sheet'[id].checkIn)
                              /\ sheet'[id].source = "ADMIN" => id \in settled'
  /\ InOrder => EndsAfterItBegan /\ CarriedOverIsFlagged
  /\ StaleRowsAgree /\ EndsAfterItBegan /\ CarriedOverIsFlagged => InOrder
BY DEF StaleRowsAgree, Remembers, InOrder, RowInOrder, EndsAfterItBegan, CarriedOverIsFlagged, Exists

\* An approved request writes times in order.
LEMMA SessionOrder ==
  ASSUME NEW d \in Days, NEW times \in SessionActuals(d)
  PROVE  ~Before(times[2], times[1])
<1>1. ~Before(ScheduledOut(d), ScheduledIn(d))
  BY ScheduleFacts, OrderFacts
<1>2. QED
  BY <1>1 DEF SessionActuals

LEMMA WrittenInOrder ==
  ASSUME TypeOK, RecordConsistent, StaleRowsAgree,
         NEW p \in Procs, NEW t \in Sheet, Written(p, t),
         RowInOrder(sheet[proc[p].id], proc[p].id, proc[p].id \in settled)
  PROVE  RowInOrder(t, proc[p].id, proc[p].id \in settled')
<1> DEFINE q == proc[p]
           s == sheet[q.id]
<1>1. /\ q \in Proc /\ q.id \in Ids /\ s \in Sheet /\ q.id[2] \in Days
      /\ q.at \in Instants /\ q.row \in Sheet /\ now \in Instants
  BY InstantFacts DEF TypeOK, Proc, Ids
<1>2. Remembers(q)
  BY InOrderFacts
<1>3. CASE Opened(s, t, q) /\ settled' = settled
  <2>1. t.checkIn = q.at /\ t.source = "NONE" /\ t.open
    BY <1>3 DEF Opened, NoSheet
  <2>2. QED
    BY <1>2, <2>1 DEF RowInOrder, Remembers
<1>4. CASE CanReCheckIn(s) /\ t = Reopened(s) /\ settled' = settled
  <2>1. t.checkIn = s.checkIn /\ t.source = "NONE" /\ t.open /\ s.source = "EMPLOYEE"
    BY <1>1, <1>4 DEF Reopened, CanReCheckIn, Sheet
  <2>2. s.status # "ABSENT"
    BY <1>1, <2>1 DEF RecordConsistent, NoSheet
  <2>3. QED
    BY <1>4, <2>1, <2>2 DEF RowInOrder
<1>5. CASE LeftByEmployee(s, t, q) /\ settled' = settled
  <2>1. /\ t.checkIn = s.checkIn /\ t.source = "EMPLOYEE" /\ t.checkOut = q.at
        /\ q.at.day > q.id[2] => t.missing
    BY <1>1, <1>5, ClosedFacts DEF LeftByEmployee, IsCrossDay
  <2>2. q.pc = "closeEmployee"
    BY <1>5 DEF LeftByEmployee
  <2>3. QED
    BY <1>2, <1>5, <2>1, <2>2 DEF RowInOrder, Remembers, Exists
<1>6. CASE LeftToSystem(s, t, q) /\ settled' = settled
  <2>1. t.checkIn = s.checkIn /\ t.source = "SYSTEM"
    BY <1>1, <1>6, ClosedFacts DEF LeftToSystem
  <2>2. q.pc = "closeSystem"
    BY <1>6 DEF LeftToSystem
  <2>3. QED
    BY <1>2, <1>6, <2>1, <2>2 DEF RowInOrder, Remembers, Exists
<1>7. CASE Marked(s, t) /\ settled' = settled
  <2>1. t.checkIn = s.checkIn /\ t.source = s.source /\ t.checkOut = s.checkOut /\ t.missing
        /\ t.open
    BY <1>1, <1>7 DEF Marked, Sheet
  <2>2. s.status # "ABSENT"
    BY <1>1, <1>7 DEF RecordConsistent, NoSheet, Marked
  <2>3. s.source = "NONE"
    BY <1>1, <1>7, <2>2 DEF RecordConsistent, Marked, Exists
  <2>4. QED
    BY <1>7, <2>1, <2>2, <2>3 DEF RowInOrder
<1>8. CASE CorrectedTo(s, t, q) /\ settled' = settled \cup {q.id}
  <2>1. PICK in, out \in Instants \cup {NoInstant} :
          IsValidRange(in, out) /\ t = Corrected(s, in, out)
    BY <1>8 DEF CorrectedTo
  <2>2. t.checkIn = in /\ t.checkOut = out /\ ~Before(out, in)
    BY <1>1, <2>1, OrderFacts DEF Corrected, IsValidRange, Sheet
  <2>3. QED
    BY <1>8, <2>2 DEF RowInOrder
<1>9. CASE ApprovedTo(s, t, q) /\ settled' = settled \cup {q.id}
  <2>1. PICK old \in Sheet, times \in SessionActuals(q.id[2]) : t = ByRequest(old, times[1], times[2])
    <3>1. [NoSheet EXCEPT !.inKey = ServerKey, !.outKey = ServerKey] \in Sheet
      BY IdleFacts DEF Sheet
    <3>2. QED
      BY <1>1, <1>9, <3>1 DEF ApprovedTo
  <2>2. t.checkIn = times[1] /\ t.checkOut = times[2] /\ ~Before(times[2], times[1])
    BY <1>1, <2>1, SessionOrder DEF ByRequest, Sheet
  <2>3. QED
    BY <1>9, <2>2 DEF RowInOrder
<1>10. QED
  BY <1>3, <1>4, <1>5, <1>6, <1>7, <1>8, <1>9 DEF Written

\* The invariant that makes stale rows harmless, and what it is needed for.
OrderInvariant ==
  StaleRowsAgree /\ EndsAfterItBegan /\ CarriedOverIsFlagged

LEMMA OrderStep ==
  TypeOK /\ RecordConsistent /\ OrderInvariant /\ [Next]_vars => OrderInvariant'
<1> SUFFICES ASSUME TypeOK, RecordConsistent, OrderInvariant, [Next]_vars
             PROVE  OrderInvariant'
  OBVIOUS
<1>1. InOrder /\ StaleRowsAgree
  BY InOrderFacts DEF OrderInvariant
<1>2. InOrder'
  <2> SUFFICES ASSUME NEW id \in Ids
               PROVE  RowInOrder(sheet[id], id, id \in settled)'
    BY DEF InOrder
  <2>1. RowInOrder(sheet[id], id, id \in settled) /\ sheet[id] \in Sheet
    BY <1>1 DEF InOrder, TypeOK
  <2>2. ASSUME sheet'[id] = sheet[id], (id \in settled') = (id \in settled)
        PROVE  RowInOrder(sheet[id], id, id \in settled)'
    <3>1. ~Before(now, sheet[id].checkIn) => ~Before(now', sheet[id].checkIn)
      BY <2>1, ClockStep DEF Sheet
    <3>2. QED
      BY <2>1, <2>2, <3>1 DEF RowInOrder
  <2>3. CASE UNCHANGED <<sheet, settled, marks>>
    BY <2>2, <2>3
  <2>4. ASSUME NEW p \in Procs, NEW t \in Sheet, Written(p, t)
        PROVE  RowInOrder(sheet[id], id, id \in settled)'
    <3>1. /\ sheet' = [sheet EXCEPT ![proc[p].id] = t] /\ now' = now
          /\ id # proc[p].id => (id \in settled') = (id \in settled)
      BY <2>4 DEF Written
    <3>2. CASE id # proc[p].id
      BY <2>2, <3>1, <3>2 DEF TypeOK
    <3>3. CASE id = proc[p].id
      <4>1. RowInOrder(t, id, id \in settled')
        BY <1>1, <2>1, <2>4, <3>3, WrittenInOrder
      <4>2. sheet'[id] = t
        BY <3>1, <3>3 DEF TypeOK
      <4>3. QED
        BY <3>1, <4>1, <4>2 DEF RowInOrder
    <3>4. QED
      BY <3>2, <3>3
  <2>5. QED
    BY <2>3, <2>4, WriteStep
<1>3. StaleRowsAgree'
  BY <1>1, <1>2, StaleHandlers, InOrderFacts DEF InOrder, RowInOrder
<1>4. (InOrder => EndsAfterItBegan /\ CarriedOverIsFlagged)'
  BY DEF InOrder, RowInOrder, EndsAfterItBegan, CarriedOverIsFlagged, Exists
<1>5. QED
  BY <1>2, <1>3, <1>4 DEF OrderInvariant

LEMMA OrderInvariantHolds == Spec => []OrderInvariant
<1>1. Init => OrderInvariant
  <2> SUFFICES ASSUME Init PROVE OrderInvariant
    OBVIOUS
  <2>1. \A id \in Ids : sheet[id] = NoSheet /\ ~Exists(id) /\ sheet[id].source = "NONE"
    BY DEF Init, NoSheet, Exists
  <2>2. \A p \in Procs : proc[p].pc = "idle" /\ proc[p].at = [day |-> 0, tick |-> 0]
    BY DEF Init, Idle
  <2>3. ~Before(now, [day |-> 0, tick |-> 0])
    BY DEF Init, Before
  <2>4. QED
    BY <2>1, <2>2, <2>3 DEF OrderInvariant, StaleRowsAgree, EndsAfterItBegan, CarriedOverIsFlagged
<1>2. QED
  BY <1>1, TypeCorrect, RecordsStayConsistent, OrderStep, PTL DEF Spec

\* What a handler read stays good enough until it writes, so a shift its
\* employee closed ends after it began and a carried-over one is flagged.
THEOREM StaleRowsAreHarmless == Spec => []StaleRowsAgree
BY OrderInvariantHolds, PTL DEF OrderInvariant

\* However the handlers and jobs interleave, timesheets stay typed and their
\* columns consistent, and no handler writes from a row that is too old.
THEOREM TimesheetsStaySound == Spec => []TimesheetsAreSound
BY TypeCorrect, RecordsStayConsistent, StaleRowsAreHarmless, PTL DEF TimesheetsAreSound

\* A shift closed by its employee or corrected by an administrator does not end
\* before it began.
THEOREM ShiftsEndAfterTheyBegin == Spec => []EndsAfterItBegan
BY OrderInvariantHolds, PTL DEF OrderInvariant

\* A shift its employee closed on a later day carries the flag.
THEOREM CarriedOverShiftsAreFlagged == Spec => []CarriedOverIsFlagged
BY OrderInvariantHolds, PTL DEF OrderInvariant

-----------------------------------------------------------------------------
(* Refinement.  The phases and flags of the sheets move as the abstract      *)
(* lifecycle of a day says.                                                  *)

Phase == [id \in Ids |-> PhaseOf(sheet[id])]

Flagged == [id \in Ids |-> sheet[id].missing]

LEMMA PhaseFacts ==
  ASSUME NEW s \in Sheet
  PROVE  /\ s.status = "ABSENT" => PhaseOf(s) = "absent"
         /\ s.status # "ABSENT" /\ s.open => PhaseOf(s) = "open"
         /\ s.status # "ABSENT" /\ ~s.open /\ CanReCheckIn(s) => PhaseOf(s) = "left"
         /\ s.status # "ABSENT" /\ ~s.open /\ ~CanReCheckIn(s) => PhaseOf(s) = "sealed"
BY DEF PhaseOf

\* A write of one sheet is one step of that day's lifecycle.
LEMMA WriteRefines ==
  ASSUME TypeOK, RecordConsistent, StaleRowsAgree, NEW p \in Procs, NEW t \in Sheet, Written(p, t)
  PROVE  Lifecycle!DayNext
<1> DEFINE q  == proc[p]
           id == q.id
           s  == sheet[id]
<1>1. /\ q \in Proc /\ id \in Ids /\ s \in Sheet /\ q.row \in Sheet /\ sheet \in [Ids -> Sheet]
  BY DEF TypeOK, Proc
<1>2. /\ Phase' = [Phase EXCEPT ![id] = PhaseOf(t)]
      /\ Flagged' = [Flagged EXCEPT ![id] = t.missing]
      /\ Phase[id] = PhaseOf(s) /\ Flagged[id] = s.missing
  <2>1. sheet' = [sheet EXCEPT ![id] = t]
    BY DEF Written
  <2>2. \A i \in Ids : sheet'[i] = IF i = id THEN t ELSE sheet[i]
    BY <1>1, <2>1
  <2>3. Phase' = [i \in Ids |-> PhaseOf(sheet'[i])] /\ Flagged' = [i \in Ids |-> sheet'[i].missing]
    BY DEF Phase, Flagged, PhaseOf, CanReCheckIn
  <2>4. QED
    BY <1>1, <2>2, <2>3 DEF Phase, Flagged
<1>3. /\ s.status = "ABSENT" => s = NoSheet
      /\ s.open => s.status # "ABSENT" /\ s.source = "NONE"
  <2>1. s.status = "ABSENT" => s = NoSheet
    BY <1>1 DEF RecordConsistent
  <2>2. s.status # "ABSENT" /\ s.open => s.source = "NONE"
    BY <1>1 DEF RecordConsistent, Exists
  <2>3. ~NoSheet.open
    BY DEF NoSheet
  <2>4. QED
    BY <2>1, <2>2, <2>3
<1> USE DEF Lifecycle!DayNext, Lifecycle!Arrive, Lifecycle!ComeBack, Lifecycle!Leave,
            Lifecycle!Flag, Lifecycle!SealBySystem, Lifecycle!SealByAdmin,
            Lifecycle!SettleByRequest
<1>4. CASE Opened(s, t, q)
  <2>1. PhaseOf(s) = "absent" /\ ~s.missing /\ PhaseOf(t) = "open" /\ t.missing = FALSE
    <3>1. s.status = "ABSENT" /\ ~s.missing
      BY <1>3, <1>4 DEF Opened, NoSheet
    <3>2. t.status = "PRESENT" /\ t.open /\ t.missing = FALSE
      BY <1>4 DEF Opened, NoSheet
    <3>3. QED
      BY <1>1, <3>1, <3>2, PhaseFacts
  <2>2. Flagged' = Flagged
    BY <1>1, <1>2, <2>1 DEF Flagged, Sheet
  <2>3. Lifecycle!Arrive(id)
    BY <1>2, <2>1, <2>2 DEF Phase, Flagged
  <2>4. QED
    BY <1>1, <2>3
<1>5. CASE CanReCheckIn(s) /\ t = Reopened(s)
  <2>1. PhaseOf(s) = "left" /\ PhaseOf(t) = "open" /\ t.missing = FALSE
    <3>1. s.status # "ABSENT"
      BY <1>3, <1>5 DEF CanReCheckIn, NoSheet
    <3>2. t.status # "ABSENT" /\ t.open /\ t.missing = FALSE
      BY <1>1, <1>5 DEF Reopened, Sheet
    <3>3. QED
      BY <1>1, <1>5, <3>1, <3>2, PhaseFacts DEF CanReCheckIn
  <2>2. Lifecycle!ComeBack(id)
    BY <1>2, <2>1 DEF Phase, Flagged
  <2>3. QED
    BY <1>1, <2>2
<1>6. CASE LeftByEmployee(s, t, q)
  <2>1. PhaseOf(s) = "open" /\ PhaseOf(t) = "left" /\ t.missing \in BOOLEAN
    <3>1. t.status # "ABSENT" /\ ~t.open /\ t.source = "EMPLOYEE" /\ s.open
      BY <1>1, <1>6, ClosedFacts DEF LeftByEmployee
    <3>2. QED
      BY <1>1, <1>3, <3>1, PhaseFacts DEF CanReCheckIn, Sheet
  <2>2. Lifecycle!Leave(id)
    BY <1>2, <2>1 DEF Phase, Flagged
  <2>3. QED
    BY <1>1, <2>2
<1>7. CASE LeftToSystem(s, t, q)
  <2>1. PhaseOf(s) = "open" /\ PhaseOf(t) = "sealed" /\ t.missing = TRUE
    <3>1. t.status # "ABSENT" /\ ~t.open /\ t.source = "SYSTEM" /\ s.open /\ t.missing
      BY <1>1, <1>7, ClosedFacts DEF LeftToSystem
    <3>2. QED
      BY <1>1, <1>3, <3>1, PhaseFacts DEF CanReCheckIn, Sheet
  <2>2. Lifecycle!SealBySystem(id)
    BY <1>2, <2>1 DEF Phase, Flagged
  <2>3. QED
    BY <1>1, <2>2
<1>8. CASE Marked(s, t)
  <2>1. PhaseOf(s) = "open" /\ PhaseOf(t) = "open" /\ ~s.missing /\ t.missing = TRUE
    <3>1. s.open /\ t.open /\ t.status = "MISSING_CHECKOUT" /\ ~s.missing /\ t.missing = TRUE
      BY <1>1, <1>8 DEF Marked, Sheet
    <3>2. QED
      BY <1>1, <1>3, <3>1, PhaseFacts
  <2>2. Phase' = Phase
    BY <1>2, <2>1 DEF Phase
  <2>3. Lifecycle!Flag(id)
    BY <1>2, <2>1, <2>2 DEF Phase, Flagged
  <2>4. QED
    BY <1>1, <2>3
<1>9. CASE CorrectedTo(s, t, q)
  <2>1. PhaseOf(s) # "absent"
    <3>1. s.status # "ABSENT"
      BY <1>9 DEF CorrectedTo, StaleRowsAgree, Exists
    <3>2. QED
      BY <3>1 DEF PhaseOf
  <2>2. PhaseOf(t) = "sealed" /\ t.missing = FALSE
    <3>1. t.status = "COMPLETED" /\ ~t.open /\ t.source = "ADMIN" /\ t.missing = FALSE
      BY <1>1, <1>9 DEF CorrectedTo, Corrected, Sheet
    <3>2. QED
      BY <3>1, PhaseFacts DEF CanReCheckIn
  <2>3. Lifecycle!SealByAdmin(id)
    BY <1>2, <2>1, <2>2 DEF Phase, Flagged
  <2>4. QED
    BY <1>1, <2>3
<1>10. CASE ApprovedTo(s, t, q)
  <2>1. t.status = "COMPLETED" /\ ~t.open /\ t.source = s.source /\ t.missing = FALSE
    BY <1>1, <1>3, <1>10, IdleFacts DEF ApprovedTo, ByRequest, Sheet, NoSheet
  <2>2. PhaseOf(t) = IF PhaseOf(s) = "left" THEN "left" ELSE "sealed"
    <3>1. CanReCheckIn(t) <=> s.source = "EMPLOYEE"
      BY <2>1 DEF CanReCheckIn
    <3>2. PhaseOf(s) = "left" <=> s.source = "EMPLOYEE"
      BY <1>1, <1>3, PhaseFacts DEF CanReCheckIn, NoSheet, Sheet
    <3>3. QED
      BY <2>1, <3>1, <3>2, PhaseFacts
  <2>3. Lifecycle!SettleByRequest(id)
    BY <1>2, <2>1, <2>2 DEF Phase, Flagged
  <2>4. QED
    BY <1>1, <2>3
<1>11. QED
  BY <1>4, <1>5, <1>6, <1>7, <1>8, <1>9, <1>10 DEF Written

\* The timesheet handlers implement the abstract lifecycle of a day.
THEOREM AttendanceImplementsLifecycle == Spec => ImplementsLifecycle
<1>1. Init => Lifecycle!DayInit
  <2>1. PhaseOf(NoSheet) = "absent" /\ NoSheet.missing = FALSE
    BY IdleFacts, PhaseFacts DEF NoSheet
  <2>2. QED
    BY <2>1 DEF Init, Lifecycle!DayInit
<1>2. TypeOK /\ RecordConsistent /\ StaleRowsAgree /\ [Next]_vars
        => [Lifecycle!DayNext]_(Lifecycle!dayVars)
  <2> SUFFICES ASSUME TypeOK, RecordConsistent, StaleRowsAgree, [Next]_vars
               PROVE  Lifecycle!DayNext \/ UNCHANGED Lifecycle!dayVars
    OBVIOUS
  <2>1. CASE UNCHANGED <<sheet, settled, marks>>
    BY <2>1 DEF Lifecycle!dayVars, PhaseOf, CanReCheckIn
  <2>2. QED
    BY <2>1, WriteStep, WriteRefines
<1>3. QED
  BY <1>1, <1>2, TypeCorrect, RecordsStayConsistent, StaleRowsAreHarmless, PTL
     DEF Spec, ImplementsLifecycle, Lifecycle!DaySpec

-----------------------------------------------------------------------------
(* One open shift.  No index backs the check of a check-in, so it holds as   *)
(* long as no two of an employee are between their check and their write.    *)

Writes(p) == proc[p].pc = "writeIn"

CheckInsInTurn ==
  \A p, q \in Procs : Writes(p) /\ Writes(q) /\ proc[p].id[1] = proc[q].id[1] => p = q

OpenAlone ==
  \A i, j \in Ids : sheet[i].open /\ sheet[j].open /\ i[1] = j[1] => i = j

\* Whoever has passed the check still finds no open shift.
WritersFindNone == \A p \in Procs : Writes(p) => OpenIdsOf(proc[p].id[1]) = {}

OpenInv == TypeOK /\ OpenAlone /\ WritersFindNone

\* A step that opens nothing and lets nobody pass the check.
NothingOpens ==
  /\ \A id \in Ids : sheet'[id].open => sheet[id].open
  /\ \A p \in Procs : Writes(p)' => Writes(p) /\ proc'[p].id = proc[p].id

LEMMA IdleWrites == Idle.pc = "idle" /\ "idle" \notin ClientSteps
BY DEF Idle, ClientSteps

LEMMA NothingOpensKeeps ==
  ASSUME OpenAlone, WritersFindNone, NothingOpens
  PROVE  OpenAlone' /\ WritersFindNone'
<1>1. OpenAlone'
  BY DEF OpenAlone, NothingOpens
<1>2. ASSUME NEW p \in Procs, Writes(p)' PROVE OpenIdsOf(proc[p].id[1])' = {}
  <2>1. OpenIdsOf(proc[p].id[1]) = {} /\ proc'[p].id = proc[p].id
    BY <1>2 DEF NothingOpens, WritersFindNone
  <2>2. QED
    BY <2>1 DEF NothingOpens, OpenIdsOf
<1>3. QED
  BY <1>1, <1>2 DEF WritersFindNone

\* A handler that answers writes no more.
LEMMA EndOpensNothing ==
  ASSUME TypeOK, NEW p \in Procs, End(p), \A id \in Ids : sheet'[id].open => sheet[id].open
  PROVE  NothingOpens
BY IdleWrites DEF NothingOpens, End, Writes, TypeOK

\* The check: no shift of the employee is open.
LEMMA GuardKeeps ==
  ASSUME OpenInv, NEW p \in Procs, GuardOpenShift(p)
  PROVE  OpenAlone' /\ WritersFindNone'
<1>1. CASE End(p)
  BY <1>1, EndOpensNothing, NothingOpensKeeps DEF GuardOpenShift, OpenInv
<1>2. CASE BlockingShifts(p) = {} /\ Goto(p, "writeIn")
  <2>1. UNCHANGED sheet /\ proc \in [Procs -> Proc]
    BY DEF GuardOpenShift, OpenInv, TypeOK
  <2>2. \A q \in Procs : proc'[q].id = proc[q].id /\ (q # p => proc'[q] = proc[q])
    BY <1>2, <2>1 DEF Goto, Proc
  <2>3. ASSUME NEW q \in Procs, Writes(q)' PROVE OpenIdsOf(proc[q].id[1])' = {}
    <3>1. OpenIdsOf(proc[q].id[1]) = {}
      BY <1>2, <2>2, <2>3 DEF OpenInv, WritersFindNone, Writes, BlockingShifts
    <3>2. QED
      BY <2>1, <2>2, <3>1 DEF OpenIdsOf
  <2>4. QED
    BY <2>1, <2>3 DEF OpenInv, OpenAlone, WritersFindNone
<1>3. QED
  BY <1>1, <1>2 DEF GuardOpenShift

\* The write: the one shift that opens is of an employee who had none, and
\* nobody else is about to open one of theirs.
LEMMA CheckInKeeps ==
  ASSUME OpenInv, CheckInsInTurn, NEW p \in Procs, FirstCheckIn(p) \/ ReCheckIn(p)
  PROVE  OpenAlone' /\ WritersFindNone'
<1>1. PICK d \in Ids : d = proc[p].id
  BY DEF OpenInv, TypeOK, Proc
<1>2. Writes(p) /\ OpenIdsOf(d[1]) = {} /\ End(p)
  BY <1>1 DEF FirstCheckIn, ReCheckIn, Writes, OpenInv, WritersFindNone
<1>3. \A id \in Ids : id # d => sheet'[id] = sheet[id]
  BY <1>1 DEF FirstCheckIn, ReCheckIn, OpenInv, TypeOK
<1>4. \A id \in Ids : id[1] = d[1] => ~sheet[id].open
  BY <1>2 DEF OpenIdsOf
<1>5. OpenAlone'
  BY <1>3, <1>4 DEF OpenInv, OpenAlone
<1>6. \A q \in Procs \ {p} : proc'[q] = proc[q]
  BY <1>2 DEF End, OpenInv, TypeOK
<1>7. ~Writes(p)'
  BY <1>2, IdleWrites DEF End, Writes, OpenInv, TypeOK
<1>8. ASSUME NEW q \in Procs, Writes(q)' PROVE OpenIdsOf(proc[q].id[1])' = {}
  <2>1. q # p /\ Writes(q) /\ proc'[q] = proc[q]
    BY <1>6, <1>7, <1>8 DEF Writes
  <2>2. OpenIdsOf(proc[q].id[1]) = {} /\ proc[q].id[1] # d[1]
    BY <1>1, <1>2, <2>1 DEF OpenInv, WritersFindNone, CheckInsInTurn
  <2>3. QED
    BY <1>3, <2>1, <2>2 DEF OpenIdsOf
<1>9. QED
  BY <1>5, <1>8 DEF WritersFindNone

\* All other steps close shifts, or read.
LEMMA OthersOpenNothing ==
  ASSUME TypeOK, NEW p \in Procs,
         \/ ReadToday(p) \/ FindOpenShift(p) \/ CloseByEmployee(p) \/ CloseBySystem(p)
         \/ MarkMissing(p) \/ CorrectTimesheet(p) \/ ApproveCorrectness(p) \/ Fail(p)
  PROVE  NothingOpens
<1>1. proc \in [Procs -> Proc] /\ sheet \in [Ids -> Sheet] /\ proc[p].id \in Ids
      /\ \A q \in Procs : proc[q] = proc'[q] => (Writes(q)' => Writes(q) /\ proc'[q].id = proc[q].id)
  BY DEF TypeOK, Proc, Writes
<1>2. CASE ReadToday(p) \/ FindOpenShift(p)
  <2>1. UNCHANGED sheet
    BY <1>2 DEF ReadToday, FindOpenShift
  <2>2. ~Writes(p)' /\ \A q \in Procs \ {p} : proc'[q] = proc[q]
    <3>1. CASE End(p)
      BY <1>1, <3>1, IdleWrites DEF End, Writes
    <3>2. CASE ~End(p)
      BY <1>1, <1>2, <3>2 DEF ReadToday, FindOpenShift, Writes, Proc
    <3>3. QED
      BY <3>1, <3>2
  <2>3. QED
    BY <1>1, <2>1, <2>2 DEF NothingOpens
<1>3. CASE CloseByEmployee(p) \/ CloseBySystem(p)
  <2>1. \A s, row, id, at, src, k : s \in Sheet => Closed(s, row, id, at, src, k).open = FALSE
    BY DEF Closed, Sheet
  <2>2. sheet[proc[p].id] \in Sheet
    BY <1>1
  <2>3. \A id \in Ids : sheet'[id].open => sheet[id].open
    BY <1>1, <1>3, <2>1, <2>2 DEF CloseByEmployee, CloseBySystem
  <2>4. QED
    BY <1>3, <2>3, EndOpensNothing DEF CloseByEmployee, CloseBySystem
<1>4. CASE MarkMissing(p)
  <2>1. \A id \in Ids : sheet'[id].open => sheet[id].open
    BY <1>1, <1>4 DEF MarkMissing, StillUnflagged, Sheet
  <2>2. QED
    BY <1>4, <2>1, EndOpensNothing DEF MarkMissing
<1>5. CASE CorrectTimesheet(p)
  <2>1. PICK in, out : sheet' = [sheet EXCEPT ![proc[p].id] = Corrected(sheet[proc[p].id], in, out)]
    BY <1>5 DEF CorrectTimesheet
  <2>2. Corrected(sheet[proc[p].id], in, out).open = FALSE
    BY <1>1 DEF Corrected, Sheet
  <2>3. \A id \in Ids : sheet'[id].open => sheet[id].open
    BY <1>1, <2>1, <2>2
  <2>4. QED
    BY <1>5, <2>3, EndOpensNothing DEF CorrectTimesheet
<1>6. CASE ApproveCorrectness(p)
  <2>1. CASE UNCHANGED sheet
    BY <1>6, <2>1, EndOpensNothing DEF ApproveCorrectness
  <2>2. CASE ~UNCHANGED sheet
    <3>1. PICK old, in, out :
             old \in Sheet /\ sheet' = [sheet EXCEPT ![proc[p].id] = ByRequest(old, in, out)]
      <4> DEFINE old == IF proc[p].row = NoSheet
                        THEN [NoSheet EXCEPT !.inKey = ServerKey, !.outKey = ServerKey]
                        ELSE sheet[proc[p].id]
      <4>1. old \in Sheet
        BY <1>1 DEF NoSheet, Sheet, Statuses, Sources
      <4>2. \E times \in SessionActuals(proc[p].id[2]) :
               sheet' = [sheet EXCEPT ![proc[p].id] = ByRequest(old, times[1], times[2])]
        BY <1>6, <2>2 DEF ApproveCorrectness
      <4> HIDE DEF old
      <4>3. QED
        BY <4>1, <4>2
    <3>2. ByRequest(old, in, out).open = FALSE
      BY DEF ByRequest, Sheet
    <3>3. \A id \in Ids : sheet'[id].open => sheet[id].open
      BY <1>1, <3>1, <3>2
    <3>4. QED
      BY <1>6, <3>3, EndOpensNothing DEF ApproveCorrectness
  <2>3. QED
    BY <2>1, <2>2
<1>7. CASE Fail(p)
  BY <1>7, EndOpensNothing DEF Fail
<1>8. QED
  BY <1>2, <1>3, <1>4, <1>5, <1>6, <1>7

\* What begins has passed no check yet.
LEMMA StartsOpenNothing ==
  ASSUME TypeOK, NEW p \in Procs, NEW q, q.pc # "writeIn",
         UNCHANGED proc \/ proc' = [proc EXCEPT ![p] = q], UNCHANGED sheet
  PROVE  NothingOpens
BY DEF TypeOK, NothingOpens, Writes

LEMMA OpenStep == OpenInv /\ CheckInsInTurn /\ [Next]_vars => OpenInv'
<1> SUFFICES ASSUME OpenInv, CheckInsInTurn, [Next]_vars PROVE OpenInv'
  OBVIOUS
<1> DEFINE Goal == OpenAlone' /\ WritersFindNone'
<1>1. TypeOK /\ TypeOK' /\ (NothingOpens => Goal)
  BY TypeStep, NothingOpensKeeps DEF OpenInv
<1>2. ASSUME NEW p \in Requests, NEW m \in Messages, ReceiveCheckIn(p, m) \/ ReceiveCheckOut(p, m)
      PROVE  Goal
  <2>1. p \in Procs /\ UNCHANGED sheet
    BY <1>2 DEF Procs, ReceiveCheckIn, ReceiveCheckOut
  <2>2. CASE ReceiveCheckIn(p, m)
    <3> DEFINE q == [pc |-> "readToday", id |-> <<m.emp, now.day>>,
                     key |-> m.key, at |-> now, row |-> NoSheet]
    <3>1. q.pc # "writeIn" /\ (UNCHANGED proc \/ proc' = [proc EXCEPT ![p] = q])
      BY <2>2 DEF ReceiveCheckIn
    <3> HIDE DEF q
    <3>2. QED
      BY <1>1, <2>1, <3>1, StartsOpenNothing
  <2>3. CASE ReceiveCheckOut(p, m)
    <3> DEFINE q == [pc |-> "findOpen", id |-> <<m.emp, now.day>>,
                     key |-> m.key, at |-> now, row |-> NoSheet]
    <3>1. q.pc # "writeIn" /\ (UNCHANGED proc \/ proc' = [proc EXCEPT ![p] = q])
      BY <2>3 DEF ReceiveCheckOut
    <3> HIDE DEF q
    <3>2. QED
      BY <1>1, <2>1, <3>1, StartsOpenNothing
  <2>4. QED
    BY <1>2, <2>2, <2>3
<1>3. ASSUME NEW p \in Procs, NEW id \in Ids,
             \/ CorrectRead(p, id) \/ ApproveRead(p, id)
             \/ AutoCheckoutRead(p, id) \/ MissingCheckoutRead(p, id)
      PROVE  Goal
  <2>1. PICK l \in {"closeSystem", "mark", "correct", "approve"} : StartJob(p, id, l)
    BY <1>3 DEF CorrectRead, ApproveRead, AutoCheckoutRead, MissingCheckoutRead
  <2> DEFINE q == [pc |-> l, id |-> id, key |-> NoKey, at |-> now, row |-> sheet[id]]
  <2>2. q.pc # "writeIn" /\ proc' = [proc EXCEPT ![p] = q] /\ UNCHANGED sheet
    BY <2>1 DEF StartJob
  <2> HIDE DEF q
  <2>3. QED
    BY <1>1, <2>2, StartsOpenNothing
<1>4. ASSUME SetAutoCheckout \/ Tick \/ UNCHANGED vars PROVE Goal
  <2>1. UNCHANGED <<sheet, proc>>
    BY <1>4 DEF SetAutoCheckout, Tick, vars
  <2>2. NothingOpens
    BY <2>1 DEF NothingOpens, Writes
  <2>3. QED
    BY <1>1, <2>2
<1>5. ASSUME NEW p \in Procs,
             \/ ReadToday(p) \/ FindOpenShift(p) \/ CloseByEmployee(p) \/ CloseBySystem(p)
             \/ MarkMissing(p) \/ CorrectTimesheet(p) \/ ApproveCorrectness(p) \/ Fail(p)
      PROVE  Goal
  BY <1>1, <1>5, OthersOpenNothing
<1>6. ASSUME NEW p \in Procs, GuardOpenShift(p) \/ FirstCheckIn(p) \/ ReCheckIn(p) PROVE Goal
  BY <1>6, GuardKeeps, CheckInKeeps
<1> HIDE DEF Goal
<1>7. Goal
  <2>1. (\E p \in Requests, m \in Messages : ReceiveCheckIn(p, m) \/ ReceiveCheckOut(p, m)) => Goal
    BY <1>2
  <2>2. (\/ \E p \in Requests, id \in Ids : CorrectRead(p, id) \/ ApproveRead(p, id)
         \/ \E p \in Jobs, id \in Ids : AutoCheckoutRead(p, id) \/ MissingCheckoutRead(p, id)) => Goal
    BY <1>3 DEF Procs
  <2>3. QED
    BY <1>4, <1>5, <1>6, <2>1, <2>2 DEF Next
<1>8. QED
  BY <1>1, <1>7 DEF OpenInv, Goal

LEMMA OpenInit == Init => OpenInv
<1> SUFFICES ASSUME Init PROVE OpenInv
  OBVIOUS
<1>1. TypeOK
  <2>1. \A p \in Procs : proc[p] = Idle
    BY DEF Init
  <2>2. QED
    BY <2>1, IdleWrites, IdleFacts, InstantFacts DEF Init, TypeOK
<1>2. \A p \in Procs : proc[p] = Idle
  BY DEF Init
<1>3. WritersFindNone
  BY <1>2, IdleWrites DEF WritersFindNone, Writes
<1>4. OpenAlone
  BY DEF Init, OpenAlone, NoSheet
<1>5. QED
  BY <1>1, <1>3, <1>4 DEF OpenInv

LEMMA OpenMeans == OpenInv => OneOpenShift
<1> SUFFICES ASSUME OpenInv, NEW e \in Employees PROVE Cardinality(OpenIdsOf(e)) <= 1
  BY DEF OneOpenShift
<1>1. CASE OpenIdsOf(e) = {}
  BY <1>1, FS_EmptySet
<1>2. CASE OpenIdsOf(e) # {}
  <2>1. PICK id \in OpenIdsOf(e) : OpenIdsOf(e) = {id}
    BY <1>2 DEF OpenIdsOf, OpenInv, OpenAlone
  <2>2. QED
    BY <2>1, FS_Singleton
<1>3. QED
  BY <1>1, <1>2

\* However many handlers run, an employee has at most one open shift as long as
\* no two check-ins of theirs are between the check and the write at once
\* (assertNoOpenShift): jobs, check-outs, corrections and midnight may come
\* between.
THEOREM CheckInsInTurnOpenOne == Spec /\ []CheckInsInTurn => []OneOpenShift
BY OpenInit, OpenStep, OpenMeans, PTL DEF Spec
=============================================================================
