-------------------------- MODULE AttendanceRating --------------------------
(***************************************************************************)
(* The rating of attendance in an evaluation: the facts of a period, read  *)
(* off the employee's rows, and the score they come to.  Days of leave     *)
(* count in halves.                                                        *)
(***************************************************************************)
EXTENDS Integers, FiniteSets, FiniteSetsExt

VARIABLES
  facts,    \* of a period
  days      \* of a period: those of the schedule, of leave and of holidays

\* A period is finitely many days; whatever was recorded of it, nothing is negative.
RatingTypeOK ==
  /\ facts \in [expected : Nat, attended : Nat, late : Nat, missing : Nat,
                leaveHalves : Nat, holidays : Nat]
  /\ days \in [period : SUBSET Nat, scheduled : SUBSET (1..7), leave : SUBSET Nat,
               holidays : SUBSET Nat]
  /\ IsFiniteSet(days.period)

AtLeast0(n) == IF n < 0 THEN 0 ELSE n

\* expectedWorkdays: the working days of the schedule, or Monday to Friday.
ExpectedDays(period, weekdayOf, scheduled) ==
  LET weekdays == IF scheduled = {} THEN 1..5 ELSE scheduled
  IN Cardinality({d \in period : weekdayOf[d] \in weekdays})

\* periodSnapshot: days with a timesheet, late ones and ones without a check-out
\* in the period, holidays in it, and the whole of every approved leave that
\* touches it.
Snapshot(period, weekdayOf, scheduled, attended, late, open, leaves, holidays) ==
  [expected |-> ExpectedDays(period, weekdayOf, scheduled),
   attended |-> Cardinality(attended \cap period),
   late |-> Cardinality(late \cap period),
   missing |-> Cardinality(open \cap period),
   leaveHalves |-> MapThenSumSet(LAMBDA l : l.halves, {l \in leaves : l.days \cap period # {}}),
   holidays |-> Cardinality(holidays \cap period)]

\* Fault: leave is a day that was not worked.
AbsentWithLeave(f) == AtLeast0(2 * f.expected - 2 * f.attended - 2 * f.holidays) + f.leaveHalves

AbsentHalves(f) ==
  AtLeast0(2 * f.expected - 2 * f.attended - f.leaveHalves - 2 * f.holidays)

AbsencePenalty(f) == IF AbsentHalves(f) > 6 THEN 6 ELSE AbsentHalves(f)

\* By the share of the days attended that began late.
LatePenalty(f) ==
  IF f.attended = 0 THEN 0
  ELSE IF 100 * f.late >= 30 * f.attended THEN 6
  ELSE IF 100 * f.late >= 15 * f.attended THEN 4
  ELSE IF 100 * f.late >= 5 * f.attended THEN 2
  ELSE 0

MissingPenalty(f) == IF f.missing >= 3 THEN 2 ELSE 0

\* Penalties in halves of a point; a half is rounded up.
Score(f) ==
  LET halves == 10 - AbsencePenalty(f) - LatePenalty(f) - MissingPenalty(f)
  IN IF halves < 2 THEN 1 ELSE (halves + 1) \div 2

-----------------------------------------------------------------------------
\* attendance-rating.ts: "Approved leave never reduces the score", nor does a
\* holiday; and no fact takes the score out of 1..5.
ExcusesNeverReduce(f) ==
  /\ Score(f) \in 1..5
  /\ Score([f EXCEPT !.leaveHalves = @ + 1]) >= Score(f)
  /\ Score([f EXCEPT !.holidays = @ + 1]) >= Score(f)

\* Nobody is absent without excuse who attended every working day that was
\* neither a holiday nor taken by a leave, which counts its working days; the
\* snapshot compares numbers of days only.
AccountedForIsNotAbsent(period, scheduled, leave, holidays) ==
  LET weekdayOf == [d \in period |-> ((d - 1) % 7) + 1]
      work == {d \in period : weekdayOf[d] \in IF scheduled = {} THEN 1..5 ELSE scheduled}
      attended == work \ (leave \cup holidays)
      taken == [days |-> leave, halves |-> 2 * Cardinality((leave \cap work) \ holidays)]
  IN AbsentHalves(Snapshot(period, weekdayOf, scheduled, attended, {}, {}, {taken}, holidays)) = 0

\* The rating of attendance is kind and just: leave and holidays never reduce a
\* score, no fact takes it out of its range (rateReliabilityAttendance), and
\* whoever is accounted for on every working day is not absent without excuse
\* (periodSnapshot).
RatingIsFair ==
  /\ ExcusesNeverReduce(facts)
  /\ AccountedForIsNotAbsent(days.period, days.scheduled, days.leave, days.holidays)
=============================================================================
