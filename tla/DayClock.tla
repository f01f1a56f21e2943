------------------------------ MODULE DayClock ------------------------------
(***************************************************************************)
(* Instants and the schedule arithmetic of attendance.  An instant is a    *)
(* local calendar day and a tick within it; the code compares Date values  *)
(* and, where it asks for a day, ISO date keys in the office's zone.       *)
(***************************************************************************)
EXTENDS Integers

CONSTANTS
  LastDay,     \* the days of the model are 0..LastDay
  LastTick,    \* the ticks of a day are 0..LastTick
  InTick,      \* the tick of a shift's scheduled check-in
  OutTick,     \* the tick of its scheduled check-out; not after InTick, the
               \*   shift is an overnight one
  AutoTick     \* the tick of Organization.attendanceAutoCheckoutTime

ASSUME ClockAssumption ==
  /\ LastDay \in Nat
  /\ LastTick \in Nat
  /\ InTick \in 0..LastTick
  /\ OutTick \in 0..LastTick
  /\ AutoTick \in 0..LastTick

Days == 0..LastDay

\* The extra day holds the scheduled end of an overnight shift of LastDay.
Instants == [day : 0..(LastDay + 1), tick : 0..LastTick]

\* A column that is null.
NoInstant == [day |-> -1, tick |-> 0]

Before(s, t) == s.day < t.day \/ (s.day = t.day /\ s.tick < t.tick)

ScheduledIn(d) == [day |-> d, tick |-> InTick]

\* An end that is not after the start is moved to the next day.
ScheduledOut(d) ==
  [day |-> IF OutTick <= InTick THEN d + 1 ELSE d, tick |-> OutTick]

\* The times an approved correctness request writes: the whole shift, or its
\* first or second half, split at an instant of the shift.
SessionActuals(d) ==
  LET mids == {t \in Instants : ~Before(t, ScheduledIn(d)) /\ ~Before(ScheduledOut(d), t)}
  IN {<<ScheduledIn(d), ScheduledOut(d)>>}
       \cup {<<ScheduledIn(d), t>> : t \in mids}
       \cup {<<t, ScheduledOut(d)>> : t \in mids}

\* The auto-checkout instant of the day on which the job runs.
AutoCheckoutAt(t) == [day |-> t.day, tick |-> AutoTick]

\* Fault: only shifts that began today are closed.
EligibleSameDay(checkIn, t) ==
  /\ ~Before(t, AutoCheckoutAt(t))
  /\ checkIn.day = t.day /\ checkIn.tick < AutoTick

IsEligibleForAutoCheckout(checkIn, t) ==
  /\ ~Before(t, AutoCheckoutAt(t))
  /\ Before(checkIn, AutoCheckoutAt(t))

\* What the job records as the check-out: the scheduled end when that is not
\* after the auto-checkout instant.
SystemCheckoutAt(d, t) ==
  IF Before(AutoCheckoutAt(t), ScheduledOut(d)) THEN AutoCheckoutAt(t)
                                                ELSE ScheduledOut(d)

\* The date key of the check-out is after the work date.
IsCrossDay(d, t) == t.day > d

\* The next instant.
Successor(t) ==
  IF t.tick < LastTick THEN [t EXCEPT !.tick = @ + 1]
                       ELSE [day |-> t.day + 1, tick |-> 0]

LastInstant == [day |-> LastDay, tick |-> LastTick]
=============================================================================
