------------------------------ MODULE Reminders ------------------------------
(***************************************************************************)
(* The job that reminds employees to check in and out shortly before their *)
(* shift begins and ends (attendance-reminder.service.ts), on one working  *)
(* day.  A tick is the time between two runs of the job; a run that is     *)
(* still at work when the next is due is replaced by it.  What the job     *)
(* keeps while it waits for the database is kept as a request.             *)
(***************************************************************************)
EXTENDS ApiProcess

CONSTANTS
  Workers,    \* active employees with an office and a schedule
  DueAt,      \* the tick at which a reminder is due, of each kind
  Slack,      \* ATTENDANCE_REMINDER_SLACK_MINUTES, in ticks
  LastTick,   \* the last tick of the day
  MaxMissed   \* runs that do not take place or do not finish, in a day

Kinds == {"CHECK_IN", "CHECK_OUT"}

ASSUME ReminderAssumption ==
  /\ LastTick \in Nat /\ MaxMissed \in Nat /\ Slack \in Nat
  /\ DueAt \in [Kinds -> Nat]

Reminder == Workers \X Kinds

VARIABLES
  tick,       \* the time of the day
  runDue,     \* the run of this tick has not begun
  missed,     \* observation: runs that did not finish
  shift,      \* the timesheet of each employee: "none", "open" or "closed"
  away,       \* employees with an approved leave or a holiday today
  reminded,   \* attendanceReminderLog
  note,       \* notifications written, how many of each kind
  delivered   \* observation: those that were handed to sockets and phones

dayVars == <<shift, away>>
runVars == <<tick, runDue, missed>>
logVars == <<reminded, note, delivered>>
reminderVars == <<apiVars, dayVars, runVars, logVars>>

\* Fault: the slack ends a tick early.
IsDueFor(now, target) == now >= target /\ now < target + Slack

\* isReminderDue: from the time it is due for as long as the slack.
IsReminderDue(now, target) == now >= target /\ now <= target + Slack

\* An employee who has begun, or is away, is not told to come; one whose
\* shift is open is told to go.
IsWanted(w, kind) ==
  IF kind = "CHECK_IN" THEN shift[w] = "none" /\ w \notin away ELSE shift[w] = "open"

\* The run reads the time once and goes through the employees.
StartRun(h) ==
  /\ runDue
  /\ runDue' = FALSE
  /\ Hold(h, [op |-> "run", now |-> tick, left |-> Reminder])
  /\ UNCHANGED <<tick, missed, dayVars, logVars>>

\* The next employee is looked up; nothing is sent if it is not due, not
\* wanted or in the log.
Consider(h) ==
  LET r == request[h]
  IN /\ r.op = "run"
     /\ \E one \in r.left :
          LET rest == r.left \ {one}
          IN IF /\ IsReminderDue(r.now, DueAt[one[2]])
                /\ IsWanted(one[1], one[2])
                /\ one \notin reminded
             THEN Continue(h, [op |-> "send", one |-> one, now |-> r.now, left |-> rest])
             ELSE Continue(h, [r EXCEPT !.left = rest])
     /\ UNCHANGED <<runVars, dayVars, logVars>>

\* Fault: no key backs the log.
Again(one) == TRUE

\* The log refuses a second row of a kind for an employee and a day.
IsNew(one) == one \notin reminded

Logged(one) == reminded \cup {one}

AfterSending(r) == [r EXCEPT !.op = "deliver"]

\* The log and the notification in one transaction; if the row is refused,
\* the run goes on with the next.
SendReminder(h) ==
  LET r == request[h]
      next == [op |-> "run", now |-> r.now, left |-> r.left]
  IN /\ r.op = "send"
     /\ IF IsNew(r.one)
        THEN /\ reminded' = Logged(r.one)
             /\ note' = [note EXCEPT ![r.one] = @ + 1]
             /\ Continue(h, AfterSending(r))
        ELSE Continue(h, next) /\ UNCHANGED <<reminded, note>>
     /\ UNCHANGED <<runVars, dayVars, delivered>>

\* Sockets and phones are told after the transaction.
Deliver(h) ==
  LET r == request[h]
  IN /\ r.op = "deliver"
     /\ delivered' = delivered \cup {r.one}
     /\ Continue(h, [op |-> "run", now |-> r.now, left |-> r.left])
     /\ UNCHANGED <<runVars, dayVars, reminded, note>>

EndRun(h) ==
  /\ request[h].op = "run"
  /\ request[h].left = {}
  /\ Answer(h)
  /\ UNCHANGED <<runVars, dayVars, logVars>>

\* A run is killed, by a failure of its database or by the next run.
KillRun(h) ==
  /\ missed < MaxMissed
  /\ missed' = missed + 1
  /\ BreakOff(h)
  /\ UNCHANGED <<tick, runDue, dayVars, logVars>>

\* Time passes; the run of the last tick is over, or has not taken place.
Tick ==
  /\ tick < LastTick
  /\ \A h \in Handlers : AtRest(h)
  /\ runDue => missed < MaxMissed
  /\ missed' = IF runDue THEN missed + 1 ELSE missed
  /\ tick' = tick + 1
  /\ runDue' = TRUE
  /\ UNCHANGED <<apiVars, dayVars, logVars>>

\* A run started by hand beside the one of the cron.
RunByHand ==
  /\ ~runDue
  /\ runDue' = TRUE
  /\ \E h \in Handlers : ~AtRest(h)
  /\ UNCHANGED <<apiVars, tick, missed, dayVars, logVars>>

(* The employees meanwhile *)

CheckIn(w) == shift[w] = "none" /\ shift' = [shift EXCEPT ![w] = "open"] /\ UNCHANGED away
CheckOut(w) == shift[w] = "open" /\ shift' = [shift EXCEPT ![w] = "closed"] /\ UNCHANGED away
GoAway(w) == w \notin away /\ away' = away \cup {w} /\ UNCHANGED shift

DayGoesOn == \E w \in Workers : CheckIn(w) \/ CheckOut(w) \/ GoAway(w)

ReminderInit ==
  /\ tick = 0
  /\ runDue = TRUE
  /\ missed = 0
  /\ shift = [w \in Workers |-> "none"]
  /\ away = {}
  /\ reminded = {}
  /\ note = [one \in Reminder |-> 0]
  /\ delivered = {}
  /\ ApiInit

ReminderNext ==
  \/ Tick
  \/ RunByHand
  \/ DayGoesOn /\ AtOnce /\ UNCHANGED <<runVars, logVars>>
  \/ \E h \in Handlers :
       StartRun(h) \/ Consider(h) \/ SendReminder(h) \/ Deliver(h) \/ EndRun(h) \/ KillRun(h)

ReminderSpec == ReminderInit /\ [][ReminderNext]_reminderVars

-----------------------------------------------------------------------------
(* What the reminders promise.                                            *)

\* Types of the day, the log and the runs.
ReminderTypeOK ==
  /\ tick \in 0..LastTick
  /\ missed \in 0..MaxMissed
  /\ shift \in [Workers -> {"none", "open", "closed"}]
  /\ away \subseteq Workers
  /\ reminded \subseteq Reminder
  /\ delivered \subseteq reminded

\* Nobody is reminded twice of the same, by two runs that overlap or by a run
\* after one that was killed (sendReminder: attendanceReminderLog).
RemindedOnce == \A one \in Reminder : note[one] <= 1

\* Whoever is still expected when the time to remind has passed was reminded
\* to check in, though runs were killed or missing, as long as one of them
\* took place within the slack (isReminderDue; attendance-reminder tests:
\* "still sends on a late cron tick within catch-up slack").
RemindedInTime ==
  tick > DueAt["CHECK_IN"] + Slack =>
    \A w \in Workers : IsWanted(w, "CHECK_IN") => <<w, "CHECK_IN">> \in reminded

\* Only a run that was killed leaves a reminder written and not delivered.
OnlyKilledRunsLoseDelivery ==
  missed = 0 /\ (\A h \in Handlers : AtRest(h)) => reminded \subseteq delivered

\* Whoever is late is reminded and the reminder delivered, though runs are
\* killed, late or missing: only a run that was killed loses one.
RemindersArrive == ReminderTypeOK /\ RemindedInTime /\ OnlyKilledRunsLoseDelivery
=============================================================================
