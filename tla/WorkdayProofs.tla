---------------------------- MODULE WorkdayProofs ----------------------------
(***************************************************************************)
(* Two parts of an employee's day, for any employees, handlers and times.  *)
(* The reminders: nobody is reminded twice, as the log holds exactly what  *)
(* was written (LogTellsAll); whoever is late was reminded, as every tick  *)
(* since the reminder was due has cost a run (MissedOnlyByLostRuns).  The  *)
(* requests to have days counted: what an answer relies on stays true      *)
(* whatever else is in flight (DayFits), and what a submission read stays  *)
(* true as long as it is alone (DayIsCurrent).                             *)
(***************************************************************************)
EXTENDS Reminders, CorrectnessRequests, TLAPS

Runs ==
  {NoRequest}
    \cup [op : {"run"}, now : 0..LastTick, left : SUBSET Reminder]
    \cup [op : {"send", "deliver"}, one : Reminder, now : 0..LastTick, left : SUBSET Reminder]

RunsTypeOK == request \in [Handlers -> Runs]

\* What is about to be delivered was written.
DeliversWhatIsLogged ==
  \A h \in Handlers : request[h].op = "deliver" => request[h].one \in reminded

LogTellsAll ==
  /\ note \in [Reminder -> Nat]
  /\ \A one \in Reminder : note[one] = IF one \in reminded THEN 1 ELSE 0

Inv == ReminderTypeOK /\ RunsTypeOK /\ DeliversWhatIsLogged /\ LogTellsAll

USE ReminderAssumption

-----------------------------------------------------------------------------
LEMMA InvInit == ReminderInit => Inv
<1> SUFFICES ASSUME ReminderInit PROVE Inv
  OBVIOUS
<1>1. ReminderTypeOK
  BY DEF ReminderInit, ReminderTypeOK
<1>2. RunsTypeOK /\ DeliversWhatIsLogged
  BY DEF ReminderInit, ApiInit, RunsTypeOK, DeliversWhatIsLogged, Runs, NoRequest
<1>3. LogTellsAll
  BY DEF ReminderInit, LogTellsAll
<1>4. QED
  BY <1>1, <1>2, <1>3 DEF Inv

\* A step that writes nothing to the log keeps the invariant, whatever it
\* gives one handler that is not a delivery.
LEMMA ReadKeepsInv ==
  ASSUME Inv, UNCHANGED logVars,
         tick' \in 0..LastTick, missed' \in 0..MaxMissed,
         shift' \in [Workers -> {"none", "open", "closed"}], away' \subseteq Workers,
         RunsTypeOK', \A h \in Handlers : request'[h].op # "deliver" \/ request'[h] = request[h]
  PROVE  Inv'
<1>1. ReminderTypeOK'
  BY DEF Inv, ReminderTypeOK, logVars
<1>2. DeliversWhatIsLogged'
  BY DEF Inv, DeliversWhatIsLogged, logVars
<1>3. LogTellsAll'
  BY DEF Inv, LogTellsAll, logVars
<1>4. QED
  BY <1>1, <1>2, <1>3 DEF Inv

\* A handler that is given a run it may have.
LEMMA OneRequest ==
  ASSUME RunsTypeOK, NEW h \in Handlers, NEW r \in Runs,
         request' = [request EXCEPT ![h] = r]
  PROVE  /\ RunsTypeOK' /\ request'[h] = r
         /\ \A g \in Handlers : g # h => request'[g] = request[g]
BY DEF RunsTypeOK

LEMMA InvNext == Inv /\ [ReminderNext]_reminderVars => Inv'
<1> SUFFICES ASSUME Inv, [ReminderNext]_reminderVars PROVE Inv'
  OBVIOUS
<1> USE DEF Inv
<1>0. NoRequest \in Runs /\ NoRequest.op = "none"
  BY DEF Runs, NoRequest
<1>1. CASE UNCHANGED reminderVars
  BY <1>1, ReadKeepsInv DEF reminderVars, apiVars, dayVars, runVars, logVars, ReminderTypeOK,
     RunsTypeOK
<1>2. CASE Tick
  BY <1>2, ReadKeepsInv DEF Tick, apiVars, dayVars, logVars, ReminderTypeOK, RunsTypeOK
<1>3. CASE RunByHand
  BY <1>3, ReadKeepsInv DEF RunByHand, apiVars, dayVars, logVars, ReminderTypeOK, RunsTypeOK
<1>4. CASE DayGoesOn /\ AtOnce /\ UNCHANGED <<runVars, logVars>>
  <2>1. shift' \in [Workers -> {"none", "open", "closed"}] /\ away' \subseteq Workers
    BY <1>4 DEF DayGoesOn, CheckIn, CheckOut, GoAway, ReminderTypeOK
  <2>2. QED
    BY <1>4, <2>1, ReadKeepsInv DEF AtOnce, runVars, logVars, ReminderTypeOK, RunsTypeOK
<1>5. ASSUME NEW h \in Handlers, StartRun(h) PROVE Inv'
  <2>1. PICK r \in Runs : r.op = "run" /\ request' = [request EXCEPT ![h] = r]
    BY <1>5 DEF StartRun, Hold, Runs, ReminderTypeOK
  <2>2. QED
    BY <1>5, <2>1, OneRequest, ReadKeepsInv DEF StartRun, dayVars, logVars, ReminderTypeOK
<1>6. ASSUME NEW h \in Handlers, Consider(h) PROVE Inv'
  <2>1. request[h] \in Runs /\ request[h].op = "run"
    BY <1>6 DEF Consider, RunsTypeOK
  <2>2. PICK r \in Runs : r.op \in {"run", "send"} /\ request' = [request EXCEPT ![h] = r]
    BY <1>6, <2>1 DEF Consider, Continue, Runs, NoRequest
  <2>3. QED
    BY <1>6, <2>2, OneRequest, ReadKeepsInv DEF Consider, runVars, dayVars, logVars, ReminderTypeOK
<1>7. ASSUME NEW h \in Handlers, SendReminder(h) PROVE Inv'
  <2> DEFINE one == request[h].one
  <2> DEFINE next == [op |-> "run", now |-> request[h].now, left |-> request[h].left]
  <2>1. /\ request[h] \in Runs /\ request[h].op = "send"
        /\ one \in Reminder /\ next \in Runs /\ next.op = "run"
    BY <1>7 DEF SendReminder, RunsTypeOK, Runs, NoRequest
  <2>2. CASE IsNew(one)
    <3>1. /\ AfterSending(request[h]) \in Runs
          /\ AfterSending(request[h]).op = "deliver" /\ AfterSending(request[h]).one = one
      BY <2>1 DEF AfterSending, Runs, NoRequest
    <3>2. /\ request' = [request EXCEPT ![h] = AfterSending(request[h])]
          /\ reminded' = reminded \cup {one}
          /\ note' = [note EXCEPT ![one] = @ + 1]
      BY <1>7, <2>2 DEF SendReminder, Continue, Logged
    <3>3. ReminderTypeOK' /\ RunsTypeOK'
      BY <1>7, <2>1, <3>1, <3>2, OneRequest DEF SendReminder, ReminderTypeOK, runVars, dayVars
    <3>4. DeliversWhatIsLogged'
      BY <3>1, <3>2, OneRequest DEF DeliversWhatIsLogged
    <3>5. LogTellsAll'
      BY <2>1, <2>2, <3>2 DEF LogTellsAll, IsNew
    <3>6. QED
      BY <3>3, <3>4, <3>5
  <2>3. CASE ~IsNew(one)
    <3>1. request' = [request EXCEPT ![h] = next] /\ UNCHANGED logVars
      BY <1>7, <2>3 DEF SendReminder, Continue, logVars
    <3>2. QED
      BY <1>7, <2>1, <3>1, OneRequest, ReadKeepsInv DEF SendReminder, runVars, dayVars, ReminderTypeOK
  <2>4. QED
    BY <2>2, <2>3
<1>8. ASSUME NEW h \in Handlers, Deliver(h) PROVE Inv'
  <2> DEFINE next == [op |-> "run", now |-> request[h].now, left |-> request[h].left]
  <2>1. request[h] \in Runs /\ request[h].op = "deliver" /\ request[h].one \in reminded
    BY <1>8 DEF Deliver, RunsTypeOK, DeliversWhatIsLogged
  <2>2. next \in Runs /\ next.op = "run" /\ request' = [request EXCEPT ![h] = next]
    BY <1>8, <2>1 DEF Deliver, Continue, Runs, NoRequest
  <2>3. ReminderTypeOK' /\ RunsTypeOK'
    BY <1>8, <2>1, <2>2, OneRequest DEF Deliver, ReminderTypeOK, runVars, dayVars
  <2>4. DeliversWhatIsLogged' /\ LogTellsAll'
    BY <1>8, <2>2, OneRequest DEF Deliver, DeliversWhatIsLogged, LogTellsAll
  <2>5. QED
    BY <2>3, <2>4
<1>9. ASSUME NEW h \in Handlers, EndRun(h) PROVE Inv'
  BY <1>0, <1>9, OneRequest, ReadKeepsInv DEF EndRun, Answer, Continue, runVars, dayVars, logVars,
     ReminderTypeOK
<1>10. ASSUME NEW h \in Handlers, KillRun(h) PROVE Inv'
  <2>1. missed' \in 0..MaxMissed
    BY <1>10 DEF KillRun, ReminderTypeOK
  <2>2. request' = [request EXCEPT ![h] = NoRequest]
    BY <1>10 DEF KillRun, BreakOff, Answer, Continue
  <2>3. RunsTypeOK' /\ \A g \in Handlers : request'[g].op # "deliver" \/ request'[g] = request[g]
    BY <1>0, <2>2, OneRequest
  <2>4. QED
    BY <1>10, <2>1, <2>3, ReadKeepsInv DEF KillRun, dayVars, logVars, ReminderTypeOK
<1>11. QED
  BY <1>1, <1>2, <1>3, <1>4, <1>5, <1>6, <1>7, <1>8, <1>9, <1>10 DEF ReminderNext

THEOREM InvAlways == ReminderSpec => []Inv
BY InvInit, InvNext, PTL DEF ReminderSpec

-----------------------------------------------------------------------------
\* Every reachable state is well typed, and only what is logged is delivered.
THEOREM TypeCorrect == ReminderSpec => []ReminderTypeOK
<1>1. Inv => ReminderTypeOK
  BY DEF Inv
<1>2. QED
  BY <1>1, InvAlways, PTL

\* Nobody is reminded twice of the same, however many runs overlap, are
\* started by hand or killed (sendReminder: the unique row of the log).
THEOREM RemindersAreSingle == ReminderSpec => []RemindedOnce
<1>1. Inv => RemindedOnce
  BY DEF Inv, LogTellsAll, RemindedOnce
<1>2. QED
  BY <1>1, InvAlways, PTL

-----------------------------------------------------------------------------
(* Reminders arrive *)

\* The reminder is ahead of a run that looks at it as of this tick.
IsAhead(one) ==
  \E h \in Handlers :
    /\ request[h].op \in {"run", "send", "deliver"} /\ request[h].now = tick
    /\ one \in request[h].left \/ (request[h].op = "send" /\ one = request[h].one)

Unreminded(w) == IsWanted(w, "CHECK_IN") /\ <<w, "CHECK_IN">> \notin reminded

\* Who ought to have been reminded and was not: every tick since has cost a
\* run, and there is one yet in this tick, or it was lost as well.
MissedOnlyByLostRuns ==
  \A w \in Workers :
    Unreminded(w) /\ tick >= DueAt["CHECK_IN"] =>
      \/ missed > tick - DueAt["CHECK_IN"]
      \/ /\ missed >= tick - DueAt["CHECK_IN"]
         /\ runDue \/ IsAhead(<<w, "CHECK_IN">>)

\* A reminder that no run has delivered, or is about to, was lost with one.
LostOnlyWithARun ==
  missed = 0 =>
    \A one \in reminded :
      one \in delivered \/ \E h \in Handlers : request[h].op = "deliver" /\ request[h].one = one

ArrivalInv == Inv /\ MissedOnlyByLostRuns /\ LostOnlyWithARun

-----------------------------------------------------------------------------
LEMMA ArrivalInit == ReminderInit => ArrivalInv
<1> SUFFICES ASSUME ReminderInit PROVE ArrivalInv
  OBVIOUS
<1>1. missed = 0 /\ tick = 0 /\ runDue /\ reminded = {}
  BY DEF ReminderInit
<1>2. MissedOnlyByLostRuns
  BY <1>1 DEF MissedOnlyByLostRuns, Kinds
<1>3. QED
  BY <1>1, <1>2, InvInit DEF ArrivalInv, LostOnlyWithARun

\* Nobody comes to be wanted, and no reminder is taken back.
LEMMA Fewer ==
  ASSUME shift' = shift \/ DayGoesOn, away' = away \/ DayGoesOn, reminded \subseteq reminded',
         ReminderTypeOK, NEW w \in Workers, Unreminded(w)'
  PROVE  Unreminded(w)
<1>1. shift'[w] = "none" => shift[w] = "none"
  BY DEF DayGoesOn, CheckIn, CheckOut, GoAway, ReminderTypeOK
<1>2. away \subseteq away'
  BY DEF DayGoesOn, CheckIn, CheckOut, GoAway
<1>3. QED
  BY <1>1, <1>2 DEF Unreminded, IsWanted

\* A step in the same tick that loses no run.
LEMMA SameTick ==
  ASSUME ArrivalInv, UNCHANGED <<tick, missed>>, ReminderTypeOK',
         shift' = shift \/ DayGoesOn, away' = away \/ DayGoesOn, reminded \subseteq reminded',
         \A w \in Workers :
           Unreminded(w)' /\ tick >= DueAt["CHECK_IN"] /\ (runDue \/ IsAhead(<<w, "CHECK_IN">>))
             => runDue' \/ IsAhead(<<w, "CHECK_IN">>)'
  PROVE  MissedOnlyByLostRuns'
BY Fewer DEF ArrivalInv, Inv, MissedOnlyByLostRuns

\* As no more runs are lost than the slack has ticks, nobody who ought to
\* have been reminded is left when it ends.
LEMMA InTime ==
  ASSUME MaxMissed <= Slack, ArrivalInv, NEW w \in Workers, Unreminded(w)
  PROVE  tick <= DueAt["CHECK_IN"] + Slack
<1>1. /\ tick \in Nat /\ missed \in Nat /\ missed <= MaxMissed /\ MaxMissed \in Nat /\ Slack \in Nat
      /\ DueAt["CHECK_IN"] \in Nat
  BY DEF ArrivalInv, Inv, ReminderTypeOK, Kinds
<1>2. tick >= DueAt["CHECK_IN"] =>
        missed > tick - DueAt["CHECK_IN"] \/ missed >= tick - DueAt["CHECK_IN"]
  BY DEF ArrivalInv, MissedOnlyByLostRuns
<1>3. QED
  BY <1>1, <1>2

LEMMA ArrivalNext ==
  ASSUME MaxMissed <= Slack, ArrivalInv, [ReminderNext]_reminderVars PROVE ArrivalInv'
<1>0. Inv /\ Inv' /\ ReminderTypeOK /\ RunsTypeOK /\ ReminderTypeOK' /\ RunsTypeOK'
  BY InvNext DEF ArrivalInv, Inv
<1> DEFINE CI(w) == <<w, "CHECK_IN">>
<1>1. CASE UNCHANGED reminderVars
  <2>1. /\ request' = request /\ tick' = tick /\ missed' = missed /\ runDue' = runDue
        /\ shift' = shift /\ away' = away /\ reminded' = reminded /\ delivered' = delivered
    BY <1>1 DEF reminderVars, apiVars, dayVars, runVars, logVars
  <2>2. QED
    BY <1>0, <2>1 DEF ArrivalInv, MissedOnlyByLostRuns, LostOnlyWithARun, IsAhead, Unreminded, IsWanted
<1>2. CASE Tick
  <2>1. /\ tick' = tick + 1 /\ runDue' /\ missed' = IF runDue THEN missed + 1 ELSE missed
        /\ UNCHANGED <<request, shift, away, reminded, delivered>>
        /\ \A h \in Handlers : request[h].op = "none"
    BY <1>2 DEF Tick, apiVars, dayVars, logVars, AtRest
  <2>2. \A w \in Workers : ~IsAhead(CI(w))
    BY <2>1 DEF IsAhead
  <2>3. MissedOnlyByLostRuns'
    <3> SUFFICES ASSUME NEW w \in Workers, Unreminded(w)', tick' >= DueAt["CHECK_IN"]
                 PROVE  missed' >= tick' - DueAt["CHECK_IN"]
      BY <2>1 DEF MissedOnlyByLostRuns
    <3>1. Unreminded(w) /\ tick \in Nat /\ missed \in Nat /\ DueAt["CHECK_IN"] \in Nat
      BY <1>0, <2>1, Fewer DEF ReminderTypeOK, Kinds
    <3>2. CASE tick >= DueAt["CHECK_IN"]
      <4>1. \/ missed > tick - DueAt["CHECK_IN"]
            \/ missed >= tick - DueAt["CHECK_IN"] /\ runDue
        BY <2>2, <3>1, <3>2 DEF ArrivalInv, MissedOnlyByLostRuns
      <4>2. QED
        BY <2>1, <3>1, <4>1
    <3>3. CASE tick + 1 = DueAt["CHECK_IN"]
      BY <2>1, <3>1, <3>3
    <3>4. QED
      BY <2>1, <3>1, <3>2, <3>3
  <2>4. LostOnlyWithARun'
    BY <1>0, <2>1 DEF ArrivalInv, LostOnlyWithARun, ReminderTypeOK
  <2>5. QED
    BY <1>0, <2>3, <2>4 DEF ArrivalInv
<1>3. CASE RunByHand
  <2>1. UNCHANGED <<request, tick, missed, shift, away, reminded, delivered>> /\ runDue'
    BY <1>3 DEF RunByHand, apiVars, dayVars, logVars
  <2>2. MissedOnlyByLostRuns'
    BY <1>0, <2>1, SameTick
  <2>3. LostOnlyWithARun'
    BY <2>1 DEF ArrivalInv, LostOnlyWithARun
  <2>4. QED
    BY <1>0, <2>2, <2>3 DEF ArrivalInv
<1>4. CASE DayGoesOn /\ AtOnce /\ UNCHANGED <<runVars, logVars>>
  <2>1. UNCHANGED <<request, tick, missed, runDue, reminded, delivered>> /\ DayGoesOn
    BY <1>4 DEF AtOnce, runVars, logVars
  <2>2. MissedOnlyByLostRuns'
    BY <1>0, <2>1, SameTick DEF IsAhead
  <2>3. LostOnlyWithARun'
    BY <2>1 DEF ArrivalInv, LostOnlyWithARun
  <2>4. QED
    BY <1>0, <2>2, <2>3 DEF ArrivalInv
<1>5. ASSUME NEW h \in Handlers, StartRun(h) PROVE ArrivalInv'
  <2>1. PICK r : r = [op |-> "run", now |-> tick, left |-> Reminder]
    OBVIOUS
  <2>2. /\ request' = [request EXCEPT ![h] = r] /\ AtRest(h)
        /\ UNCHANGED <<tick, missed, shift, away, reminded, delivered>>
    BY <1>5, <2>1 DEF StartRun, Hold, dayVars, logVars
  <2>3. request'[h] = r /\ \A g \in Handlers : g # h => request'[g] = request[g]
    BY <1>0, <2>2 DEF RunsTypeOK
  <2>4. \A w \in Workers : IsAhead(CI(w))'
    BY <2>1, <2>2, <2>3 DEF IsAhead, Reminder, Kinds
  <2>5. MissedOnlyByLostRuns'
    BY <1>0, <2>2, <2>4, SameTick
  <2>6. LostOnlyWithARun'
    BY <2>2, <2>3 DEF ArrivalInv, LostOnlyWithARun, AtRest
  <2>7. QED
    BY <1>0, <2>5, <2>6 DEF ArrivalInv
<1>6. ASSUME NEW h \in Handlers, Consider(h) PROVE ArrivalInv'
  <2>1. PICK r \in Runs : r = request[h] /\ r.op = "run"
    BY <1>0, <1>6 DEF Consider, RunsTypeOK
  <2>2. r \in [op : {"run"}, now : 0..LastTick, left : SUBSET Reminder]
    BY <2>1 DEF Runs, NoRequest
  <2>3. UNCHANGED <<tick, missed, runDue, shift, away, reminded, delivered>>
    BY <1>6 DEF Consider, runVars, dayVars, logVars
  <2>4. PICK one \in r.left :
          LET rest == r.left \ {one}
          IN IF /\ IsReminderDue(r.now, DueAt[one[2]])
                /\ IsWanted(one[1], one[2])
                /\ one \notin reminded
             THEN Continue(h, [op |-> "send", one |-> one, now |-> r.now, left |-> rest])
             ELSE Continue(h, [r EXCEPT !.left = rest])
    BY <1>6, <2>1 DEF Consider
  <2>5. PICK next : /\ request' = [request EXCEPT ![h] = next]
                    /\ next.left = r.left \ {one} /\ next.now = r.now /\ next.op \in {"run", "send"}
                    /\ \/ next.op = "send" /\ next.one = one
                       \/ ~(/\ IsReminderDue(r.now, DueAt[one[2]])
                            /\ IsWanted(one[1], one[2])
                            /\ one \notin reminded)
    <3> DEFINE ahead == /\ IsReminderDue(r.now, DueAt[one[2]])
                        /\ IsWanted(one[1], one[2])
                        /\ one \notin reminded
    <3>1. CASE ahead
      <4>1. PICK next : next = [op |-> "send", one |-> one, now |-> r.now, left |-> r.left \ {one}]
        OBVIOUS
      <4>2. request' = [request EXCEPT ![h] = next]
        BY <2>4, <3>1, <4>1 DEF Continue
      <4>3. next.op = "send" /\ next.one = one /\ next.left = r.left \ {one} /\ next.now = r.now
        BY <4>1
      <4>4. QED
        BY <4>2, <4>3
    <3>2. CASE ~ahead
      <4>1. PICK next : next = [r EXCEPT !.left = r.left \ {one}]
        OBVIOUS
      <4>2. request' = [request EXCEPT ![h] = next]
        BY <2>4, <3>2, <4>1 DEF Continue
      <4>3. next.op = "run" /\ next.left = r.left \ {one} /\ next.now = r.now
        BY <2>2, <4>1
      <4>4. QED
        BY <3>2, <4>2, <4>3
    <3>3. QED
      BY <3>1, <3>2
  <2>6. request'[h] = next /\ \A g \in Handlers : g # h => request'[g] = request[g]
    BY <1>0, <2>5 DEF RunsTypeOK
  <2>7. ASSUME NEW w \in Workers, Unreminded(w), tick >= DueAt["CHECK_IN"], IsAhead(CI(w))
        PROVE  IsAhead(CI(w))'
    <3>1. PICK g \in Handlers :
            /\ request[g].op \in {"run", "send", "deliver"} /\ request[g].now = tick
            /\ CI(w) \in request[g].left \/ (request[g].op = "send" /\ CI(w) = request[g].one)
      BY <2>7 DEF IsAhead
    <3>2. CASE g # h
      BY <2>3, <2>6, <3>1, <3>2 DEF IsAhead
    <3>3. CASE g = h /\ CI(w) # one
      <4>1. CI(w) \in next.left /\ next.now = tick
        BY <2>1, <2>5, <3>1, <3>3
      <4>2. QED
        BY <2>3, <2>5, <2>6, <4>1 DEF IsAhead
    <3>4. CASE g = h /\ CI(w) = one
      <4>1. r.now = tick /\ one[1] = w /\ one[2] = "CHECK_IN"
        BY <2>1, <3>1, <3>4
      <4>2. CASE next.op = "send" /\ next.one = one
        BY <2>3, <2>5, <2>6, <3>4, <4>1, <4>2 DEF IsAhead
      <4>3. IsReminderDue(r.now, DueAt["CHECK_IN"])
        BY <2>7, <4>1, InTime DEF IsReminderDue
      <4>4. QED
        BY <2>5, <2>7, <3>4, <4>1, <4>2, <4>3 DEF Unreminded
    <3>5. QED
      BY <3>2, <3>3, <3>4
  <2>8. MissedOnlyByLostRuns'
    BY <1>0, <2>3, <2>7, SameTick, Fewer
  <2>9. LostOnlyWithARun'
    BY <2>1, <2>3, <2>6 DEF ArrivalInv, LostOnlyWithARun
  <2>10. QED
    BY <1>0, <2>8, <2>9 DEF ArrivalInv
<1>7. ASSUME NEW h \in Handlers, SendReminder(h) PROVE ArrivalInv'
  <2>1. PICK r \in Runs : r = request[h] /\ r.op = "send"
    BY <1>0, <1>7 DEF SendReminder, RunsTypeOK
  <2>2. r \in [op : {"send", "deliver"}, one : Reminder, now : 0..LastTick, left : SUBSET Reminder]
    BY <2>1 DEF Runs, NoRequest
  <2>3. UNCHANGED <<tick, missed, runDue, shift, away, delivered>>
    BY <1>7 DEF SendReminder, runVars, dayVars
  <2>4. PICK next : /\ request' = [request EXCEPT ![h] = next]
                    /\ next.left = r.left /\ next.now = r.now
                    /\ next.op \in {"run", "deliver"}
                    /\ \/ next.op = "deliver" /\ next.one = r.one /\ reminded' = reminded \cup {r.one}
                       \/ r.one \in reminded /\ reminded' = reminded
    <3>1. CASE IsNew(r.one)
      <4>1. PICK next : next = AfterSending(r)
        OBVIOUS
      <4>2. next.left = r.left /\ next.now = r.now /\ next.op = "deliver" /\ next.one = r.one
        BY <2>2, <4>1 DEF AfterSending
      <4>3. request' = [request EXCEPT ![h] = next] /\ reminded' = reminded \cup {r.one}
        BY <1>7, <2>1, <3>1, <4>1 DEF SendReminder, Continue, Logged
      <4>4. QED
        BY <4>2, <4>3
    <3>2. CASE ~IsNew(r.one)
      <4>1. PICK next : next = [op |-> "run", now |-> r.now, left |-> r.left]
        OBVIOUS
      <4>2. request' = [request EXCEPT ![h] = next] /\ reminded' = reminded /\ r.one \in reminded
        BY <1>7, <2>1, <3>2, <4>1 DEF SendReminder, Continue, IsNew
      <4>3. QED
        BY <4>1, <4>2
    <3>3. QED
      BY <3>1, <3>2
  <2>5. request'[h] = next /\ \A g \in Handlers : g # h => request'[g] = request[g]
    BY <1>0, <2>4 DEF RunsTypeOK
  <2>6. ASSUME NEW w \in Workers, Unreminded(w)', IsAhead(CI(w)) PROVE IsAhead(CI(w))'
    <3>1. PICK g \in Handlers :
            /\ request[g].op \in {"run", "send", "deliver"} /\ request[g].now = tick
            /\ CI(w) \in request[g].left \/ (request[g].op = "send" /\ CI(w) = request[g].one)
      BY <2>6 DEF IsAhead
    <3>2. CASE g # h
      BY <2>3, <2>5, <3>1, <3>2 DEF IsAhead
    <3>3. CASE g = h
      <4>1. CI(w) # r.one
        BY <2>4, <2>6 DEF Unreminded
      <4>2. CI(w) \in next.left /\ next.now = tick
        BY <2>1, <2>4, <3>1, <3>3, <4>1
      <4>3. QED
        BY <2>3, <2>4, <2>5, <4>2 DEF IsAhead
    <3>4. QED
      BY <3>2, <3>3
  <2>7. MissedOnlyByLostRuns'
    BY <1>0, <2>3, <2>4, <2>6, SameTick
  <2>8. LostOnlyWithARun'
    BY <2>1, <2>3, <2>4, <2>5 DEF ArrivalInv, LostOnlyWithARun
  <2>9. QED
    BY <1>0, <2>7, <2>8 DEF ArrivalInv
<1>8. ASSUME NEW h \in Handlers, Deliver(h) PROVE ArrivalInv'
  <2>1. PICK r : r = request[h] /\ r.op = "deliver"
    BY <1>8 DEF Deliver
  <2>2. PICK next : next = [op |-> "run", now |-> r.now, left |-> r.left]
    OBVIOUS
  <2>3. /\ request' = [request EXCEPT ![h] = next] /\ delivered' = delivered \cup {r.one}
        /\ UNCHANGED <<tick, missed, runDue, shift, away, reminded>>
    BY <1>8, <2>1, <2>2 DEF Deliver, Continue, runVars, dayVars
  <2>4. request'[h] = next /\ \A g \in Handlers : g # h => request'[g] = request[g]
    BY <1>0, <2>3 DEF RunsTypeOK
  <2>5. \A w \in Workers : IsAhead(CI(w)) => IsAhead(CI(w))'
    BY <2>1, <2>2, <2>3, <2>4 DEF IsAhead
  <2>6. MissedOnlyByLostRuns'
    BY <1>0, <2>3, <2>5, SameTick
  <2>7. LostOnlyWithARun'
    BY <2>1, <2>3, <2>4 DEF ArrivalInv, LostOnlyWithARun
  <2>8. QED
    BY <1>0, <2>6, <2>7 DEF ArrivalInv
<1>9. ASSUME NEW h \in Handlers, EndRun(h) PROVE ArrivalInv'
  <2>1. /\ request[h].op = "run" /\ request[h].left = {}
        /\ request' = [request EXCEPT ![h] = NoRequest]
        /\ UNCHANGED <<tick, missed, runDue, shift, away, reminded, delivered>>
    BY <1>9 DEF EndRun, Answer, Continue, runVars, dayVars, logVars
  <2>2. \A g \in Handlers : g # h => request'[g] = request[g]
    BY <1>0, <2>1 DEF RunsTypeOK
  <2>3. \A w \in Workers : IsAhead(CI(w)) => IsAhead(CI(w))'
    BY <2>1, <2>2 DEF IsAhead
  <2>4. MissedOnlyByLostRuns'
    BY <1>0, <2>1, <2>3, SameTick
  <2>5. LostOnlyWithARun'
    BY <2>1, <2>2 DEF ArrivalInv, LostOnlyWithARun
  <2>6. QED
    BY <1>0, <2>4, <2>5 DEF ArrivalInv
<1>10. ASSUME NEW h \in Handlers, KillRun(h) PROVE ArrivalInv'
  <2>1. missed' = missed + 1 /\ UNCHANGED <<tick, shift, away, reminded, delivered>>
    BY <1>10 DEF KillRun, dayVars, logVars
  <2>2. tick \in Nat /\ missed \in Nat /\ DueAt["CHECK_IN"] \in Nat
    BY <1>0 DEF ReminderTypeOK, Kinds
  <2>3. MissedOnlyByLostRuns'
    BY <1>0, <2>1, <2>2, Fewer DEF ArrivalInv, MissedOnlyByLostRuns
  <2>4. LostOnlyWithARun'
    BY <2>1, <2>2 DEF LostOnlyWithARun
  <2>5. QED
    BY <1>0, <2>3, <2>4 DEF ArrivalInv
<1>11. QED
  BY <1>1, <1>2, <1>3, <1>4, <1>5, <1>6, <1>7, <1>8, <1>9, <1>10 DEF ReminderNext

LEMMA ArrivalGives ==
  ASSUME MaxMissed <= Slack, ArrivalInv PROVE RemindersArrive
<1>1. RemindedInTime
  BY InTime DEF RemindedInTime, Unreminded, ArrivalInv, Inv, ReminderTypeOK, Kinds
<1>2. OnlyKilledRunsLoseDelivery
  BY DEF OnlyKilledRunsLoseDelivery, ArrivalInv, LostOnlyWithARun, AtRest
<1>3. QED
  BY <1>1, <1>2 DEF RemindersArrive, ArrivalInv, Inv

\* As long as no more runs of the cron are lost than the slack has ticks, whoever
\* is still expected when the slack ends was reminded, and a reminder that was
\* written and never delivered was lost with its run (isReminderDue).
THEOREM RemindersDoArrive ==
  ASSUME MaxMissed <= Slack PROVE ReminderSpec => []RemindersArrive
<1>1. ArrivalInv /\ [ReminderNext]_reminderVars => ArrivalInv'
  BY ArrivalNext
<1>2. ArrivalInv => RemindersArrive
  BY ArrivalGives
<1>3. QED
  BY <1>1, <1>2, ArrivalInit, PTL DEF ReminderSpec

-----------------------------------------------------------------------------
(* The requests to have days counted *)

AskedRows ==
  [status : {"PENDING", "APPROVED", "REJECTED"}, day : PastDays,
   session : {"MORNING", "AFTERNOON", "FULL"}, sub : SubmissionIds]

DayRequests ==
  {NoRequest}
    \cup [op : {"submit"}, sub : SubmissionIds, left : SUBSET Asks]
    \cup [op : {"write"}, sub : SubmissionIds, left : SUBSET Asks, one : Asks]
    \cup [op : {"answer"}, answer : {"APPROVED", "REJECTED"}, left : SUBSET Rows]
    \cup [op : {"sheet", "mark"}, answer : {"APPROVED", "REJECTED"}, left : SUBSET Rows, row : Rows]

HasRowOf(id) == \E row \in Rows : HasRow(row) /\ asked[row].sub = id

\* What a request relies on, whatever else is in flight: a submission that has
\* nothing left wrote a row, the rows of an answer are there, only an approval
\* writes a timesheet, and it marks the row after that.
DayFits(r) ==
  /\ r.op = "submit" /\ r.left = {} => HasRowOf(r.sub)
  /\ r.op \in {"answer", "sheet", "mark"} => \A row \in r.left : HasRow(row)
  /\ r.op \in {"sheet", "mark"} => HasRow(r.row)
  /\ r.op = "sheet" => r.answer = "APPROVED"
  /\ r.op = "mark" /\ r.answer = "APPROVED" => approval[r.row] # "none"

\* What it relies on besides when it is alone: the row it is about to write
\* meets no other, and the one it is about to mark still waits.
DayIsCurrent(r) ==
  /\ r.op = "write" =>
       \A row \in Rows : IsActive(row) /\ asked[row].day = r.one.day
                           => ~Conflicts(asked[row].session, r.one.session)
  /\ r.op \in {"sheet", "mark"} => Is(r.row, "PENDING")

DayOneInFlight == \A g, h \in Handlers : ~AtRest(g) /\ ~AtRest(h) => g = h

RowsTyped == asked \in [Rows -> AskedRows \cup {NoRow}]

SheetsTyped == worked \in [PastDays -> (SUBSET {"am", "pm"}) \cup {NoTimesheet}]

NoHalfTwice ==
  \A r, s \in Rows :
    r # s /\ IsActive(r) /\ IsActive(s) /\ asked[r].day = asked[s].day
      => Halves(asked[r].session) \cap Halves(asked[s].session) = {}

ApprovalsTyped == approval \in [Rows -> {"none", "written", "marked"}]

\* An approval that got as far as the timesheet leaves the day counted, and no
\* row is approved without one.
ApprovalsWrite ==
  \A row \in Rows :
    /\ approval[row] # "none" => HasRow(row) /\ Counts(asked[row].day)
    /\ Is(row, "APPROVED") => approval[row] # "none"

\* A day counts what some approval wrote.
CountedWasApproved ==
  \A day \in PastDays :
    Counts(day) =>
      \E row \in Rows :
        /\ HasRow(row) /\ asked[row].day = day
        /\ worked[day] = Halves(asked[row].session)
        /\ approval[row] # "none"

MarkedAreApproved == \A row \in Rows : approval[row] = "marked" => Is(row, "APPROVED")

DaysInv ==
  /\ RowsTyped /\ SheetsTyped /\ told \subseteq SubmissionIds /\ ToldOfRows
  /\ ApprovalsTyped /\ ApprovalsWrite /\ CountedWasApproved
  /\ request \in [Handlers -> DayRequests] /\ overlapped \in BOOLEAN
  /\ \A h \in Handlers : DayFits(request[h])
  /\ ~overlapped =>
       /\ DayOneInFlight /\ NoHalfTwice /\ MarkedAreApproved
       /\ \A h \in Handlers : DayIsCurrent(request[h])

-----------------------------------------------------------------------------
LEMMA DayOps ==
  ASSUME NEW r \in DayRequests
  PROVE  /\ r.op \in {"none", "submit", "write", "answer", "sheet", "mark"}
         /\ r.op = "none" => r = NoRequest
         /\ r.op = "submit" => r \in [op : {"submit"}, sub : SubmissionIds, left : SUBSET Asks]
         /\ r.op = "write" => r \in [op : {"write"}, sub : SubmissionIds, left : SUBSET Asks, one : Asks]
         /\ r.op = "answer" => r \in [op : {"answer"}, answer : {"APPROVED", "REJECTED"}, left : SUBSET Rows]
         /\ r.op \in {"sheet", "mark"} =>
              r \in [op : {"sheet", "mark"}, answer : {"APPROVED", "REJECTED"}, left : SUBSET Rows, row : Rows]
BY DEF DayRequests, NoRequest

LEMMA RowsAsked ==
  ASSUME RowsTyped, NEW row \in Rows
  PROVE  /\ HasRow(row) <=> asked[row] \in AskedRows
         /\ \A s \in {"PENDING", "APPROVED", "REJECTED"} : Is(row, s) => HasRow(row)
         /\ ~HasRow(row) => asked[row] = NoRow /\ ~IsActive(row)
BY DEF RowsTyped, HasRow, NoRow, AskedRows, Is, IsActive

\* Sessions that do not conflict have no half in common.
LEMMA NoHalfInCommon ==
  ASSUME NEW s \in {"MORNING", "AFTERNOON", "FULL"}, NEW t \in {"MORNING", "AFTERNOON", "FULL"},
         ~Conflicts(s, t)
  PROVE  Halves(s) \cap Halves(t) = {}
BY DEF Conflicts, Halves

LEMMA HalvesTyped ==
  ASSUME NEW s \in {"MORNING", "AFTERNOON", "FULL"}
  PROVE  Halves(s) \in SUBSET {"am", "pm"} /\ Halves(s) \notin {NoTimesheet, {}}
BY DEF Halves, NoTimesheet

LEMMA DaysInit == CorrectnessInit => DaysInv
<1> SUFFICES ASSUME CorrectnessInit PROVE DaysInv
  OBVIOUS
<1>1. \A row \in Rows : ~HasRow(row) /\ \A s \in {"PENDING", "APPROVED", "REJECTED"} : ~Is(row, s)
  BY DEF CorrectnessInit, HasRow, Is, NoRow
<1>2. RowsTyped /\ SheetsTyped /\ told \subseteq SubmissionIds /\ ToldOfRows
  BY DEF CorrectnessInit, RowsTyped, SheetsTyped, ToldOfRows
<1>3. /\ ApprovalsTyped /\ ApprovalsWrite /\ CountedWasApproved /\ MarkedAreApproved
  BY <1>1 DEF CorrectnessInit, ApprovalsTyped, ApprovalsWrite, CountedWasApproved,
              MarkedAreApproved, Counts
<1>4. /\ request \in [Handlers -> DayRequests] /\ overlapped \in BOOLEAN
      /\ \A h \in Handlers : request[h] = NoRequest /\ AtRest(h)
  BY DEF CorrectnessInit, ApiInit, DayRequests, AtRest, NoRequest
<1>5. \A h \in Handlers : DayFits(request[h]) /\ DayIsCurrent(request[h])
  BY <1>4 DEF DayFits, DayIsCurrent, NoRequest
<1>6. DayOneInFlight /\ NoHalfTwice
  BY <1>1, <1>4 DEF DayOneInFlight, NoHalfTwice, IsActive
<1>7. QED
  BY <1>2, <1>3, <1>4, <1>5, <1>6 DEF DaysInv

-----------------------------------------------------------------------------
\* A handler that takes its next step, or begins with none in flight before it
\* in a run without overlaps.
DayStep(h, r) ==
  /\ request' = [request EXCEPT ![h] = r]
  /\ overlapped' \in BOOLEAN
  /\ ~overlapped' => ~overlapped /\ (~AtRest(h) \/ \A g \in Handlers : AtRest(g))

LEMMA DaySteps ==
  ASSUME NEW h \in Handlers, NEW r, DaysInv,
         Hold(h, r) \/ (~AtRest(h) /\ Continue(h, r))
  PROVE  DayStep(h, r)
BY DEF Hold, Continue, DayStep, MeetsAnother, AtRest, DaysInv

\* The handlers after a step.
LEMMA DayHandlers ==
  ASSUME DaysInv, NEW h \in Handlers, NEW r \in DayRequests, DayStep(h, r)
  PROVE  /\ request' \in [Handlers -> DayRequests] /\ overlapped' \in BOOLEAN
         /\ request'[h] = r
         /\ \A g \in Handlers : g # h => request'[g] = request[g]
         /\ ~overlapped' => ~overlapped /\ DayOneInFlight'
         /\ ~overlapped' => \A g \in Handlers : g # h => request[g] = NoRequest
<1>1. /\ request' \in [Handlers -> DayRequests] /\ overlapped' \in BOOLEAN
      /\ request'[h] = r
      /\ \A g \in Handlers : g # h => request'[g] = request[g]
      /\ ~overlapped' => ~overlapped
  BY DEF DaysInv, DayStep
<1>2. ASSUME ~overlapped', NEW g \in Handlers, g # h PROVE AtRest(g) /\ request[g] = NoRequest
  <2>1. AtRest(g)
    BY <1>1, <1>2 DEF DayStep, DaysInv, DayOneInFlight
  <2>2. request[g] \in DayRequests
    BY DEF DaysInv
  <2>3. QED
    BY <2>1, <2>2, DayOps DEF AtRest
<1>3. ASSUME ~overlapped' PROVE DayOneInFlight'
  BY <1>1, <1>2, <1>3 DEF DayOneInFlight, AtRest
<1>4. QED
  BY <1>1, <1>2, <1>3

\* A step that writes neither rows nor sheets keeps the invariant, if what it
\* leaves in its handler fits and who is told finds rows.
LEMMA SameTables ==
  ASSUME DaysInv, NEW h \in Handlers, NEW r \in DayRequests, DayStep(h, r),
         UNCHANGED <<asked, worked, approval>>,
         told' \subseteq SubmissionIds, ToldOfRows',
         DayFits(r), ~overlapped => DayIsCurrent(r)
  PROVE  DaysInv'
<1>1. RowsTyped' /\ SheetsTyped' /\ told' \subseteq SubmissionIds /\ ToldOfRows'
  BY DEF DaysInv, RowsTyped, SheetsTyped
<1>2. /\ ApprovalsTyped' /\ ApprovalsWrite' /\ CountedWasApproved'
      /\ MarkedAreApproved => MarkedAreApproved'
  BY DEF DaysInv, ApprovalsTyped, ApprovalsWrite, CountedWasApproved, MarkedAreApproved,
         Counts, HasRow, Is, NoRow, NoTimesheet
<1>3. \A q : DayFits(q) => DayFits(q)'
  BY DEF DayFits, HasRowOf, HasRow
<1>4. \A q : DayIsCurrent(q) => DayIsCurrent(q)'
  BY DEF DayIsCurrent, IsActive, Is
<1>5. NoHalfTwice => NoHalfTwice'
  BY DEF NoHalfTwice, IsActive, Is
<1>6. \A g \in Handlers : DayFits(request[g])' /\ (~overlapped' => DayIsCurrent(request[g])')
  <2> SUFFICES ASSUME NEW g \in Handlers
               PROVE  DayFits(request[g])' /\ (~overlapped' => DayIsCurrent(request[g])')
    OBVIOUS
  <2>1. PICK q : q = request'[g]
    OBVIOUS
  <2>2. DayFits(q) /\ (~overlapped' => DayIsCurrent(q))
    BY <2>1, DayHandlers DEF DaysInv
  <2>3. DayFits(q)' /\ (~overlapped' => DayIsCurrent(q)')
    BY <1>3, <1>4, <2>2
  <2>4. QED
    BY <2>1, <2>3
<1>7. QED
  BY <1>1, <1>2, <1>5, <1>6, DayHandlers DEF DaysInv

LEMMA ReadKeepsDays ==
  ASSUME DaysInv, NEW h \in Handlers, NEW r \in DayRequests, DayStep(h, r),
         UNCHANGED <<asked, worked, approval, told>>,
         DayFits(r), ~overlapped => DayIsCurrent(r)
  PROVE  DaysInv'
<1>1. told' \subseteq SubmissionIds /\ ToldOfRows'
  BY DEF DaysInv, ToldOfRows, HasRow, NoRow
<1>2. QED
  BY <1>1, SameTables

LEMMA NothingInHand ==
  NoRequest \in DayRequests /\ DayFits(NoRequest) /\ DayIsCurrent(NoRequest)
BY DEF DayRequests, NoRequest, DayFits, DayIsCurrent

\* The request of a handler is typed and fits.
LEMMA DayHeld ==
  ASSUME DaysInv, NEW h \in Handlers
  PROVE  /\ request[h] \in DayRequests /\ DayFits(request[h])
         /\ ~overlapped => DayIsCurrent(request[h])
BY DEF DaysInv

LEMMA StartSubmissionKeepsDays ==
  ASSUME DaysInv, NEW h \in Handlers, NEW id \in SubmissionIds, NEW wish \in Wishes,
         StartSubmission(h, id, wish)
  PROVE  DaysInv'
<1>1. PICK r : r = [op |-> "submit", sub |-> id, left |-> wish]
  OBVIOUS
<1>2. r \in DayRequests /\ r.op = "submit" /\ r.left # {}
  BY <1>1, CorrectnessAssumption DEF DayRequests
<1>3. DayFits(r) /\ DayIsCurrent(r)
  BY <1>2 DEF DayFits, DayIsCurrent
<1>4. DayStep(h, r)
  BY <1>1, DaySteps DEF StartSubmission
<1>5. QED
  BY <1>2, <1>3, <1>4, ReadKeepsDays DEF StartSubmission

LEMMA CheckDayKeepsDays ==
  ASSUME DaysInv, NEW h \in Handlers, CheckDay(h) PROVE DaysInv'
<1>1. PICK r : r = request[h]
  OBVIOUS
<1>2. /\ r \in [op : {"submit"}, sub : SubmissionIds, left : SUBSET Asks]
      /\ ~AtRest(h)
  BY <1>1, DayHeld, DayOps DEF CheckDay, AtRest
<1>3. PICK one \in r.left :
        IF CanBeAskedFor(one)
        THEN Continue(h, [op |-> "write", sub |-> r.sub, left |-> r.left \ {one}, one |-> one])
        ELSE Answer(h)
  BY <1>1 DEF CheckDay
<1>4. UNCHANGED <<asked, worked, approval, told>>
  BY DEF CheckDay
<1>5. CASE CanBeAskedFor(one)
  <2>1. PICK next : next = [op |-> "write", sub |-> r.sub, left |-> r.left \ {one}, one |-> one]
    OBVIOUS
  <2>2. next \in DayRequests /\ next.op = "write" /\ next.one = one
    BY <1>2, <2>1 DEF DayRequests
  <2>3. DayFits(next) /\ DayIsCurrent(next)
    BY <1>5, <2>2 DEF DayFits, DayIsCurrent, CanBeAskedFor
  <2>4. DayStep(h, next)
    BY <1>2, <1>3, <1>5, <2>1, DaySteps
  <2>5. QED
    BY <1>4, <2>2, <2>3, <2>4, ReadKeepsDays
<1>6. CASE ~CanBeAskedFor(one)
  BY <1>2, <1>3, <1>4, <1>6, DaySteps, NothingInHand, ReadKeepsDays DEF Answer
<1>7. QED
  BY <1>5, <1>6

LEMMA CreateRowKeepsDays ==
  ASSUME DaysInv, NEW h \in Handlers, CreateRow(h) PROVE DaysInv'
<1>1. PICK r : r = request[h]
  OBVIOUS
<1>2. /\ r \in [op : {"write"}, sub : SubmissionIds, left : SUBSET Asks, one : Asks]
      /\ ~AtRest(h)
  BY <1>1, DayHeld, DayOps DEF CreateRow, AtRest
<1>3. PICK new : new = [status |-> "PENDING", day |-> r.one.day, session |-> r.one.session, sub |-> r.sub]
  OBVIOUS
<1>4. PICK row \in Rows : asked[row] = NoRow /\ asked' = [asked EXCEPT ![row] = new]
  BY <1>1, <1>3 DEF CreateRow
<1>5. PICK next : next = [op |-> "submit", sub |-> r.sub, left |-> r.left]
  OBVIOUS
<1>6. /\ new \in AskedRows /\ new.status = "PENDING" /\ new.sub = r.sub
      /\ new.day = r.one.day /\ new.session = r.one.session /\ new # NoRow
  BY <1>2, <1>3 DEF AskedRows, Asks, NoRow
<1>7. next \in DayRequests /\ next.op = "submit" /\ next.sub = r.sub
  BY <1>2, <1>5 DEF DayRequests
<1>8. DayStep(h, next) /\ UNCHANGED <<worked, approval, told>>
  BY <1>1, <1>2, <1>5, DaySteps DEF CreateRow
<1>9. /\ RowsTyped' /\ asked'[row] = new
      /\ \A q \in Rows : q # row => asked'[q] = asked[q]
  BY <1>4, <1>6 DEF DaysInv, RowsTyped
<1>10. /\ HasRow(row)' /\ Is(row, "PENDING")' /\ ~Is(row, "APPROVED")' /\ ~HasRow(row)
       /\ \A q \in Rows : q # row =>
            (HasRow(q)' <=> HasRow(q)) /\ (IsActive(q)' <=> IsActive(q))
              /\ \A s : Is(q, s)' <=> Is(q, s)
  BY <1>4, <1>6, <1>9 DEF HasRow, Is, IsActive, NoRow
<1>11. SheetsTyped' /\ told' \subseteq SubmissionIds /\ ToldOfRows'
  BY <1>8, <1>9, <1>10 DEF DaysInv, SheetsTyped, ToldOfRows, NoTimesheet
<1>12. /\ ApprovalsTyped' /\ ApprovalsWrite' /\ CountedWasApproved'
       /\ MarkedAreApproved => MarkedAreApproved'
  <2>1. \A q \in Rows : HasRow(q) => q # row /\ HasRow(q)' /\ asked'[q] = asked[q]
    BY <1>9, <1>10
  <2>2. \A d : Counts(d)' <=> Counts(d)
    BY <1>8 DEF Counts, NoTimesheet
  <2>3. ApprovalsTyped'
    BY <1>8 DEF DaysInv, ApprovalsTyped
  <2>4. ApprovalsWrite'
    BY <1>8, <1>10, <2>1, <2>2 DEF DaysInv, ApprovalsWrite
  <2>5. CountedWasApproved'
    BY <1>8, <2>1, <2>2 DEF DaysInv, CountedWasApproved
  <2>6. approval[row] = "none"
    BY <1>10 DEF DaysInv, ApprovalsWrite, ApprovalsTyped
  <2>7. MarkedAreApproved => MarkedAreApproved'
    BY <1>8, <1>10, <2>6 DEF MarkedAreApproved
  <2>8. QED
    BY <2>3, <2>4, <2>5, <2>7
<1>13. \A g \in Handlers : g # h => DayFits(request[g])'
  <2> SUFFICES ASSUME NEW g \in Handlers, g # h PROVE DayFits(request[g])'
    OBVIOUS
  <2>1. PICK q : q = request[g]
    OBVIOUS
  <2>2. q' = q /\ request'[g] = request[g]
    BY <1>7, <1>8, DayHandlers
  <2>3. q \in DayRequests /\ DayFits(q)
    BY <2>1, DayHeld
  <2>4. \A s \in Rows : HasRow(s) => HasRow(s)' /\ asked'[s] = asked[s]
    BY <1>9, <1>10
  <2>5. DayFits(q)'
    BY <1>8, <2>3, <2>4, DayOps DEF DayFits, HasRowOf
  <2>6. QED
    BY <2>1, <2>2, <2>5
<1>14. DayFits(next)'
  BY <1>6, <1>7, <1>9, <1>10 DEF DayFits, HasRowOf
<1>15. ASSUME ~overlapped' PROVE NoHalfTwice'
  <2>1. \A q \in Rows : IsActive(q) /\ asked[q].day = new.day => ~Conflicts(asked[q].session, new.session)
    BY <1>1, <1>2, <1>6, <1>7, <1>8, <1>15, DayHeld, DayHandlers DEF DayIsCurrent
  <2>2. \A q \in Rows : IsActive(q) => asked[q].session \in {"MORNING", "AFTERNOON", "FULL"}
    BY RowsAsked DEF DaysInv, AskedRows, IsActive
  <2>3. \A q \in Rows : IsActive(q) /\ asked[q].day = new.day
          => Halves(asked[q].session) \cap Halves(new.session) = {}
    BY <1>6, <2>1, <2>2, NoHalfInCommon DEF AskedRows
  <2>4. NoHalfTwice
    BY <1>7, <1>8, <1>15, DayHandlers DEF DaysInv
  <2>5. QED
    BY <1>9, <1>10, <2>3, <2>4 DEF NoHalfTwice
<1>16. DayIsCurrent(next)' /\ DayIsCurrent(NoRequest)'
  BY <1>7 DEF DayIsCurrent, NoRequest
<1>17. QED
  <2>1. \A g \in Handlers : DayFits(request[g])'
    BY <1>7, <1>8, <1>13, <1>14, DayHandlers
  <2>2. ~overlapped' => \A g \in Handlers : DayIsCurrent(request[g])'
    BY <1>7, <1>8, <1>16, DayHandlers
  <2>3. QED
    BY <1>7, <1>8, <1>9, <1>11, <1>12, <1>15, <2>1, <2>2, DayHandlers DEF DaysInv

LEMMA AnnounceKeepsDays ==
  ASSUME DaysInv, NEW h \in Handlers, Announce(h) PROVE DaysInv'
<1>1. PICK r : r = request[h]
  OBVIOUS
<1>2. /\ r \in [op : {"submit"}, sub : SubmissionIds, left : SUBSET Asks]
      /\ ~AtRest(h) /\ HasRowOf(r.sub)
  BY <1>1, DayHeld, DayOps DEF Announce, AtRest, DayFits
<1>3. told' = told \cup {r.sub} /\ UNCHANGED <<asked, worked, approval>> /\ DayStep(h, NoRequest)
  BY <1>1, <1>2, DaySteps DEF Announce, Answer
<1>4. told' \subseteq SubmissionIds /\ ToldOfRows'
  BY <1>2, <1>3 DEF DaysInv, ToldOfRows, HasRowOf, HasRow, NoRow
<1>5. QED
  BY <1>3, <1>4, NothingInHand, SameTables

LEMMA StartAnswerKeepsDays ==
  ASSUME DaysInv, NEW h \in Handlers, NEW answer \in {"APPROVED", "REJECTED"}, NEW rows \in SUBSET Rows,
         \A row \in rows : HasRow(row), StartAnswer(h, answer, rows)
  PROVE  DaysInv'
<1>1. PICK r : r = [op |-> "answer", answer |-> answer, left |-> rows]
  OBVIOUS
<1>2. r \in DayRequests /\ r.op = "answer" /\ r.left = rows
  BY <1>1 DEF DayRequests
<1>3. DayFits(r) /\ DayIsCurrent(r)
  BY <1>2 DEF DayFits, DayIsCurrent
<1>4. DayStep(h, r)
  BY <1>1, DaySteps DEF StartAnswer
<1>5. QED
  BY <1>2, <1>3, <1>4, ReadKeepsDays DEF StartAnswer

LEMMA LookUpKeepsDays ==
  ASSUME DaysInv, NEW h \in Handlers, LookUp(h) PROVE DaysInv'
<1>1. PICK r : r = request[h]
  OBVIOUS
<1>2. /\ r \in [op : {"answer"}, answer : {"APPROVED", "REJECTED"}, left : SUBSET Rows]
      /\ ~AtRest(h) /\ DayFits(r) /\ r.op = "answer"
  BY <1>1, DayHeld, DayOps DEF LookUp, AtRest
<1>3. PICK row \in r.left :
        IF CanBeAnswered(row)
        THEN Continue(h, [op |-> FirstWrite(r.answer), answer |-> r.answer,
                          left |-> r.left \ {row}, row |-> row])
        ELSE Answer(h)
  BY <1>1 DEF LookUp
<1>4. UNCHANGED <<asked, worked, approval, told>>
  BY DEF LookUp
<1>5. CASE CanBeAnswered(row)
  <2>1. PICK next : next = [op |-> FirstWrite(r.answer), answer |-> r.answer,
                            left |-> r.left \ {row}, row |-> row]
    OBVIOUS
  <2>2. /\ next \in DayRequests /\ next.row = row /\ next.left \subseteq r.left
        /\ next.op = FirstWrite(r.answer) /\ next.answer = r.answer
    BY <1>2, <2>1 DEF DayRequests, FirstWrite
  <2>3. \A q \in r.left : HasRow(q)
    BY <1>2 DEF DayFits
  <2>4. DayFits(next) /\ DayIsCurrent(next)
    BY <1>2, <1>5, <2>2, <2>3 DEF DayFits, DayIsCurrent, FirstWrite, CanBeAnswered
  <2>5. DayStep(h, next)
    BY <1>2, <1>3, <1>5, <2>1, DaySteps
  <2>6. QED
    BY <1>4, <2>2, <2>4, <2>5, ReadKeepsDays
<1>6. CASE ~CanBeAnswered(row)
  BY <1>2, <1>3, <1>4, <1>6, DaySteps, NothingInHand, ReadKeepsDays DEF Answer
<1>7. QED
  BY <1>5, <1>6

\* The timesheet counts the session that is approved.
LEMMA WriteSheetKeepsDays ==
  ASSUME DaysInv, NEW h \in Handlers, WriteSheet(h) PROVE DaysInv'
<1>1. PICK r : r = request[h]
  OBVIOUS
<1>2. /\ r \in [op : {"sheet", "mark"}, answer : {"APPROVED", "REJECTED"}, left : SUBSET Rows, row : Rows]
      /\ r.op = "sheet" /\ ~AtRest(h) /\ DayFits(r) /\ (~overlapped => DayIsCurrent(r))
  BY <1>1, DayHeld, DayOps DEF WriteSheet, AtRest
<1>3. PICK row \in Rows : row = r.row /\ HasRow(row)
  BY <1>2 DEF DayFits
<1>4. PICK next : next = [r EXCEPT !.op = "mark"]
  OBVIOUS
<1>5. /\ next \in DayRequests /\ next.op = "mark" /\ next.row = r.row /\ next.left = r.left
      /\ next.answer = r.answer
  BY <1>2, <1>4 DEF DayRequests
<1>6. DayStep(h, next) /\ UNCHANGED <<asked, told>>
  BY <1>1, <1>2, <1>4, DaySteps DEF WriteSheet
<1>7. PICK halves : halves = Halves(asked[row].session)
  OBVIOUS
<1>8. /\ asked[row].day \in PastDays /\ asked[row].session \in {"MORNING", "AFTERNOON", "FULL"}
      /\ halves \in SUBSET {"am", "pm"} /\ halves \notin {NoTimesheet, {}}
  BY <1>3, <1>7, RowsAsked, HalvesTyped DEF DaysInv, AskedRows
<1>9. worked' = [worked EXCEPT ![asked[row].day] = halves]
  BY <1>1, <1>3, <1>7 DEF WriteSheet, Recorded
<1>10. SheetsTyped' /\ \A d \in PastDays : worked'[d] = IF d = asked[row].day THEN halves ELSE worked[d]
  BY <1>8, <1>9 DEF DaysInv, SheetsTyped, NoTimesheet
<1>11. \A q \in Rows : HasRow(q) => asked[q].day \in PastDays
  BY RowsAsked DEF DaysInv, AskedRows
<1>12. RowsTyped' /\ told' \subseteq SubmissionIds /\ ToldOfRows'
  BY <1>6 DEF DaysInv, RowsTyped, ToldOfRows, HasRow, NoRow
<1>13. approval' = [approval EXCEPT ![row] = "written"]
  BY <1>1, <1>3 DEF WriteSheet
<1>14. /\ ApprovalsTyped' /\ approval'[row] = "written"
       /\ \A q \in Rows : q # row => approval'[q] = approval[q]
  BY <1>13 DEF DaysInv, ApprovalsTyped
<1>15. /\ Counts(asked[row].day)' /\ \A d \in PastDays : Counts(d) => Counts(d)'
       /\ \A d \in PastDays : d # asked[row].day => (Counts(d)' <=> Counts(d))
  BY <1>6, <1>8, <1>10 DEF Counts, NoTimesheet
<1>16. /\ ApprovalsWrite' /\ CountedWasApproved'
       /\ MarkedAreApproved => MarkedAreApproved'
       /\ \A q \in DayRequests : DayFits(q) => DayFits(q)'
       /\ DayFits(next)'
  <2>1. ApprovalsWrite'
    BY <1>3, <1>6, <1>11, <1>14, <1>15 DEF DaysInv, ApprovalsWrite, HasRow, NoRow, Is
  <2>2. CountedWasApproved'
    <3> SUFFICES ASSUME NEW d \in PastDays, Counts(d)'
                 PROVE  \E q \in Rows : /\ HasRow(q) /\ asked[q].day = d
                                        /\ worked'[d] = Halves(asked[q].session)
                                        /\ approval'[q] # "none"
      BY <1>6 DEF CountedWasApproved, HasRow, NoRow
    <3>1. CASE d = asked[row].day
      BY <1>3, <1>7, <1>10, <1>14, <3>1
    <3>2. CASE d # asked[row].day
      BY <1>10, <1>14, <1>15, <3>2 DEF DaysInv, CountedWasApproved
    <3>3. QED
      BY <3>1, <3>2
  <2>3. MarkedAreApproved => MarkedAreApproved'
    BY <1>6, <1>14 DEF MarkedAreApproved, Is
  <2>4. \A q \in Rows : approval[q] # "none" => approval'[q] # "none"
    BY <1>14
  <2>5. \A q \in DayRequests : DayFits(q) => DayFits(q)'
    BY <1>6, <2>4, DayOps DEF DayFits, HasRowOf, HasRow, NoRow
  <2>6. DayFits(next)'
    BY <1>2, <1>3, <1>5, <1>6, <1>14 DEF DayFits, HasRowOf, HasRow, NoRow
  <2>7. QED
    BY <2>1, <2>2, <2>3, <2>5, <2>6
<1>17. ~overlapped => DayIsCurrent(next)'
  BY <1>2, <1>5, <1>6 DEF DayIsCurrent, Is
<1>18. DayIsCurrent(NoRequest)' /\ (NoHalfTwice => NoHalfTwice')
  BY <1>6 DEF DayIsCurrent, NoRequest, NoHalfTwice, IsActive, Is
<1>19. \A g \in Handlers : g # h => DayFits(request[g])'
  <2> SUFFICES ASSUME NEW g \in Handlers, g # h PROVE DayFits(request[g])'
    OBVIOUS
  <2>1. PICK q \in DayRequests : q = request[g] /\ DayFits(q)
    BY DayHeld
  <2>2. request'[g] = q /\ DayFits(q)'
    BY <1>5, <1>6, <1>16, <2>1, DayHandlers
  <2>3. QED
    BY <2>2
<1>20. QED
  <2>1. \A g \in Handlers : DayFits(request[g])'
    BY <1>5, <1>6, <1>16, <1>19, DayHandlers
  <2>2. ~overlapped' => \A g \in Handlers : DayIsCurrent(request[g])'
    BY <1>5, <1>6, <1>17, <1>18, DayHandlers
  <2>3. QED
    BY <1>5, <1>6, <1>10, <1>12, <1>14, <1>16, <1>18, <2>1, <2>2, DayHandlers DEF DaysInv

\* An approval finds the timesheet its handler wrote.
LEMMA MarkAnsweredKeepsDays ==
  ASSUME DaysInv, NEW h \in Handlers, MarkAnswered(h) PROVE DaysInv'
<1>1. PICK r : r = request[h]
  OBVIOUS
<1>2. /\ r \in [op : {"sheet", "mark"}, answer : {"APPROVED", "REJECTED"}, left : SUBSET Rows, row : Rows]
      /\ r.op = "mark" /\ ~AtRest(h) /\ DayFits(r) /\ (~overlapped => DayIsCurrent(r))
  BY <1>1, DayHeld, DayOps DEF MarkAnswered, AtRest
<1>3. PICK row \in Rows : row = r.row /\ HasRow(row)
  BY <1>2 DEF DayFits
<1>4. PICK next : next = [op |-> "answer", answer |-> r.answer, left |-> r.left]
  OBVIOUS
<1>5. next \in DayRequests /\ next.op = "answer" /\ next.left = r.left
  BY <1>2, <1>4 DEF DayRequests
<1>6. DayStep(h, next) /\ UNCHANGED <<worked, told>>
  BY <1>1, <1>2, <1>4, DaySteps DEF MarkAnswered
<1>7. asked' = [asked EXCEPT ![row].status = r.answer] /\ asked[row] \in AskedRows
  BY <1>1, <1>3, RowsAsked DEF MarkAnswered, DaysInv
<1>8. PICK new \in AskedRows :
        /\ new = [asked[row] EXCEPT !.status = r.answer]
        /\ new.status = r.answer /\ new.day = asked[row].day /\ new.sub = asked[row].sub
        /\ new.session = asked[row].session
  <2>1. PICK old \in AskedRows : old = asked[row]
    BY <1>7
  <2>2. r.answer \in {"APPROVED", "REJECTED"}
    BY <1>2
  <2>3. PICK new : new = [old EXCEPT !.status = r.answer]
    OBVIOUS
  <2>4. /\ new \in AskedRows /\ new.status = r.answer /\ new.day = old.day /\ new.sub = old.sub
        /\ new.session = old.session
    BY <2>2, <2>3 DEF AskedRows
  <2>5. QED
    BY <2>1, <2>3, <2>4
<1>9. /\ RowsTyped' /\ asked'[row] = new
      /\ \A q \in Rows : q # row => asked'[q] = asked[q]
  BY <1>7, <1>8 DEF DaysInv, RowsTyped
<1>10. new # NoRow /\ HasRow(row)'
  BY <1>8, <1>9 DEF AskedRows, NoRow, HasRow
<1>11. \A q \in Rows :
         /\ HasRow(q)' <=> HasRow(q)
         /\ asked'[q] # NoRow => /\ asked'[q].day = asked[q].day /\ asked'[q].sub = asked[q].sub
                                 /\ asked'[q].session = asked[q].session
  BY <1>3, <1>8, <1>9, <1>10 DEF HasRow, NoRow
<1>12. SheetsTyped' /\ told' \subseteq SubmissionIds /\ ToldOfRows'
  <2>1. \A q \in Rows : HasRow(q) => HasRow(q)' /\ asked'[q].sub = asked[q].sub
    BY <1>11 DEF HasRow
  <2>2. QED
    BY <1>6, <2>1 DEF DaysInv, SheetsTyped, ToldOfRows
<1>13. /\ ApprovalsTyped' /\ \A q \in Rows : q # row => approval'[q] = approval[q]
       /\ r.answer = "APPROVED" => approval'[row] = "marked"
       /\ r.answer # "APPROVED" => approval'[row] = approval[row]
  BY <1>1, <1>3 DEF MarkAnswered, DaysInv, ApprovalsTyped
<1>14. /\ \A q \in Rows : approval'[q] # "none" <=> approval[q] # "none"
       /\ ApprovalsWrite' /\ CountedWasApproved'
       /\ Is(row, "PENDING") /\ MarkedAreApproved => MarkedAreApproved'
  <2>1. r.answer = "APPROVED" => approval[row] # "none"
    BY <1>2, <1>3 DEF DayFits
  <2>2. \A q \in Rows : approval'[q] # "none" <=> approval[q] # "none"
    BY <1>13, <2>1
  <2>3. /\ asked'[row].status = r.answer
        /\ \A q \in Rows : q # row => asked'[q].status = asked[q].status
    <3>1. new.status = r.answer
      BY <1>8
    <3>2. QED
      BY <1>9, <3>1
  <2>4. \A q \in Rows : Is(q, "APPROVED")' => Is(q, "APPROVED") \/ (q = row /\ r.answer = "APPROVED")
    BY <2>3 DEF Is
  <2>5. \A d : Counts(d)' <=> Counts(d)
    BY <1>6 DEF Counts, NoTimesheet
  <2>6. \A q \in Rows : HasRow(q) => /\ HasRow(q)' /\ asked'[q].day = asked[q].day
                                     /\ asked'[q].session = asked[q].session
    BY <1>11 DEF HasRow
  <2>7. ApprovalsWrite'
    BY <2>1, <2>2, <2>4, <2>5, <2>6 DEF DaysInv, ApprovalsWrite
  <2>8. CountedWasApproved'
    BY <1>6, <2>2, <2>5, <2>6 DEF DaysInv, CountedWasApproved
  <2>9. Is(row, "PENDING") /\ MarkedAreApproved => MarkedAreApproved'
    <3>1. SUFFICES ASSUME Is(row, "PENDING"), MarkedAreApproved,
                          NEW q \in Rows, approval'[q] = "marked"
                   PROVE  asked'[q].status = "APPROVED"
      BY DEF MarkedAreApproved, Is
    <3>2. CASE q # row
      BY <1>13, <2>3, <3>1, <3>2 DEF MarkedAreApproved, Is
    <3>3. CASE q = row /\ r.answer = "APPROVED"
      BY <2>3, <3>3
    <3>4. CASE q = row /\ r.answer # "APPROVED"
      BY <1>3, <1>13, <3>1, <3>4 DEF MarkedAreApproved, Is
    <3>5. QED
      BY <3>2, <3>3, <3>4
  <2>10. QED
    BY <2>2, <2>7, <2>8, <2>9
<1>15. \A q \in DayRequests : DayFits(q) => DayFits(q)'
  BY <1>6, <1>11, <1>14, DayOps DEF DayFits, HasRowOf, HasRow
<1>16. DayFits(next)'
  BY <1>2, <1>5, <1>11 DEF DayFits, HasRowOf
<1>17. DayIsCurrent(next)' /\ DayIsCurrent(NoRequest)'
  BY <1>5 DEF DayIsCurrent, NoRequest
<1>18. ASSUME ~overlapped' PROVE NoHalfTwice' /\ MarkedAreApproved'
  <2>1. Is(row, "PENDING") /\ NoHalfTwice /\ MarkedAreApproved
    BY <1>2, <1>3, <1>5, <1>6, <1>18, DayHandlers DEF DayIsCurrent, DaysInv
  <2>2. \A q \in Rows : IsActive(q)' => IsActive(q) /\ asked'[q] # NoRow
    BY <1>9, <1>10, <2>1, RowsAsked DEF IsActive, Is, DaysInv, NoRow
  <2>3. \A q \in Rows : IsActive(q)' => asked'[q].day = asked[q].day /\ asked'[q].session = asked[q].session
    BY <1>11, <2>2
  <2>4. NoHalfTwice'
    BY <2>1, <2>2, <2>3 DEF NoHalfTwice
  <2>5. QED
    BY <1>14, <2>1, <2>4
<1>19. \A g \in Handlers : g # h => DayFits(request[g])'
  <2> SUFFICES ASSUME NEW g \in Handlers, g # h PROVE DayFits(request[g])'
    OBVIOUS
  <2>1. PICK q \in DayRequests : q = request[g] /\ DayFits(q)
    BY DayHeld
  <2>2. request'[g] = q /\ DayFits(q)'
    BY <1>5, <1>6, <1>15, <2>1, DayHandlers
  <2>3. QED
    BY <2>2
<1>20. QED
  <2>1. \A g \in Handlers : DayFits(request[g])'
    BY <1>5, <1>6, <1>16, <1>19, DayHandlers
  <2>2. ~overlapped' => \A g \in Handlers : DayIsCurrent(request[g])'
    BY <1>5, <1>6, <1>17, DayHandlers
  <2>3. QED
    BY <1>5, <1>6, <1>9, <1>12, <1>13, <1>14, <1>18, <2>1, <2>2, DayHandlers DEF DaysInv

LEMMA DaysNext == DaysInv /\ [CorrectnessNext]_correctnessVars => DaysInv'
<1> SUFFICES ASSUME DaysInv, [CorrectnessNext]_correctnessVars PROVE DaysInv'
  OBVIOUS
<1>1. CASE UNCHANGED correctnessVars
  <2>1. /\ asked' = asked /\ worked' = worked /\ approval' = approval /\ told' = told
        /\ request' = request /\ overlapped' = overlapped
    BY <1>1 DEF correctnessVars, apiVars
  <2>2. /\ RowsTyped' = RowsTyped /\ SheetsTyped' = SheetsTyped /\ ToldOfRows' = ToldOfRows
        /\ ApprovalsTyped' = ApprovalsTyped /\ ApprovalsWrite' = ApprovalsWrite
        /\ CountedWasApproved' = CountedWasApproved /\ MarkedAreApproved' = MarkedAreApproved
    BY <2>1 DEF RowsTyped, SheetsTyped, ToldOfRows, ApprovalsTyped, ApprovalsWrite,
                CountedWasApproved, MarkedAreApproved, Counts, HasRow, Is
  <2>3. DayOneInFlight' = DayOneInFlight /\ NoHalfTwice' = NoHalfTwice
    BY <2>1 DEF DayOneInFlight, NoHalfTwice, AtRest, IsActive, Is
  <2>4. \A h \in Handlers : /\ DayFits(request[h])' = DayFits(request[h])
                            /\ DayIsCurrent(request[h])' = DayIsCurrent(request[h])
    BY <2>1 DEF DayFits, DayIsCurrent, HasRowOf, HasRow, Is, IsActive
  <2>5. QED
    BY <2>1, <2>2, <2>3, <2>4 DEF DaysInv
<1>2. CASE SubmissionsNext
  BY <1>2, StartSubmissionKeepsDays, CheckDayKeepsDays, CreateRowKeepsDays, AnnounceKeepsDays
     DEF SubmissionsNext
<1>3. CASE AnswersNext
  <2>1. ASSUME NEW h \in Handlers, EndAnswer(h) PROVE DaysInv'
    <3>1. ~AtRest(h) /\ DayStep(h, NoRequest)
      BY <2>1, DaySteps DEF EndAnswer, AtRest, Answer
    <3>2. QED
      BY <2>1, <3>1, NothingInHand, ReadKeepsDays DEF EndAnswer
  <2>2. ASSUME NEW h \in Handlers, NEW answer \in {"APPROVED", "REJECTED"}, NEW id \in SubmissionIds,
               StartAnswer(h, answer, Pending(id))
        PROVE  DaysInv'
    <3>1. Pending(id) \in SUBSET Rows /\ \A row \in Pending(id) : HasRow(row)
      BY RowsAsked DEF Pending, DaysInv
    <3>2. QED
      BY <2>2, <3>1, StartAnswerKeepsDays
  <2>3. ASSUME NEW h \in Handlers, NEW answer \in {"APPROVED", "REJECTED"}, NEW row \in Rows,
               HasRow(row), StartAnswer(h, answer, {row})
        PROVE  DaysInv'
    <3>1. PICK rows \in SUBSET Rows : rows = {row}
      OBVIOUS
    <3>2. QED
      BY <2>3, <3>1, StartAnswerKeepsDays
  <2>4. QED
    BY <1>3, <2>1, <2>2, <2>3, LookUpKeepsDays, WriteSheetKeepsDays, MarkAnsweredKeepsDays
       DEF AnswersNext
<1>4. CASE CorrectnessFailure
  <2>1. PICK h \in Handlers : BreakOff(h) /\ UNCHANGED <<asked, worked, approval, told>>
    BY <1>4 DEF CorrectnessFailure
  <2>2. DayStep(h, NoRequest)
    BY <2>1, DaySteps DEF BreakOff, Answer
  <2>3. QED
    BY <2>1, <2>2, NothingInHand, ReadKeepsDays
<1>5. QED
  BY <1>1, <1>2, <1>3, <1>4 DEF CorrectnessNext

LEMMA DaysInvGives == DaysInv => DaysAreAsApproved
<1> SUFFICES ASSUME DaysInv PROVE DaysAreAsApproved
  OBVIOUS
<1>1. CorrectnessTypeOK
  BY RowsAsked DEF DaysInv, CorrectnessTypeOK, SheetsTyped, ApprovalsTyped, AskedRows
<1>2. NoHalfAskedTwice
  BY DEF DaysInv, NoHalfAskedTwice, NoHalfTwice
<1>3. ApprovedHasItsSheet
  BY DEF DaysInv, ApprovedHasItsSheet, ApprovalsWrite
<1>4. \A row \in Rows : ~overlapped /\ approval[row] # "none" => Is(row, "APPROVED") \/ approval[row] = "written"
  BY DEF DaysInv, MarkedAreApproved, ApprovalsTyped
<1>5. OnlyApprovedIsCounted
  BY <1>4 DEF DaysInv, CountedWasApproved, OnlyApprovedIsCounted
<1>6. QED
  BY <1>1, <1>2, <1>3, <1>5 DEF DaysInv, DaysAreAsApproved

\* What a day counts an administrator was approving, whoever else answers, and
\* an approval has its timesheet; while answers follow one another the request
\* is approved, or its approval stopped between its two writes.  Nobody is told
\* of nothing, and submissions that follow one another, whole or broken off,
\* never ask for the same half twice (attendance-correctness.service.ts).
THEOREM DaysStayAsApproved == CorrectnessSpec => []DaysAreAsApproved
BY DaysInit, DaysNext, DaysInvGives, PTL DEF CorrectnessSpec
=============================================================================
