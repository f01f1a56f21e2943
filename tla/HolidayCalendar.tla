-------------------------- MODULE HolidayCalendar --------------------------
(***************************************************************************)
(* Holidays of an organization.  Applying one gives every employee in its  *)
(* audience the day off and announces it to them; an administrator does so *)
(* by hand, or switches a holiday to automatic and an hourly job does it   *)
(* when the day has come.                                                  *)
(***************************************************************************)
EXTENDS ApiProcess

CONSTANTS
  Staff,
  Audiences,        \* the employees named with a holiday; none for all of them
  CatalogHolidays,  \* holidays of the Ethiopian calendar
  CustomHolidays,   \* identities of holidays an administrator makes up
  CatalogDate,      \* the day each holiday of the calendar falls on
  LastDate           \* the days of the model are 0..LastDate

Holidays == CatalogHolidays \cup CustomHolidays

Dates == 0..LastDate

NoHoliday == "none"

ASSUME HolidayAssumption ==
  /\ LastDate \in Nat
  /\ NoHoliday \notin Holidays
  /\ Audiences \subseteq SUBSET Staff /\ {} \in Audiences
  /\ CatalogHolidays \cap CustomHolidays = {}
  /\ CatalogDate \in [CatalogHolidays -> Dates]

VARIABLES
  holiday,    \* the table OrganizationHoliday
  dayOff,     \* the table HolidayAssignment, by its unique key
  announced,  \* observation: whether each holiday was announced to each employee
  working,    \* employees whose status is ACTIVE
  today

holidayVars == <<holiday, dayOff, announced, working, today, apiVars>>

\* A row.  What it keeps for the automatic run is read only while it is
\* automatic; an empty audience stands for all active employees.
Row(made, date, auto, applied, audience) ==
  [made |-> made, date |-> date, auto |-> auto, applied |-> applied,
   audience |-> IF auto THEN audience ELSE {}]

\* The employees an audience reaches; naming one that is not active is refused.
Reached(audience) == IF audience = {} THEN working ELSE audience \cap working

CanBeApplied(audience) == audience \subseteq working /\ Reached(audience) # {}

\* A holiday to apply, as it was read or asked for.
Item(x, audience) == [x |-> x, audience |-> audience]

Items == [x : Holidays, audience : Audiences]

\* A request that applies holidays: "next" before it has read the employees of
\* the next one, "apply" before its transaction, "announce" after it.
Applying(rest, auto, job) ==
  [op |-> "next", rest |-> rest, auto |-> auto, job |-> job, x |-> NoHoliday, to |-> {}]

-----------------------------------------------------------------------------
\* apply, by hand: one holiday, which need not have a row if it is in the
\* catalog.
StartApply(h, x, audience) ==
  /\ x \in CatalogHolidays \/ holiday[x].made
  /\ Hold(h, Applying({Item(x, audience)}, FALSE, FALSE))
  /\ UNCHANGED <<holiday, dayOff, announced, working, today>>

\* Fault: the holiday of the day is not looked up.
WorksOrNot(e, x) == TRUE

HasToWork(e, x) == dayOff[e][holiday[x].date] = NoHoliday

\* Reads who is to get the next holiday and has nothing on that day yet.
ReadEmployees(h, i) ==
  LET r == request[h]
  IN /\ r.op = "next" /\ i \in r.rest
     /\ CanBeApplied(i.audience)
     /\ Continue(h, [r EXCEPT !.op = "apply", !.x = i.x, !.rest = @ \ {i},
                             !.to = {e \in Reached(i.audience) : HasToWork(e, i.x)}])
     /\ UNCHANGED <<holiday, dayOff, announced, working, today>>

\* Fault: a holiday that cannot be applied ends the run of the job.
GivesUp(r, i) == NoRequest

\* A holiday that cannot be applied ends a request with an error; the job goes
\* on with the next one.
AfterRefusal(r, i) == IF r.job THEN [r EXCEPT !.rest = @ \ {i}] ELSE NoRequest

RefuseHoliday(h, i) ==
  LET r == request[h]
  IN /\ r.op = "next" /\ i \in r.rest
     /\ ~CanBeApplied(i.audience)
     /\ Continue(h, AfterRefusal(r, i))
     /\ UNCHANGED <<holiday, dayOff, announced, working, today>>

\* Fault: the run of an automatic holiday only marks it.
OnlyByHand(assigned, x, r, e) ==
  IF e \in r.to /\ assigned = NoHoliday /\ ~r.auto THEN x ELSE assigned

\* createMany with skipDuplicates.
Assigned(assigned, x, r, e) ==
  IF e \in r.to /\ assigned = NoHoliday THEN x ELSE assigned

Ensured(row, auto) == [row EXCEPT !.made = TRUE, !.applied = @ \/ auto]

\* The transaction: the row, the mark of the automatic run, the assignments.
\* Announcements follow, if they were asked for.
ApplyHoliday(h, notify) ==
  LET r == request[h]
  IN /\ r.op = "apply"
     /\ holiday' = [holiday EXCEPT ![r.x] = Ensured(@, r.auto)]
     /\ dayOff' = [e \in Staff |->
                    [dayOff[e] EXCEPT ![holiday[r.x].date] = Assigned(@, r.x, r, e)]]
     /\ Continue(h, [r EXCEPT !.op = "announce", !.to = IF notify THEN @ ELSE {}])
     /\ UNCHANGED <<announced, working, today>>

\* After the transaction, one notification after the other.
Announce(h, e) ==
  LET r == request[h]
  IN /\ r.op = "announce" /\ e \in r.to
     /\ announced' = [announced EXCEPT ![e][r.x] = IF @ = "never" THEN "once" ELSE "again"]
     /\ Continue(h, [r EXCEPT !.to = @ \ {e}])
     /\ UNCHANGED <<holiday, dayOff, working, today>>

NextHoliday(h) ==
  LET r == request[h]
  IN /\ r.op = "announce" /\ r.to = {}
     /\ Continue(h, [r EXCEPT !.op = "next", !.x = NoHoliday])
     /\ UNCHANGED <<holiday, dayOff, announced, working, today>>

EndApply(h) ==
  /\ request[h].op = "next" /\ request[h].rest = {}
  /\ Answer(h)
  /\ UNCHANGED <<holiday, dayOff, announced, working, today>>

-----------------------------------------------------------------------------
\* createCustom makes a row per date and applies them then, unless it is told
\* not to; one that is automatic and due is applied in any case.
CreateCustom(h, new, audience, auto, applyNow) ==
  LET due == {x \in DOMAIN new : applyNow \/ (auto /\ new[x] <= today)}
  IN /\ DOMAIN new # {} /\ \A x \in DOMAIN new : ~holiday[x].made
     /\ holiday' = [x \in Holidays |-> IF x \in DOMAIN new
                                      THEN Row(TRUE, new[x], auto, FALSE, audience)
                                      ELSE holiday[x]]
     /\ Hold(h, Applying({Item(x, audience) : x \in due}, auto, FALSE))
     /\ UNCHANGED <<dayOff, announced, working, today>>

MarkAfter(row, on) == on /\ row.applied

\* setAutoApply: switched off, the mark of the automatic run is taken away;
\* switched on when the day has come, the holiday is applied at once.
SetAutoApply(h, x, on, audience) ==
  LET row == Row(TRUE, holiday[x].date, on, MarkAfter(holiday[x], on), audience)
      now == on /\ ~row.applied /\ row.date <= today
  IN /\ x \in CatalogHolidays \/ holiday[x].made
     /\ holiday' = [holiday EXCEPT ![x] = row]
     /\ Hold(h, Applying(IF now THEN {Item(x, audience)} ELSE {}, TRUE, FALSE))
     /\ UNCHANGED <<dayOff, announced, working, today>>

IsPending(x) == holiday[x].auto /\ ~holiday[x].applied

IsDue(x) == IsPending(x) /\ holiday[x].date <= today

\* The hourly job reads all that is due and applies one after the other.
RunAutoApplyJob(h) ==
  LET due == {x \in Holidays : IsDue(x)}
  IN /\ due # {}
     /\ Hold(h, Applying({Item(x, holiday[x].audience) : x \in due}, TRUE, TRUE))
     /\ UNCHANGED <<holiday, dayOff, announced, working, today>>

-----------------------------------------------------------------------------
SetWorking(e) ==
  /\ working' = IF e \in working THEN working \ {e} ELSE working \cup {e}
  /\ AtOnce
  /\ UNCHANGED <<holiday, dayOff, announced, today>>

NextDay ==
  /\ today < LastDate
  /\ today' = today + 1
  /\ UNCHANGED <<holiday, dayOff, announced, working, apiVars>>

HolidayInit ==
  /\ holiday = [x \in Holidays |->
                  Row(FALSE, IF x \in CatalogHolidays THEN CatalogDate[x] ELSE 0, FALSE, FALSE, {})]
  /\ dayOff = [e \in Staff |-> [d \in Dates |-> NoHoliday]]
  /\ announced = [e \in Staff |-> [x \in Holidays |-> "never"]]
  /\ working = Staff
  /\ today = 0
  /\ ApiInit

HolidayRequest(h) ==
  \E audience \in Audiences :
    \/ \E x \in Holidays : StartApply(h, x, audience)
    \/ \E xs \in SUBSET CustomHolidays, auto, applyNow \in BOOLEAN : \E new \in [xs -> Dates] :
         CreateCustom(h, new, audience, auto, applyNow)
    \/ \E x \in Holidays, on \in BOOLEAN : SetAutoApply(h, x, on, audience)

ApplyStep(h) ==
  \/ \E i \in Items : ReadEmployees(h, i) \/ RefuseHoliday(h, i)
  \/ \E notify \in BOOLEAN : ApplyHoliday(h, notify)
  \/ NextHoliday(h) \/ EndApply(h)
  \/ \E e \in Staff : Announce(h, e)

HolidayFailure ==
  \E h \in Handlers : BreakOff(h) /\ UNCHANGED <<holiday, dayOff, announced, working, today>>

CalendarNext == \E h \in Handlers : HolidayRequest(h) \/ RunAutoApplyJob(h) \/ ApplyStep(h)

HolidayNext ==
  \/ CalendarNext
  \/ \E e \in Staff : SetWorking(e)
  \/ NextDay
  \/ HolidayFailure

HolidaySpec == HolidayInit /\ [][HolidayNext]_holidayVars

-----------------------------------------------------------------------------
(* What holidays promise to employees and administrators.                 *)

HolidayRows == [made : BOOLEAN, date : Dates, auto : BOOLEAN, applied : BOOLEAN,
                audience : Audiences]

\* The tables hold values the code can give them, and a day off refers to the
\* row of a holiday of that day.
HolidayTypeOK ==
  /\ holiday \in [Holidays -> HolidayRows]
  /\ dayOff \in [Staff -> [Dates -> Holidays \cup {NoHoliday}]]
  /\ announced \in [Staff -> [Holidays -> {"never", "once", "again"}]]
  /\ working \subseteq Staff
  /\ today \in Dates
  /\ \A e \in Staff, d \in Dates :
       dayOff[e][d] # NoHoliday => holiday[dayOff[e][d]].made /\ holiday[dayOff[e][d]].date = d

-----------------------------------------------------------------------------
\* Whoever is told of a holiday has that day off, although the announcement
\* goes to everyone who had nothing on that day when the employees were read.
AnnouncedHaveTheDayOff ==
  \A e \in Staff, x \in Holidays :
    announced[e][x] # "never" => dayOff[e][holiday[x].date] # NoHoliday

\* A day off is neither withdrawn nor handed to another holiday of that day,
\* however many runs of apply meet on it.
DayOffIsKept ==
  [][\A e \in Staff, d \in Dates :
       dayOff[e][d] # NoHoliday => dayOff'[e][d] = dayOff[e][d]]_holidayVars

\* While runs come one after the other nobody is told twice of a day off:
\* neither by a second application, nor by the job after one by hand, nor when
\* a run broke off half way and is started again; and whoever is told has the
\* holiday assigned that they are told of.
ToldOnceADay ==
  ~overlapped =>
    \A e \in Staff, x, y \in Holidays :
      holiday[x].date = holiday[y].date /\ announced[e][x] # "never" =>
        /\ dayOff[e][holiday[x].date] = x
        /\ announced[e][y] = IF x = y THEN "once" ELSE "never"

\* A holiday that is not automatic carries no mark of an automatic run, which
\* would keep the job from applying it when it is switched on again.
SwitchedOffIsUnmarked ==
  ~overlapped => \A x \in Holidays : ~holiday[x].auto => ~holiday[x].applied

\* A holiday that is automatic and due, with an audience that can be applied,
\* gets applied by the job, whatever holidays that cannot are due with it.
DueGetsApplied ==
  \A x \in Holidays :
    IsDue(x) /\ CanBeApplied(holiday[x].audience)
      ~> holiday[x].applied \/ ~holiday[x].auto \/ ~CanBeApplied(holiday[x].audience)

\* Applications by hand and by the job, whole or broken off, tell nobody twice
\* of a day or of one they do not have, and leave the job what it still has to do
\* (apply, setAutoApply, runAutoApplyJob).
HolidaysAreToldOnce == HolidayTypeOK /\ ToldOnceADay /\ SwitchedOffIsUnmarked
=============================================================================
