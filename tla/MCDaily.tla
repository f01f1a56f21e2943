------------------------------ MODULE MCDaily ------------------------------
(***************************************************************************)
(* What the jobs owe in the end: shifts that nobody closes and holidays    *)
(* that nobody applies.  The two scenarios share no step: in each the      *)
(* other's jobs have nothing to do.                                        *)
(***************************************************************************)
EXTENDS MCAttendance, HolidayCalendar

CONSTANTS e2, y1, y2

VARIABLES
  scenario,
  killed  \* whether a run of the holidays has been killed: a bound

calendarVars == <<holiday, dayOff, announced, working, today>>

dailyVars == <<vars, holidayVars, scenario, killed>>

OnTheFirstDay == [x \in CatalogHolidays |-> 0]

-----------------------------------------------------------------------------
\* No shift is open and the day is over.
NoShift ==
  /\ sheet = [id \in Ids |-> NoSheet]
  /\ proc = [p \in Procs |-> Idle]
  /\ autoEnabled = FALSE
  /\ now = LastInstant
  /\ done = {} /\ marks = [id \in Ids |-> 0] /\ settled = {}

\* The holiday of the calendar, and one that an administrator made for a day to
\* come.
WithHolidays ==
  /\ holiday = [x \in Holidays |-> Row(x \in CustomHolidays, IF x = y2 THEN LastDate ELSE 0,
                                       FALSE, FALSE, {})]
  /\ dayOff = [e \in Staff |-> [d \in Dates |-> NoHoliday]]
  /\ announced = [e \in Staff |-> [x \in Holidays |-> "never"]]
  /\ working = Staff /\ today = 0
  /\ ApiInit

DailyInit ==
  /\ killed = FALSE
  /\ \/ scenario = "shifts" /\ Init /\ HolidayInit
     \/ scenario = "holidays" /\ NoShift /\ WithHolidays

\* Administrators switch holidays on and off, one of them for an employee who
\* comes and goes, and nobody asks for announcements.
HolidaysGoOn ==
  \/ /\ \E h \in Handlers :
          \/ RunAutoApplyJob(h) \/ ApplyStep(h)
          \/ \E on \in BOOLEAN : SetAutoApply(h, y1, on, {}) \/ SetAutoApply(h, y2, on, {e1})
     /\ \A h \in Handlers : request'[h].op = "announce" => request'[h].to = {}
  \/ SetWorking(e1) \/ NextDay

DailyNext ==
  \/ scenario = "shifts" /\ Next /\ UNCHANGED <<holidayVars, scenario, killed>>
  \/ scenario = "holidays" /\ HolidaysGoOn /\ UNCHANGED <<vars, scenario, killed>>
  \/ /\ scenario = "holidays" /\ ~killed /\ killed' = TRUE
     /\ HolidayFailure /\ UNCHANGED <<vars, scenario>>

\* The hourly job is started again and again, and a request that is not killed
\* goes on.
HolidayFairness ==
  \A h \in Handlers : SF_holidayVars(RunAutoApplyJob(h)) /\ WF_holidayVars(ApplyStep(h))

DailySpec == DailyInit /\ [][DailyNext]_dailyVars /\ JobFairness /\ HolidayFairness
=============================================================================
