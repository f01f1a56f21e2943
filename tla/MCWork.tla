------------------------------- MODULE MCWork -------------------------------
(***************************************************************************)
(* Evaluations, their forms, the rating of attendance and the correctness  *)
(* requests on small instances.  The scenarios share no step: TLC explores *)
(* them side by side.                                                      *)
(***************************************************************************)
EXTENDS EvaluationProperties, EvaluationTemplates, CorrectnessRequests,
        AttendanceRating, TLC

CONSTANTS c1, e1, e2, old, r1, r2, r3, s1, s2

VARIABLE scenario

workVars ==
  <<cycle, sheet, template, assigned, asked, worked, approval, told, apiVars, scenario, facts, days>>

Symmetry ==
  UNION {Permutations(S) : S \in {Handlers, Templates \ {old}}}

-----------------------------------------------------------------------------
One(d, s) == [day |-> d, session |-> s]

\* A morning, both halves of a day one by one, and a whole day together with
\* one that is half leave.
SmallWishes ==
  {{One(1, "MORNING")}, {One(1, "MORNING"), One(1, "AFTERNOON")},
   {One(1, "FULL"), One(2, "FULL")}}

MorningLeave == [d \in 1..2 |-> IF d = 2 THEN {"am"} ELSE {}]

\* Facts of a period up to the sizes at which a penalty changes.
SmallFacts ==
  {f \in [expected : 0..3, attended : 0..3, late : 0..2, missing : {0, 2, 3},
          leaveHalves : 0..3, holidays : 0..1] : f.late <= f.attended}

NoFacts ==
  [expected |-> 0, attended |-> 0, late |-> 0, missing |-> 0, leaveHalves |-> 0, holidays |-> 0]

\* Days around a weekend, on a schedule of its own or on none.
SmallDays ==
  [period : {4..8}, scheduled : {{}, {1, 3, 6}}, leave : SUBSET (4..8), holidays : SUBSET (4..8)]

NoDays == [period |-> 4..8, scheduled |-> {}, leave |-> {}, holidays |-> {}]

-----------------------------------------------------------------------------
NoTables ==
  /\ template = [t \in Templates |-> NotMade] /\ assigned = [e \in Assignees |-> NoTemplate]

NoRows ==
  /\ asked = [row \in Rows |-> NoRow]
  /\ worked = [d \in PastDays |-> NoTimesheet]
  /\ approval = [row \in Rows |-> "none"] /\ told = {}

\* Both halves of a day were asked for, and a half of another.
TwoHalvesAsked ==
  /\ asked = [row \in Rows |->
       CASE row = r1 -> [status |-> "PENDING", day |-> 1, session |-> "MORNING", sub |-> s1]
         [] row = r2 -> [status |-> "PENDING", day |-> 1, session |-> "AFTERNOON", sub |-> s2]
         [] row = r3 -> [status |-> "PENDING", day |-> 2, session |-> "AFTERNOON", sub |-> s2]]
  /\ worked = [d \in PastDays |-> NoTimesheet] /\ told = {s1, s2}
  /\ approval = [row \in Rows |-> "none"]

\* A cycle that was opened for one employee.
OpenedForOne ==
  \E p \in Periods, s \in SystemScores :
    /\ cycle = [c \in Cycles |-> [status |-> "OPEN", period |-> p]]
    /\ sheet = [c \in Cycles |-> [e \in Employees |->
                  IF e = e1 THEN [NoSheet(p) EXCEPT !.status = "OPEN", !.system = s] ELSE NoSheet(p)]]
    /\ ApiInit

WorkInit ==
  \/ /\ \/ scenario = "cycles" /\ EvaluationInit /\ NoTables /\ NoRows
        \/ scenario = "scores" /\ OpenedForOne /\ NoTables /\ NoRows
        \/ scenario = "forms" /\ TemplateInit /\ NoRows /\ EvaluationInit
        \/ scenario = "corrections" /\ CorrectnessInit /\ NoTables /\ EvaluationInit
        \/ scenario = "answers" /\ TwoHalvesAsked /\ NoTables /\ EvaluationInit
     /\ facts = NoFacts /\ days = NoDays
  \/ /\ scenario = "rating"
     /\ \/ facts \in SmallFacts /\ days = NoDays
        \/ facts = NoFacts /\ days \in SmallDays
     /\ EvaluationInit /\ NoTables /\ NoRows

WorkNext ==
  /\ \/ /\ \/ scenario = "cycles" /\ CycleNext
           \/ scenario = "scores" /\ (ScoringNext \/ CloseCycle(c1)) /\ ~overlapped'
           \/ scenario \in {"cycles", "scores"} /\ EvaluationFailure
        /\ UNCHANGED <<template, assigned, asked, worked, approval, told>>
     \/ /\ scenario = "forms" /\ TemplateNext /\ ~overlapped'
        /\ UNCHANGED <<cycle, sheet, asked, worked, approval, told>>
     \/ /\ \/ scenario = "corrections" /\ CorrectnessNext /\ ~overlapped'
           \/ scenario = "answers" /\ AnswersNext
           \/ scenario \in {"corrections", "answers"} /\ CorrectnessFailure
        /\ UNCHANGED <<cycle, sheet, template, assigned>>
  /\ UNCHANGED <<scenario, facts, days>>

WorkSpec == WorkInit /\ [][WorkNext]_workVars
=============================================================================
