---------------------------- MODULE Evaluations ----------------------------
(***************************************************************************)
(* Performance evaluations: an administrator drafts, opens, closes and     *)
(* deletes cycles; opening one makes a sheet for every employee, whom it   *)
(* passes back and forth with an evaluator until it is finalized.  Every   *)
(* service checks the row it read before the transaction that writes it.   *)
(***************************************************************************)
EXTENDS ApiProcess, Functions

CONSTANTS
  Cycles, Employees,
  Periods,       \* review periods, with the attendance period that goes along
  Areas,         \* the areas scored by people
  Scores,        \* the scores of the model, out of 1..5
  SystemScores   \* the ratings of attendance, out of 1..5

ASSUME EvaluationAssumption ==
  /\ Scores \subseteq 1..5 /\ SystemScores \subseteq 1..5
  /\ Periods # {} /\ SystemScores # {}

VARIABLES
  cycle,   \* the table EvaluationCycle
  sheet    \* the table Evaluation with its scores, by its unique key

evaluationVars == <<cycle, sheet, apiVars>>

None == 0

Marks == [Areas -> Scores \cup {None}]

CycleStatuses == {"NONE", "DRAFT", "OPEN", "CLOSED", "DELETED"}

\* EvaluationStatus in the order of the process, after the absence of a row.
Stages == <<"NONE", "OPEN", "SELF_DRAFT", "SELF_SUBMITTED", "EVALUATOR_DRAFT",
            "EVALUATOR_SUBMITTED", "FINALIZED">>

Stage(x) == CHOOSE i \in 1..7 : Stages[i] = x.status

NoSheet(p) ==
  [status |-> "NONE", period |-> p, system |-> CHOOSE s \in SystemScores : TRUE,
   self |-> [a \in Areas |-> None], evaluator |-> [a \in Areas |-> None],
   commented |-> {}, strengths |-> FALSE,
   overallSelf |-> None, overallEvaluator |-> None]

Exists(c, e) == sheet[c][e].status # "NONE"

InCycle(c) == {e \in Employees : Exists(c, e)}

\* computeAverages: a total of human scores and the rating of attendance, or
\* nothing while a score is missing.
Overall(marks, system) ==
  IF \E a \in Areas : marks[a] = None THEN None
  ELSE system + SumFunction(marks)

IsComplete(marks) == \A a \in Areas : marks[a] # None

\* Fault: only low scores must be explained.
NeedsCommentIfLow(self, mark) == mark <= 2

\* Whether an evaluator's score of an area must be explained.
NeedsComment(self, mark) ==
  mark <= 2 \/ (self # None /\ (self - mark >= 2 \/ mark - self >= 2))

IsExplained(x) ==
  \A a \in Areas : NeedsComment(x.self[a], x.evaluator[a]) => a \in x.commented

\* What the employee is shown of the evaluator's side.
SeenByEmployee(x) ==
  IF x.status \in {"EVALUATOR_SUBMITTED", "FINALIZED"}
  THEN [marks |-> x.evaluator, overall |-> x.overallEvaluator]
  ELSE [marks |-> [a \in Areas |-> None], overall |-> None]

-----------------------------------------------------------------------------
HoldFor(h, op, c, e, kept) ==
  /\ Hold(h, [op |-> op, c |-> c, e |-> e, kept |-> kept])
  /\ UNCHANGED <<cycle, sheet>>

\* The sheet as it is now of the request a handler holds.
Row(h) == sheet[request[h].c][request[h].e]

\* A handler writes the sheet of its request, if it still exists.
Write(h, row) ==
  /\ sheet' = IF Row(h).status = "NONE" THEN sheet
              ELSE [sheet EXCEPT ![request[h].c][request[h].e] = row]
  /\ Answer(h)
  /\ UNCHANGED cycle

\* The employee's side: a cycle that is open, a sheet not handed in yet.
EmployeesTurn(c, e) ==
  cycle[c].status = "OPEN" /\ sheet[c][e].status \in {"OPEN", "SELF_DRAFT"}

\* Fault: a sheet can be scored again until it is finalized.
NotFinalized(c, e) ==
  sheet[c][e].status \in {"SELF_SUBMITTED", "EVALUATOR_DRAFT", "EVALUATOR_SUBMITTED"}

EvaluatorsTurn(c, e) == sheet[c][e].status \in {"SELF_SUBMITTED", "EVALUATOR_DRAFT"}

CheckEmployeeDraft(h, c, e) ==
  /\ EmployeesTurn(c, e)
  /\ HoldFor(h, "employeeDraft", c, e, None)

EmployeeDraft(h, marks) ==
  /\ request[h].op = "employeeDraft"
  /\ Write(h, [Row(h) EXCEPT !.self = marks, !.status = "SELF_DRAFT",
                             !.overallSelf = Overall(marks, Row(h).system)])

\* The total is computed from the scores read with the check.
CheckEmployeeSubmit(h, c, e) ==
  /\ EmployeesTurn(c, e)
  /\ IsComplete(sheet[c][e].self)
  /\ HoldFor(h, "employeeSubmit", c, e, Overall(sheet[c][e].self, sheet[c][e].system))

EmployeeSubmit(h) ==
  /\ request[h].op = "employeeSubmit"
  /\ Write(h, [Row(h) EXCEPT !.status = "SELF_SUBMITTED", !.overallSelf = request[h].kept])

CheckEvaluatorDraft(h, c, e) ==
  /\ EvaluatorsTurn(c, e)
  /\ cycle[c].status # "CLOSED"
  /\ HoldFor(h, "evaluatorDraft", c, e, None)

\* A text on strengths that is not given is written back as it was read.
EvaluatorDraft(h, marks, commented, strengths) ==
  /\ request[h].op = "evaluatorDraft"
  /\ Write(h, [Row(h) EXCEPT !.evaluator = marks, !.commented = commented,
                             !.strengths = strengths, !.status = "EVALUATOR_DRAFT",
                             !.overallEvaluator = Overall(marks, Row(h).system)])

\* Unlike a draft, scores may be submitted when the cycle is closed.
CheckEvaluatorSubmit(h, c, e) ==
  LET x == sheet[c][e]
  IN /\ EvaluatorsTurn(c, e)
     /\ IsComplete(x.evaluator) /\ IsExplained(x) /\ x.strengths
     /\ HoldFor(h, "evaluatorSubmit", c, e, Overall(x.evaluator, x.system))

EvaluatorSubmit(h) ==
  /\ request[h].op = "evaluatorSubmit"
  /\ Write(h, [Row(h) EXCEPT !.status = "EVALUATOR_SUBMITTED",
                             !.overallEvaluator = request[h].kept])

CheckFinalize(h, c, e) ==
  /\ sheet[c][e].status = "EVALUATOR_SUBMITTED"
  /\ HoldFor(h, "finalize", c, e, None)

Finalize(h) ==
  /\ request[h].op = "finalize"
  /\ Write(h, [Row(h) EXCEPT !.status = "FINALIZED"])

-----------------------------------------------------------------------------
\* With open, the request goes on as one that opens the cycle it made.
CreateCycle(c, p) ==
  /\ cycle[c].status = "NONE"
  /\ cycle' = [cycle EXCEPT ![c] = [status |-> "DRAFT", period |-> p]]
  /\ AtOnce
  /\ UNCHANGED sheet

CanBeEdited(c) == cycle[c].status = "DRAFT"

CheckUpdateCycle(h, c) ==
  /\ CanBeEdited(c)
  /\ Hold(h, [op |-> "updateCycle", c |-> c])
  /\ UNCHANGED <<cycle, sheet>>

\* Fault: the row is written back as it was read.
DraftWith(row, p) == [status |-> "DRAFT", period |-> p]

EditedWith(row, p) == [row EXCEPT !.period = p]

UpdateCycle(h, p) ==
  /\ request[h].op = "updateCycle"
  /\ cycle' = [cycle EXCEPT ![request[h].c] = EditedWith(@, p)]
  /\ Answer(h)
  /\ UNCHANGED sheet

CanBeOpened(c) == cycle[c].status \in {"DRAFT", "OPEN"}

\* The cycle and the employees to evaluate are read before the transaction.
CheckOpenCycle(h, c, who) ==
  /\ CanBeOpened(c)
  /\ who # {}
  /\ Hold(h, [op |-> "openCycle", c |-> c, read |-> cycle[c], who |-> who])
  /\ UNCHANGED <<cycle, sheet>>

NewSheet(p, system) == [NoSheet(p) EXCEPT !.status = "OPEN", !.system = system]

\* A draft is opened whatever it has become, one that is open is left alone;
\* the unique key leaves a sheet that exists.  The transaction fails when the
\* cycle was deleted.
OpenCycle(h, rating) ==
  LET r == request[h]
      new == r.who \ InCycle(r.c)
  IN /\ r.op = "openCycle"
     /\ IF cycle[r.c].status = "DELETED" THEN UNCHANGED <<cycle, sheet>>
        ELSE /\ cycle' = IF r.read.status = "OPEN" THEN cycle
                         ELSE [cycle EXCEPT ![r.c].status = "OPEN"]
             /\ sheet' = [sheet EXCEPT ![r.c] =
                  [e \in Employees |->
                     IF e \in new THEN NewSheet(r.read.period, rating[e]) ELSE @[e]]]
     /\ Answer(h)

CloseCycle(c) ==
  /\ cycle[c].status \in {"DRAFT", "OPEN", "CLOSED"}
  /\ cycle' = [cycle EXCEPT ![c].status = "CLOSED"]
  /\ AtOnce
  /\ UNCHANGED sheet

CanBeDeleted(c) ==
  cycle[c].status = "CLOSED" \/ (cycle[c].status = "DRAFT" /\ InCycle(c) = {})

CheckDeleteCycle(h, c) ==
  /\ CanBeDeleted(c)
  /\ Hold(h, [op |-> "deleteCycle", c |-> c, read |-> cycle[c]])
  /\ UNCHANGED <<cycle, sheet>>

\* Only the path for closed cycles deletes the sheets first; on the other the
\* foreign key refuses to delete a cycle that has any.
DeleteCycle(h) ==
  LET r == request[h]
  IN /\ r.op = "deleteCycle"
     /\ IF r.read.status = "DRAFT" /\ InCycle(r.c) # {} THEN UNCHANGED <<cycle, sheet>>
        ELSE /\ cycle' = [cycle EXCEPT ![r.c].status = "DELETED"]
             /\ sheet' = [sheet EXCEPT ![r.c] =
                           [e \in Employees |-> NoSheet(cycle[r.c].period)]]
     /\ Answer(h)

-----------------------------------------------------------------------------
EvaluationInit ==
  /\ cycle = [c \in Cycles |-> [status |-> "NONE", period |-> CHOOSE p \in Periods : TRUE]]
  /\ sheet = [c \in Cycles |-> [e \in Employees |-> NoSheet(CHOOSE p \in Periods : TRUE)]]
  /\ ApiInit

ScoringNext ==
  \E h \in Handlers :
    \/ \E c \in Cycles, e \in Employees :
         \/ CheckEmployeeDraft(h, c, e) \/ CheckEmployeeSubmit(h, c, e)
         \/ CheckEvaluatorDraft(h, c, e) \/ CheckEvaluatorSubmit(h, c, e)
         \/ CheckFinalize(h, c, e)
    \/ \E marks \in Marks : EmployeeDraft(h, marks)
    \/ EmployeeSubmit(h)
    \/ \E marks \in Marks, commented \in SUBSET Areas, strengths \in BOOLEAN :
         EvaluatorDraft(h, marks, commented, strengths)
    \/ EvaluatorSubmit(h)
    \/ Finalize(h)

CycleNext ==
  \/ \E c \in Cycles, p \in Periods : CreateCycle(c, p)
  \/ \E c \in Cycles : CloseCycle(c)
  \/ \E h \in Handlers :
       \/ \E c \in Cycles : CheckUpdateCycle(h, c) \/ CheckDeleteCycle(h, c)
       \/ \E p \in Periods : UpdateCycle(h, p)
       \/ \E c \in Cycles, who \in SUBSET Employees : CheckOpenCycle(h, c, who)
       \/ \E rating \in [Employees -> SystemScores] : OpenCycle(h, rating)
       \/ DeleteCycle(h)

EvaluationFailure == \E h \in Handlers : BreakOff(h) /\ UNCHANGED <<cycle, sheet>>

EvaluationNext == ScoringNext \/ CycleNext \/ EvaluationFailure

EvaluationSpec == EvaluationInit /\ [][EvaluationNext]_evaluationVars
=============================================================================
