------------------------ MODULE EvaluationProperties ------------------------
(***************************************************************************)
(* What performance evaluations promise to employee and evaluator.         *)
(***************************************************************************)
EXTENDS Evaluations

Overalls == {Overall(m, s) : m \in Marks, s \in SystemScores} \cup {None}

Sheets ==
  [status : {Stages[i] : i \in 1..7}, period : Periods, system : SystemScores,
   self : Marks, evaluator : Marks, commented : SUBSET Areas,
   strengths : BOOLEAN, overallSelf : Overalls, overallEvaluator : Overalls]

CycleRows == [status : CycleStatuses, period : Periods]

\* The tables hold values the code can give them.
EvaluationTypeOK ==
  /\ cycle \in [Cycles -> CycleRows]
  /\ sheet \in [Cycles -> [Employees -> Sheets]]

-----------------------------------------------------------------------------
\* A sheet belongs to a cycle that was opened and still exists, whatever opens,
\* closes and deletions run into each other: a cycle never returns to a draft,
\* the only state in which it could be edited or deleted under its sheets.
SheetsOfOpenedCycles ==
  \A c \in Cycles : InCycle(c) # {} => cycle[c].status \in {"OPEN", "CLOSED"}

\* While requests come one after the other a sheet goes through its stages in
\* their order; only the deletion of a closed cycle takes it away.
StagesInOrder ==
  [][~overlapped =>
       \A c \in Cycles, e \in Employees :
         \/ Stage(sheet[c][e]) <= Stage(sheet'[c][e])
         \/ cycle[c].status = "CLOSED" /\ cycle'[c].status = "DELETED"]_evaluationVars

\* What is handed in is complete, explained and added up: the totals were
\* computed from scores read earlier, so this is for requests in turn.
HandedInIsComplete ==
  ~overlapped =>
    \A c \in Cycles, e \in Employees :
      LET x == sheet[c][e]
      IN /\ Stage(x) >= 4 => IsComplete(x.self) /\ x.overallSelf = Overall(x.self, x.system)
         /\ Stage(x) >= 6 => /\ IsComplete(x.evaluator) /\ x.strengths
                             /\ x.overallEvaluator = Overall(x.evaluator, x.system)
                             /\ \A a \in Areas :
                                  x.evaluator[a] <= 2 \/ x.evaluator[a] - x.self[a] \in {-4, -3, -2, 2, 3, 4}
                                    => a \in x.commented

\* The employee never sees an evaluator's marks that are not all given, nor a
\* total without the marks it adds up.
NoHalfReviewShown ==
  ~overlapped =>
    \A c \in Cycles, e \in Employees :
      LET seen == SeenByEmployee(sheet[c][e])
      IN \/ seen.overall = None /\ \A a \in Areas : seen.marks[a] = None
         \/ IsComplete(seen.marks) /\ seen.overall = Overall(seen.marks, sheet[c][e].system)

\* The attendance of a sheet was rated over the period of its cycle, which
\* can no longer be changed: updateCycle says "Only draft cycles can be edited".
RatedOverItsPeriod ==
  ~overlapped =>
    \A c \in Cycles : \A e \in InCycle(c) : sheet[c][e].period = cycle[c].period

\* What either side sees, and what is stored for good, is a whole review over
\* the period that was announced.
ReviewsAreWhole ==
  EvaluationTypeOK /\ HandedInIsComplete /\ NoHalfReviewShown /\ RatedOverItsPeriod
=============================================================================
