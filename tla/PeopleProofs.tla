---------------------------- MODULE PeopleProofs ----------------------------
(***************************************************************************)
(* People: the evaluation of their work, its forms, the rating of their    *)
(* attendance, and who may enter, for any cycles, templates, accounts,     *)
(* periods and requests in flight.                                         *)
(*                                                                         *)
(* A sheet belongs to a cycle that was opened: a cycle never becomes a     *)
(* draft again, and a request that read it open finds it open, closed or   *)
(* deleted (Inv).  While requests come in turn, sheets are whole           *)
(* (ReviewInv), one template is the default of each kind (FormsInv),       *)
(* and accounts, invites and tokens agree (IdentityInv): each has what     *)
(* holds whatever interleaves, and, until two requests have been in flight *)
(* at once, that what the one request has read is still so.                *)
(***************************************************************************)
EXTENDS EvaluationProperties, EvaluationTemplates, AttendanceRating, IdentityProperties,
        FiniteSetTheorems, TLAPS

Scoring ==
  [op : {"employeeDraft", "employeeSubmit", "evaluatorDraft", "evaluatorSubmit", "finalize"},
   c : Cycles, e : Employees, kept : Overalls]

Updating == [op : {"updateCycle"}, c : Cycles]

Opening == [op : {"openCycle"}, c : Cycles, read : CycleRows, who : SUBSET Employees]

Deleting == [op : {"deleteCycle"}, c : Cycles, read : CycleRows]

EvaluationRequests == {NoRequest} \cup Scoring \cup Updating \cup Opening \cup Deleting

Opened(c) == cycle[c].status \in {"OPEN", "CLOSED", "DELETED"}

NoDraftAgain(r) == r \in Opening /\ r.read.status # "DRAFT" => Opened(r.c)

Inv ==
  /\ EvaluationTypeOK
  /\ request \in [Handlers -> EvaluationRequests]
  /\ \A h \in Handlers : NoDraftAgain(request[h])
  /\ SheetsOfOpenedCycles

USE EvaluationAssumption

-----------------------------------------------------------------------------
LEMMA StageNames ==
  {Stages[i] : i \in 1..7} = {"NONE", "OPEN", "SELF_DRAFT", "SELF_SUBMITTED", "EVALUATOR_DRAFT",
                              "EVALUATOR_SUBMITTED", "FINALIZED"}
<1>1. /\ Stages[1] = "NONE" /\ Stages[2] = "OPEN" /\ Stages[3] = "SELF_DRAFT"
      /\ Stages[4] = "SELF_SUBMITTED" /\ Stages[5] = "EVALUATOR_DRAFT"
      /\ Stages[6] = "EVALUATOR_SUBMITTED" /\ Stages[7] = "FINALIZED"
  BY DEF Stages
<1>2. 1..7 = {1, 2, 3, 4, 5, 6, 7}
  OBVIOUS
<1>3. QED
  BY <1>1, <1>2

LEMMA NoSheetTyped == ASSUME NEW p \in Periods PROVE NoSheet(p) \in Sheets
<1>1. [a \in Areas |-> None] \in Marks
  BY DEF Marks
<1>2. (CHOOSE s \in SystemScores : TRUE) \in SystemScores
  OBVIOUS
<1>3. QED
  BY <1>1, <1>2, StageNames DEF NoSheet, Sheets, Overalls

LEMMA NewSheetTyped ==
  ASSUME NEW p \in Periods, NEW s \in SystemScores PROVE NewSheet(p, s) \in Sheets
<1>1. NoSheet(p) \in Sheets
  BY NoSheetTyped
<1>2. "OPEN" \in {Stages[i] : i \in 1..7}
  BY StageNames
<1>3. QED
  BY <1>1, <1>2 DEF NewSheet, Sheets

LEMMA OverallTyped ==
  ASSUME NEW marks \in Marks, NEW s \in SystemScores PROVE Overall(marks, s) \in Overalls
BY DEF Overalls

\* A handler comes to hold a request, beside cycles that never become drafts
\* again and sheets of cycles that are open or closed.
LEMMA KeptByOne ==
  ASSUME Inv, EvaluationTypeOK', SheetsOfOpenedCycles', \A c \in Cycles : Opened(c) => Opened(c)',
         NEW h \in Handlers, NEW r \in EvaluationRequests, NoDraftAgain(r)',
         request' = [request EXCEPT ![h] = r]
  PROVE  Inv'
<1>1. request' \in [Handlers -> EvaluationRequests] /\ request'[h] = r
  BY DEF Inv
<1>2. ASSUME NEW g \in Handlers, g # h PROVE NoDraftAgain(request[g])'
  <2>1. request'[g] = request[g] /\ NoDraftAgain(request[g])
    BY <1>2 DEF Inv
  <2>2. QED
    BY <2>1 DEF NoDraftAgain, Opening
<1>3. QED
  BY <1>1, <1>2 DEF Inv

LEMMA NoRequestKept == NoRequest \in EvaluationRequests /\ NoDraftAgain(NoRequest)'
BY DEF NoRequest, EvaluationRequests, NoDraftAgain, Opening

\* A request that passed its checks is held, and nothing is written.
LEMMA HoldKeeps ==
  ASSUME Inv, NEW h \in Handlers, NEW r \in EvaluationRequests, NoDraftAgain(r), Hold(h, r),
         UNCHANGED <<cycle, sheet>>
  PROVE  Inv'
<1>1. EvaluationTypeOK' /\ SheetsOfOpenedCycles' /\ NoDraftAgain(r)'
  BY DEF Inv, EvaluationTypeOK, SheetsOfOpenedCycles, InCycle, Exists, NoDraftAgain, Opened
<1>2. QED
  BY <1>1, KeptByOne DEF Hold, Opened

\* A request ends without a write.
LEMMA EndKeeps ==
  ASSUME Inv, NEW h \in Handlers, Answer(h), UNCHANGED <<cycle, sheet>>
  PROVE  Inv'
<1>1. EvaluationTypeOK' /\ SheetsOfOpenedCycles'
  BY DEF Inv, EvaluationTypeOK, SheetsOfOpenedCycles, InCycle, Exists
<1>2. QED
  BY <1>1, NoRequestKept, KeptByOne DEF Answer, Continue, Opened

LEMMA InvInit == EvaluationInit => Inv
<1> SUFFICES ASSUME EvaluationInit PROVE Inv
  OBVIOUS
<1>1. (CHOOSE p \in Periods : TRUE) \in Periods
  OBVIOUS
<1>2. EvaluationTypeOK
  BY <1>1, NoSheetTyped DEF EvaluationInit, EvaluationTypeOK, CycleRows, CycleStatuses
<1>3. request \in [Handlers -> EvaluationRequests] /\ \A h \in Handlers : NoDraftAgain(request[h])
  BY DEF EvaluationInit, ApiInit, NoRequest, EvaluationRequests, NoDraftAgain, Opening
<1>4. SheetsOfOpenedCycles
  BY DEF EvaluationInit, SheetsOfOpenedCycles, InCycle, Exists, NoSheet
<1>5. QED
  BY <1>2, <1>3, <1>4 DEF Inv

-----------------------------------------------------------------------------
(* Scores *)

LEMMA HoldForKeeps ==
  ASSUME Inv, NEW h \in Handlers, NEW c \in Cycles, NEW e \in Employees, NEW kept \in Overalls,
         NEW op \in {"employeeDraft", "employeeSubmit", "evaluatorDraft", "evaluatorSubmit",
                     "finalize"},
         HoldFor(h, op, c, e, kept)
  PROVE  Inv'
<1> DEFINE r == [op |-> op, c |-> c, e |-> e, kept |-> kept]
<1>1. r \in EvaluationRequests /\ r \notin Opening
  BY DEF EvaluationRequests, Scoring, Opening
<1>2. NoDraftAgain(r)
  BY <1>1 DEF NoDraftAgain
<1>3. QED
  BY <1>1, <1>2, HoldKeeps DEF HoldFor

\* The row a request writes is one that exists, and only changes there.
LEMMA WriteKeeps ==
  ASSUME Inv, NEW h \in Handlers, request[h] \in Scoring, NEW row \in Sheets, Write(h, row)
  PROVE  Inv'
<1>1. PICK c \in Cycles, e \in Employees : c = request[h].c /\ e = request[h].e
  BY DEF Scoring
<1>2. CASE sheet[c][e].status = "NONE"
  BY <1>1, <1>2, EndKeeps DEF Write, Row
<1>3. CASE sheet[c][e].status # "NONE"
  <2>1. sheet' = [sheet EXCEPT ![c][e] = row] /\ UNCHANGED cycle
    BY <1>1, <1>3 DEF Write, Row
  <2>2. EvaluationTypeOK'
    BY <2>1 DEF Inv, EvaluationTypeOK
  <2>3. \A d \in Cycles, f \in Employees : Exists(d, f)' => Exists(d, f)
    BY <1>3, <2>1 DEF Exists, Inv, EvaluationTypeOK
  <2>4. SheetsOfOpenedCycles'
    BY <2>1, <2>3 DEF Inv, SheetsOfOpenedCycles, InCycle
  <2>5. QED
    BY <2>1, <2>2, <2>4, NoRequestKept, KeptByOne DEF Write, Answer, Continue, Opened
<1>4. QED
  BY <1>2, <1>3

LEMMA ScoringKeeps == ASSUME Inv, ScoringNext PROVE Inv'
<1>0. PICK h \in Handlers :
        \/ \E c \in Cycles, e \in Employees :
             \/ CheckEmployeeDraft(h, c, e) \/ CheckEmployeeSubmit(h, c, e)
             \/ CheckEvaluatorDraft(h, c, e) \/ CheckEvaluatorSubmit(h, c, e)
             \/ CheckFinalize(h, c, e)
        \/ \E marks \in Marks : EmployeeDraft(h, marks)
        \/ EmployeeSubmit(h)
        \/ \E marks \in Marks, commented \in SUBSET Areas, strengths \in BOOLEAN :
             EvaluatorDraft(h, marks, commented, strengths)
        \/ EvaluatorSubmit(h)
        \/ Finalize(h)
  BY DEF ScoringNext
<1>1. ASSUME NEW c \in Cycles, NEW e \in Employees,
             \/ CheckEmployeeDraft(h, c, e) \/ CheckEmployeeSubmit(h, c, e)
             \/ CheckEvaluatorDraft(h, c, e) \/ CheckEvaluatorSubmit(h, c, e)
             \/ CheckFinalize(h, c, e)
      PROVE  Inv'
  <2>1. sheet[c][e].self \in Marks /\ sheet[c][e].evaluator \in Marks /\ sheet[c][e].system \in SystemScores
    BY DEF Inv, EvaluationTypeOK, Sheets
  <2>2. /\ None \in Overalls
        /\ Overall(sheet[c][e].self, sheet[c][e].system) \in Overalls
        /\ Overall(sheet[c][e].evaluator, sheet[c][e].system) \in Overalls
    BY <2>1, OverallTyped DEF Overalls
  <2>3. QED
    BY <1>1, <2>2, HoldForKeeps DEF CheckEmployeeDraft, CheckEmployeeSubmit, CheckEvaluatorDraft,
       CheckEvaluatorSubmit, CheckFinalize
\* The row as a request finds it, and what the request has kept.
<1>2. ASSUME request[h] \in Scoring
      PROVE  Row(h) \in Sheets /\ request[h].kept \in Overalls
  BY <1>2 DEF Row, Scoring, Inv, EvaluationTypeOK
<1>3. request[h].op \in {"employeeDraft", "employeeSubmit", "evaluatorDraft", "evaluatorSubmit",
                         "finalize"} => request[h] \in Scoring
  BY DEF Inv, EvaluationRequests, NoRequest, Scoring, Updating, Opening, Deleting
<1>4. ASSUME NEW marks \in Marks, EmployeeDraft(h, marks) PROVE Inv'
  <2>1. request[h] \in Scoring /\ Overall(marks, Row(h).system) \in Overalls
    BY <1>2, <1>3, <1>4, OverallTyped DEF EmployeeDraft, Sheets
  <2>2. [Row(h) EXCEPT !.self = marks, !.status = "SELF_DRAFT",
                       !.overallSelf = Overall(marks, Row(h).system)] \in Sheets
    BY <1>2, <2>1, StageNames DEF Sheets
  <2>3. QED
    BY <1>4, <2>1, <2>2, WriteKeeps DEF EmployeeDraft
<1>5. CASE EmployeeSubmit(h)
  <2>1. [Row(h) EXCEPT !.status = "SELF_SUBMITTED", !.overallSelf = request[h].kept] \in Sheets
    BY <1>2, <1>3, <1>5, StageNames DEF EmployeeSubmit, Sheets
  <2>2. QED
    BY <1>3, <1>5, <2>1, WriteKeeps DEF EmployeeSubmit
<1>6. ASSUME NEW marks \in Marks, NEW commented \in SUBSET Areas, NEW strengths \in BOOLEAN,
             EvaluatorDraft(h, marks, commented, strengths)
      PROVE  Inv'
  <2>1. request[h] \in Scoring /\ Overall(marks, Row(h).system) \in Overalls
    BY <1>2, <1>3, <1>6, OverallTyped DEF EvaluatorDraft, Sheets
  <2>2. [Row(h) EXCEPT !.evaluator = marks, !.commented = commented, !.strengths = strengths,
                       !.status = "EVALUATOR_DRAFT",
                       !.overallEvaluator = Overall(marks, Row(h).system)] \in Sheets
    BY <1>2, <2>1, StageNames DEF Sheets
  <2>3. QED
    BY <1>6, <2>1, <2>2, WriteKeeps DEF EvaluatorDraft
<1>7. CASE EvaluatorSubmit(h)
  <2>1. [Row(h) EXCEPT !.status = "EVALUATOR_SUBMITTED",
                       !.overallEvaluator = request[h].kept] \in Sheets
    BY <1>2, <1>3, <1>7, StageNames DEF EvaluatorSubmit, Sheets
  <2>2. QED
    BY <1>3, <1>7, <2>1, WriteKeeps DEF EvaluatorSubmit
<1>8. CASE Finalize(h)
  <2>1. [Row(h) EXCEPT !.status = "FINALIZED"] \in Sheets
    BY <1>2, <1>3, <1>8, StageNames DEF Finalize, Sheets
  <2>2. QED
    BY <1>3, <1>8, <2>1, WriteKeeps DEF Finalize
<1>9. QED
  BY <1>0, <1>1, <1>4, <1>5, <1>6, <1>7, <1>8

-----------------------------------------------------------------------------
(* Cycles *)

\* What may become of a cycle: its sheets stay, or all go.
LEMMA CycleWriteKeeps ==
  ASSUME Inv, NEW c \in Cycles, NEW row \in CycleRows, cycle' = [cycle EXCEPT ![c] = row],
         UNCHANGED sheet,
         \/ row.status = cycle[c].status
         \/ row.status \in {"OPEN", "CLOSED"}
         \/ cycle[c].status = "NONE" /\ row.status = "DRAFT"
  PROVE  /\ EvaluationTypeOK' /\ SheetsOfOpenedCycles'
         /\ \A d \in Cycles : Opened(d) => Opened(d)'
<1>1. EvaluationTypeOK'
  BY DEF Inv, EvaluationTypeOK
<1>2. /\ cycle'[c] = row
      /\ \A d \in Cycles : d # c => cycle'[d] = cycle[d]
  BY DEF Inv, EvaluationTypeOK
<1>3. \A d \in Cycles : InCycle(d)' = InCycle(d)
  BY DEF InCycle, Exists
<1>4. SheetsOfOpenedCycles'
  BY <1>2, <1>3 DEF Inv, SheetsOfOpenedCycles
<1>5. \A d \in Cycles : Opened(d) => Opened(d)'
  BY <1>2 DEF Opened
<1>6. QED
  BY <1>1, <1>4, <1>5

LEMMA RequestsStay ==
  ASSUME Inv, EvaluationTypeOK', SheetsOfOpenedCycles', \A c \in Cycles : Opened(c) => Opened(c)',
         UNCHANGED request
  PROVE  Inv'
BY DEF Inv, NoDraftAgain, Opening

LEMMA OpenCycleKeeps ==
  ASSUME Inv, NEW h \in Handlers, NEW rating \in [Employees -> SystemScores], OpenCycle(h, rating)
  PROVE  Inv'
<1>1. PICK r \in Opening : r = request[h] /\ (r.read.status # "DRAFT" => Opened(r.c))
  BY DEF OpenCycle, Inv, EvaluationRequests, NoRequest, Scoring, Updating, Deleting, NoDraftAgain
<1> DEFINE c == r.c
<1>2. c \in Cycles /\ r.read \in CycleRows
  BY DEF Opening
<1>3. CASE cycle[c].status = "DELETED"
  BY <1>1, <1>3, EndKeeps DEF OpenCycle
<1>4. CASE cycle[c].status # "DELETED"
  <2>1. /\ cycle' = IF r.read.status = "OPEN" THEN cycle ELSE [cycle EXCEPT ![c].status = "OPEN"]
        /\ sheet' = [sheet EXCEPT ![c] =
             [e \in Employees |->
                IF e \in r.who \ InCycle(c) THEN NewSheet(r.read.period, rating[e]) ELSE sheet[c][e]]]
        /\ request' = [request EXCEPT ![h] = NoRequest]
    BY <1>1, <1>4 DEF OpenCycle, Answer, Continue
  <2>2. cycle' \in [Cycles -> CycleRows]
    BY <1>2, <2>1 DEF Inv, EvaluationTypeOK, CycleRows, CycleStatuses
  <2>3. r.read.period \in Periods
    BY <1>2 DEF CycleRows
  <2>4. sheet' \in [Cycles -> [Employees -> Sheets]]
    BY <1>2, <2>1, <2>3, NewSheetTyped DEF Inv, EvaluationTypeOK
  <2>5. /\ cycle'[c].status \in {"OPEN", "CLOSED"}
        /\ \A d \in Cycles : d # c => cycle'[d] = cycle[d] /\ sheet'[d] = sheet[d]
    BY <1>1, <1>2, <1>4, <2>1 DEF Inv, EvaluationTypeOK, Opened, CycleRows
  <2>6. SheetsOfOpenedCycles'
    BY <2>5 DEF Inv, SheetsOfOpenedCycles, InCycle, Exists
  <2>7. \A d \in Cycles : Opened(d) => Opened(d)'
    BY <2>5 DEF Opened
  <2>8. QED
    BY <2>1, <2>2, <2>4, <2>6, <2>7, NoRequestKept, KeptByOne DEF EvaluationTypeOK
<1>5. QED
  BY <1>3, <1>4

LEMMA DeleteCycleKeeps == ASSUME Inv, NEW h \in Handlers, DeleteCycle(h) PROVE Inv'
<1>1. PICK r \in Deleting : r = request[h]
  BY DEF DeleteCycle, Inv, EvaluationRequests, NoRequest, Scoring, Updating, Opening
<1> DEFINE c == r.c
<1>2. c \in Cycles
  BY DEF Deleting
<1>3. CASE r.read.status = "DRAFT" /\ InCycle(c) # {}
  BY <1>1, <1>3, EndKeeps DEF DeleteCycle
<1>4. CASE ~(r.read.status = "DRAFT" /\ InCycle(c) # {})
  <2>1. /\ cycle' = [cycle EXCEPT ![c].status = "DELETED"]
        /\ sheet' = [sheet EXCEPT ![c] = [e \in Employees |-> NoSheet(cycle[c].period)]]
        /\ request' = [request EXCEPT ![h] = NoRequest]
    BY <1>1, <1>4 DEF DeleteCycle, Answer, Continue
  <2>2. cycle[c].period \in Periods /\ cycle' \in [Cycles -> CycleRows]
    BY <1>2, <2>1 DEF Inv, EvaluationTypeOK, CycleRows, CycleStatuses
  <2>3. sheet' \in [Cycles -> [Employees -> Sheets]]
    BY <1>2, <2>1, <2>2, NoSheetTyped DEF Inv, EvaluationTypeOK
  <2>4. /\ Opened(c)' /\ InCycle(c)' = {}
        /\ \A d \in Cycles : d # c => cycle'[d] = cycle[d] /\ sheet'[d] = sheet[d]
    BY <1>2, <2>1 DEF Inv, EvaluationTypeOK, Opened, CycleRows, InCycle, Exists, NoSheet
  <2>5. SheetsOfOpenedCycles'
    BY <2>4 DEF Inv, SheetsOfOpenedCycles, InCycle, Exists
  <2>6. \A d \in Cycles : Opened(d) => Opened(d)'
    BY <2>4 DEF Opened
  <2>7. QED
    BY <2>1, <2>2, <2>3, <2>5, <2>6, NoRequestKept, KeptByOne DEF EvaluationTypeOK
<1>5. QED
  BY <1>3, <1>4

LEMMA CycleKeeps == ASSUME Inv, CycleNext PROVE Inv'
<1>1. ASSUME NEW c \in Cycles, NEW p \in Periods, CreateCycle(c, p) PROVE Inv'
  <2>1. [status |-> "DRAFT", period |-> p] \in CycleRows
    BY DEF CycleRows, CycleStatuses
  <2>2. QED
    BY <1>1, <2>1, CycleWriteKeeps, RequestsStay DEF CreateCycle, AtOnce
<1>2. ASSUME NEW c \in Cycles, CloseCycle(c) PROVE Inv'
  <2> DEFINE row == [cycle[c] EXCEPT !.status = "CLOSED"]
  <2>1. row \in CycleRows /\ row.status = "CLOSED" /\ cycle' = [cycle EXCEPT ![c] = row]
    BY <1>2 DEF CloseCycle, Inv, EvaluationTypeOK, CycleRows, CycleStatuses
  <2>2. QED
    BY <1>2, <2>1, CycleWriteKeeps, RequestsStay DEF CloseCycle, AtOnce
<1>3. ASSUME NEW h \in Handlers, NEW c \in Cycles, CheckUpdateCycle(h, c) PROVE Inv'
  <2>1. [op |-> "updateCycle", c |-> c] \in EvaluationRequests /\ NoDraftAgain([op |-> "updateCycle", c |-> c])
    BY DEF EvaluationRequests, Updating, NoDraftAgain, Opening
  <2>2. QED
    BY <1>3, <2>1, HoldKeeps DEF CheckUpdateCycle
<1>4. ASSUME NEW h \in Handlers, NEW c \in Cycles, CheckDeleteCycle(h, c) PROVE Inv'
  <2> DEFINE r == [op |-> "deleteCycle", c |-> c, read |-> cycle[c]]
  <2>1. r \in EvaluationRequests /\ r \notin Opening
    BY DEF EvaluationRequests, Deleting, Opening, Inv, EvaluationTypeOK
  <2>2. QED
    BY <1>4, <2>1, HoldKeeps DEF CheckDeleteCycle, NoDraftAgain
<1>5. ASSUME NEW h \in Handlers, NEW c \in Cycles, NEW who \in SUBSET Employees,
             CheckOpenCycle(h, c, who)
      PROVE  Inv'
  <2> DEFINE r == [op |-> "openCycle", c |-> c, read |-> cycle[c], who |-> who]
  <2>1. r \in EvaluationRequests /\ r.read = cycle[c] /\ r.c = c
    BY DEF EvaluationRequests, Opening, Inv, EvaluationTypeOK
  <2>2. NoDraftAgain(r)
    BY <1>5, <2>1 DEF NoDraftAgain, Opened, CheckOpenCycle, CanBeOpened
  <2>3. QED
    BY <1>5, <2>1, <2>2, HoldKeeps DEF CheckOpenCycle
<1>6. ASSUME NEW h \in Handlers, NEW p \in Periods, UpdateCycle(h, p) PROVE Inv'
  <2>1. PICK c \in Cycles : c = request[h].c
    BY <1>6 DEF UpdateCycle, Inv, EvaluationRequests, NoRequest, Scoring, Updating, Opening, Deleting
  <2> DEFINE row == [cycle[c] EXCEPT !.period = p]
  <2>2. row \in CycleRows /\ row.status = cycle[c].status /\ cycle' = [cycle EXCEPT ![c] = row]
    BY <1>6, <2>1 DEF UpdateCycle, EditedWith, Inv, EvaluationTypeOK, CycleRows
  <2>3. QED
    <3>1. UNCHANGED sheet /\ request' = [request EXCEPT ![h] = NoRequest]
      BY <1>6 DEF UpdateCycle, Answer, Continue
    <3>2. /\ EvaluationTypeOK' /\ SheetsOfOpenedCycles'
          /\ \A d \in Cycles : Opened(d) => Opened(d)'
      BY <2>2, <3>1, CycleWriteKeeps
    <3>3. QED
      BY <3>1, <3>2, NoRequestKept, KeptByOne
<1>7. QED
  BY <1>1, <1>2, <1>3, <1>4, <1>5, <1>6, OpenCycleKeeps, DeleteCycleKeeps DEF CycleNext

-----------------------------------------------------------------------------
LEMMA InvNext == Inv /\ [EvaluationNext]_evaluationVars => Inv'
<1> SUFFICES ASSUME Inv, [EvaluationNext]_evaluationVars PROVE Inv'
  OBVIOUS
<1>1. CASE UNCHANGED evaluationVars
  <2>1. UNCHANGED <<cycle, sheet, request>>
    BY <1>1 DEF evaluationVars, apiVars
  <2>2. QED
    BY <2>1 DEF Inv, EvaluationTypeOK, SheetsOfOpenedCycles, InCycle, Exists, NoDraftAgain, Opened
<1>2. CASE EvaluationFailure
  BY <1>2, EndKeeps DEF EvaluationFailure, BreakOff
<1>3. QED
  BY <1>1, <1>2, ScoringKeeps, CycleKeeps DEF EvaluationNext

LEMMA InvAlways == EvaluationSpec => []Inv
BY InvInit, InvNext, PTL DEF EvaluationSpec

\* Every reachable cycle and sheet is well typed, totals included, which are
\* sums of scores the sheet has or had.
THEOREM TypeCorrect == EvaluationSpec => []EvaluationTypeOK
<1>1. Inv => EvaluationTypeOK
  BY DEF Inv
<1>2. QED
  BY <1>1, InvAlways, PTL

\* However many administrators open, edit, close and delete a cycle at once, a
\* sheet belongs to a cycle that is open or closed (openCycle, updateCycle,
\* deleteCycle, whose checks precede their transactions).
THEOREM SheetsHaveTheirCycle == EvaluationSpec => []SheetsOfOpenedCycles
<1>1. Inv => SheetsOfOpenedCycles
  BY DEF Inv
<1>2. QED
  BY <1>1, InvAlways, PTL

-----------------------------------------------------------------------------
(* Requests in turn *)

HIDE EvaluationAssumption

OneInFlight == \A g, h \in Handlers : g = h \/ AtRest(g) \/ AtRest(h)

HandlersInTurn ==
  /\ request = [h \in Handlers |-> request[h]]
  /\ overlapped \in BOOLEAN
  /\ ~overlapped => OneInFlight

Moves(h, r) == Hold(h, r) \/ (~AtRest(h) /\ Continue(h, r))

\* While requests come in turn, all but the one that moves are at rest.
LEMMA OthersAtRest ==
  ASSUME HandlersInTurn, NEW h \in Handlers, NEW r, Moves(h, r)
  PROVE  /\ HandlersInTurn'
         /\ request'[h] = r
         /\ \A g \in Handlers : g # h => request'[g] = request[g]
         /\ ~overlapped' => /\ ~overlapped
                            /\ \A g \in Handlers : g # h => AtRest(g)
<1>1. request' = [request EXCEPT ![h] = r]
  BY DEF HandlersInTurn, Moves, Hold, Continue, MeetsAnother
<1>2. request'[h] = r /\ \A g \in Handlers : g # h => request'[g] = request[g]
  BY <1>1 DEF HandlersInTurn
<1>3. ~overlapped' => ~overlapped /\ \A g \in Handlers : g # h => AtRest(g)
  BY <1>1 DEF HandlersInTurn, Moves, Hold, Continue, MeetsAnother, OneInFlight
<1>4. \A g \in Handlers : g # h => AtRest(g)' = AtRest(g)
  BY <1>2 DEF AtRest
<1>5. ~overlapped' => OneInFlight'
  BY <1>3, <1>4 DEF OneInFlight
<1>6. request' = [g \in Handlers |-> request'[g]] /\ overlapped' \in BOOLEAN
  BY <1>1 DEF HandlersInTurn, Moves, Hold, Continue, MeetsAnother
<1>7. QED
  BY <1>2, <1>3, <1>5, <1>6 DEF HandlersInTurn

\* What is done at once, in turn, finds nobody in flight.
LEMMA AllAtRest ==
  ASSUME HandlersInTurn, AtOnce
  PROVE  /\ HandlersInTurn' /\ UNCHANGED request
         /\ ~overlapped' => ~overlapped /\ \A g \in Handlers : AtRest(g)
<1>1. /\ UNCHANGED request /\ overlapped' \in BOOLEAN
      /\ ~overlapped' => ~overlapped /\ \A g \in Handlers : AtRest(g)
  BY DEF HandlersInTurn, AtOnce, MeetsAnother
<1>2. ~overlapped' => OneInFlight'
  BY <1>1 DEF OneInFlight, AtRest
<1>3. QED
  BY <1>1, <1>2 DEF HandlersInTurn

-----------------------------------------------------------------------------
(* Whole reviews *)

HandedIn == {"SELF_SUBMITTED", "EVALUATOR_DRAFT", "EVALUATOR_SUBMITTED", "FINALIZED"}

Reviewed == {"EVALUATOR_SUBMITTED", "FINALIZED"}

IsWhole(x) ==
  /\ x.status \in HandedIn => IsComplete(x.self) /\ x.overallSelf = Overall(x.self, x.system)
  /\ x.status \in Reviewed => /\ IsComplete(x.evaluator) /\ x.strengths /\ IsExplained(x)
                              /\ x.overallEvaluator = Overall(x.evaluator, x.system)

\* What the sheet or the cycle of a request is like when it writes.
Relies(r) ==
  /\ r.op = "employeeDraft" => sheet[r.c][r.e].status \in {"OPEN", "SELF_DRAFT"}
  /\ r.op = "employeeSubmit" =>
       LET x == sheet[r.c][r.e]
       IN /\ x.status \in {"OPEN", "SELF_DRAFT"}
          /\ IsComplete(x.self) /\ r.kept = Overall(x.self, x.system)
  /\ r.op = "evaluatorDraft" => EvaluatorsTurn(r.c, r.e)
  /\ r.op = "evaluatorSubmit" =>
       LET x == sheet[r.c][r.e]
       IN /\ EvaluatorsTurn(r.c, r.e)
          /\ IsComplete(x.evaluator) /\ IsExplained(x) /\ x.strengths
          /\ r.kept = Overall(x.evaluator, x.system)
  /\ r.op = "finalize" => sheet[r.c][r.e].status = "EVALUATOR_SUBMITTED"
  /\ r.op = "updateCycle" => cycle[r.c].status = "DRAFT"
  /\ r.op = "openCycle" => r.read = cycle[r.c]
  /\ r.op = "deleteCycle" => r.read = cycle[r.c] /\ CanBeDeleted(r.c)

AllWhole == \A c \in Cycles, e \in Employees : IsWhole(sheet[c][e])

ReviewInv ==
  /\ Inv
  /\ HandlersInTurn
  /\ ~overlapped => /\ \A h \in Handlers : Relies(request[h])
                    /\ AllWhole /\ RatedOverItsPeriod

LEMMA AtRestRelies == ASSUME NEW h \in Handlers, AtRest(h) PROVE Relies(request[h])
BY DEF AtRest, Relies

LEMMA ReviewMoves ==
  ASSUME ReviewInv, Inv', NEW h \in Handlers, NEW r, Moves(h, r),
         ~overlapped => Relies(r)' /\ AllWhole' /\ RatedOverItsPeriod'
  PROVE  ReviewInv'
<1>1. /\ HandlersInTurn' /\ request'[h] = r
      /\ \A g \in Handlers : g # h => request'[g] = request[g]
      /\ ~overlapped' => ~overlapped /\ \A g \in Handlers : g # h => AtRest(g)
  BY OthersAtRest DEF ReviewInv
<1>2. ASSUME ~overlapped', NEW g \in Handlers PROVE Relies(request[g])'
  <2>1. CASE g = h
    BY <1>1, <1>2, <2>1 DEF Relies
  <2>2. CASE g # h
    BY <1>1, <1>2, <2>2 DEF Relies, AtRest
  <2>3. QED
    BY <2>1, <2>2
<1>3. QED
  BY <1>1, <1>2 DEF ReviewInv

\* A request is held, or ends, and nothing is written.
LEMMA ReadsKeepReviews ==
  ASSUME ReviewInv, Inv', NEW h \in Handlers, NEW r, Moves(h, r), UNCHANGED <<cycle, sheet>>,
         ~overlapped => Relies(r)
  PROVE  ReviewInv'
<1>1. ~overlapped => Relies(r)' /\ AllWhole' /\ RatedOverItsPeriod'
  BY DEF ReviewInv, Relies, EvaluatorsTurn, CanBeDeleted, AllWhole, RatedOverItsPeriod, InCycle, Exists
<1>2. QED
  BY <1>1, ReviewMoves

LEMMA EndKeepsReviews ==
  ASSUME ReviewInv, Inv', NEW h \in Handlers, ~AtRest(h), Answer(h), UNCHANGED <<cycle, sheet>>
  PROVE  ReviewInv'
<1>1. Moves(h, NoRequest) /\ Relies(NoRequest)
  BY DEF Answer, Moves, Relies, NoRequest
<1>2. QED
  BY <1>1, ReadsKeepReviews

LEMMA WriteKeepsReviews ==
  ASSUME ReviewInv, Inv', NEW h \in Handlers, request[h] \in Scoring, NEW row \in Sheets,
         Write(h, row),
         ~overlapped /\ Row(h).status # "NONE" => IsWhole(row) /\ row.period = Row(h).period
  PROVE  ReviewInv'
<1>1. PICK c \in Cycles, e \in Employees : c = request[h].c /\ e = request[h].e
  BY DEF Scoring
<1>2. ~AtRest(h)
  BY DEF Scoring, AtRest
<1>3. CASE sheet[c][e].status = "NONE"
  BY <1>1, <1>2, <1>3, EndKeepsReviews DEF Write, Row
<1>4. CASE sheet[c][e].status # "NONE"
  <2>1. /\ sheet' = [sheet EXCEPT ![c][e] = row] /\ UNCHANGED cycle
        /\ ~overlapped => IsWhole(row) /\ row.period = sheet[c][e].period
    BY <1>1, <1>4 DEF Write, Row
  <2>2. /\ sheet'[c][e] = row
        /\ \A d \in Cycles, f \in Employees : ~(d = c /\ f = e) => sheet'[d][f] = sheet[d][f]
    BY <2>1 DEF ReviewInv, Inv, EvaluationTypeOK
  <2>3. ASSUME ~overlapped PROVE AllWhole' /\ RatedOverItsPeriod'
    <3>1. \A d \in Cycles, f \in Employees : IsWhole(sheet[d][f])
      BY <2>3 DEF ReviewInv, AllWhole
    <3>2. \A d \in Cycles, f \in Employees : IsWhole(sheet'[d][f])
      BY <2>1, <2>2, <2>3, <3>1
    <3>3. AllWhole'
      BY <3>2 DEF AllWhole, IsWhole
    <3>4. RatedOverItsPeriod'
      BY <1>4, <2>1, <2>2, <2>3 DEF ReviewInv, RatedOverItsPeriod, InCycle, Exists
    <3>5. QED
      BY <3>3, <3>4
  <2>4. Moves(h, NoRequest) /\ Relies(NoRequest)'
    BY <1>2 DEF Write, Answer, Moves, Relies, NoRequest
  <2>5. QED
    BY <2>3, <2>4, ReviewMoves
<1>5. QED
  BY <1>3, <1>4

LEMMA StageOf ==
  ASSUME NEW x \in Sheets
  PROVE  /\ Stage(x) >= 4 <=> x.status \in HandedIn
         /\ Stage(x) >= 6 <=> x.status \in Reviewed
<1>1. /\ Stages[1] = "NONE" /\ Stages[2] = "OPEN" /\ Stages[3] = "SELF_DRAFT"
      /\ Stages[4] = "SELF_SUBMITTED" /\ Stages[5] = "EVALUATOR_DRAFT"
      /\ Stages[6] = "EVALUATOR_SUBMITTED" /\ Stages[7] = "FINALIZED"
  BY DEF Stages
<1>2. \E i \in 1..7 : Stages[i] = x.status
  BY DEF Sheets
<1>3. PICK i \in 1..7 : i = Stage(x) /\ Stages[i] = x.status
  BY <1>2 DEF Stage
<1>4. i \in {1, 2, 3, 4, 5, 6, 7}
  OBVIOUS
<1>5. QED
  BY <1>1, <1>3, <1>4 DEF HandedIn, Reviewed

\* What a request to score a sheet finds when it writes.
LEMMA ScoringMoves ==
  ASSUME ReviewInv, Inv', ScoringNext
  PROVE  ReviewInv'
<1>0. PICK h \in Handlers :
        \/ \E c \in Cycles, e \in Employees :
             \/ CheckEmployeeDraft(h, c, e) \/ CheckEmployeeSubmit(h, c, e)
             \/ CheckEvaluatorDraft(h, c, e) \/ CheckEvaluatorSubmit(h, c, e)
             \/ CheckFinalize(h, c, e)
        \/ \E marks \in Marks : EmployeeDraft(h, marks)
        \/ EmployeeSubmit(h)
        \/ \E marks \in Marks, commented \in SUBSET Areas, strengths \in BOOLEAN :
             EvaluatorDraft(h, marks, commented, strengths)
        \/ EvaluatorSubmit(h)
        \/ Finalize(h)
  BY DEF ScoringNext
<1>1. ASSUME NEW c \in Cycles, NEW e \in Employees,
             \/ CheckEmployeeDraft(h, c, e) \/ CheckEmployeeSubmit(h, c, e)
             \/ CheckEvaluatorDraft(h, c, e) \/ CheckEvaluatorSubmit(h, c, e)
             \/ CheckFinalize(h, c, e)
      PROVE  ReviewInv'
  <2>0. /\ None \in Overalls
        /\ Overall(sheet[c][e].self, sheet[c][e].system) \in Overalls
        /\ Overall(sheet[c][e].evaluator, sheet[c][e].system) \in Overalls
    BY OverallTyped DEF Overalls, ReviewInv, Inv, EvaluationTypeOK, Sheets
  <2>1. PICK op \in {"employeeDraft", "employeeSubmit", "evaluatorDraft", "evaluatorSubmit", "finalize"},
             kept \in Overalls :
          /\ HoldFor(h, op, c, e, kept)
          /\ op = "employeeDraft" => EmployeesTurn(c, e)
          /\ op = "employeeSubmit" =>
               /\ EmployeesTurn(c, e) /\ IsComplete(sheet[c][e].self)
               /\ kept = Overall(sheet[c][e].self, sheet[c][e].system)
          /\ op = "evaluatorDraft" => EvaluatorsTurn(c, e)
          /\ op = "evaluatorSubmit" =>
               /\ EvaluatorsTurn(c, e) /\ IsComplete(sheet[c][e].evaluator)
               /\ IsExplained(sheet[c][e]) /\ sheet[c][e].strengths
               /\ kept = Overall(sheet[c][e].evaluator, sheet[c][e].system)
          /\ op = "finalize" => sheet[c][e].status = "EVALUATOR_SUBMITTED"
    <3>1. CASE CheckEmployeeDraft(h, c, e)
      BY <2>0, <3>1 DEF CheckEmployeeDraft
    <3>2. CASE CheckEmployeeSubmit(h, c, e)
      BY <2>0, <3>2 DEF CheckEmployeeSubmit
    <3>3. CASE CheckEvaluatorDraft(h, c, e)
      BY <2>0, <3>3 DEF CheckEvaluatorDraft
    <3>4. CASE CheckEvaluatorSubmit(h, c, e)
      BY <2>0, <3>4 DEF CheckEvaluatorSubmit
    <3>5. CASE CheckFinalize(h, c, e)
      BY <2>0, <3>5 DEF CheckFinalize
    <3>6. QED
      BY <1>1, <3>1, <3>2, <3>3, <3>4, <3>5
  <2>2. PICK r : r = [op |-> op, c |-> c, e |-> e, kept |-> kept]
    OBVIOUS
  <2>3. Relies(r)
    <3>1. r.op = op /\ r.c = c /\ r.e = e /\ r.kept = kept
      BY <2>2
    <3>2. QED
      BY <2>1, <3>1 DEF Relies, EmployeesTurn
  <2>4. Moves(h, r) /\ UNCHANGED <<cycle, sheet>>
    BY <2>1, <2>2 DEF HoldFor, Moves
  <2>5. QED
    BY <2>3, <2>4, ReadsKeepReviews
\* The row as a request finds it, and what the request has kept.
<1>2. ASSUME request[h] \in Scoring
      PROVE  /\ Row(h) \in Sheets /\ request[h].kept \in Overalls
             /\ ~overlapped => IsWhole(Row(h)) /\ Relies(request[h])
  BY <1>2 DEF Row, Scoring, ReviewInv, Inv, EvaluationTypeOK, AllWhole
<1>3. request[h].op \in {"employeeDraft", "employeeSubmit", "evaluatorDraft", "evaluatorSubmit",
                         "finalize"} => request[h] \in Scoring
  BY DEF ReviewInv, Inv, EvaluationRequests, NoRequest, Scoring, Updating, Opening, Deleting
<1>4. ASSUME NEW marks \in Marks, EmployeeDraft(h, marks) PROVE ReviewInv'
  <2>1. request[h] \in Scoring /\ Overall(marks, Row(h).system) \in Overalls
    BY <1>2, <1>3, <1>4, OverallTyped DEF EmployeeDraft, Sheets
  <2>2. PICK row : row = [Row(h) EXCEPT !.self = marks, !.status = "SELF_DRAFT",
                       !.overallSelf = Overall(marks, Row(h).system)]
    OBVIOUS
  <2>3. row \in Sheets /\ row.status = "SELF_DRAFT" /\ row.period = Row(h).period
    BY <1>2, <2>1, <2>2, StageNames DEF Sheets
  <2>4. IsWhole(row)
    BY <2>3 DEF IsWhole, HandedIn, Reviewed
  <2>5. QED
    BY <1>4, <2>1, <2>2, <2>3, <2>4, WriteKeepsReviews DEF EmployeeDraft
<1>5. CASE EmployeeSubmit(h)
  <2>1. request[h] \in Scoring /\ request[h].op = "employeeSubmit"
    BY <1>3, <1>5 DEF EmployeeSubmit
  <2>2. PICK x \in Sheets, k \in Overalls :
          /\ x = Row(h) /\ k = request[h].kept
          /\ ~overlapped => IsComplete(x.self) /\ k = Overall(x.self, x.system)
    BY <1>2, <2>1 DEF Relies, Row
  <2>3. PICK row : row = [x EXCEPT !.status = "SELF_SUBMITTED", !.overallSelf = k]
    OBVIOUS
  <2>4. /\ row \in Sheets /\ row.status = "SELF_SUBMITTED" /\ row.period = x.period
        /\ row.self = x.self /\ row.overallSelf = k /\ row.system = x.system
    BY <2>3, StageNames DEF Sheets
  <2>5. ~overlapped => IsWhole(row)
    BY <2>2, <2>4 DEF IsWhole, Reviewed
  <2>6. QED
    BY <1>5, <2>1, <2>2, <2>3, <2>4, <2>5, WriteKeepsReviews DEF EmployeeSubmit
<1>6. ASSUME NEW marks \in Marks, NEW commented \in SUBSET Areas, NEW strengths \in BOOLEAN,
             EvaluatorDraft(h, marks, commented, strengths)
      PROVE  ReviewInv'
  <2>1. request[h] \in Scoring /\ request[h].op = "evaluatorDraft"
    BY <1>3, <1>6 DEF EvaluatorDraft
  <2>2. PICK x \in Sheets :
          /\ x = Row(h) /\ Overall(marks, x.system) \in Overalls
          /\ ~overlapped => IsWhole(x) /\ x.status \in HandedIn
    BY <1>2, <2>1, OverallTyped DEF Relies, Row, Sheets, EvaluatorsTurn, HandedIn
  <2>3. PICK row : row = [x EXCEPT !.evaluator = marks, !.commented = commented,
                       !.strengths = strengths, !.status = "EVALUATOR_DRAFT",
                       !.overallEvaluator = Overall(marks, x.system)]
    OBVIOUS
  <2>4. /\ row \in Sheets /\ row.status = "EVALUATOR_DRAFT" /\ row.period = x.period
        /\ row.self = x.self /\ row.overallSelf = x.overallSelf /\ row.system = x.system
    BY <2>2, <2>3, StageNames DEF Sheets
  <2>5. ~overlapped => IsWhole(row)
    BY <2>2, <2>4 DEF IsWhole, Reviewed
  <2>6. QED
    BY <1>6, <2>1, <2>2, <2>3, <2>4, <2>5, WriteKeepsReviews DEF EvaluatorDraft
<1>7. CASE EvaluatorSubmit(h)
  <2>1. request[h] \in Scoring /\ request[h].op = "evaluatorSubmit"
    BY <1>3, <1>7 DEF EvaluatorSubmit
  <2>2. PICK x \in Sheets, k \in Overalls :
          /\ x = Row(h) /\ k = request[h].kept
          /\ ~overlapped =>
               /\ IsWhole(x) /\ x.status \in HandedIn
               /\ IsComplete(x.evaluator) /\ IsExplained(x) /\ x.strengths
               /\ k = Overall(x.evaluator, x.system)
    BY <1>2, <2>1 DEF Relies, Row, EvaluatorsTurn, HandedIn
  <2>3. PICK row : row = [x EXCEPT !.status = "EVALUATOR_SUBMITTED", !.overallEvaluator = k]
    OBVIOUS
  <2>4. /\ row \in Sheets /\ row.period = x.period
        /\ row.self = x.self /\ row.overallSelf = x.overallSelf /\ row.system = x.system
        /\ row.evaluator = x.evaluator /\ row.overallEvaluator = k
        /\ row.commented = x.commented /\ row.strengths = x.strengths
    BY <2>3, StageNames DEF Sheets
  <2>5. ~overlapped => IsWhole(row)
    BY <2>2, <2>4 DEF IsWhole, IsExplained
  <2>6. QED
    BY <1>7, <2>1, <2>2, <2>3, <2>4, <2>5, WriteKeepsReviews DEF EvaluatorSubmit
<1>8. CASE Finalize(h)
  <2>1. request[h] \in Scoring /\ request[h].op = "finalize"
    BY <1>3, <1>8 DEF Finalize
  <2>2. PICK x \in Sheets :
          x = Row(h) /\ (~overlapped => IsWhole(x) /\ x.status = "EVALUATOR_SUBMITTED")
    BY <1>2, <2>1 DEF Relies, Row
  <2>3. PICK row : row = [x EXCEPT !.status = "FINALIZED"]
    OBVIOUS
  <2>4. /\ row \in Sheets /\ row.period = x.period
        /\ row.self = x.self /\ row.overallSelf = x.overallSelf /\ row.system = x.system
        /\ row.evaluator = x.evaluator /\ row.overallEvaluator = x.overallEvaluator
        /\ row.commented = x.commented /\ row.strengths = x.strengths
    BY <2>3, StageNames DEF Sheets
  <2>5. ~overlapped => IsWhole(row)
    BY <2>2, <2>4 DEF IsWhole, IsExplained, HandedIn, Reviewed
  <2>6. QED
    BY <1>8, <2>1, <2>2, <2>3, <2>4, <2>5, WriteKeepsReviews DEF Finalize
<1>9. QED
  BY <1>0, <1>1, <1>4, <1>5, <1>6, <1>7, <1>8

LEMMA NewSheetIsWhole ==
  ASSUME NEW p \in Periods, NEW s \in SystemScores
  PROVE  NewSheet(p, s).status = "OPEN" /\ NewSheet(p, s).period = p /\ IsWhole(NewSheet(p, s))
<1>1. NewSheet(p, s).status = "OPEN" /\ NewSheet(p, s).period = p
  BY DEF NewSheet, NoSheet
<1>2. QED
  BY <1>1 DEF IsWhole, HandedIn, Reviewed

LEMMA OpenCycleMoves ==
  ASSUME ReviewInv, Inv', NEW h \in Handlers, NEW rating \in [Employees -> SystemScores],
         OpenCycle(h, rating)
  PROVE  ReviewInv'
<1>1. PICK r \in Opening : r = request[h]
  BY DEF OpenCycle, ReviewInv, Inv, EvaluationRequests, NoRequest, Scoring, Updating, Deleting
<1>2. PICK c \in Cycles, row \in CycleRows : c = r.c /\ row = r.read
  BY DEF Opening
<1>3. ~AtRest(h) /\ (~overlapped => row = cycle[c])
  BY <1>1, <1>2 DEF Opening, AtRest, ReviewInv, Relies
<1>4. CASE cycle[c].status = "DELETED"
  BY <1>1, <1>2, <1>3, <1>4, EndKeepsReviews DEF OpenCycle
<1>5. CASE cycle[c].status # "DELETED"
  <2>1. /\ cycle' = IF row.status = "OPEN" THEN cycle ELSE [cycle EXCEPT ![c].status = "OPEN"]
        /\ sheet' = [sheet EXCEPT ![c] =
             [e \in Employees |->
                IF e \in r.who \ InCycle(c) THEN NewSheet(row.period, rating[e]) ELSE sheet[c][e]]]
        /\ Answer(h)
    BY <1>1, <1>2, <1>5 DEF OpenCycle
  <2>2. ASSUME ~overlapped PROVE AllWhole' /\ RatedOverItsPeriod'
    <3>1. row.period \in Periods /\ cycle[c].period = row.period
      BY <1>3, <2>2 DEF CycleRows
    <3>2. \A d \in Cycles : cycle'[d].period = cycle[d].period
      BY <2>1 DEF ReviewInv, Inv, EvaluationTypeOK, CycleRows
    <3>3. ASSUME NEW d \in Cycles, NEW e \in Employees
          PROVE  /\ IsWhole(sheet'[d][e])
                 /\ sheet'[d][e].status # "NONE" => sheet'[d][e].period = cycle[d].period
      <4>1. IsWhole(sheet[d][e]) /\ (sheet[d][e].status # "NONE" => sheet[d][e].period = cycle[d].period)
        BY <2>2 DEF ReviewInv, AllWhole, RatedOverItsPeriod, InCycle, Exists
      <4>2. CASE d = c /\ e \in r.who \ InCycle(c)
        <5>1. sheet'[d][e] = NewSheet(row.period, rating[e])
          BY <2>1, <4>2 DEF ReviewInv, Inv, EvaluationTypeOK
        <5>2. QED
          BY <3>1, <4>2, <5>1, NewSheetIsWhole
      <4>3. CASE ~(d = c /\ e \in r.who \ InCycle(c))
        <5>1. sheet'[d][e] = sheet[d][e]
          BY <2>1, <4>3 DEF ReviewInv, Inv, EvaluationTypeOK
        <5>2. QED
          BY <4>1, <5>1
      <4>4. QED
        BY <4>2, <4>3
    <3>4. AllWhole'
      BY <3>3 DEF AllWhole, IsWhole
    <3>5. RatedOverItsPeriod'
      BY <3>2, <3>3 DEF RatedOverItsPeriod, InCycle, Exists
    <3>6. QED
      BY <3>4, <3>5
  <2>3. Moves(h, NoRequest) /\ Relies(NoRequest)'
    BY <1>3, <2>1 DEF Answer, Moves, Relies, NoRequest
  <2>4. QED
    BY <2>2, <2>3, ReviewMoves
<1>6. QED
  BY <1>4, <1>5

LEMMA DeleteCycleMoves ==
  ASSUME ReviewInv, Inv', NEW h \in Handlers, DeleteCycle(h) PROVE ReviewInv'
<1>1. PICK r \in Deleting : r = request[h]
  BY DEF DeleteCycle, ReviewInv, Inv, EvaluationRequests, NoRequest, Scoring, Updating, Opening
<1>2. PICK c \in Cycles : c = r.c
  BY DEF Deleting
<1>3. ~AtRest(h)
  BY <1>1 DEF Deleting, AtRest
<1>4. CASE r.read.status = "DRAFT" /\ InCycle(c) # {}
  BY <1>1, <1>2, <1>3, <1>4, EndKeepsReviews DEF DeleteCycle
<1>5. CASE ~(r.read.status = "DRAFT" /\ InCycle(c) # {})
  <2>1. /\ cycle' = [cycle EXCEPT ![c].status = "DELETED"]
        /\ sheet' = [sheet EXCEPT ![c] = [e \in Employees |-> NoSheet(cycle[c].period)]]
        /\ Answer(h)
    BY <1>1, <1>2, <1>5 DEF DeleteCycle
  <2>2. \A e \in Employees : sheet'[c][e].status = "NONE"
    BY <2>1 DEF ReviewInv, Inv, EvaluationTypeOK, NoSheet
  <2>3. \A d \in Cycles : cycle'[d].period = cycle[d].period /\ (d # c => sheet'[d] = sheet[d])
    BY <2>1 DEF ReviewInv, Inv, EvaluationTypeOK, CycleRows
  <2>4. ~overlapped => AllWhole' /\ RatedOverItsPeriod'
    BY <2>2, <2>3 DEF ReviewInv, AllWhole, IsWhole, HandedIn, Reviewed, RatedOverItsPeriod, InCycle, Exists
  <2>5. Moves(h, NoRequest) /\ Relies(NoRequest)'
    BY <1>3, <2>1 DEF Answer, Moves, Relies, NoRequest
  <2>6. QED
    BY <2>4, <2>5, ReviewMoves
<1>6. QED
  BY <1>4, <1>5

\* What is done to a cycle at once.
LEMMA AtOnceKeepsReviews ==
  ASSUME ReviewInv, Inv', AtOnce, UNCHANGED sheet,
         \A c \in Cycles : InCycle(c) # {} => cycle'[c].period = cycle[c].period
  PROVE  ReviewInv'
<1>1. /\ HandlersInTurn' /\ UNCHANGED request
      /\ ~overlapped' => ~overlapped /\ \A g \in Handlers : AtRest(g)
  BY AllAtRest DEF ReviewInv
<1>2. ASSUME ~overlapped', NEW g \in Handlers PROVE Relies(request[g])'
  BY <1>1, <1>2 DEF Relies, AtRest
<1>3. ~overlapped' => AllWhole' /\ RatedOverItsPeriod'
  BY <1>1 DEF ReviewInv, AllWhole, RatedOverItsPeriod, InCycle, Exists
<1>4. QED
  BY <1>1, <1>2, <1>3 DEF ReviewInv

LEMMA CycleMoves == ASSUME ReviewInv, Inv', CycleNext PROVE ReviewInv'
<1>1. ASSUME NEW c \in Cycles, NEW p \in Periods, CreateCycle(c, p) PROVE ReviewInv'
  <2>1. InCycle(c) = {}
    BY <1>1 DEF CreateCycle, ReviewInv, Inv, SheetsOfOpenedCycles
  <2>2. \A d \in Cycles : d # c => cycle'[d] = cycle[d]
    BY <1>1 DEF CreateCycle, ReviewInv, Inv, EvaluationTypeOK
  <2>3. QED
    BY <1>1, <2>1, <2>2, AtOnceKeepsReviews DEF CreateCycle
<1>2. ASSUME NEW c \in Cycles, CloseCycle(c) PROVE ReviewInv'
  <2>1. \A d \in Cycles : cycle'[d].period = cycle[d].period
    BY <1>2 DEF CloseCycle, ReviewInv, Inv, EvaluationTypeOK, CycleRows
  <2>2. QED
    BY <1>2, <2>1, AtOnceKeepsReviews DEF CloseCycle
<1>3. ASSUME NEW h \in Handlers, NEW c \in Cycles, CheckUpdateCycle(h, c) PROVE ReviewInv'
  <2>1. PICK r : r = [op |-> "updateCycle", c |-> c]
    OBVIOUS
  <2>2. Relies(r) /\ Moves(h, r) /\ UNCHANGED <<cycle, sheet>>
    BY <1>3, <2>1 DEF Relies, Moves, CheckUpdateCycle, CanBeEdited
  <2>3. QED
    BY <2>2, ReadsKeepReviews
<1>4. ASSUME NEW h \in Handlers, NEW c \in Cycles, CheckDeleteCycle(h, c) PROVE ReviewInv'
  <2>1. PICK r : r = [op |-> "deleteCycle", c |-> c, read |-> cycle[c]]
    OBVIOUS
  <2>2. Relies(r) /\ Moves(h, r) /\ UNCHANGED <<cycle, sheet>>
    BY <1>4, <2>1 DEF Relies, Moves, CheckDeleteCycle
  <2>3. QED
    BY <2>2, ReadsKeepReviews
<1>5. ASSUME NEW h \in Handlers, NEW c \in Cycles, NEW who \in SUBSET Employees,
             CheckOpenCycle(h, c, who)
      PROVE  ReviewInv'
  <2>1. PICK r : r = [op |-> "openCycle", c |-> c, read |-> cycle[c], who |-> who]
    OBVIOUS
  <2>2. Relies(r) /\ Moves(h, r) /\ UNCHANGED <<cycle, sheet>>
    BY <1>5, <2>1 DEF Relies, Moves, CheckOpenCycle
  <2>3. QED
    BY <2>2, ReadsKeepReviews
<1>6. ASSUME NEW h \in Handlers, NEW p \in Periods, UpdateCycle(h, p) PROVE ReviewInv'
  <2>1. PICK c \in Cycles : c = request[h].c
    BY <1>6 DEF UpdateCycle, ReviewInv, Inv, EvaluationRequests, NoRequest, Scoring, Updating,
                Opening, Deleting
  <2>2. /\ cycle' = [cycle EXCEPT ![c] = EditedWith(cycle[c], p)] /\ UNCHANGED sheet
        /\ ~AtRest(h) /\ Answer(h) /\ request[h].op = "updateCycle"
    BY <1>6, <2>1 DEF UpdateCycle, AtRest
  <2>3. ~overlapped => cycle[c].status = "DRAFT"
    BY <2>1, <2>2 DEF ReviewInv, Relies
  <2>4. ~overlapped => InCycle(c) = {}
    BY <2>3 DEF ReviewInv, Inv, SheetsOfOpenedCycles
  <2>5. \A d \in Cycles : d # c => cycle'[d] = cycle[d]
    BY <2>2 DEF ReviewInv, Inv, EvaluationTypeOK
  <2>6. ~overlapped => AllWhole' /\ RatedOverItsPeriod'
    BY <2>2, <2>4, <2>5 DEF ReviewInv, AllWhole, RatedOverItsPeriod, InCycle, Exists
  <2>7. Moves(h, NoRequest) /\ Relies(NoRequest)'
    BY <2>2 DEF Answer, Moves, Relies, NoRequest
  <2>8. QED
    BY <2>6, <2>7, ReviewMoves
<1>7. QED
  BY <1>1, <1>2, <1>3, <1>4, <1>5, <1>6, OpenCycleMoves, DeleteCycleMoves DEF CycleNext

LEMMA ReviewInit == EvaluationInit => ReviewInv
<1> SUFFICES ASSUME EvaluationInit PROVE ReviewInv
  OBVIOUS
<1>1. HandlersInTurn /\ \A h \in Handlers : AtRest(h)
  BY DEF EvaluationInit, ApiInit, HandlersInTurn, OneInFlight, AtRest, NoRequest
<1>2. \A c \in Cycles, e \in Employees : sheet[c][e].status = "NONE"
  BY DEF EvaluationInit, NoSheet
<1>3. AllWhole /\ RatedOverItsPeriod
  BY <1>2 DEF AllWhole, IsWhole, HandedIn, Reviewed, RatedOverItsPeriod, InCycle, Exists
<1>4. QED
  BY <1>1, <1>3, InvInit, AtRestRelies DEF ReviewInv

LEMMA ReviewNext == ReviewInv /\ [EvaluationNext]_evaluationVars => ReviewInv'
<1> SUFFICES ASSUME ReviewInv, [EvaluationNext]_evaluationVars PROVE ReviewInv'
  OBVIOUS
<1>1. Inv'
  BY InvNext DEF ReviewInv
<1>2. CASE UNCHANGED evaluationVars
  <2>1. UNCHANGED <<cycle, sheet, request, overlapped>>
    BY <1>2 DEF evaluationVars, apiVars
  <2>2. QED
    BY <1>1, <2>1 DEF ReviewInv, HandlersInTurn, OneInFlight, AtRest, Relies, EvaluatorsTurn,
                      CanBeDeleted, AllWhole, RatedOverItsPeriod, InCycle, Exists
<1>3. CASE EvaluationFailure
  BY <1>1, <1>3, EndKeepsReviews DEF EvaluationFailure, BreakOff
<1>4. QED
  BY <1>1, <1>2, <1>3, ScoringMoves, CycleMoves DEF EvaluationNext

\* A handed in sheet is complete and adds up, what the employee sees is whole.
LEMMA WholeReviews == ReviewInv => ReviewsAreWhole
<1> SUFFICES ASSUME ReviewInv PROVE ReviewsAreWhole
  OBVIOUS
<1>1. ASSUME NEW c \in Cycles, NEW e \in Employees
      PROVE  sheet[c][e] \in Sheets /\ (~overlapped => IsWhole(sheet[c][e]))
  BY DEF ReviewInv, Inv, EvaluationTypeOK, AllWhole
<1>2. HandedInIsComplete
  <2> SUFFICES ASSUME ~overlapped, NEW c \in Cycles, NEW e \in Employees
               PROVE  LET x == sheet[c][e]
                      IN /\ Stage(x) >= 4 => IsComplete(x.self) /\ x.overallSelf = Overall(x.self, x.system)
                         /\ Stage(x) >= 6 => /\ IsComplete(x.evaluator) /\ x.strengths
                                             /\ x.overallEvaluator = Overall(x.evaluator, x.system)
                                             /\ \A a \in Areas :
                                                  x.evaluator[a] <= 2 \/ x.evaluator[a] - x.self[a] \in {-4, -3, -2, 2, 3, 4}
                                                    => a \in x.commented
    BY DEF HandedInIsComplete
  <2>1. PICK x \in Sheets : x = sheet[c][e] /\ IsWhole(x)
    BY <1>1
  <2>2. /\ Stage(x) >= 4 => x.status \in HandedIn
        /\ Stage(x) >= 6 => x.status \in HandedIn /\ x.status \in Reviewed
    BY StageOf DEF HandedIn, Reviewed
  <2>3. ASSUME Stage(x) >= 6, NEW a \in Areas,
               x.evaluator[a] <= 2 \/ x.evaluator[a] - x.self[a] \in {-4, -3, -2, 2, 3, 4}
        PROVE  a \in x.commented
    <3>1. x.self[a] \in 1..5 /\ x.evaluator[a] \in 0..5
      <4>1. x.self \in Marks /\ x.evaluator \in Marks /\ IsComplete(x.self)
        BY <2>1, <2>2, <2>3 DEF IsWhole, Sheets
      <4>2. x.self[a] \in Scores /\ x.evaluator[a] \in Scores \cup {0}
        BY <4>1 DEF IsComplete, Marks, None
      <4>3. Scores \subseteq 1..5 /\ Scores \cup {0} \subseteq 0..5
        BY EvaluationAssumption
      <4>4. QED
        BY <4>2, <4>3
    <3>2. NeedsComment(x.self[a], x.evaluator[a])
      BY <2>3, <3>1 DEF NeedsComment, None
    <3>3. QED
      BY <2>1, <2>2, <2>3, <3>2 DEF IsWhole, IsExplained
  <2>4. QED
    BY <2>1, <2>2, <2>3 DEF IsWhole
<1>3. NoHalfReviewShown
  <2> SUFFICES ASSUME ~overlapped, NEW c \in Cycles, NEW e \in Employees
               PROVE  LET seen == SeenByEmployee(sheet[c][e])
                      IN \/ seen.overall = None /\ \A a \in Areas : seen.marks[a] = None
                         \/ IsComplete(seen.marks) /\ seen.overall = Overall(seen.marks, sheet[c][e].system)
    BY DEF NoHalfReviewShown
  <2>1. CASE sheet[c][e].status \in Reviewed
    BY <1>1, <2>1 DEF SeenByEmployee, IsWhole, Reviewed
  <2>2. CASE sheet[c][e].status \notin Reviewed
    BY <2>2 DEF SeenByEmployee, Reviewed
  <2>3. QED
    BY <2>1, <2>2
<1>4. QED
  BY <1>2, <1>3 DEF ReviewsAreWhole, ReviewInv, Inv, RatedOverItsPeriod

\* In turn, whatever fails, what was handed in is complete, explained and adds
\* up over the period of its cycle, and the employee never sees half a review
\* (submitSelfEvaluation, submitEvaluatorEvaluation, updateCycle).
THEOREM ReviewsStayWhole == EvaluationSpec => []ReviewsAreWhole
BY ReviewInit, ReviewNext, WholeReviews, PTL DEF EvaluationSpec

-----------------------------------------------------------------------------
(* Stages in their order *)

InOrder ==
  \A c \in Cycles, e \in Employees :
    \/ Stage(sheet[c][e]) <= Stage(sheet'[c][e])
    \/ cycle[c].status = "CLOSED" /\ cycle'[c].status = "DELETED"

LEMMA StageIs ==
  ASSUME NEW x
  PROVE  /\ x.status = "NONE" => Stage(x) = 1
         /\ x.status = "OPEN" => Stage(x) = 2
         /\ x.status = "SELF_DRAFT" => Stage(x) = 3
         /\ x.status = "SELF_SUBMITTED" => Stage(x) = 4
         /\ x.status = "EVALUATOR_DRAFT" => Stage(x) = 5
         /\ x.status = "EVALUATOR_SUBMITTED" => Stage(x) = 6
         /\ x.status = "FINALIZED" => Stage(x) = 7
<1>1. /\ Stages[1] = "NONE" /\ Stages[2] = "OPEN" /\ Stages[3] = "SELF_DRAFT"
      /\ Stages[4] = "SELF_SUBMITTED" /\ Stages[5] = "EVALUATOR_DRAFT"
      /\ Stages[6] = "EVALUATOR_SUBMITTED" /\ Stages[7] = "FINALIZED"
  BY DEF Stages
<1>2. ASSUME NEW i \in 1..7, Stages[i] = x.status PROVE Stage(x) = i
  <2>1. PICK k \in 1..7 : k = Stage(x) /\ Stages[k] = x.status
    BY <1>2 DEF Stage
  <2>2. i \in {1, 2, 3, 4, 5, 6, 7} /\ k \in {1, 2, 3, 4, 5, 6, 7}
    OBVIOUS
  <2>3. QED
    BY <1>1, <1>2, <2>1, <2>2
<1>3. QED
  BY <1>1, <1>2

LEMMA StageInRange == ASSUME NEW x \in Sheets PROVE Stage(x) \in 1..7
BY DEF Sheets, Stage

LEMMA SameSheetsInOrder == ASSUME ReviewInv, UNCHANGED sheet PROVE InOrder
BY StageInRange DEF ReviewInv, Inv, EvaluationTypeOK, InOrder

LEMMA WriteInOrder ==
  ASSUME ReviewInv, NEW h \in Handlers, request[h] \in Scoring, NEW row, Write(h, row),
         Row(h).status # "NONE" => Stage(Row(h)) <= Stage(row)
  PROVE  InOrder
<1>1. PICK c \in Cycles, e \in Employees : c = request[h].c /\ e = request[h].e
  BY DEF Scoring
<1>2. CASE sheet[c][e].status = "NONE"
  BY <1>1, <1>2, SameSheetsInOrder DEF Write, Row
<1>3. CASE sheet[c][e].status # "NONE"
  <2>1. sheet' = [sheet EXCEPT ![c][e] = row] /\ Stage(sheet[c][e]) <= Stage(row)
    BY <1>1, <1>3 DEF Write, Row
  <2>2. /\ sheet'[c][e] = row
        /\ \A d \in Cycles, f \in Employees : ~(d = c /\ f = e) => sheet'[d][f] = sheet[d][f]
    BY <2>1 DEF ReviewInv, Inv, EvaluationTypeOK
  <2>3. \A d \in Cycles, f \in Employees : Stage(sheet[d][f]) \in 1..7
    BY StageInRange DEF ReviewInv, Inv, EvaluationTypeOK
  <2>4. QED
    BY <2>1, <2>2, <2>3 DEF InOrder
<1>4. QED
  BY <1>2, <1>3

\* A request to score finds the sheet at the stage it checked.
LEMMA ScoringInOrder == ASSUME ReviewInv, ~overlapped, ScoringNext PROVE InOrder
<1>1. CASE UNCHANGED sheet
  BY <1>1, SameSheetsInOrder
<1>2. ASSUME NEW h \in Handlers, NEW marks, NEW commented, NEW strengths,
             \/ EmployeeDraft(h, marks) \/ EmployeeSubmit(h)
             \/ EvaluatorDraft(h, marks, commented, strengths) \/ EvaluatorSubmit(h) \/ Finalize(h)
      PROVE  InOrder
  <2>1. request[h] \in Scoring /\ Relies(request[h])
    BY <1>2 DEF ReviewInv, Inv, EvaluationRequests, NoRequest, Scoring, Updating, Opening, Deleting,
       EmployeeDraft, EmployeeSubmit, EvaluatorDraft, EvaluatorSubmit, Finalize
  <2>2. PICK x \in Sheets : x = Row(h)
    BY <2>1 DEF Row, Scoring, ReviewInv, Inv, EvaluationTypeOK
  <2>3. PICK row : /\ Write(h, row)
                   /\ \/ /\ x.status \in {"OPEN", "SELF_DRAFT"}
                         /\ row.status \in {"SELF_DRAFT", "SELF_SUBMITTED"}
                      \/ /\ x.status \in {"SELF_SUBMITTED", "EVALUATOR_DRAFT"}
                         /\ row.status \in {"EVALUATOR_DRAFT", "EVALUATOR_SUBMITTED"}
                      \/ x.status = "EVALUATOR_SUBMITTED" /\ row.status = "FINALIZED"
    <3>1. CASE EmployeeDraft(h, marks)
      <4>1. PICK row : row = [x EXCEPT !.self = marks, !.status = "SELF_DRAFT",
                                       !.overallSelf = Overall(marks, x.system)]
        OBVIOUS
      <4>2. row.status = "SELF_DRAFT"
        BY <4>1 DEF Sheets
      <4>3. QED
        BY <2>1, <2>2, <3>1, <4>1, <4>2 DEF EmployeeDraft, Relies, Row
    <3>2. CASE EmployeeSubmit(h)
      <4>1. PICK row : row = [x EXCEPT !.status = "SELF_SUBMITTED", !.overallSelf = request[h].kept]
        OBVIOUS
      <4>2. row.status = "SELF_SUBMITTED"
        BY <4>1 DEF Sheets
      <4>3. QED
        BY <2>1, <2>2, <3>2, <4>1, <4>2 DEF EmployeeSubmit, Relies, Row
    <3>3. CASE EvaluatorDraft(h, marks, commented, strengths)
      <4>1. PICK row : row = [x EXCEPT !.evaluator = marks, !.commented = commented,
                                       !.strengths = strengths, !.status = "EVALUATOR_DRAFT",
                                       !.overallEvaluator = Overall(marks, x.system)]
        OBVIOUS
      <4>2. row.status = "EVALUATOR_DRAFT"
        BY <4>1 DEF Sheets
      <4>3. QED
        BY <2>1, <2>2, <3>3, <4>1, <4>2 DEF EvaluatorDraft, Relies, Row, EvaluatorsTurn
    <3>4. CASE EvaluatorSubmit(h)
      <4>1. PICK row : row = [x EXCEPT !.status = "EVALUATOR_SUBMITTED",
                                       !.overallEvaluator = request[h].kept]
        OBVIOUS
      <4>2. row.status = "EVALUATOR_SUBMITTED"
        BY <4>1 DEF Sheets
      <4>3. QED
        BY <2>1, <2>2, <3>4, <4>1, <4>2 DEF EvaluatorSubmit, Relies, Row, EvaluatorsTurn
    <3>5. CASE Finalize(h)
      <4>1. PICK row : row = [x EXCEPT !.status = "FINALIZED"]
        OBVIOUS
      <4>2. row.status = "FINALIZED"
        BY <4>1 DEF Sheets
      <4>3. QED
        BY <2>1, <2>2, <3>5, <4>1, <4>2 DEF Finalize, Relies, Row
    <3>6. QED
      BY <1>2, <3>1, <3>2, <3>3, <3>4, <3>5
  <2>4. Stage(x) <= Stage(row)
    BY <2>3, StageIs
  <2>5. QED
    BY <2>1, <2>2, <2>3, <2>4, WriteInOrder
<1>3. QED
  BY <1>1, <1>2 DEF ScoringNext, CheckEmployeeDraft, CheckEmployeeSubmit, CheckEvaluatorDraft,
     CheckEvaluatorSubmit, CheckFinalize, HoldFor

\* Only the deletion of a cycle takes sheets away, and of one that is closed.
LEMMA CyclesInOrder == ASSUME ReviewInv, ~overlapped, CycleNext PROVE InOrder
<1>1. ASSUME NEW h \in Handlers, NEW rating \in [Employees -> SystemScores], OpenCycle(h, rating)
      PROVE  InOrder
  <2>1. PICK r \in Opening : r = request[h]
    BY <1>1 DEF OpenCycle, ReviewInv, Inv, EvaluationRequests, NoRequest, Scoring, Updating, Deleting
  <2>2. PICK c \in Cycles, row \in CycleRows : c = r.c /\ row = r.read
    BY <2>1 DEF Opening
  <2>3. CASE cycle[c].status = "DELETED"
    BY <1>1, <2>1, <2>2, <2>3, SameSheetsInOrder DEF OpenCycle
  <2>4. CASE cycle[c].status # "DELETED"
    <3>1. sheet' = [sheet EXCEPT ![c] =
             [e \in Employees |->
                IF e \in r.who \ InCycle(c) THEN NewSheet(row.period, rating[e]) ELSE sheet[c][e]]]
      BY <1>1, <2>1, <2>2, <2>4 DEF OpenCycle
    <3>2. ASSUME NEW d \in Cycles, NEW e \in Employees
          PROVE  Stage(sheet[d][e]) <= Stage(sheet'[d][e])
      <4>1. Stage(sheet[d][e]) \in 1..7
        BY StageInRange DEF ReviewInv, Inv, EvaluationTypeOK
      <4>2. CASE d = c /\ e \in r.who \ InCycle(c)
        <5>1. sheet[d][e].status = "NONE" /\ sheet'[d][e] = NewSheet(row.period, rating[e])
          BY <3>1, <4>2 DEF InCycle, Exists, ReviewInv, Inv, EvaluationTypeOK
        <5>2. NewSheet(row.period, rating[e]).status = "OPEN"
          BY DEF NewSheet, NoSheet
        <5>3. QED
          BY <5>1, <5>2, StageIs
      <4>3. CASE ~(d = c /\ e \in r.who \ InCycle(c))
        <5>1. sheet'[d][e] = sheet[d][e]
          BY <3>1, <4>3 DEF ReviewInv, Inv, EvaluationTypeOK
        <5>2. QED
          BY <4>1, <5>1
      <4>4. QED
        BY <4>2, <4>3
    <3>3. QED
      BY <3>2 DEF InOrder
  <2>5. QED
    BY <2>3, <2>4
<1>2. ASSUME NEW h \in Handlers, DeleteCycle(h) PROVE InOrder
  <2>1. CASE UNCHANGED sheet
    BY <2>1, SameSheetsInOrder
  <2>2. CASE ~UNCHANGED sheet
    <3>1. PICK c \in Cycles : /\ c = request[h].c /\ CanBeDeleted(c)
                              /\ request[h].read = cycle[c]
      BY <1>2 DEF DeleteCycle, ReviewInv, Inv, EvaluationRequests, NoRequest, Scoring, Updating,
                  Opening, Deleting, Relies
    <3>2. /\ cycle' = [cycle EXCEPT ![c].status = "DELETED"]
          /\ sheet' = [sheet EXCEPT ![c] = [e \in Employees |-> NoSheet(cycle[c].period)]]
      BY <1>2, <2>2, <3>1 DEF DeleteCycle
    <3>3. cycle'[c].status = "DELETED" /\ \A d \in Cycles : d # c => sheet'[d] = sheet[d]
      BY <3>2 DEF ReviewInv, Inv, EvaluationTypeOK, CycleRows
    <3>4. \A d \in Cycles, e \in Employees : Stage(sheet[d][e]) \in 1..7
      BY StageInRange DEF ReviewInv, Inv, EvaluationTypeOK
    <3>5. CASE cycle[c].status = "CLOSED"
      BY <3>3, <3>4, <3>5 DEF InOrder
    <3>6. CASE InCycle(c) = {}
      <4>1. \A e \in Employees : sheet[c][e].status = "NONE" /\ sheet'[c][e].status = "NONE"
        BY <3>2, <3>6 DEF InCycle, Exists, NoSheet, ReviewInv, Inv, EvaluationTypeOK
      <4>2. \A e \in Employees : Stage(sheet[c][e]) <= Stage(sheet'[c][e])
        BY <4>1, StageIs
      <4>3. QED
        BY <3>3, <3>4, <4>2 DEF InOrder
    <3>7. QED
      BY <3>1, <3>5, <3>6 DEF CanBeDeleted
  <2>3. QED
    BY <2>1, <2>2
<1>3. QED
  BY <1>1, <1>2, SameSheetsInOrder
  DEF CycleNext, CreateCycle, CloseCycle, CheckUpdateCycle, CheckDeleteCycle, UpdateCycle, CheckOpenCycle

\* In turn, a sheet goes through its stages in their order, and only the
\* deletion of a closed cycle takes it away.
THEOREM StagesStayInOrder == EvaluationSpec => StagesInOrder
<1>1. ReviewInv /\ [EvaluationNext]_evaluationVars =>
        [~overlapped =>
           \A c \in Cycles, e \in Employees :
             \/ Stage(sheet[c][e]) <= Stage(sheet'[c][e])
             \/ cycle[c].status = "CLOSED" /\ cycle'[c].status = "DELETED"]_evaluationVars
  <2> SUFFICES ASSUME ReviewInv, [EvaluationNext]_evaluationVars, ~overlapped PROVE InOrder
    BY DEF InOrder
  <2>1. CASE EvaluationFailure \/ UNCHANGED evaluationVars
    BY <2>1, SameSheetsInOrder DEF EvaluationFailure, evaluationVars
  <2>2. QED
    BY <2>1, ScoringInOrder, CyclesInOrder DEF EvaluationNext
<1>2. QED
  BY ReviewInit, ReviewNext, <1>1, PTL DEF EvaluationSpec, StagesInOrder

-----------------------------------------------------------------------------
(* Templates *)

TemplateRequests ==
  {NoRequest} \cup
  [op : {"clear", "clearForAdmin", "ensure", "write", "retire", "reassign"},
   t : Templates \cup {NoTemplate}, flags : Flags]

IsSingle(S) == \A s, t \in S : s = t

\* A request knows the standard form, or that there is none.
KnowsStandard(r) ==
  IF r.t = NoTemplate THEN Standard = {} ELSE r.t \in Standard

\* What the templates are like when a request writes.
FindsForms(r) ==
  /\ r.op \in {"clear", "ensure"} => KnowsStandard(r)
  /\ r.op \in {"ensure"} => Defaults \subseteq {r.t}
  /\ r.op = "write" /\ r.flags.default => Defaults \subseteq {r.t}
  /\ r.op \in {"retire", "reassign"} => r.t \in Standard /\ template[r.t].active

FormsStand ==
  /\ IsSingle(Defaults) /\ IsSingle(Standard) /\ Standard \cap Legacy = {}

FormsInv ==
  /\ TemplateTypeOK
  /\ request \in [Handlers -> TemplateRequests]
  /\ HandlersInTurn
  /\ ~overlapped => FormsStand /\ \A h \in Handlers : FindsForms(request[h])

LEMMA AtMostOne == ASSUME NEW S, IsSingle(S) PROVE Cardinality(S) <= 1
<1>1. CASE S = {}
  BY <1>1, FS_EmptySet
<1>2. CASE S # {}
  <2>1. PICK s : S = {s}
    BY <1>2 DEF IsSingle
  <2>2. QED
    BY <2>1, FS_Singleton
<1>3. QED
  BY <1>1, <1>2

\* A handler comes to hold a request, or none, beside forms that stand.
LEMMA FormsMove ==
  ASSUME FormsInv, TemplateTypeOK', NEW h \in Handlers, NEW r \in TemplateRequests, Moves(h, r),
         ~overlapped => FormsStand' /\ FindsForms(r)'
  PROVE  FormsInv'
<1>1. /\ HandlersInTurn' /\ request'[h] = r
      /\ \A g \in Handlers : g # h => request'[g] = request[g]
      /\ ~overlapped' => ~overlapped /\ \A g \in Handlers : g # h => AtRest(g)
  BY OthersAtRest DEF FormsInv
<1>2. request' \in [Handlers -> TemplateRequests]
  BY DEF FormsInv, Moves, Hold, Continue
<1>3. ASSUME ~overlapped', NEW g \in Handlers PROVE FindsForms(request[g])'
  <2>1. CASE g = h
    BY <1>1, <1>3, <2>1 DEF FindsForms, KnowsStandard
  <2>2. CASE g # h
    BY <1>1, <1>3, <2>2 DEF FindsForms, AtRest
  <2>3. QED
    BY <2>1, <2>2
<1>4. QED
  BY <1>1, <1>2, <1>3 DEF FormsInv

LEMMA FormsRead ==
  ASSUME FormsInv, NEW h \in Handlers, NEW r \in TemplateRequests, Moves(h, r),
         UNCHANGED <<template, assigned>>, ~overlapped => FindsForms(r)
  PROVE  FormsInv'
<1>1. TemplateTypeOK'
  BY DEF FormsInv, TemplateTypeOK
<1>2. ~overlapped => FormsStand' /\ FindsForms(r)'
  BY DEF FormsInv, FormsStand, FindsForms, KnowsStandard, Standard, Defaults
<1>3. QED
  BY <1>1, <1>2, FormsMove

LEMMA NoneFinds == NoRequest \in TemplateRequests /\ FindsForms(NoRequest) /\ FindsForms(NoRequest)'
BY DEF NoRequest, TemplateRequests, FindsForms

LEMMA FormsNext == FormsInv /\ [TemplateNext]_templateVars => FormsInv'
<1> SUFFICES ASSUME FormsInv, [TemplateNext]_templateVars PROVE FormsInv'
  OBVIOUS
<1> USE TemplateAssumption
<1>0. /\ template \in [Templates -> TemplateRows]
      /\ assigned \in [Assignees -> Templates \cup {NoTemplate}]
      /\ request \in [Handlers -> TemplateRequests]
  BY DEF FormsInv, TemplateTypeOK
<1>r. ASSUME NEW h \in Handlers, ~AtRest(h)
      PROVE  /\ request[h] \in TemplateRequests \ {NoRequest}
             /\ request[h].t \in Templates \cup {NoTemplate} /\ request[h].flags \in Flags
             /\ ~overlapped => FormsStand /\ FindsForms(request[h])
  BY <1>0, <1>r DEF FormsInv, TemplateRequests, AtRest, NoRequest
<1>1. ASSUME NEW h \in Handlers, ReadStandard(h) PROVE FormsInv'
  <2>1. NewDefault \in Flags
    BY DEF NewDefault, Flags
  <2>2. CASE Standard = {} /\ Hold(h, [op |-> "clear", t |-> NoTemplate, flags |-> NewDefault])
    <3>1. PICK r \in TemplateRequests : r = [op |-> "clear", t |-> NoTemplate, flags |-> NewDefault]
      BY <2>1 DEF TemplateRequests
    <3>2. FindsForms(r)
      BY <2>2, <3>1 DEF FindsForms, KnowsStandard
    <3>3. QED
      BY <1>1, <2>2, <3>1, <3>2, FormsRead DEF ReadStandard, Moves
  <2>3. ASSUME NEW t \in Standard, NEW op \in {"retire", "clear"},
               op = "retire" => template[t].default /\ template[t].active,
               Hold(h, [op |-> op, t |-> t, flags |-> NewDefault])
        PROVE  FormsInv'
    <3>0. t \in Templates
      BY DEF Standard
    <3>1. PICK r \in TemplateRequests : r = [op |-> op, t |-> t, flags |-> NewDefault]
      BY <2>1, <3>0 DEF TemplateRequests
    <3>2. FindsForms(r)
      BY <2>3, <3>0, <3>1 DEF FindsForms, KnowsStandard
    <3>3. QED
      BY <1>1, <2>3, <3>1, <3>2, FormsRead DEF ReadStandard, Moves
  <2>4. QED
    BY <1>1, <2>2, <2>3 DEF ReadStandard
<1>2. ASSUME NEW h \in Handlers, ClearDefaults(h) PROVE FormsInv'
  <2>1. ~AtRest(h)
    BY <1>2 DEF ClearDefaults, AtRest
  <2>2. PICK q \in TemplateRequests : q = request[h] /\ q # NoRequest
    BY <1>r, <2>1 DEF AtRest, NoRequest
  <2>3. PICK op \in {"ensure", "write"} :
          op = (IF q.op = "clear" THEN "ensure" ELSE "write")
    OBVIOUS
  <2>4. PICK r \in TemplateRequests :
          r = [op |-> op, t |-> q.t, flags |-> q.flags] /\ r = [q EXCEPT !.op = op]
    <3>1. q \in [op : {"clear", "clearForAdmin", "ensure", "write", "retire", "reassign"},
                 t : Templates \cup {NoTemplate}, flags : Flags]
      BY <2>2 DEF TemplateRequests
    <3>2. [q EXCEPT !.op = op] = [op |-> op, t |-> q.t, flags |-> q.flags]
      BY <3>1
    <3>3. QED
      BY <3>1, <3>2 DEF TemplateRequests
  <2>5. Moves(h, r)
    BY <1>2, <2>1, <2>2, <2>3, <2>4 DEF ClearDefaults, Moves
  <2>6. /\ template' = [t \in Templates |-> [template[t] EXCEPT !.default = @ /\ t \in {q.t}]]
        /\ UNCHANGED assigned /\ q.op \in {"clear", "clearForAdmin"}
    BY <1>2, <2>2 DEF ClearDefaults, ClearedDefaults, Cleared
  <2>7. \A t \in Templates : /\ template'[t] \in TemplateRows
                             /\ template'[t].kind = template[t].kind
                             /\ template'[t].default => template[t].default /\ t = q.t
    <3> SUFFICES ASSUME NEW t \in Templates
                 PROVE  /\ template'[t] \in TemplateRows
                        /\ template'[t].kind = template[t].kind
                        /\ template'[t].default => template[t].default /\ t = q.t
      OBVIOUS
    <3>1. PICK x \in TemplateRows : x = template[t]
      BY <1>0
    <3>2. PICK mark \in BOOLEAN : mark = (x.default /\ t \in {q.t})
      OBVIOUS
    <3>3. template'[t] = [x EXCEPT !.default = mark]
      BY <2>6, <3>1, <3>2
    <3>4. template'[t] \in TemplateRows /\ template'[t].kind = x.kind /\ template'[t].default = mark
      BY <3>3 DEF TemplateRows
    <3>5. QED
      BY <3>1, <3>2, <3>4
  <2>8. TemplateTypeOK'
    BY <1>0, <2>6, <2>7 DEF TemplateTypeOK
  <2>9. Standard' = Standard /\ Defaults' \subseteq Defaults /\ Defaults' \subseteq {q.t}
    BY <2>7 DEF Standard, Defaults
  <2>10. ~overlapped => FormsStand' /\ FindsForms(r)'
    <3>1. ASSUME ~overlapped PROVE FormsStand /\ FindsForms(q)
      BY <1>r, <2>1, <2>2, <3>1
    <3>2. ~overlapped => FormsStand'
      BY <2>9, <3>1 DEF FormsStand, IsSingle
    <3>3. r.op = op /\ r.t = q.t
      BY <2>4
    <3>4. ~overlapped => FindsForms(r)'
      BY <2>3, <2>6, <2>9, <3>1, <3>3 DEF FindsForms, KnowsStandard
    <3>5. QED
      BY <3>2, <3>4
  <2>11. QED
    BY <2>5, <2>8, <2>10, FormsMove
<1>3. ASSUME NEW h \in Handlers, NEW t \in Templates, EnsureStandard(h, t) PROVE FormsInv'
  <2>1. ~AtRest(h)
    BY <1>3 DEF EnsureStandard, AtRest
  <2>2. PICK q : q = request[h]
    OBVIOUS
  <2>3. PICK r \in TemplateRequests : r = [op |-> "retire", t |-> t, flags |-> NewDefault]
    BY DEF TemplateRequests, Flags, NewDefault
  <2>4. Moves(h, r)
    BY <1>3, <2>1, <2>3 DEF EnsureStandard, Moves, Step
  <2>5. /\ template' = [template EXCEPT ![t] = [kind |-> "standard", default |-> TRUE, active |-> TRUE]]
        /\ UNCHANGED assigned
        /\ q.op = "ensure"
        /\ IF q.t = NoTemplate THEN t \notin Legacy ELSE t = q.t
    BY <1>3, <2>2 DEF EnsureStandard
  <2>6. /\ template'[t] = [kind |-> "standard", default |-> TRUE, active |-> TRUE]
        /\ \A s \in Templates : s # t => template'[s] = template[s]
        /\ template' \in [Templates -> TemplateRows]
    BY <1>0, <2>5 DEF TemplateRows
  <2>7. TemplateTypeOK'
    BY <1>0, <2>5, <2>6 DEF TemplateTypeOK
  <2>8. Standard' = Standard \cup {t} /\ Defaults' = Defaults \cup {t}
    BY <2>6 DEF Standard, Defaults
  <2>9. ASSUME ~overlapped PROVE FormsStand' /\ FindsForms(r)'
    <3>1. FormsStand /\ KnowsStandard(q) /\ Defaults \subseteq {q.t}
      BY <1>r, <2>1, <2>2, <2>5, <2>9 DEF FindsForms
    <3>2. Standard \subseteq {t} /\ Defaults \subseteq {t} /\ t \notin Legacy
      BY <2>5, <3>1 DEF KnowsStandard, FormsStand, IsSingle, Defaults
    <3>3. FormsStand'
      BY <2>8, <3>2 DEF FormsStand, IsSingle
    <3>4. FindsForms(r)'
      BY <2>3, <2>6, <2>8 DEF FindsForms
    <3>5. QED
      BY <3>3, <3>4
  <2>10. QED
    BY <2>4, <2>7, <2>9, FormsMove
<1>4. ASSUME NEW h \in Handlers, RetireLegacy(h) PROVE FormsInv'
  <2>1. ~AtRest(h) /\ request[h].op = "retire"
    BY <1>4 DEF RetireLegacy, AtRest
  <2>2. PICK q \in TemplateRequests : q = request[h] /\ q # NoRequest
    BY <1>r, <2>1 DEF AtRest, NoRequest
  <2>3. PICK r \in TemplateRequests : r = [op |-> "reassign", t |-> q.t, flags |-> q.flags]
    BY <1>r, <2>1, <2>2 DEF TemplateRequests
  <2>4. Moves(h, r)
    BY <1>4, <2>1, <2>2, <2>3 DEF RetireLegacy, Moves, Step
  <2>5. /\ template' = [t \in Templates |->
                          IF t \in Legacy \cap Made THEN Retired(template[t]) ELSE template[t]]
        /\ UNCHANGED assigned
    BY <1>4 DEF RetireLegacy
  <2>6. \A t \in Templates : /\ template'[t] \in TemplateRows
                             /\ template'[t].kind = template[t].kind
                             /\ template'[t].default => template[t].default
                             /\ t \notin Legacy => template'[t] = template[t]
    BY <1>0, <2>5 DEF TemplateRows, Retired
  <2>7. TemplateTypeOK'
    BY <1>0, <2>5, <2>6 DEF TemplateTypeOK
  <2>8. Standard' = Standard /\ Defaults' \subseteq Defaults
    BY <2>6 DEF Standard, Defaults
  <2>9. ASSUME ~overlapped PROVE FormsStand' /\ FindsForms(r)'
    <3>1. FormsStand /\ q.t \in Standard /\ template[q.t].active
      BY <1>r, <2>1, <2>2, <2>9 DEF FindsForms
    <3>2. q.t \in Templates /\ q.t \notin Legacy
      BY <3>1 DEF FormsStand, Standard
    <3>3. FormsStand'
      BY <2>8, <3>1 DEF FormsStand, IsSingle
    <3>4. FindsForms(r)'
      BY <2>3, <2>6, <2>8, <3>1, <3>2 DEF FindsForms
    <3>5. QED
      BY <3>3, <3>4
  <2>10. QED
    BY <2>4, <2>7, <2>9, FormsMove
<1>5. ASSUME NEW h \in Handlers, Reassign(h) PROVE FormsInv'
  <2>1. ~AtRest(h)
    BY <1>5 DEF Reassign, AtRest
  <2>2. Moves(h, NoRequest)
    BY <1>5, <2>1 DEF Reassign, Moves, Answer
  <2>3. TemplateTypeOK'
    BY <1>0, <1>r, <1>5, <2>1 DEF TemplateTypeOK, Reassign
  <2>4. ~overlapped => FormsStand'
    BY <1>r, <1>5, <2>1 DEF Reassign, FormsStand, Standard, Defaults
  <2>5. QED
    BY <2>2, <2>3, <2>4, NoneFinds, FormsMove
<1>6. ASSUME NEW h \in Handlers, NEW t \in Templates, NEW flags \in Flags, SaveTemplate(h, t, flags)
      PROVE  FormsInv'
  <2>1. PICK op \in {"clearForAdmin", "write"} :
          op = IF flags.default THEN "clearForAdmin" ELSE "write"
    OBVIOUS
  <2>2. PICK r \in TemplateRequests : r = [op |-> op, t |-> t, flags |-> flags]
    BY DEF TemplateRequests
  <2>3. FindsForms(r)
    BY <2>1, <2>2 DEF FindsForms
  <2>4. QED
    BY <1>6, <2>1, <2>2, <2>3, FormsRead DEF SaveTemplate, Moves
<1>7. ASSUME NEW h \in Handlers, WriteTemplate(h) PROVE FormsInv'
  <2>1. ~AtRest(h) /\ request[h].op = "write"
    BY <1>7 DEF WriteTemplate, AtRest
  <2>2. PICK q : q = request[h]
    OBVIOUS
  <2>3. Moves(h, NoRequest)
    BY <1>7, <2>1 DEF WriteTemplate, Moves, Answer
  <2>4. /\ template' = [template EXCEPT ![q.t] =
                         [kind |-> IF template[q.t].kind = "none" THEN "custom" ELSE template[q.t].kind,
                          default |-> q.flags.default, active |-> q.flags.active]]
        /\ UNCHANGED assigned
    BY <1>7, <2>2 DEF WriteTemplate
  <2>5. q.flags.default \in BOOLEAN /\ q.flags.active \in BOOLEAN
    BY <1>r, <2>1, <2>2 DEF Flags
  <2>6. \A t \in Templates : /\ template'[t] \in TemplateRows
                             /\ template'[t].kind = "standard" <=> template[t].kind = "standard"
                             /\ t # q.t => template'[t] = template[t]
                             /\ t = q.t => template'[t].default = q.flags.default
    BY <1>0, <2>4, <2>5 DEF TemplateRows
  <2>7. TemplateTypeOK'
    BY <1>0, <2>4, <2>6 DEF TemplateTypeOK
  <2>8. /\ Standard' = Standard
        /\ Defaults' \subseteq Defaults \cup {q.t}
        /\ ~q.flags.default => Defaults' \subseteq Defaults
    BY <2>6 DEF Standard, Defaults
  <2>9. ASSUME ~overlapped PROVE FormsStand'
    <3>1. FormsStand /\ (q.flags.default => Defaults \subseteq {q.t})
      BY <1>r, <2>1, <2>2, <2>9 DEF FindsForms
    <3>2. IsSingle(Defaults')
      BY <2>8, <3>1 DEF FormsStand, IsSingle
    <3>3. QED
      BY <2>8, <3>1, <3>2 DEF FormsStand, IsSingle
  <2>10. QED
    BY <2>3, <2>7, <2>9, NoneFinds, FormsMove
<1>8. ASSUME NEW h \in Handlers, BreakOff(h), UNCHANGED <<template, assigned>> PROVE FormsInv'
  BY <1>8, NoneFinds, FormsRead DEF BreakOff, Answer, Moves
<1>9. ASSUME NEW e \in Assignees, NEW t \in Templates, AssignTemplate(e, t) PROVE FormsInv'
  <2>1. /\ HandlersInTurn' /\ UNCHANGED request
        /\ ~overlapped' => ~overlapped /\ \A g \in Handlers : AtRest(g)
    BY <1>9, AllAtRest DEF AssignTemplate, FormsInv
  <2>2. TemplateTypeOK'
    BY <1>0, <1>9 DEF AssignTemplate, TemplateTypeOK
  <2>3. ~overlapped' => FormsStand' /\ \A g \in Handlers : FindsForms(request[g])'
    BY <1>9, <2>1 DEF AssignTemplate, FormsInv, FormsStand, FindsForms, KnowsStandard, Standard,
       Defaults, AtRest
  <2>4. QED
    BY <1>0, <2>1, <2>2, <2>3 DEF FormsInv
<1>10. CASE UNCHANGED templateVars
  BY <1>10 DEF templateVars, apiVars, FormsInv, TemplateTypeOK, HandlersInTurn, OneInFlight, AtRest,
     FormsStand, FindsForms, KnowsStandard, Standard, Defaults
<1>11. QED
  BY <1>1, <1>2, <1>3, <1>4, <1>5, <1>6, <1>7, <1>8, <1>9, <1>10 DEF TemplateNext

LEMMA FormsInit == TemplateInit => FormsInv
<1> SUFFICES ASSUME TemplateInit PROVE FormsInv
  OBVIOUS
<1>1. HandlersInTurn /\ request \in [Handlers -> TemplateRequests]
  BY DEF TemplateInit, ApiInit, HandlersInTurn, OneInFlight, AtRest, NoRequest, TemplateRequests
<1>2. PICK first : template = [t \in Templates |->
         IF t \in Legacy THEN [kind |-> "custom", default |-> t = first, active |-> TRUE]
         ELSE NotMade]
  BY DEF TemplateInit
<1>3. TemplateTypeOK
  BY <1>2 DEF TemplateInit, TemplateTypeOK, TemplateRows, NotMade
<1>4. FormsStand
  BY <1>2 DEF FormsStand, IsSingle, Defaults, Standard, NotMade
<1>5. \A h \in Handlers : FindsForms(request[h])
  BY NoneFinds DEF TemplateInit, ApiInit
<1>6. QED
  BY <1>1, <1>3, <1>4, <1>5 DEF FormsInv

LEMMA FormsAreInOrder == FormsInv => FormsInOrder
<1> SUFFICES ASSUME FormsInv PROVE FormsInOrder
  OBVIOUS
<1>1. OneDefaultForm
  BY AtMostOne DEF OneDefaultForm, FormsInv, FormsStand
<1>2. ASSUME ~overlapped, NEW h \in Handlers, NEW e \in Assignees, request[h].op = "reassign",
             NEW t \in Picked(e, request[h].t)
      PROVE  t \notin Legacy /\ template[t].active
  <2>1. request[h].t \in Standard /\ template[request[h].t].active /\ request[h].t \notin Legacy
    BY <1>2 DEF FormsInv, FindsForms, FormsStand
  <2>2. Usable(t) \/ t = request[h].t
    BY <1>2 DEF Picked
  <2>3. QED
    BY <2>1, <2>2 DEF Usable
<1>3. RetiredIsNotPicked
  BY <1>2 DEF RetiredIsNotPicked
<1>4. QED
  BY <1>1, <1>3 DEF FormsInOrder, FormsInv

\* In turn, also where ensureDefaultTemplate or an administrator's change broke
\* off between two statements, there is one default form and one standard form
\* at most, and nobody is evaluated with the retired one (pickTemplate).
THEOREM FormsStayInOrder == TemplateSpec => []FormsInOrder
BY FormsInit, FormsNext, FormsAreInOrder, PTL DEF TemplateSpec

-----------------------------------------------------------------------------
(* Accounts, invites and sessions *)

USE IdentityAssumption

AccountRows ==
  [exists : BOOLEAN, active : BOOLEAN, temporary : BOOLEAN, password : 0..LastPassword,
   roles : SUBSET Roles, member : SUBSET Organizations, admin : SUBSET Organizations,
   offices : SUBSET Offices, employee : Organizations \cup {Nowhere}]

InviteRows ==
  [status : InviteStatuses, type : {"EMPLOYEE", "ORG_ADMIN", "OFFICE_ADMIN"},
   user : Users \cup {NoOne}, org : Organizations \cup {Nowhere}, due : BOOLEAN]

TokenRows ==
  [state : {"NONE", "LIVE", "REVOKED"}, user : Users \cup {NoOne},
   context : AllContexts \cup {"none"}, password : 0..LastPassword,
   parent : TokenIds \cup {NoOne}]

\* What an account, an invite and a token are like, whatever interleaves.
IsAccount(a) ==
  /\ a \in AccountRows
  /\ ~a.exists => a = NoAccount
  /\ a.employee # Nowhere => "EMPLOYEE" \in a.roles

IsInvite(x) ==
  /\ x \in InviteRows
  /\ x.status = "NONE" => x = NoInvite
  /\ x.status # "NONE" => /\ x.user \in Users /\ x.org \in Organizations
                          /\ x.type # "EMPLOYEE" => account[x.user].exists

IsToken(x) ==
  /\ x \in TokenRows
  /\ x.state # "NONE" => x.user \in Users /\ account[x.user].exists
  /\ x.parent # NoOne => token[x.parent].state = "REVOKED"

IdentityTables ==
  /\ organization \in [Organizations -> {"NONE", "ACTIVE", "INACTIVE"}]
  /\ account \in [Users -> AccountRows] /\ \A u \in Users : IsAccount(account[u])
  /\ invite \in [InviteIds -> InviteRows] /\ \A i \in InviteIds : IsInvite(invite[i])
  /\ token \in [TokenIds -> TokenRows] /\ \A t \in TokenIds : IsToken(token[t])

\* What a request keeps of what it checked, and what cannot change under it.
Withdrawing(r) == r.user \in Users /\ r.org \in Organizations /\ r.drop \in BOOLEAN /\ r.leave \in BOOLEAN

SessionRequests ==
  [op : {"identify", "issue", "changePassword"}, user : Users, context : AllContexts,
   password : 0..LastPassword, parent : TokenIds \cup {NoOne}]

IsSent(i) == i \in InviteIds /\ invite[i].status # "NONE"

IsRequest(r) ==
  /\ r.op = "orgAdmin" => r.user \in Users /\ r.org \in Organizations /\ r.send \in BOOLEAN
  /\ r.op = "officeAdmin" =>
       /\ r.user \in Users /\ r.org \in Organizations /\ r.send \in BOOLEAN
       /\ r.offices \in SUBSET Offices /\ r.offices # {} /\ \A f \in r.offices : OfficeOrg[f] = r.org
  /\ r.op = "unassignOrgAdmin" => Withdrawing(r)
  /\ r.op = "unassignOffice" =>
       Withdrawing(r) /\ r.office \in Offices /\ r.org = OfficeOrg[r.office]
  /\ r.op = "updateOffices" =>
       /\ Withdrawing(r) /\ r.offices \in SUBSET Offices
       /\ \A f \in r.offices : OfficeOrg[f] = r.org
       /\ account[r.user].exists
  /\ r.op = "employ" =>
       /\ r.user \in Users /\ r.org \in Organizations /\ r.password \in BOOLEAN
       /\ r.i # NoOne => IsSent(r.i)
  /\ r.op = "invite" => r.user \in Users /\ r.org \in Organizations
  /\ r.op \in {"accept", "late", "resend", "cancelInvite"} => IsSent(r.i)
  /\ r.op = "acceptAdmin" =>
       IsSent(r.i) /\ r.user \in Users /\ account[r.user].exists /\ r.password \in BOOLEAN
  /\ r.op = "updateInvite" =>
       r.user \in Users /\ IsSent(r.i) /\ invite[r.i].type = "EMPLOYEE"
  /\ r.op \in {"identify", "issue", "changePassword"} =>
       /\ r \in SessionRequests
       /\ account[r.user].exists
       /\ r.parent # NoOne => token[r.parent].state # "NONE"
  /\ r.op = "changePassword" => r.parent = NoOne

-----------------------------------------------------------------------------
(* What holds until two requests have been in flight at once *)

\* The roles and memberships of an account follow from its assignments.
Matches(a) ==
  /\ "ORG_ADMIN" \in a.roles <=> a.admin # {}
  /\ "OFFICE_ADMIN" \in a.roles <=> a.offices # {}
  /\ a.member = {o \in Organizations : HasPlace(a, o)}

\* A session is opened for an active account, and follows the one it replaces.
IsOpened(t) ==
  /\ token[t].state = "LIVE" => account[token[t].user].active
  /\ \A s \in TokenIds : token[s].parent = token[t].parent /\ token[t].parent # NoOne => s = t

\* What a request has read is still so when it writes.
Finds(r) ==
  /\ r.op = "unassignOrgAdmin" =>
       LET left == WithoutCompany(account[r.user], r.org)
       IN r.drop = DropsRole(left.admin) /\ r.leave = ~HasPlace(left, r.org)
  /\ r.op = "unassignOffice" =>
       LET left == WithoutOffice(account[r.user], r.office)
       IN r.drop = DropsRole(left.offices) /\ r.leave = ~HasPlace(left, r.org)
  /\ r.op = "updateOffices" =>
       LET left == WithOffices(account[r.user], r.org, r.offices)
       IN /\ r.drop = DropsRole(left.offices) /\ r.leave = ~HasPlace(left, r.org)
          /\ OfficesIn(account[r.user], r.org) # {}
  /\ r.op = "employ" /\ r.i # NoOne =>
       /\ invite[r.i].status = "PENDING" /\ invite[r.i].type = "EMPLOYEE"
       /\ invite[r.i].user = r.user /\ invite[r.i].org = r.org
  /\ r.op = "accept" =>
       /\ invite[r.i].status = "PENDING" /\ invite[r.i].type = "EMPLOYEE"
       /\ account[invite[r.i].user].employee = invite[r.i].org
  /\ r.op \in {"late", "updateInvite"} => invite[r.i].status = "PENDING"
  /\ r.op \in {"resend", "cancelInvite"} => IsUnanswered(r.i)
  /\ r.op = "acceptAdmin" =>
       /\ invite[r.i].status = "PENDING" /\ invite[r.i].type # "EMPLOYEE"
       /\ invite[r.i].user = r.user
       /\ ~r.password => ~account[r.user].temporary
  /\ r.op \in {"identify", "issue"} /\ r.parent # NoOne => token[r.parent].state = "LIVE"
  /\ r.op = "issue" => account[r.user].active

InStep ==
  /\ \A u \in Users : Matches(account[u])
  /\ \A t \in TokenIds : IsOpened(t)

IdentityInv ==
  /\ IdentityTables
  /\ HandlersInTurn
  /\ \A h \in Handlers : IsRequest(request[h])
  /\ ~overlapped => InStep /\ \A h \in Handlers : Finds(request[h])

\* What no step undoes.
NothingUnmade ==
  /\ \A u \in Users : account[u].exists => account'[u].exists
  /\ \A i \in InviteIds :
       invite[i].status # "NONE" => invite'[i].status # "NONE" /\ invite'[i].type = invite[i].type
  /\ \A t \in TokenIds : token[t].state # "NONE" => token'[t].state # "NONE"


LEMMA NobodyAsks == IsRequest(NoRequest) /\ IsRequest(NoRequest)' /\ Finds(NoRequest) /\ Finds(NoRequest)'
BY DEF IsRequest, Finds, NoRequest

LEMMA RequestsStayGood ==
  ASSUME NothingUnmade, NEW r, IsRequest(r) PROVE IsRequest(r)'
<1>1. \A i : IsSent(i) => IsSent(i)' /\ invite'[i].type = invite[i].type
  BY DEF NothingUnmade, IsSent
<1>2. \A u \in Users : account[u].exists => account'[u].exists
  BY DEF NothingUnmade
<1>3. \A t \in TokenIds : token[t].state # "NONE" => token'[t].state # "NONE"
  BY DEF NothingUnmade
<1>4. r \in SessionRequests /\ r.parent # NoOne => r.parent \in TokenIds /\ r.user \in Users
  BY DEF SessionRequests
<1>5. r.op = "updateOffices" /\ Withdrawing(r) => r.user \in Users
  BY DEF Withdrawing
<1>6. r \in SessionRequests => r.user \in Users
  BY DEF SessionRequests
<1>7. QED
  BY <1>1, <1>2, <1>3, <1>4, <1>5, <1>6 DEF IsRequest, Withdrawing

-----------------------------------------------------------------------------
(* Steps of a request *)

\* A handler comes to hold a request, or none.
LEMMA PeopleMove ==
  ASSUME IdentityInv, IdentityTables', NothingUnmade, NEW h \in Handlers, NEW r, Moves(h, r),
         IsRequest(r)', ~overlapped => InStep' /\ Finds(r)'
  PROVE  IdentityInv'
<1>1. /\ HandlersInTurn' /\ request'[h] = r
      /\ \A g \in Handlers : g # h => request'[g] = request[g]
      /\ ~overlapped' => ~overlapped /\ \A g \in Handlers : g # h => AtRest(g)
  BY OthersAtRest DEF IdentityInv
<1>2. ASSUME NEW g \in Handlers PROVE IsRequest(request[g])'
  <2>1. PICK q : q = request'[g]
    OBVIOUS
  <2>2. IsRequest(q)'
    <3>1. CASE g = h
      BY <1>1, <2>1, <3>1
    <3>2. CASE g # h
      <4>1. IsRequest(q)
        BY <1>1, <2>1, <3>2 DEF IdentityInv
      <4>2. QED
        BY <4>1, RequestsStayGood
    <3>3. QED
      BY <3>1, <3>2
  <2>3. QED
    BY <2>1, <2>2 DEF IsRequest, Withdrawing, IsSent
<1>3. ASSUME ~overlapped', NEW g \in Handlers PROVE Finds(request[g])'
  <2>1. PICK q : q = request'[g]
    OBVIOUS
  <2>2. Finds(q)'
    BY <1>1, <1>3, <2>1 DEF Finds, AtRest
  <2>3. QED
    BY <2>1, <2>2 DEF Finds, IsUnanswered
<1>4. QED
  BY <1>1, <1>2, <1>3 DEF IdentityInv

LEMMA PeopleAtOnce ==
  ASSUME IdentityInv, IdentityTables', NothingUnmade, AtOnce, ~overlapped => InStep'
  PROVE  IdentityInv'
<1>1. /\ HandlersInTurn' /\ UNCHANGED request
      /\ ~overlapped' => ~overlapped /\ \A g \in Handlers : AtRest(g)
  BY AllAtRest DEF IdentityInv
<1>2. ASSUME NEW g \in Handlers PROVE IsRequest(request[g])'
  <2>1. PICK q : q = request'[g]
    OBVIOUS
  <2>2. IsRequest(q)'
    BY <1>1, <2>1, RequestsStayGood DEF IdentityInv
  <2>3. QED
    BY <2>1, <2>2 DEF IsRequest, Withdrawing, IsSent
<1>3. ASSUME ~overlapped', NEW g \in Handlers PROVE Finds(request[g])'
  <2>1. PICK q : q = request'[g]
    OBVIOUS
  <2>2. Finds(q)'
    BY <1>1, <1>3, <2>1 DEF Finds, AtRest
  <2>3. QED
    BY <2>1, <2>2 DEF Finds, IsUnanswered
<1>4. QED
  BY <1>1, <1>2, <1>3 DEF IdentityInv

LEMMA NothingRead ==
  ASSUME IdentityInv, UNCHANGED <<organization, account, invite, token>>
  PROVE  IdentityTables' /\ NothingUnmade /\ (InStep => InStep')
<1>1. IdentityTables'
  BY DEF IdentityInv, IdentityTables, IsAccount, IsInvite, IsToken
<1>2. InStep => InStep'
  BY DEF InStep, Matches, IsOpened, HasPlace, OfficesIn
<1>3. QED
  BY <1>1, <1>2 DEF NothingUnmade

LEMMA PeopleRead ==
  ASSUME IdentityInv, UNCHANGED <<organization, account, invite, token>>,
         NEW h \in Handlers, NEW r, Moves(h, r), IsRequest(r), ~overlapped => Finds(r)
  PROVE  IdentityInv'
<1>1. IdentityTables' /\ NothingUnmade /\ (InStep => InStep')
  BY NothingRead
<1>2. IsRequest(r)'
  BY <1>1, RequestsStayGood
<1>3. Finds(r) => Finds(r)'
  BY DEF Finds, IsUnanswered, HasPlace, OfficesIn, WithoutCompany, WithoutOffice, WithOffices
<1>4. ~overlapped => InStep
  BY DEF IdentityInv
<1>5. QED
  BY <1>1, <1>2, <1>3, <1>4, PeopleMove

LEMMA PeopleEnd ==
  ASSUME IdentityInv, UNCHANGED <<organization, account, invite, token>>,
         NEW h \in Handlers, ~AtRest(h), Answer(h)
  PROVE  IdentityInv'
<1>1. Moves(h, NoRequest)
  BY DEF Moves, Answer
<1>2. QED
  BY <1>1, NobodyAsks, PeopleRead

-----------------------------------------------------------------------------
(* Accounts and tokens *)

\* Tokens are revoked, live ones only.
Revoked(S) ==
  [t \in TokenIds |-> IF t \in S THEN [token[t] EXCEPT !.state = "REVOKED"] ELSE token[t]]

InvitesKept ==
  /\ invite' \in [InviteIds -> InviteRows]
  /\ \A i \in InviteIds :
       /\ IsInvite(invite[i])'
       /\ invite[i].status # "NONE" => invite'[i].status # "NONE" /\ invite'[i].type = invite[i].type

LEMMA InvitesStay ==
  ASSUME IdentityTables, UNCHANGED invite, \A v \in Users : account[v].exists => account'[v].exists
  PROVE  InvitesKept
BY DEF IdentityTables, IsInvite, InvitesKept

LEMMA RevokedFacts ==
  ASSUME IdentityTables, NEW S \in SUBSET TokenIds, \A t \in S : token[t].state = "LIVE",
         token' = Revoked(S)
  PROVE  /\ token' \in [TokenIds -> TokenRows]
         /\ \A t \in TokenIds :
              /\ token'[t].user = token[t].user /\ token'[t].parent = token[t].parent
              /\ t \in S => token'[t].state = "REVOKED"
              /\ t \notin S => token'[t] = token[t]
BY DEF IdentityTables, Revoked, TokenRows

LEMMA SigningOut ==
  ASSUME IdentityTables, NEW u \in Users
  PROVE  \E S \in SUBSET TokenIds :
           /\ SignedOut(u) = Revoked(S)
           /\ \A t \in TokenIds : t \in S <=> token[t].user = u /\ token[t].state = "LIVE"
<1>1. PICK S \in SUBSET TokenIds : S = {t \in TokenIds : token[t].user = u /\ token[t].state = "LIVE"}
  OBVIOUS
<1>2. SignedOut(u) = Revoked(S)
  BY <1>1 DEF SignedOut, Revoked
<1>3. QED
  BY <1>1, <1>2

LEMMA NobodyRevoked ==
  ASSUME IdentityTables, UNCHANGED token PROVE token' = Revoked({})
<1>1. token = [t \in TokenIds |-> token[t]]
  BY DEF IdentityTables
<1>2. QED
  BY <1>1 DEF Revoked

LEMMA TokensStay ==
  ASSUME IdentityTables, NEW S \in SUBSET TokenIds, \A t \in S : token[t].state = "LIVE",
         token' = Revoked(S), \A v \in Users : account[v].exists => account'[v].exists
  PROVE  /\ token' \in [TokenIds -> TokenRows]
         /\ \A t \in TokenIds : IsToken(token[t])' /\ (token[t].state # "NONE" => token'[t].state # "NONE")
<1>1. /\ token' \in [TokenIds -> TokenRows]
      /\ \A t \in TokenIds :
           /\ token'[t].user = token[t].user /\ token'[t].parent = token[t].parent
           /\ t \in S => token'[t].state = "REVOKED"
           /\ t \notin S => token'[t] = token[t]
  BY RevokedFacts
<1>2. ASSUME NEW t \in TokenIds PROVE IsToken(token[t])'
  <2>1. IsToken(token[t]) /\ token[t] \in TokenRows
    BY DEF IdentityTables
  <2>2. token[t].parent # NoOne => token[t].parent \in TokenIds
    BY <2>1 DEF TokenRows
  <2>3. QED
    BY <1>1, <2>1, <2>2 DEF IsToken
<1>3. QED
  BY <1>1, <1>2

\* One account is written, and tokens are revoked.
LEMMA AccountTables ==
  ASSUME IdentityTables, NEW u \in Users, NEW b, IsAccount(b), account' = [account EXCEPT ![u] = b],
         account[u].exists => b.exists, UNCHANGED organization, InvitesKept,
         NEW S \in SUBSET TokenIds, \A t \in S : token[t].state = "LIVE", token' = Revoked(S)
  PROVE  IdentityTables' /\ NothingUnmade
<1>1. /\ account' \in [Users -> AccountRows]
      /\ \A v \in Users : IsAccount(account'[v]) /\ (account[v].exists => account'[v].exists)
  BY DEF IdentityTables, IsAccount
<1>2. /\ token' \in [TokenIds -> TokenRows]
      /\ \A t \in TokenIds : IsToken(token[t])' /\ (token[t].state # "NONE" => token'[t].state # "NONE")
  BY <1>1, TokensStay
<1>3. \A v \in Users : IsAccount(account[v])'
  BY <1>1 DEF IsAccount
<1>4. QED
  BY <1>1, <1>2, <1>3 DEF IdentityTables, InvitesKept, NothingUnmade

LEMMA AccountInStep ==
  ASSUME IdentityTables, InStep, NEW u \in Users, NEW b, Matches(b),
         account' = [account EXCEPT ![u] = b],
         NEW S \in SUBSET TokenIds, \A t \in S : token[t].state = "LIVE", token' = Revoked(S),
         \A t \in TokenIds \ S : token[t].user = u /\ token[t].state = "LIVE" => b.active
  PROVE  InStep'
<1>1. account'[u] = b /\ \A v \in Users : v # u => account'[v] = account[v]
  BY DEF IdentityTables
<1>2. \A v \in Users : Matches(account[v])'
  <2>1. \A v \in Users : Matches(account'[v])
    BY <1>1 DEF InStep
  <2>2. QED
    BY <2>1 DEF Matches, HasPlace, OfficesIn
<1>3. \A t \in TokenIds :
        /\ token'[t].user = token[t].user /\ token'[t].parent = token[t].parent
        /\ t \in S => token'[t].state = "REVOKED"
        /\ t \notin S => token'[t] = token[t]
  BY RevokedFacts
<1>4. \A t \in TokenIds : token[t].state # "NONE" => token[t].user \in Users
  BY DEF IdentityTables, IsToken
<1>5. ASSUME NEW t \in TokenIds PROVE IsOpened(t)'
  <2>1. IsOpened(t)
    BY DEF InStep
  <2>2. QED
    BY <1>1, <1>3, <1>4, <2>1 DEF IsOpened
<1>6. QED
  BY <1>2, <1>5 DEF InStep

\* What becomes of the row of an account that a request writes.
LEMMA AccountMoves ==
  ASSUME IdentityInv, NEW u \in Users, NEW b, IsAccount(b), account' = [account EXCEPT ![u] = b],
         account[u].exists => b.exists, UNCHANGED organization, InvitesKept,
         NEW S \in SUBSET TokenIds, \A t \in S : token[t].state = "LIVE", token' = Revoked(S),
         NEW h \in Handlers, NEW r, Moves(h, r), IsRequest(r)',
         ~overlapped =>
           /\ Matches(b) /\ Finds(r)'
           /\ \A t \in TokenIds \ S : token[t].user = u /\ token[t].state = "LIVE" => b.active
  PROVE  IdentityInv'
<1>1. IdentityTables' /\ NothingUnmade
  BY AccountTables DEF IdentityInv
<1>2. ASSUME ~overlapped PROVE InStep'
  <2>1. IdentityTables /\ InStep
    BY <1>2 DEF IdentityInv
  <2>2. QED
    BY <1>2, <2>1, AccountInStep
<1>3. QED
  BY <1>1, <1>2, PeopleMove

\* ... without ending a session of it.
LEMMA AccountOnlyMoves ==
  ASSUME IdentityInv, NEW u \in Users, NEW b, IsAccount(b), account' = [account EXCEPT ![u] = b],
         account[u].exists => b.exists, account[u].active => b.active,
         UNCHANGED <<organization, token>>, InvitesKept,
         NEW h \in Handlers, NEW r, Moves(h, r), IsRequest(r)', ~overlapped => Finds(r)',
         Matches(account[u]) => Matches(b)
  PROVE  IdentityInv'
<1>1. PICK S \in SUBSET TokenIds : S = {}
  OBVIOUS
<1>2. token' = Revoked(S) /\ \A t \in S : token[t].state = "LIVE"
  BY <1>1, NobodyRevoked DEF IdentityInv
<1>3. ~overlapped => Matches(b)
  BY DEF IdentityInv, InStep
<1>4. ASSUME ~overlapped, NEW t \in TokenIds \ S, token[t].user = u, token[t].state = "LIVE"
      PROVE  b.active
  BY <1>4 DEF IdentityInv, InStep, IsOpened
<1>5. QED
  BY <1>2, <1>3, <1>4, AccountMoves

LEMMA GrantedIs ==
  ASSUME NEW a \in AccountRows, NEW role \in Roles, NEW o \in Organizations
  PROVE  \E b \in AccountRows :
           /\ b = Granted(a, role, o)
           /\ b.exists /\ b.active = a.active /\ b.temporary = a.temporary /\ b.password = a.password
           /\ b.roles = a.roles \cup {role} /\ b.member = a.member \cup {o}
           /\ b.admin = a.admin /\ b.offices = a.offices /\ b.employee = a.employee
<1>1. PICK b : b = Granted(a, role, o)
  OBVIOUS
<1>2. /\ b \in AccountRows
      /\ b.exists /\ b.active = a.active /\ b.temporary = a.temporary /\ b.password = a.password
      /\ b.roles = a.roles \cup {role} /\ b.member = a.member \cup {o}
      /\ b.admin = a.admin /\ b.offices = a.offices /\ b.employee = a.employee
  BY <1>1 DEF Granted, AccountRows
<1>3. QED
  BY <1>1, <1>2

LEMMA LeftIs ==
  ASSUME NEW a \in AccountRows, NEW r, NEW role
  PROVE  \E b \in AccountRows :
           /\ b = Left(a, r, role)
           /\ b.exists = a.exists /\ b.active = a.active /\ b.temporary = a.temporary
           /\ b.password = a.password
           /\ b.roles = (IF r.drop THEN a.roles \ {role} ELSE a.roles)
           /\ b.member = (IF r.leave THEN a.member \ {r.org} ELSE a.member)
           /\ b.admin = a.admin /\ b.offices = a.offices /\ b.employee = a.employee
<1>1. PICK b : b = Left(a, r, role)
  OBVIOUS
<1>2. /\ b \in AccountRows
      /\ b.exists = a.exists /\ b.active = a.active /\ b.temporary = a.temporary
      /\ b.password = a.password
      /\ b.roles = (IF r.drop THEN a.roles \ {role} ELSE a.roles)
      /\ b.member = (IF r.leave THEN a.member \ {r.org} ELSE a.member)
      /\ b.admin = a.admin /\ b.offices = a.offices /\ b.employee = a.employee
  BY <1>1 DEF Left, AccountRows
<1>3. QED
  BY <1>1, <1>2

LEMMA InviteWritten ==
  ASSUME IdentityTables, \A v \in Users : account[v].exists => account'[v].exists,
         NEW i \in InviteIds, NEW x, IsInvite(x)', invite' = [invite EXCEPT ![i] = x],
         invite[i].status # "NONE" => x.status # "NONE" /\ x.type = invite[i].type
  PROVE  InvitesKept
<1>1. x \in InviteRows
  BY DEF IsInvite
<1>2. /\ invite' \in [InviteIds -> InviteRows] /\ invite'[i] = x
      /\ \A j \in InviteIds : j # i => invite'[j] = invite[j]
  BY <1>1 DEF IdentityTables
<1>3. ASSUME NEW j \in InviteIds, j # i PROVE IsInvite(invite[j])'
  <2>1. invite'[j] = invite[j] /\ IsInvite(invite[j])
    BY <1>2, <1>3 DEF IdentityTables
  <2>2. QED
    BY <2>1 DEF IsInvite
<1>4. IsInvite(invite[i])'
  BY <1>2 DEF IsInvite
<1>5. QED
  BY <1>2, <1>3, <1>4 DEF InvitesKept

LEMMA NewInviteIs ==
  ASSUME NEW u \in Users, NEW o \in Organizations,
         NEW type \in {"EMPLOYEE", "ORG_ADMIN", "OFFICE_ADMIN"},
         type # "EMPLOYEE" => account'[u].exists
  PROVE  IsInvite(NewInvite(type, u, o))'
<1>1. PICK x : x = NewInvite(type, u, o)
  OBVIOUS
<1>2. x \in InviteRows /\ x.status = "PENDING" /\ x.user = u /\ x.org = o /\ x.type = type
  BY <1>1 DEF NewInvite, InviteRows, InviteStatuses
<1>3. IsInvite(x)'
  BY <1>2 DEF IsInvite
<1>4. QED
  BY <1>1, <1>3 DEF NewInvite, IsInvite

LEMMA InvitedKept ==
  ASSUME IdentityTables, \A v \in Users : account[v].exists => account'[v].exists,
         NEW r, r.user \in Users, r.org \in Organizations, account'[r.user].exists,
         NEW type \in {"ORG_ADMIN", "OFFICE_ADMIN"}, Invited(r, type)
  PROVE  InvitesKept
<1>1. CASE UNCHANGED invite
  BY <1>1, InvitesStay
<1>2. ASSUME NEW i \in InviteIds, FreeInvite(i),
             invite' = [invite EXCEPT ![i] = NewInvite(type, r.user, r.org)]
      PROVE  InvitesKept
  <2>1. PICK x : x = NewInvite(type, r.user, r.org)
    OBVIOUS
  <2>2. IsInvite(x)'
    <3>1. IsInvite(NewInvite(type, r.user, r.org))'
      BY NewInviteIs
    <3>2. QED
      BY <2>1, <3>1 DEF IsInvite, NewInvite
  <2>3. QED
    BY <1>2, <2>1, <2>2, InviteWritten DEF FreeInvite
<1>3. QED
  BY <1>1, <1>2 DEF Invited

-----------------------------------------------------------------------------
(* What is granted and taken *)

LEMMA MatchesMore ==
  ASSUME NEW a \in AccountRows, NEW b \in AccountRows, NEW o \in Organizations, Matches(a),
         b.member = a.member \cup {o},
         a.admin \subseteq b.admin, b.admin \subseteq a.admin \cup {o},
         a.offices \subseteq b.offices, \A f \in b.offices \ a.offices : OfficeOrg[f] = o,
         b.employee \in {a.employee, o}, b.employee = o \/ o \in b.admin \/ OfficesIn(b, o) # {},
         a.employee \in {Nowhere, b.employee},
         b.roles = a.roles \cup
           {role \in {"ORG_ADMIN"} : b.admin # {}} \cup {role \in {"OFFICE_ADMIN"} : b.offices # {}}
           \cup (b.roles \ {"ORG_ADMIN", "OFFICE_ADMIN"})
  PROVE  Matches(b)
<1>1. "ORG_ADMIN" \in b.roles <=> b.admin # {}
  BY DEF Matches
<1>2. "OFFICE_ADMIN" \in b.roles <=> b.offices # {}
  BY DEF Matches
<1>3. ASSUME NEW p \in Organizations PROVE p \in b.member <=> HasPlace(b, p)
  <2>1. p \in a.member <=> HasPlace(a, p)
    BY DEF Matches
  <2>2. CASE p = o
    BY <2>2 DEF HasPlace
  <2>3. CASE p # o
    <3>1. OfficesIn(b, p) = OfficesIn(a, p)
      BY <2>3 DEF OfficesIn
    <3>2. p \in b.admin <=> p \in a.admin
      BY <2>3
    <3>3. b.employee = p <=> a.employee = p
      BY <2>3
    <3>4. QED
      BY <2>1, <2>3, <3>1, <3>2, <3>3 DEF HasPlace
  <2>4. QED
    BY <2>2, <2>3
<1>4. b.member = {p \in Organizations : HasPlace(b, p)}
  BY <1>3 DEF AccountRows
<1>5. QED
  BY <1>1, <1>2, <1>4 DEF Matches

LEMMA AssignOrgAdminKeeps ==
  ASSUME IdentityInv, NEW h \in Handlers, AssignOrgAdmin(h) PROVE IdentityInv'
<1>1. PICK r : r = request[h]
  OBVIOUS
<1>2. r.op = "orgAdmin" /\ ~AtRest(h) /\ r.user \in Users /\ r.org \in Organizations
  BY <1>1 DEF AssignOrgAdmin, IdentityInv, IsRequest, AtRest
<1>3. PICK u \in Users, o \in Organizations, a \in AccountRows :
        u = r.user /\ o = r.org /\ a = account[u] /\ IsAccount(a)
  BY <1>2 DEF IdentityInv, IdentityTables
<1>4. PICK c \in AccountRows :
        /\ c = Granted(a, "ORG_ADMIN", o)
        /\ c.exists /\ c.active = a.active
        /\ c.roles = a.roles \cup {"ORG_ADMIN"} /\ c.member = a.member \cup {o}
        /\ c.admin = a.admin /\ c.offices = a.offices /\ c.employee = a.employee
  <2>1. "ORG_ADMIN" \in Roles
    BY DEF Roles
  <2>2. QED
    BY <2>1, GrantedIs
<1>5. PICK b : b = WithCompany(c, o)
  OBVIOUS
<1>6. /\ b \in AccountRows /\ b.exists
      /\ b.roles = a.roles \cup {"ORG_ADMIN"} /\ b.member = a.member \cup {o}
      /\ b.admin = a.admin \cup {o} /\ b.offices = a.offices /\ b.employee = a.employee
      /\ b.active = a.active
  BY <1>4, <1>5 DEF AccountRows, WithCompany
<1>7. IsAccount(b)
  BY <1>3, <1>6 DEF IsAccount
<1>8. account' = [account EXCEPT ![u] = b] /\ UNCHANGED <<organization, token>>
  BY <1>1, <1>3, <1>4, <1>5 DEF AssignOrgAdmin
<1>9. account'[u].exists /\ \A v \in Users : account[v].exists => account'[v].exists
  BY <1>6, <1>8 DEF IdentityInv, IdentityTables
<1>10. Invited(r, "ORG_ADMIN")
  BY <1>1 DEF AssignOrgAdmin
<1>11. InvitesKept
  BY <1>2, <1>3, <1>9, <1>10, InvitedKept DEF IdentityInv
<1>12. Moves(h, NoRequest)
  BY <1>2 DEF AssignOrgAdmin, Moves, Answer
<1>13. Matches(a) => Matches(b)
  <2> SUFFICES ASSUME Matches(a) PROVE Matches(b)
    OBVIOUS
  <2>1. b.roles = a.roles \cup
           {role \in {"ORG_ADMIN"} : b.admin # {}} \cup {role \in {"OFFICE_ADMIN"} : b.offices # {}}
           \cup (b.roles \ {"ORG_ADMIN", "OFFICE_ADMIN"})
    BY <1>6 DEF Matches
  <2>2. QED
    BY <1>6, <2>1, MatchesMore
<1>14. QED
  BY <1>3, <1>6, <1>7, <1>8, <1>11, <1>12, <1>13, NobodyAsks, AccountOnlyMoves

LEMMA AssignOfficeAdminKeeps ==
  ASSUME IdentityInv, NEW h \in Handlers, AssignOfficeAdmin(h) PROVE IdentityInv'
<1>1. PICK r : r = request[h]
  OBVIOUS
<1>2. /\ r.op = "officeAdmin" /\ ~AtRest(h) /\ r.user \in Users /\ r.org \in Organizations
      /\ r.offices \in SUBSET Offices /\ r.offices # {} /\ \A f \in r.offices : OfficeOrg[f] = r.org
  BY <1>1 DEF AssignOfficeAdmin, IdentityInv, IsRequest, AtRest
<1>3. PICK u \in Users, o \in Organizations, a \in AccountRows :
        u = r.user /\ o = r.org /\ a = account[u] /\ IsAccount(a)
  BY <1>2 DEF IdentityInv, IdentityTables
<1>4. CASE IsPlatform(a)
  BY <1>1, <1>2, <1>3, <1>4, PeopleEnd DEF AssignOfficeAdmin
<1>5. CASE ~IsPlatform(a)
  <2>1. PICK c \in AccountRows :
          /\ c = Granted(a, "OFFICE_ADMIN", o)
          /\ c.exists /\ c.active = a.active
          /\ c.roles = a.roles \cup {"OFFICE_ADMIN"} /\ c.member = a.member \cup {o}
          /\ c.admin = a.admin /\ c.offices = a.offices /\ c.employee = a.employee
    <3>1. "OFFICE_ADMIN" \in Roles
      BY DEF Roles
    <3>2. QED
      BY <3>1, GrantedIs
  <2>2. PICK b : b = AlsoIn(c, r.offices)
    OBVIOUS
  <2>3. /\ b \in AccountRows /\ b.exists
        /\ b.roles = a.roles \cup {"OFFICE_ADMIN"} /\ b.member = a.member \cup {o}
        /\ b.admin = a.admin /\ b.offices = a.offices \cup r.offices /\ b.employee = a.employee
        /\ b.active = a.active
    BY <1>2, <2>1, <2>2 DEF AccountRows, AlsoIn
  <2>4. IsAccount(b)
    BY <1>3, <2>3 DEF IsAccount
  <2>5. account' = [account EXCEPT ![u] = b] /\ UNCHANGED <<organization, token>>
    BY <1>1, <1>3, <1>5, <2>1, <2>2 DEF AssignOfficeAdmin
  <2>6. account'[u].exists /\ \A v \in Users : account[v].exists => account'[v].exists
    BY <2>3, <2>5 DEF IdentityInv, IdentityTables
  <2>7. Invited(r, "OFFICE_ADMIN")
    BY <1>1, <1>3, <1>5 DEF AssignOfficeAdmin
  <2>8. InvitesKept
    BY <1>2, <1>3, <2>6, <2>7, InvitedKept DEF IdentityInv
  <2>9. Moves(h, NoRequest)
    BY <1>2 DEF AssignOfficeAdmin, Moves, Answer
  <2>10. Matches(a) => Matches(b)
    <3> SUFFICES ASSUME Matches(a) PROVE Matches(b)
      OBVIOUS
    <3>1. OfficesIn(b, o) # {} /\ b.offices # {} /\ \A f \in b.offices \ a.offices : OfficeOrg[f] = o
      BY <1>2, <1>3, <2>3 DEF OfficesIn
    <3>2. b.roles = a.roles \cup
             {role \in {"ORG_ADMIN"} : b.admin # {}} \cup {role \in {"OFFICE_ADMIN"} : b.offices # {}}
             \cup (b.roles \ {"ORG_ADMIN", "OFFICE_ADMIN"})
      BY <2>3, <3>1 DEF Matches
    <3>3. QED
      BY <2>3, <3>1, <3>2, MatchesMore
  <2>11. QED
    BY <1>3, <2>3, <2>4, <2>5, <2>8, <2>9, <2>10, NobodyAsks, AccountOnlyMoves
<1>6. QED
  BY <1>4, <1>5

LEMMA EmployKeeps == ASSUME IdentityInv, NEW h \in Handlers, Employ(h) PROVE IdentityInv'
<1>1. PICK r : r = request[h]
  OBVIOUS
<1>2. /\ r.op = "employ" /\ ~AtRest(h) /\ r.user \in Users /\ r.org \in Organizations
      /\ r.password \in BOOLEAN /\ (r.i # NoOne => IsSent(r.i))
      /\ ~overlapped => Finds(r)
  BY <1>1 DEF Employ, IdentityInv, IsRequest, AtRest
<1>3. PICK u \in Users, o \in Organizations, a \in AccountRows :
        u = r.user /\ o = r.org /\ a = account[u] /\ IsAccount(a)
  BY <1>2 DEF IdentityInv, IdentityTables
<1>4. CASE ~MayBeEmployed(a)
  BY <1>1, <1>2, <1>3, <1>4, PeopleEnd DEF Employ
<1>5. CASE MayBeEmployed(a)
  <2>1. PICK c \in AccountRows :
          /\ c = Granted(a, "EMPLOYEE", o)
          /\ c.exists /\ c.active = a.active /\ c.temporary = a.temporary /\ c.password = a.password
          /\ c.roles = a.roles \cup {"EMPLOYEE"} /\ c.member = a.member \cup {o}
          /\ c.admin = a.admin /\ c.offices = a.offices /\ c.employee = a.employee
    <3>1. "EMPLOYEE" \in Roles
      BY DEF Roles
    <3>2. QED
      BY <3>1, GrantedIs
  <2>2. /\ r.password => a.password < LastPassword
        /\ account' = [account EXCEPT ![u] = Employed(a, r)]
        /\ IF r.i = NoOne THEN Answer(h) ELSE Continue(h, [op |-> "accept", i |-> r.i])
        /\ UNCHANGED <<organization, invite, token>>
    BY <1>1, <1>3, <1>5 DEF Employ
  <2>3. PICK password \in 0..LastPassword, temporary \in BOOLEAN :
          /\ password = (IF r.password /\ a.exists THEN a.password + 1 ELSE a.password)
          /\ temporary = (a.temporary /\ ~(r.password /\ r.i # NoOne))
    <3>1. a.password \in 0..LastPassword /\ a.password \in Nat
      BY DEF AccountRows
    <3>2. (IF r.password /\ a.exists THEN a.password + 1 ELSE a.password) \in 0..LastPassword
      BY <1>2, <2>2, <3>1
    <3>3. (a.temporary /\ ~(r.password /\ r.i # NoOne)) \in BOOLEAN
      OBVIOUS
    <3>4. QED
      BY <3>2, <3>3
  <2>4. PICK b : b = Employed(a, r)
    OBVIOUS
  <2>5. b = [c EXCEPT !.employee = o, !.password = password, !.temporary = temporary]
    BY <1>3, <2>1, <2>3, <2>4 DEF Employed
  <2>6. /\ b \in AccountRows /\ b.exists
        /\ b.roles = a.roles \cup {"EMPLOYEE"} /\ b.member = a.member \cup {o}
        /\ b.admin = a.admin /\ b.offices = a.offices /\ b.employee = o
        /\ b.active = a.active
    BY <2>1, <2>5 DEF AccountRows
  <2>7. IsAccount(b)
    BY <2>6 DEF IsAccount
  <2>8. account' = [account EXCEPT ![u] = b] /\ account'[u] = b /\ UNCHANGED <<organization, token>>
    BY <2>2, <2>4 DEF IdentityInv, IdentityTables
  <2>9. \A v \in Users : account[v].exists => account'[v].exists
    BY <2>6, <2>8 DEF IdentityInv, IdentityTables
  <2>10. InvitesKept
    BY <2>2, <2>9, InvitesStay DEF IdentityInv
  <2>11. Matches(a) => Matches(b)
    <3> SUFFICES ASSUME Matches(a) PROVE Matches(b)
      OBVIOUS
    <3>1. a.employee = Nowhere
      BY <1>5 DEF MayBeEmployed
    <3>2. b.roles = a.roles \cup
             {role \in {"ORG_ADMIN"} : b.admin # {}} \cup {role \in {"OFFICE_ADMIN"} : b.offices # {}}
             \cup (b.roles \ {"ORG_ADMIN", "OFFICE_ADMIN"})
      BY <2>6 DEF Matches
    <3>3. QED
      BY <2>6, <3>1, <3>2, MatchesMore
  <2>12. CASE r.i = NoOne
    <3>1. Moves(h, NoRequest)
      BY <1>2, <2>2, <2>12 DEF Moves, Answer
    <3>2. QED
      BY <1>3, <2>6, <2>7, <2>8, <2>10, <2>11, <3>1, NobodyAsks, AccountOnlyMoves
  <2>13. CASE r.i # NoOne
    <3>1. PICK q : q = [op |-> "accept", i |-> r.i]
      OBVIOUS
    <3>2. Moves(h, q)
      BY <1>2, <2>2, <2>13, <3>1 DEF Moves
    <3>3. IsRequest(q)'
      BY <1>2, <2>2, <2>13, <3>1 DEF IsRequest, IsSent
    <3>4. ~overlapped => Finds(q)'
      <4>1. q.op = "accept" /\ q.i = r.i
        BY <3>1
      <4>2. ~overlapped => /\ invite[r.i].status = "PENDING" /\ invite[r.i].type = "EMPLOYEE"
                           /\ invite[r.i].user = u /\ invite[r.i].org = o
        BY <1>2, <1>3, <2>13 DEF Finds
      <4>3. QED
        BY <2>2, <2>6, <2>8, <4>1, <4>2 DEF Finds
    <3>5. QED
      BY <1>3, <2>6, <2>7, <2>8, <2>10, <2>11, <3>2, <3>3, <3>4, AccountOnlyMoves
  <2>14. QED
    BY <2>12, <2>13
<1>6. QED
  BY <1>4, <1>5

-----------------------------------------------------------------------------
(* Withdrawals *)

LEMMA MatchesLess ==
  ASSUME NEW a \in AccountRows, NEW left \in AccountRows, NEW b \in AccountRows,
         NEW o \in Organizations, Matches(a), HasPlace(a, o),
         left.member = a.member, left.roles = a.roles, left.employee = a.employee,
         left.admin \ {o} = a.admin \ {o},
         \A f \in Offices : OfficeOrg[f] # o => (f \in left.offices <=> f \in a.offices),
         b.admin = left.admin, b.offices = left.offices, b.employee = left.employee,
         b.member = (IF HasPlace(left, o) THEN a.member ELSE a.member \ {o}),
         "ORG_ADMIN" \in b.roles <=> b.admin # {},
         "OFFICE_ADMIN" \in b.roles <=> b.offices # {}
  PROVE  Matches(b)
<1>1. ASSUME NEW p \in Organizations PROVE p \in b.member <=> HasPlace(b, p)
  <2>1. p \in a.member <=> HasPlace(a, p)
    BY DEF Matches
  <2>2. HasPlace(b, p) <=> HasPlace(left, p)
    BY DEF HasPlace, OfficesIn
  <2>3. CASE p = o
    BY <2>1, <2>2, <2>3
  <2>4. CASE p # o
    <3>1. OfficesIn(left, p) = OfficesIn(a, p)
      BY <2>4 DEF OfficesIn, AccountRows
    <3>2. p \in left.admin <=> p \in a.admin
      BY <2>4
    <3>3. HasPlace(left, p) <=> HasPlace(a, p)
      BY <3>1, <3>2 DEF HasPlace
    <3>4. QED
      BY <2>1, <2>2, <2>4, <3>3
  <2>5. QED
    BY <2>3, <2>4
<1>2. b.member = {p \in Organizations : HasPlace(b, p)}
  BY <1>1 DEF AccountRows
<1>3. QED
  BY <1>2 DEF Matches

\* A withdrawal ends the sessions of the account and its request.
LEMMA WithdrawalMoves ==
  ASSUME IdentityInv, NEW h \in Handlers, ~AtRest(h), Answer(h), UNCHANGED <<organization, invite>>,
         NEW u \in Users, NEW b, IsAccount(b), account' = [account EXCEPT ![u] = b],
         account[u].exists => b.exists, token' = SignedOut(u), ~overlapped => Matches(b)
  PROVE  IdentityInv'
<1>1. PICK S \in SUBSET TokenIds :
        /\ token' = Revoked(S)
        /\ \A t \in TokenIds : t \in S <=> token[t].user = u /\ token[t].state = "LIVE"
  BY SigningOut DEF IdentityInv
<1>2. \A v \in Users : account[v].exists => account'[v].exists
  BY DEF IdentityInv, IdentityTables
<1>3. InvitesKept
  BY <1>2, InvitesStay DEF IdentityInv
<1>4. Moves(h, NoRequest)
  BY DEF Moves, Answer
<1>5. QED
  BY <1>1, <1>3, <1>4, NobodyAsks, AccountMoves

LEMMA UnassignOrgAdminKeeps ==
  ASSUME IdentityInv, NEW h \in Handlers, UnassignOrgAdmin(h) PROVE IdentityInv'
<1>1. PICK r : r = request[h]
  OBVIOUS
<1>2. /\ r.op = "unassignOrgAdmin" /\ ~AtRest(h) /\ Withdrawing(r) /\ (~overlapped => Finds(r))
  BY <1>1 DEF UnassignOrgAdmin, IdentityInv, IsRequest, AtRest
<1>3. PICK u \in Users, o \in Organizations, a \in AccountRows :
        u = r.user /\ o = r.org /\ a = account[u] /\ IsAccount(a)
  BY <1>2 DEF IdentityInv, IdentityTables, Withdrawing
<1>4. CASE o \notin a.admin
  BY <1>1, <1>2, <1>3, <1>4, PeopleEnd DEF UnassignOrgAdmin
<1>5. CASE o \in a.admin
  <2>1. PICK left : left = WithoutCompany(a, o)
    OBVIOUS
  <2>2. /\ left \in AccountRows /\ left.exists = a.exists /\ left.member = a.member
        /\ left.roles = a.roles /\ left.employee = a.employee
        /\ left.admin = a.admin \ {o} /\ left.offices = a.offices
    BY <2>1 DEF WithoutCompany, AccountRows
  <2>3. PICK b : b = Left(left, r, "ORG_ADMIN")
    OBVIOUS
  <2>4. /\ b \in AccountRows
        /\ b.exists = left.exists
        /\ b.roles = (IF r.drop THEN left.roles \ {"ORG_ADMIN"} ELSE left.roles)
        /\ b.member = (IF r.leave THEN left.member \ {r.org} ELSE left.member)
        /\ b.admin = left.admin /\ b.offices = left.offices /\ b.employee = left.employee
    BY <2>2, <2>3 DEF Left, AccountRows
  <2>5. a.exists
    BY <1>3, <1>5 DEF IsAccount, NoAccount
  <2>6. IsAccount(b)
    BY <1>3, <2>2, <2>4, <2>5 DEF IsAccount
  <2>7. /\ account' = [account EXCEPT ![u] = b] /\ token' = SignedOut(u) /\ Answer(h)
        /\ UNCHANGED <<organization, invite>>
    BY <1>1, <1>3, <1>5, <2>1, <2>3 DEF UnassignOrgAdmin
  <2>8. ASSUME ~overlapped PROVE Matches(b)
    <3>1. r.drop = DropsRole(left.admin) /\ r.leave = ~HasPlace(left, o)
      BY <1>2, <1>3, <2>1, <2>8 DEF Finds
    <3>2. Matches(a) /\ HasPlace(a, o)
      BY <1>3, <1>5, <2>8 DEF IdentityInv, InStep, HasPlace
    <3>3. /\ "ORG_ADMIN" \in b.roles <=> b.admin # {}
          /\ "OFFICE_ADMIN" \in b.roles <=> b.offices # {}
      BY <1>5, <2>2, <2>4, <3>1, <3>2 DEF Matches, DropsRole
    <3>4. b.member = (IF HasPlace(left, o) THEN a.member ELSE a.member \ {o})
      BY <1>3, <2>2, <2>4, <3>1
    <3>5. /\ left.admin \ {o} = a.admin \ {o}
          /\ \A e \in Offices : OfficeOrg[e] # o => (e \in left.offices <=> e \in a.offices)
      BY <2>2
    <3>6. /\ b \in AccountRows /\ left \in AccountRows /\ left.member = a.member /\ left.roles = a.roles
          /\ left.employee = a.employee
          /\ b.admin = left.admin /\ b.offices = left.offices /\ b.employee = left.employee
      BY <2>2, <2>4
    <3>7. QED
      BY <3>2, <3>3, <3>4, <3>5, <3>6, MatchesLess
  <2>9. QED
    BY <1>2, <1>3, <2>2, <2>4, <2>6, <2>7, <2>8, WithdrawalMoves
<1>6. QED
  BY <1>4, <1>5

LEMMA UnassignOfficeKeeps ==
  ASSUME IdentityInv, NEW h \in Handlers, UnassignOffice(h) PROVE IdentityInv'
<1>1. PICK r : r = request[h]
  OBVIOUS
<1>2. /\ r.op = "unassignOffice" /\ ~AtRest(h) /\ Withdrawing(r) /\ (~overlapped => Finds(r))
      /\ r.office \in Offices /\ r.org = OfficeOrg[r.office]
  BY <1>1 DEF UnassignOffice, IdentityInv, IsRequest, AtRest
<1>3. PICK u \in Users, o \in Organizations, f \in Offices, a \in AccountRows :
        /\ u = r.user /\ o = r.org /\ a = account[u] /\ IsAccount(a)
        /\ f = r.office /\ o = OfficeOrg[f]
  BY <1>2 DEF IdentityInv, IdentityTables, Withdrawing
<1>4. CASE f \notin a.offices
  BY <1>1, <1>2, <1>3, <1>4, PeopleEnd DEF UnassignOffice
<1>5. CASE f \in a.offices
  <2>1. PICK left : left = WithoutOffice(a, f)
    OBVIOUS
  <2>2. /\ left \in AccountRows /\ left.exists = a.exists /\ left.member = a.member
        /\ left.roles = a.roles /\ left.employee = a.employee
        /\ left.admin = a.admin /\ left.offices = a.offices \ {f}
    BY <2>1 DEF WithoutOffice, AccountRows
  <2>3. PICK b : b = Left(left, r, "OFFICE_ADMIN")
    OBVIOUS
  <2>4. /\ b \in AccountRows
        /\ b.exists = left.exists
        /\ b.roles = (IF r.drop THEN left.roles \ {"OFFICE_ADMIN"} ELSE left.roles)
        /\ b.member = (IF r.leave THEN left.member \ {r.org} ELSE left.member)
        /\ b.admin = left.admin /\ b.offices = left.offices /\ b.employee = left.employee
    BY <2>2, <2>3 DEF Left, AccountRows
  <2>5. a.exists
    BY <1>3, <1>5 DEF IsAccount, NoAccount
  <2>6. IsAccount(b)
    BY <1>3, <2>2, <2>4, <2>5 DEF IsAccount
  <2>7. /\ account' = [account EXCEPT ![u] = b] /\ token' = SignedOut(u) /\ Answer(h)
        /\ UNCHANGED <<organization, invite>>
    BY <1>1, <1>3, <1>5, <2>1, <2>3 DEF UnassignOffice
  <2>8. ASSUME ~overlapped PROVE Matches(b)
    <3>1. r.drop = DropsRole(left.offices) /\ r.leave = ~HasPlace(left, o)
      BY <1>2, <1>3, <2>1, <2>8 DEF Finds
    <3>2. Matches(a) /\ HasPlace(a, o)
      BY <1>3, <1>5, <2>8 DEF IdentityInv, InStep, HasPlace, OfficesIn
    <3>3. /\ "ORG_ADMIN" \in b.roles <=> b.admin # {}
          /\ "OFFICE_ADMIN" \in b.roles <=> b.offices # {}
      BY <1>5, <2>2, <2>4, <3>1, <3>2 DEF Matches, DropsRole
    <3>4. b.member = (IF HasPlace(left, o) THEN a.member ELSE a.member \ {o})
      BY <1>3, <2>2, <2>4, <3>1
    <3>5. /\ left.admin \ {o} = a.admin \ {o}
          /\ \A e \in Offices : OfficeOrg[e] # o => (e \in left.offices <=> e \in a.offices)
      BY <1>3, <2>2
    <3>6. /\ b \in AccountRows /\ left \in AccountRows /\ left.member = a.member /\ left.roles = a.roles
          /\ left.employee = a.employee
          /\ b.admin = left.admin /\ b.offices = left.offices /\ b.employee = left.employee
      BY <2>2, <2>4
    <3>7. QED
      BY <3>2, <3>3, <3>4, <3>5, <3>6, MatchesLess
  <2>9. QED
    BY <1>2, <1>3, <2>2, <2>4, <2>6, <2>7, <2>8, WithdrawalMoves
<1>6. QED
  BY <1>4, <1>5

LEMMA UpdateOfficesKeeps ==
  ASSUME IdentityInv, NEW h \in Handlers, UpdateOffices(h) PROVE IdentityInv'
<1>1. PICK r : r = request[h]
  OBVIOUS
<1>2. /\ r.op = "updateOffices" /\ ~AtRest(h) /\ Withdrawing(r) /\ (~overlapped => Finds(r))
      /\ r.offices \in SUBSET Offices /\ (\A f \in r.offices : OfficeOrg[f] = r.org)
      /\ account[r.user].exists
  BY <1>1 DEF UpdateOffices, IdentityInv, IsRequest, AtRest
<1>3. PICK u \in Users, o \in Organizations, a \in AccountRows :
        /\ u = r.user /\ o = r.org /\ a = account[u] /\ IsAccount(a) /\ a.exists
  BY <1>2 DEF IdentityInv, IdentityTables, Withdrawing
<1>4. PICK left : left = WithOffices(a, o, r.offices)
  OBVIOUS
<1>5. /\ left \in AccountRows /\ left.exists = a.exists /\ left.member = a.member
      /\ left.roles = a.roles /\ left.employee = a.employee
      /\ left.admin = a.admin /\ left.offices = (a.offices \ OfficesIn(a, o)) \cup r.offices
  BY <1>2, <1>4 DEF WithOffices, AccountRows
<1>6. PICK b \in AccountRows :
        /\ b = Left(left, r, "OFFICE_ADMIN")
        /\ b.exists = left.exists
        /\ b.roles = (IF r.drop THEN left.roles \ {"OFFICE_ADMIN"} ELSE left.roles)
        /\ b.member = (IF r.leave THEN left.member \ {r.org} ELSE left.member)
        /\ b.admin = left.admin /\ b.offices = left.offices /\ b.employee = left.employee
  BY <1>5, LeftIs
<1>7. IsAccount(b)
  BY <1>3, <1>5, <1>6 DEF IsAccount
<1>8. /\ account' = [account EXCEPT ![u] = b] /\ token' = SignedOut(u) /\ Answer(h)
      /\ UNCHANGED <<organization, invite>>
  BY <1>1, <1>3, <1>4, <1>6 DEF UpdateOffices
<1>9. ASSUME ~overlapped PROVE Matches(b)
  <2>1. /\ r.drop = DropsRole(left.offices) /\ r.leave = ~HasPlace(left, o)
        /\ OfficesIn(a, o) # {}
    BY <1>2, <1>3, <1>4, <1>9 DEF Finds
  <2>2. Matches(a) /\ HasPlace(a, o) /\ a.offices # {}
    BY <1>3, <1>9, <2>1 DEF IdentityInv, InStep, HasPlace, OfficesIn
  <2>3. /\ "ORG_ADMIN" \in b.roles <=> b.admin # {}
        /\ "OFFICE_ADMIN" \in b.roles <=> b.offices # {}
    BY <1>5, <1>6, <2>1, <2>2 DEF Matches, DropsRole
  <2>4. b.member = (IF HasPlace(left, o) THEN a.member ELSE a.member \ {o})
    BY <1>3, <1>5, <1>6, <2>1
  <2>5. /\ left.admin \ {o} = a.admin \ {o}
        /\ \A e \in Offices : OfficeOrg[e] # o => (e \in left.offices <=> e \in a.offices)
    BY <1>2, <1>3, <1>5 DEF OfficesIn
  <2>6. /\ left \in AccountRows /\ left.member = a.member /\ left.roles = a.roles
        /\ left.employee = a.employee
        /\ b.admin = left.admin /\ b.offices = left.offices /\ b.employee = left.employee
    BY <1>5, <1>6
  <2>7. QED
    BY <2>2, <2>3, <2>4, <2>5, <2>6, MatchesLess
<1>10. QED
  BY <1>2, <1>3, <1>5, <1>6, <1>7, <1>8, <1>9, WithdrawalMoves

-----------------------------------------------------------------------------
(* What is done at once *)

LEMMA AccountAtOnce ==
  ASSUME IdentityInv, AtOnce, UNCHANGED <<organization, invite>>,
         NEW u \in Users, NEW b, IsAccount(b), account' = [account EXCEPT ![u] = b],
         account[u].exists => b.exists, Matches(account[u]) => Matches(b),
         token' = SignedOut(u) \/ (UNCHANGED token /\ (account[u].active => b.active))
  PROVE  IdentityInv'
<1>1. \A v \in Users : account[v].exists => account'[v].exists
  BY DEF IdentityInv, IdentityTables
<1>2. InvitesKept
  BY <1>1, InvitesStay DEF IdentityInv
<1>3. PICK S \in SUBSET TokenIds :
        /\ token' = Revoked(S) /\ \A t \in S : token[t].state = "LIVE"
        /\ ~overlapped =>
             \A t \in TokenIds \ S : token[t].user = u /\ token[t].state = "LIVE" => b.active
  <2>1. CASE token' = SignedOut(u)
    <3>1. PICK S \in SUBSET TokenIds :
            /\ SignedOut(u) = Revoked(S)
            /\ \A t \in TokenIds : t \in S <=> token[t].user = u /\ token[t].state = "LIVE"
      BY SigningOut DEF IdentityInv
    <3>2. QED
      BY <2>1, <3>1
  <2>2. CASE UNCHANGED token /\ (account[u].active => b.active)
    <3>1. PICK S \in SUBSET TokenIds : S = {}
      OBVIOUS
    <3>2. token' = Revoked(S)
      BY <2>2, <3>1, NobodyRevoked DEF IdentityInv
    <3>3. ASSUME ~overlapped, NEW t \in TokenIds, token[t].user = u, token[t].state = "LIVE"
          PROVE  b.active
      BY <2>2, <3>3 DEF IdentityInv, InStep, IsOpened
    <3>4. QED
      BY <3>1, <3>2, <3>3
  <2>3. QED
    BY <2>1, <2>2
<1>4. IdentityTables' /\ NothingUnmade
  BY <1>2, <1>3, AccountTables DEF IdentityInv
<1>5. ASSUME ~overlapped PROVE InStep'
  <2>1. IdentityTables /\ InStep /\ Matches(b)
    BY <1>5 DEF IdentityInv, InStep
  <2>2. QED
    BY <1>3, <1>5, <2>1, AccountInStep
<1>6. QED
  BY <1>4, <1>5, PeopleAtOnce

LEMMA SwitchKeeps ==
  ASSUME IdentityInv, NEW u \in Users, account[u].exists, SwitchStatus(u) PROVE IdentityInv'
<1>1. PICK a \in AccountRows : a = account[u] /\ IsAccount(a) /\ a.exists
  BY DEF IdentityInv, IdentityTables
<1>2. PICK b : b = [a EXCEPT !.active = ~a.active]
  OBVIOUS
<1>3. /\ b \in AccountRows /\ b.exists /\ b.active = ~a.active
      /\ b.roles = a.roles /\ b.member = a.member /\ b.admin = a.admin
      /\ b.offices = a.offices /\ b.employee = a.employee
  BY <1>1, <1>2 DEF AccountRows
<1>4. IsAccount(b)
  BY <1>1, <1>3 DEF IsAccount
<1>5. /\ account' = [account EXCEPT ![u] = b]
      /\ token' = SignedOut(u) \/ (UNCHANGED token /\ (a.active => b.active))
      /\ AtOnce /\ UNCHANGED <<organization, invite>>
  BY <1>1, <1>2, <1>3 DEF SwitchStatus, IdentityInv, IdentityTables
<1>6. Matches(a) => Matches(b)
  BY <1>3 DEF Matches, HasPlace, OfficesIn
<1>7. QED
  BY <1>1, <1>3, <1>4, <1>5, <1>6, AccountAtOnce

LEMMA WithPasswordIs ==
  ASSUME NEW a, IsAccount(a), a.exists, a.password < LastPassword,
         NEW temporary \in BOOLEAN, NEW active \in BOOLEAN,
         NEW b, b = WithPassword(a, temporary, active)
  PROVE  /\ IsAccount(b) /\ b.exists /\ b.active = active /\ b.temporary = temporary
         /\ b.password = a.password + 1 /\ b.password \in 0..LastPassword
         /\ b.employee = a.employee
         /\ Matches(a) => Matches(b)
<1>1. a \in AccountRows
  BY DEF IsAccount
<1>2. PICK p \in 0..LastPassword : p = a.password + 1
  BY <1>1 DEF AccountRows
<1>3. b = [a EXCEPT !.password = p, !.temporary = temporary, !.active = active]
  BY <1>2 DEF WithPassword
<1>4. /\ b \in AccountRows /\ b.exists /\ b.active = active /\ b.temporary = temporary
      /\ b.password = p /\ b.roles = a.roles /\ b.member = a.member /\ b.admin = a.admin
      /\ b.offices = a.offices /\ b.employee = a.employee
  BY <1>1, <1>3 DEF AccountRows
<1>5. Matches(a) => Matches(b)
  BY <1>4 DEF Matches, HasPlace, OfficesIn
<1>6. IsAccount(b)
  BY <1>4 DEF IsAccount
<1>7. QED
  BY <1>2, <1>4, <1>5, <1>6

LEMMA TemporaryKeeps ==
  ASSUME IdentityInv, NEW u \in Users, account[u].exists, GiveTemporaryPassword(u) PROVE IdentityInv'
<1>1. IsAccount(account[u])
  BY DEF IdentityInv, IdentityTables
<1>2. PICK b : b = WithPassword(account[u], TRUE, TRUE)
  OBVIOUS
<1>3. /\ IsAccount(b) /\ b.exists /\ (Matches(account[u]) => Matches(b))
  BY <1>1, <1>2, WithPasswordIs DEF GiveTemporaryPassword
<1>4. QED
  BY <1>2, <1>3, AccountAtOnce DEF GiveTemporaryPassword

\* Who has a place, or is an administrator of offices, has an account.
LEMMA PlacesNeedAccounts ==
  ASSUME IdentityInv, NEW u \in Users,
         \/ account[u].employee # Nowhere \/ account[u].admin # {} \/ account[u].offices # {}
  PROVE  account[u].exists
BY DEF IdentityInv, IdentityTables, IsAccount, NoAccount

LEMMA StatusKeeps == ASSUME IdentityInv, StatusNext PROVE IdentityInv'
<1>1. PICK u \in Users :
        \/ ChangeEmployeeStatus(u) \/ ChangeOrgAdminStatus(u) \/ ChangeOfficeAdminStatus(u)
        \/ ResetEmployeePassword(u) \/ ResetOrgAdminPassword(u) \/ ResetOfficeAdminPassword(u)
  BY DEF StatusNext
<1>2. account[u].employee # Nowhere \/ account[u].admin # {} \/ account[u].offices # {}
  BY <1>1 DEF ChangeEmployeeStatus, ChangeOrgAdminStatus, ChangeOfficeAdminStatus,
     ResetEmployeePassword, ResetOrgAdminPassword, ResetOfficeAdminPassword, IsOfficeAdmin, OfficesIn
<1>3. account[u].exists
  BY <1>2, PlacesNeedAccounts
<1>4. SwitchStatus(u) \/ GiveTemporaryPassword(u)
  BY <1>1 DEF ChangeEmployeeStatus, ChangeOrgAdminStatus, ChangeOfficeAdminStatus,
     ResetEmployeePassword, ResetOrgAdminPassword, ResetOfficeAdminPassword
<1>5. QED
  BY <1>3, <1>4, SwitchKeeps, TemporaryKeeps

LEMMA OrganizationsKeep == ASSUME IdentityInv, OrganizationsNext PROVE IdentityInv'
<1>1. /\ organization' \in [Organizations -> {"NONE", "ACTIVE", "INACTIVE"}]
      /\ AtOnce /\ UNCHANGED <<account, invite, token>>
  BY DEF OrganizationsNext, CreateOrganization, ChangeOrganizationStatus, IdentityInv, IdentityTables
<1>2. IdentityTables' /\ NothingUnmade
  BY <1>1 DEF IdentityInv, IdentityTables, IsAccount, IsInvite, IsToken, NothingUnmade
<1>3. InStep => InStep'
  BY <1>1 DEF InStep, Matches, IsOpened, HasPlace, OfficesIn
<1>4. QED
  BY <1>1, <1>2, <1>3, PeopleAtOnce DEF IdentityInv

\* The process ends, and its requests with it.
LEMMA RejectionKeeps ==
  ASSUME IdentityInv, NEW h \in Handlers, RejectionEndsProcess(h) PROVE IdentityInv'
<1>1. /\ request' = [g \in Handlers |-> NoRequest]
      /\ UNCHANGED <<overlapped, organization, account, invite, token>>
  BY DEF RejectionEndsProcess
<1>2. HandlersInTurn'
  BY <1>1 DEF IdentityInv, HandlersInTurn, OneInFlight, AtRest, NoRequest
<1>3. \A g \in Handlers : IsRequest(request[g])' /\ Finds(request[g])'
  BY <1>1 DEF IsRequest, Finds, NoRequest
<1>4. IdentityTables' /\ (InStep => InStep')
  BY <1>1, NothingRead
<1>5. QED
  BY <1>1, <1>2, <1>3, <1>4 DEF IdentityInv

-----------------------------------------------------------------------------
(* What is checked *)

\* Whoever checks, holds what was found.
LEMMA CheckKeeps ==
  ASSUME IdentityInv, NEW h \in Handlers, NEW r, Hold(h, r), IsRequest(r), Finds(r),
         UNCHANGED <<organization, account, invite, token>>
  PROVE  IdentityInv'
<1>1. Moves(h, r)
  BY DEF Moves
<1>2. QED
  BY <1>1, PeopleRead

LEMMA AppointmentKeeps == ASSUME IdentityInv, AppointmentNext PROVE IdentityInv'
<1>1. ASSUME NEW h \in Handlers, NEW u \in Users, NEW o \in Organizations, NEW send \in BOOLEAN,
             CheckOrgAdmin(h, u, o, send)
      PROVE  IdentityInv'
  <2>1. PICK r : r = [op |-> "orgAdmin", user |-> u, org |-> o, send |-> send]
    OBVIOUS
  <2>2. IsRequest(r) /\ Finds(r)
    BY <2>1 DEF IsRequest, Finds
  <2>3. QED
    BY <1>1, <2>1, <2>2, CheckKeeps DEF CheckOrgAdmin, Kept
<1>2. ASSUME NEW h \in Handlers, NEW u \in Users, NEW o \in Organizations, NEW send \in BOOLEAN,
             NEW offices \in SUBSET Offices, CheckOfficeAdmin(h, u, o, offices, send)
      PROVE  IdentityInv'
  <2>1. PICK r : r = [op |-> "officeAdmin", user |-> u, org |-> o, offices |-> offices, send |-> send]
    OBVIOUS
  <2>2. IsRequest(r) /\ Finds(r)
    BY <1>2, <2>1 DEF IsRequest, Finds, CheckOfficeAdmin
  <2>3. QED
    BY <1>2, <2>1, <2>2, CheckKeeps DEF CheckOfficeAdmin, Kept
<1>3. QED
  BY <1>1, <1>2, AssignOrgAdminKeeps, AssignOfficeAdminKeeps, RejectionKeeps DEF AppointmentNext

LEMMA WithdrawalKeeps == ASSUME IdentityInv, WithdrawalNext PROVE IdentityInv'
<1>1. ASSUME NEW h \in Handlers, NEW u \in Users, NEW o \in Organizations,
             CheckUnassignOrgAdmin(h, u, o)
      PROVE  IdentityInv'
  <2>1. PICK left : left = WithoutCompany(account[u], o)
    OBVIOUS
  <2>2. PICK drop \in BOOLEAN, leave \in BOOLEAN :
          drop = DropsRole(left.admin) /\ leave = ~HasPlace(left, o)
    BY DEF DropsRole, HasPlace
  <2>3. PICK r : r = [op |-> "unassignOrgAdmin", user |-> u, org |-> o, drop |-> drop, leave |-> leave]
    OBVIOUS
  <2>4. r.op = "unassignOrgAdmin" /\ r.user = u /\ r.org = o /\ r.drop = drop /\ r.leave = leave
    BY <2>3
  <2>5. IsRequest(r) /\ Finds(r)
    BY <2>1, <2>2, <2>4 DEF IsRequest, Finds, Withdrawing
  <2>6. Hold(h, r) /\ UNCHANGED <<organization, account, invite, token>>
    BY <1>1, <2>1, <2>2, <2>3 DEF CheckUnassignOrgAdmin, Kept
  <2>7. QED
    BY <2>5, <2>6, CheckKeeps
<1>2. ASSUME NEW h \in Handlers, NEW u \in Users, NEW f \in Offices, CheckUnassignOffice(h, u, f)
      PROVE  IdentityInv'
  <2>1. PICK left, o : left = WithoutOffice(account[u], f) /\ o = OfficeOrg[f]
    OBVIOUS
  <2>2. PICK drop \in BOOLEAN, leave \in BOOLEAN :
          drop = DropsRole(left.offices) /\ leave = ~HasPlace(left, o)
    BY DEF DropsRole, HasPlace
  <2>3. PICK r : r = [op |-> "unassignOffice", user |-> u, org |-> o, office |-> f,
                      drop |-> drop, leave |-> leave]
    OBVIOUS
  <2>4. /\ r.op = "unassignOffice" /\ r.user = u /\ r.org = o /\ r.office = f
        /\ r.drop = drop /\ r.leave = leave /\ o \in Organizations
    BY <2>1, <2>3
  <2>5. IsRequest(r) /\ Finds(r)
    BY <2>1, <2>2, <2>4 DEF IsRequest, Finds, Withdrawing
  <2>6. Hold(h, r) /\ UNCHANGED <<organization, account, invite, token>>
    BY <1>2, <2>1, <2>2, <2>3 DEF CheckUnassignOffice, Kept
  <2>7. QED
    BY <2>5, <2>6, CheckKeeps
<1>3. ASSUME NEW h \in Handlers, NEW u \in Users, NEW o \in Organizations,
             NEW offices \in SUBSET Offices, CheckUpdateOffices(h, u, o, offices)
      PROVE  IdentityInv'
  <2>1. PICK left : left = WithOffices(account[u], o, offices)
    OBVIOUS
  <2>2. PICK drop \in BOOLEAN, leave \in BOOLEAN :
          drop = DropsRole(left.offices) /\ leave = ~HasPlace(left, o)
    BY DEF DropsRole, HasPlace
  <2>3. PICK r : r = [op |-> "updateOffices", user |-> u, org |-> o, offices |-> offices,
                      drop |-> drop, leave |-> leave]
    OBVIOUS
  <2>4. /\ r.op = "updateOffices" /\ r.user = u /\ r.org = o /\ r.offices = offices
        /\ r.drop = drop /\ r.leave = leave
    BY <2>3
  <2>5. OfficesIn(account[u], o) # {} /\ account[u].offices # {}
    BY <1>3 DEF CheckUpdateOffices, IsOfficeAdmin, OfficesIn
  <2>6. IsRequest(r)
    BY <1>3, <2>2, <2>4, <2>5, PlacesNeedAccounts DEF IsRequest, Withdrawing, CheckUpdateOffices
  <2>7. Finds(r)
    BY <2>1, <2>2, <2>4, <2>5 DEF Finds
  <2>8. Hold(h, r) /\ UNCHANGED <<organization, account, invite, token>>
    BY <1>3, <2>1, <2>2, <2>3 DEF CheckUpdateOffices, Kept
  <2>9. QED
    BY <2>6, <2>7, <2>8, CheckKeeps
<1>4. QED
  BY <1>1, <1>2, <1>3, UnassignOrgAdminKeeps, UpdateOfficesKeeps, UnassignOfficeKeeps
  DEF WithdrawalNext

LEMMA EmploymentKeeps == ASSUME IdentityInv, EmploymentNext PROVE IdentityInv'
<1>1. ASSUME NEW h \in Handlers, NEW u \in Users, NEW o \in Organizations, NEW given \in BOOLEAN,
             CheckEmployee(h, u, o, given)
      PROVE  IdentityInv'
  <2>1. PICK password \in BOOLEAN : password = (given \/ ~account[u].exists)
    OBVIOUS
  <2>2. PICK r : r = [op |-> "employ", user |-> u, org |-> o, i |-> NoOne, password |-> password]
    OBVIOUS
  <2>3. IsRequest(r) /\ Finds(r)
    BY <2>2 DEF IsRequest, Finds
  <2>4. QED
    BY <1>1, <2>1, <2>2, <2>3, CheckKeeps DEF CheckEmployee, Kept
<1>2. QED
  BY <1>1, EmployKeeps DEF EmploymentNext

-----------------------------------------------------------------------------
-----------------------------------------------------------------------------
(* Invites *)

\* An invite is written, and nothing else.
LEMMA InviteTables ==
  ASSUME IdentityInv, UNCHANGED <<organization, account, token>>,
         NEW i \in InviteIds, NEW x, invite' = [invite EXCEPT ![i] = x], IsInvite(x),
         invite[i].status # "NONE" => x.status # "NONE" /\ x.type = invite[i].type
  PROVE  IdentityTables' /\ NothingUnmade /\ (InStep => InStep')
<1>1. IsInvite(x)'
  BY DEF IsInvite
<1>2. InvitesKept
  BY <1>1, InviteWritten DEF IdentityInv
<1>3. IdentityTables'
  BY <1>2 DEF IdentityInv, IdentityTables, IsAccount, IsToken, InvitesKept
<1>4. InStep => InStep'
  BY DEF InStep, Matches, IsOpened, HasPlace, OfficesIn
<1>5. QED
  BY <1>2, <1>3, <1>4 DEF NothingUnmade, InvitesKept

LEMMA InviteAnswered ==
  ASSUME IdentityInv, UNCHANGED <<organization, account, token>>,
         NEW i \in InviteIds, NEW x, invite' = [invite EXCEPT ![i] = x], IsInvite(x),
         invite[i].status # "NONE" => x.status # "NONE" /\ x.type = invite[i].type,
         NEW h \in Handlers, ~AtRest(h), Answer(h)
  PROVE  IdentityInv'
<1>1. IdentityTables' /\ NothingUnmade /\ (InStep => InStep')
  BY InviteTables
<1>2. Moves(h, NoRequest)
  BY DEF Moves, Answer
<1>3. IsRequest(NoRequest)' /\ Finds(NoRequest)'
  BY NobodyAsks
<1>4. ~overlapped => InStep
  BY DEF IdentityInv
<1>5. QED
  BY <1>1, <1>2, <1>3, <1>4, PeopleMove

\* An invite that was sent keeps its type, whatever becomes of it.
LEMMA MarkedIs ==
  ASSUME IdentityInv, NEW i, IsSent(i), NEW status \in InviteStatuses \ {"NONE"}
  PROVE  \E x : /\ x = [invite[i] EXCEPT !.status = status]
                /\ IsInvite(x) /\ x.status = status /\ x.type = invite[i].type
<1>1. PICK x : x = [invite[i] EXCEPT !.status = status]
  OBVIOUS
<1>2. IsInvite(invite[i]) /\ invite[i] \in InviteRows /\ invite[i].status # "NONE"
  BY DEF IdentityInv, IdentityTables, IsSent, IsInvite
<1>3. /\ x \in InviteRows /\ x.status = status /\ x.type = invite[i].type
      /\ x.user = invite[i].user /\ x.org = invite[i].org
  BY <1>1, <1>2 DEF InviteRows
<1>4. IsInvite(x)
  BY <1>2, <1>3 DEF IsInvite
<1>5. QED
  BY <1>1, <1>3, <1>4

LEMMA Marked ==
  ASSUME IdentityInv, UNCHANGED <<organization, account, token>>,
         NEW i, IsSent(i), NEW status \in InviteStatuses \ {"NONE"},
         invite' = [invite EXCEPT ![i].status = status],
         NEW h \in Handlers, ~AtRest(h), Answer(h)
  PROVE  IdentityInv'
<1>1. PICK x : /\ x = [invite[i] EXCEPT !.status = status]
               /\ IsInvite(x) /\ x.status = status /\ x.type = invite[i].type
  BY MarkedIs
<1>2. i \in InviteIds /\ invite' = [invite EXCEPT ![i] = x]
  BY <1>1 DEF IsSent
<1>3. QED
  BY <1>1, <1>2, InviteAnswered

LEMMA CreateInviteKeeps ==
  ASSUME IdentityInv, NEW h \in Handlers, NEW i \in InviteIds, CreateInvite(h, i) PROVE IdentityInv'
<1>1. PICK r : r = request[h]
  OBVIOUS
<1>2. r.op = "invite" /\ ~AtRest(h) /\ r.user \in Users /\ r.org \in Organizations
  BY <1>1 DEF CreateInvite, IdentityInv, IsRequest, AtRest
<1>3. PICK x : x = NewInvite("EMPLOYEE", r.user, r.org)
  OBVIOUS
<1>4. IsInvite(x)
  BY <1>2, <1>3 DEF IsInvite, NewInvite, InviteRows, InviteStatuses
<1>5. invite' = [invite EXCEPT ![i] = x] /\ invite[i].status = "NONE"
  BY <1>1, <1>3 DEF CreateInvite, SetInvite, FreeInvite
<1>6. UNCHANGED <<organization, account, token>> /\ Answer(h)
  BY DEF CreateInvite
<1>7. QED
  BY <1>2, <1>4, <1>5, <1>6, InviteAnswered

\* expiresAt passes, while requests go on.
LEMMA LinkExpiresKeeps ==
  ASSUME IdentityInv, NEW i \in InviteIds, LinkExpires(i) PROVE IdentityInv'
<1>1. PICK x : x = [invite[i] EXCEPT !.due = TRUE]
  OBVIOUS
<1>2. IsInvite(invite[i]) /\ invite[i] \in InviteRows /\ invite[i].status = "PENDING"
  BY DEF IdentityInv, IdentityTables, IsInvite, LinkExpires
<1>3. /\ x \in InviteRows /\ x.status = "PENDING" /\ x.type = invite[i].type
      /\ x.user = invite[i].user /\ x.org = invite[i].org
  BY <1>1, <1>2 DEF InviteRows
<1>4. IsInvite(x)
  BY <1>2, <1>3 DEF IsInvite
<1>5. invite' = [invite EXCEPT ![i] = x] /\ UNCHANGED <<organization, account, token, request, overlapped>>
  BY <1>1 DEF LinkExpires, apiVars
<1>6. IdentityTables' /\ NothingUnmade /\ (InStep => InStep')
  BY <1>2, <1>3, <1>4, <1>5, InviteTables
<1>7. \A j \in InviteIds :
        /\ invite'[j].status = invite[j].status /\ invite'[j].type = invite[j].type
        /\ invite'[j].user = invite[j].user /\ invite'[j].org = invite[j].org
  BY <1>2, <1>3, <1>5 DEF IdentityInv, IdentityTables
<1>8. HandlersInTurn'
  BY <1>5 DEF IdentityInv, HandlersInTurn, OneInFlight, AtRest
<1>9. ASSUME NEW h \in Handlers PROVE IsRequest(request[h])'
  <2>1. PICK q : q = request[h]
    OBVIOUS
  <2>2. IsRequest(q)'
    BY <1>6, <2>1, RequestsStayGood DEF IdentityInv
  <2>3. QED
    BY <1>5, <2>1, <2>2 DEF IsRequest, Withdrawing, IsSent
<1>10. ASSUME ~overlapped, NEW h \in Handlers PROVE Finds(request[h])'
  <2>1. PICK q : q = request[h]
    OBVIOUS
  <2>2. Finds(q) /\ IsRequest(q)
    BY <1>10, <2>1 DEF IdentityInv
  <2>3. /\ (q.op = "employ" /\ q.i # NoOne) => q.i \in InviteIds
        /\ q.op \in {"accept", "late", "resend", "cancelInvite", "acceptAdmin", "updateInvite"}
             => q.i \in InviteIds
    BY <2>2 DEF IsRequest, IsSent
  <2>4. Finds(q)'
    BY <1>5, <1>7, <2>2, <2>3
    DEF Finds, IsUnanswered, HasPlace, OfficesIn, WithoutCompany, WithoutOffice, WithOffices
  <2>5. QED
    BY <1>5, <2>1, <2>4 DEF Finds, IsUnanswered
<1>11. QED
  BY <1>5, <1>6, <1>8, <1>9, <1>10 DEF IdentityInv

LEMMA ResendKeeps == ASSUME IdentityInv, NEW h \in Handlers, Resend(h) PROVE IdentityInv'
<1>1. PICK i : i = request[h].i
  OBVIOUS
<1>2. IsSent(i) /\ i \in InviteIds /\ ~AtRest(h)
  BY <1>1 DEF Resend, IdentityInv, IsRequest, AtRest, IsSent
<1>3. PICK x : x = [invite[i] EXCEPT !.status = "PENDING", !.due = FALSE]
  OBVIOUS
<1>4. IsInvite(invite[i]) /\ invite[i] \in InviteRows /\ invite[i].status # "NONE"
  BY <1>2 DEF IdentityInv, IdentityTables, IsSent, IsInvite
<1>5. /\ x \in InviteRows /\ x.status = "PENDING" /\ x.type = invite[i].type
      /\ x.user = invite[i].user /\ x.org = invite[i].org
  BY <1>3, <1>4 DEF InviteRows, InviteStatuses
<1>6. IsInvite(x)
  BY <1>4, <1>5 DEF IsInvite
<1>7. invite' = [invite EXCEPT ![i] = x] /\ UNCHANGED <<organization, account, token>> /\ Answer(h)
  BY <1>1, <1>3 DEF Resend, SetInvite
<1>8. QED
  BY <1>2, <1>5, <1>6, <1>7, InviteAnswered

LEMMA UpdateInviteKeeps == ASSUME IdentityInv, NEW h \in Handlers, UpdateInvite(h) PROVE IdentityInv'
<1>1. PICK r : r = request[h]
  OBVIOUS
<1>2. PICK i : i = r.i
  OBVIOUS
<1>3. /\ IsSent(i) /\ i \in InviteIds /\ ~AtRest(h) /\ r.user \in Users
      /\ invite[i].type = "EMPLOYEE"
  BY <1>1, <1>2 DEF UpdateInvite, IdentityInv, IsRequest, AtRest, IsSent
<1>4. PICK x : x = [invite[i] EXCEPT !.user = r.user, !.due = FALSE]
  OBVIOUS
<1>5. IsInvite(invite[i]) /\ invite[i] \in InviteRows /\ invite[i].status # "NONE"
  BY <1>3 DEF IdentityInv, IdentityTables, IsSent, IsInvite
<1>6. /\ x \in InviteRows /\ x.status = invite[i].status /\ x.type = invite[i].type
      /\ x.user = r.user /\ x.org = invite[i].org
  BY <1>3, <1>4, <1>5 DEF InviteRows
<1>7. IsInvite(x)
  BY <1>3, <1>5, <1>6 DEF IsInvite
<1>8. invite' = [invite EXCEPT ![i] = x] /\ UNCHANGED <<organization, account, token>> /\ Answer(h)
  BY <1>1, <1>2, <1>4 DEF UpdateInvite, SetInvite
<1>9. QED
  BY <1>3, <1>6, <1>7, <1>8, InviteAnswered

LEMMA MarkingKeeps ==
  ASSUME IdentityInv, NEW h \in Handlers, MarkExpired(h) \/ AcceptEmployee(h) \/ CancelInvite(h)
  PROVE  IdentityInv'
<1>1. PICK i : i = request[h].i
  OBVIOUS
<1>2. IsSent(i) /\ ~AtRest(h)
  BY <1>1 DEF MarkExpired, AcceptEmployee, CancelInvite, IdentityInv, IsRequest, AtRest
<1>3. PICK status \in {"EXPIRED", "ACCEPTED", "CANCELLED"} :
        invite' = [invite EXCEPT ![i].status = status]
  BY <1>1 DEF MarkExpired, AcceptEmployee, CancelInvite
<1>4. UNCHANGED <<organization, account, token>> /\ Answer(h)
  BY DEF MarkExpired, AcceptEmployee, CancelInvite
<1>5. status \in InviteStatuses \ {"NONE"}
  BY DEF InviteStatuses
<1>6. QED
  BY <1>2, <1>3, <1>4, <1>5, Marked

LEMMA AcceptAdminKeeps == ASSUME IdentityInv, NEW h \in Handlers, AcceptAdmin(h) PROVE IdentityInv'
<1>1. PICK r : r = request[h]
  OBVIOUS
<1>2. PICK i : i = r.i
  OBVIOUS
<1>3. /\ IsSent(i) /\ i \in InviteIds /\ ~AtRest(h) /\ r.user \in Users /\ account[r.user].exists
      /\ IsAccount(account[r.user])
  BY <1>1, <1>2 DEF AcceptAdmin, IdentityInv, IdentityTables, IsRequest, AtRest, IsSent
<1>4. /\ invite' = [invite EXCEPT ![i].status = "ACCEPTED"]
      /\ UNCHANGED organization /\ Answer(h)
  BY <1>1, <1>2 DEF AcceptAdmin
<1>5. "ACCEPTED" \in InviteStatuses \ {"NONE"}
  BY DEF InviteStatuses
<1>6. CASE ~r.password
  <2>1. UNCHANGED <<organization, account, token>>
    BY <1>1, <1>6 DEF AcceptAdmin
  <2>2. QED
    BY <1>3, <1>4, <1>5, <2>1, Marked
<1>7. CASE r.password
  <2>1. PICK u \in Users : u = r.user
    BY <1>3
  <2>2. PICK b : b = WithPassword(account[u], FALSE, TRUE)
    OBVIOUS
  <2>3. /\ account[u].password < LastPassword
        /\ account' = [account EXCEPT ![u] = b] /\ token' = SignedOut(u)
    BY <1>1, <1>7, <2>1, <2>2 DEF AcceptAdmin
  <2>4. IsAccount(b) /\ b.exists /\ (Matches(account[u]) => Matches(b))
    BY <1>3, <2>1, <2>2, <2>3, WithPasswordIs
  <2>5. PICK S \in SUBSET TokenIds :
          /\ SignedOut(u) = Revoked(S)
          /\ \A t \in TokenIds : t \in S <=> token[t].user = u /\ token[t].state = "LIVE"
    BY SigningOut DEF IdentityInv
  <2>6. PICK x : /\ x = [invite[i] EXCEPT !.status = "ACCEPTED"]
                 /\ IsInvite(x) /\ x.status = "ACCEPTED" /\ x.type = invite[i].type
    BY <1>3, <1>5, MarkedIs
  <2>7. \A v \in Users : account[v].exists => account'[v].exists
    BY <2>3, <2>4 DEF IdentityInv, IdentityTables
  <2>8. IsInvite(x)'
    BY <2>6, <2>7 DEF IsInvite
  <2>9. invite' = [invite EXCEPT ![i] = x]
    BY <1>3, <1>4, <2>6
  <2>10. InvitesKept
    <3>1. IdentityTables
      BY DEF IdentityInv
    <3>2. QED
      BY <1>3, <2>6, <2>7, <2>8, <2>9, <3>1, InviteWritten
  <2>11. Moves(h, NoRequest) /\ IsRequest(NoRequest)' /\ Finds(NoRequest)'
    BY <1>3, <1>4, NobodyAsks DEF Moves, Answer
  <2>12. ~overlapped => Matches(b)
    BY <2>4 DEF IdentityInv, InStep
  <2>13. QED
    BY <1>4, <2>3, <2>4, <2>5, <2>10, <2>11, <2>12, AccountMoves
<1>8. QED
  BY <1>6, <1>7

LEMMA InvitesKeep == ASSUME IdentityInv, InvitesNext PROVE IdentityInv'
<1>1. ASSUME NEW h \in Handlers, NEW u \in Users, NEW o \in Organizations, CheckInvite(h, u, o)
      PROVE  IdentityInv'
  <2>1. PICK r : r = [op |-> "invite", user |-> u, org |-> o]
    OBVIOUS
  <2>2. IsRequest(r) /\ Finds(r)
    BY <2>1 DEF IsRequest, Finds
  <2>3. QED
    BY <1>1, <2>1, <2>2, CheckKeeps DEF CheckInvite, HoldInvite, Kept
<1>2. ASSUME NEW h \in Handlers, NEW i \in InviteIds, OpenLateLink(h, i) PROVE IdentityInv'
  <2>1. PICK r : r = [op |-> "late", i |-> i]
    OBVIOUS
  <2>2. IsRequest(r) /\ Finds(r)
    BY <1>2, <2>1 DEF IsRequest, Finds, IsSent, OpenLateLink
  <2>3. QED
    BY <1>2, <2>1, <2>2, CheckKeeps DEF OpenLateLink, HoldInvite, Kept
<1>3. ASSUME NEW h \in Handlers, NEW i \in InviteIds, CheckAcceptAdmin(h, i) PROVE IdentityInv'
  <2>1. /\ invite[i].status = "PENDING" /\ invite[i].type # "EMPLOYEE"
        /\ invite[i].user \in Users /\ account[invite[i].user].exists
    BY <1>3 DEF CheckAcceptAdmin, IsUsable, IdentityInv, IdentityTables, IsInvite
  <2>2. PICK u \in Users : u = invite[i].user
    BY <2>1
  <2>3. PICK password \in BOOLEAN : password = account[u].temporary
    BY DEF IdentityInv, IdentityTables, AccountRows
  <2>4. PICK r : r = [op |-> "acceptAdmin", i |-> i, user |-> u, password |-> password]
    OBVIOUS
  <2>5. r.op = "acceptAdmin" /\ r.i = i /\ r.user = u /\ r.password = password
    BY <2>4
  <2>6. IsRequest(r) /\ Finds(r)
    BY <2>1, <2>2, <2>3, <2>5 DEF IsRequest, Finds, IsSent
  <2>7. Hold(h, r) /\ UNCHANGED <<organization, account, invite, token>>
    BY <1>3, <2>2, <2>3, <2>4 DEF CheckAcceptAdmin, HoldInvite, Kept
  <2>8. QED
    BY <2>6, <2>7, CheckKeeps
<1>4. ASSUME NEW h \in Handlers, NEW i \in InviteIds, CheckAcceptEmployee(h, i) PROVE IdentityInv'
  <2>1. /\ invite[i].status = "PENDING" /\ invite[i].type = "EMPLOYEE"
        /\ invite[i].user \in Users /\ invite[i].org \in Organizations
    BY <1>4 DEF CheckAcceptEmployee, IsUsable, IdentityInv, IdentityTables, IsInvite
  <2>2. PICK u \in Users, o \in Organizations : u = invite[i].user /\ o = invite[i].org
    BY <2>1
  <2>3. PICK password \in BOOLEAN : password = (~account[u].exists \/ account[u].temporary)
    OBVIOUS
  <2>4. PICK r : r = [op |-> "employ", user |-> u, org |-> o, i |-> i, password |-> password]
    OBVIOUS
  <2>5. r.op = "employ" /\ r.i = i /\ r.user = u /\ r.org = o /\ r.password = password
    BY <2>4
  <2>6. IsRequest(r) /\ Finds(r)
    BY <2>1, <2>2, <2>5 DEF IsRequest, Finds, IsSent
  <2>7. Hold(h, r) /\ UNCHANGED <<organization, account, invite, token>>
    BY <1>4, <2>2, <2>3, <2>4 DEF CheckAcceptEmployee, HoldInvite, Kept
  <2>8. QED
    BY <2>6, <2>7, CheckKeeps
<1>5. ASSUME NEW h \in Handlers, NEW i \in InviteIds, CheckResend(h, i) PROVE IdentityInv'
  <2>1. PICK r : r = [op |-> "resend", i |-> i]
    OBVIOUS
  <2>2. IsRequest(r) /\ Finds(r)
    BY <1>5, <2>1 DEF IsRequest, Finds, IsSent, IsUnanswered, CheckResend
  <2>3. QED
    BY <1>5, <2>1, <2>2, CheckKeeps DEF CheckResend, HoldInvite, Kept
<1>6. ASSUME NEW h \in Handlers, NEW i \in InviteIds, CheckCancelInvite(h, i) PROVE IdentityInv'
  <2>1. PICK r : r = [op |-> "cancelInvite", i |-> i]
    OBVIOUS
  <2>2. IsRequest(r) /\ Finds(r)
    BY <1>6, <2>1 DEF IsRequest, Finds, IsSent, IsUnanswered, CheckCancelInvite
  <2>3. QED
    BY <1>6, <2>1, <2>2, CheckKeeps DEF CheckCancelInvite, HoldInvite, Kept
<1>7. ASSUME NEW h \in Handlers, NEW i \in InviteIds, NEW u \in Users, CheckUpdateInvite(h, i, u)
      PROVE  IdentityInv'
  <2>1. PICK r : r = [op |-> "updateInvite", i |-> i, user |-> u]
    OBVIOUS
  <2>2. IsRequest(r) /\ Finds(r)
    BY <1>7, <2>1 DEF IsRequest, Finds, IsSent, CheckUpdateInvite
  <2>3. QED
    BY <1>7, <2>1, <2>2, CheckKeeps DEF CheckUpdateInvite, HoldInvite, Kept
<1>8. QED
  BY <1>1, <1>2, <1>3, <1>4, <1>5, <1>6, <1>7, CreateInviteKeeps, LinkExpiresKeeps, ResendKeeps,
     UpdateInviteKeeps, MarkingKeeps, AcceptAdminKeeps, EmployKeeps
  DEF InvitesNext

-----------------------------------------------------------------------------
-----------------------------------------------------------------------------
(* Sessions *)

\* Tokens are written by a request, and nothing else.
LEMMA TokensMove ==
  ASSUME IdentityInv, UNCHANGED <<organization, account, invite>>,
         token' \in [TokenIds -> TokenRows],
         \A t \in TokenIds : IsToken(token[t])' /\ (token[t].state # "NONE" => token'[t].state # "NONE"),
         NEW h \in Handlers, NEW r, Moves(h, r), IsRequest(r)',
         ~overlapped => Finds(r)' /\ \A t \in TokenIds : IsOpened(t)'
  PROVE  IdentityInv'
<1>1. IdentityTables' /\ NothingUnmade
  BY DEF IdentityInv, IdentityTables, IsAccount, IsInvite, NothingUnmade
<1>2. (\A u \in Users : Matches(account[u])) => (\A u \in Users : Matches(account[u])')
  BY DEF Matches, HasPlace, OfficesIn
<1>3. ~overlapped => InStep'
  BY <1>2 DEF IdentityInv, InStep
<1>4. QED
  BY <1>1, <1>3, PeopleMove

LEMMA IssueKeeps ==
  ASSUME IdentityInv, NEW h \in Handlers, NEW t \in TokenIds, Issue(h, t) PROVE IdentityInv'
<1>1. PICK r : r = request[h]
  OBVIOUS
<1>2. /\ r.op = "issue" /\ ~AtRest(h) /\ r \in SessionRequests /\ account[r.user].exists
      /\ r.parent # NoOne => token[r.parent].state # "NONE"
      /\ ~overlapped => Finds(r)
  BY <1>1 DEF Issue, IdentityInv, IsRequest, AtRest
<1>3. PICK u \in Users, p \in TokenIds \cup {NoOne} :
        u = r.user /\ p = r.parent
  BY <1>2 DEF SessionRequests
<1>4. PICK x : x = [state |-> "LIVE", user |-> r.user, context |-> r.context,
                    password |-> r.password, parent |-> r.parent]
  OBVIOUS
<1>5. x \in TokenRows /\ x.state = "LIVE" /\ x.user = u /\ x.parent = p
  BY <1>2, <1>3, <1>4 DEF SessionRequests, TokenRows
<1>6. /\ token[t].state = "NONE" /\ token' = [GivenUp(p) EXCEPT ![t] = x]
      /\ UNCHANGED <<organization, account, invite>> /\ Answer(h)
  BY <1>1, <1>3, <1>4 DEF Issue
<1>7. \A s \in TokenIds : token[s] \in TokenRows /\ IsToken(token[s])
  BY DEF IdentityInv, IdentityTables
<1>8. p # t
  BY <1>2, <1>3, <1>6
<1>9. /\ token' \in [TokenIds -> TokenRows] /\ token'[t] = x
      /\ \A s \in TokenIds \ {t} :
           /\ token'[s].user = token[s].user /\ token'[s].parent = token[s].parent
           /\ s = p => token'[s].state = "REVOKED"
           /\ s # p => token'[s] = token[s]
  <2>1. CASE p = NoOne
    BY <1>5, <1>6, <2>1 DEF GivenUp, IdentityInv, IdentityTables
  <2>2. CASE p \in TokenIds
    <3>1. PICK y : y = [token[p] EXCEPT !.state = "REVOKED"]
      OBVIOUS
    <3>2. y \in TokenRows /\ y.state = "REVOKED" /\ y.user = token[p].user /\ y.parent = token[p].parent
      BY <1>7, <2>2, <3>1 DEF TokenRows
    <3>3. GivenUp(p) = [token EXCEPT ![p] = y]
      BY <2>2, <3>1 DEF GivenUp
    <3>4. QED
      BY <1>5, <1>6, <1>8, <2>2, <3>2, <3>3 DEF IdentityInv, IdentityTables
  <2>3. QED
    BY <2>1, <2>2
<1>10. \A s \in TokenIds : token[s].state = "REVOKED" => token'[s].state = "REVOKED"
  BY <1>6, <1>9
<1>11. ASSUME NEW s \in TokenIds PROVE IsToken(token[s])' /\ (token[s].state # "NONE" => token'[s].state # "NONE")
  <2>1. CASE s = t
    BY <1>2, <1>3, <1>5, <1>6, <1>8, <1>9, <2>1 DEF IsToken
  <2>2. CASE s # t
    <3>1. token[s].parent # NoOne => token[s].parent \in TokenIds
      BY <1>7 DEF TokenRows
    <3>2. token'[s] \in TokenRows
      BY <1>9
    <3>3. token'[s].state # "NONE" => token[s].state # "NONE"
      BY <1>2, <1>3, <1>9, <2>2
    <3>4. QED
      BY <1>6, <1>7, <1>9, <1>10, <2>2, <3>1, <3>2, <3>3 DEF IsToken
  <2>3. QED
    BY <2>1, <2>2
<1>12. ASSUME ~overlapped, NEW s \in TokenIds PROVE IsOpened(s)'
  <2>1. /\ account[u].active /\ (p # NoOne => token[p].state = "LIVE")
        /\ \A q \in TokenIds : IsOpened(q)
    BY <1>2, <1>3, <1>12 DEF Finds, IdentityInv, InStep
  <2>2. \A q \in TokenIds : token[q].parent = p => p = NoOne
    BY <1>7, <2>1 DEF IsToken
  <2>3. token'[s].state = "LIVE" => account'[token'[s].user].active
    BY <1>5, <1>6, <1>9, <2>1 DEF IsOpened
  <2>4. ASSUME NEW q \in TokenIds, token'[q].parent = token'[s].parent, token'[s].parent # NoOne
        PROVE  q = s
    BY <1>5, <1>9, <2>1, <2>2, <2>4 DEF IsOpened
  <2>5. QED
    BY <2>3, <2>4 DEF IsOpened
<1>13. Moves(h, NoRequest) /\ IsRequest(NoRequest)' /\ Finds(NoRequest)'
  BY <1>2, <1>6, NobodyAsks DEF Moves, Answer
<1>14. QED
  BY <1>6, <1>9, <1>11, <1>12, <1>13, TokensMove

LEMMA IdentifyKeeps == ASSUME IdentityInv, NEW h \in Handlers, Identify(h) PROVE IdentityInv'
<1>1. PICK r : r = request[h]
  OBVIOUS
<1>2. /\ r.op = "identify" /\ ~AtRest(h) /\ r \in SessionRequests /\ account[r.user].exists
      /\ r.parent # NoOne => token[r.parent].state # "NONE"
      /\ ~overlapped => Finds(r)
      /\ UNCHANGED <<organization, account, invite, token>>
  BY <1>1 DEF Identify, IdentityInv, IsRequest, AtRest
<1>3. CASE ~MaySignIn(account[r.user], r.context)
  BY <1>1, <1>2, <1>3, PeopleEnd DEF Identify
<1>4. CASE MaySignIn(account[r.user], r.context)
  <2>1. PICK q : q = [r EXCEPT !.op = "issue"]
    OBVIOUS
  <2>2. q \in SessionRequests /\ q.op = "issue" /\ q.user = r.user /\ q.parent = r.parent
    BY <1>2, <2>1 DEF SessionRequests
  <2>3. Moves(h, q)
    BY <1>1, <1>2, <1>4, <2>1 DEF Identify, Moves
  <2>4. IsRequest(q)
    BY <1>2, <2>2 DEF IsRequest
  <2>5. ~overlapped => Finds(q)
    BY <1>2, <1>4, <2>2 DEF Finds, MaySignIn
  <2>6. QED
    BY <1>2, <2>3, <2>4, <2>5, PeopleRead
<1>5. QED
  BY <1>3, <1>4

LEMMA ChangePasswordKeeps ==
  ASSUME IdentityInv, NEW h \in Handlers, ChangePassword(h) PROVE IdentityInv'
<1>1. PICK r : r = request[h]
  OBVIOUS
<1>2. /\ r.op = "changePassword" /\ ~AtRest(h) /\ r \in SessionRequests
      /\ r.user \in Users /\ account[r.user].exists /\ r.parent = NoOne
      /\ IsAccount(account[r.user]) /\ account[r.user] \in AccountRows
  BY <1>1 DEF ChangePassword, IdentityInv, IdentityTables, IsRequest, AtRest, SessionRequests
<1>3. PICK u \in Users : u = r.user
  BY <1>2
<1>4. PICK active \in BOOLEAN : active = account[u].active
  BY <1>2, <1>3 DEF AccountRows
<1>5. PICK b : b = WithPassword(account[u], FALSE, active)
  OBVIOUS
<1>6. /\ account[u].password < LastPassword
      /\ account' = [account EXCEPT ![u] = b] /\ token' = SignedOut(u)
      /\ Continue(h, [r EXCEPT !.op = "identify", !.password = account'[u].password])
      /\ UNCHANGED <<organization, invite>>
  BY <1>1, <1>3, <1>4, <1>5 DEF ChangePassword
<1>7. /\ IsAccount(b) /\ b.exists /\ b.password \in 0..LastPassword
      /\ Matches(account[u]) => Matches(b)
  BY <1>2, <1>3, <1>5, <1>6, WithPasswordIs
<1>8. account'[u] = b /\ \A v \in Users : account[v].exists => account'[v].exists
  BY <1>6, <1>7 DEF IdentityInv, IdentityTables
<1>9. InvitesKept
  BY <1>6, <1>8, InvitesStay DEF IdentityInv
<1>10. PICK S \in SUBSET TokenIds :
         /\ SignedOut(u) = Revoked(S)
         /\ \A t \in TokenIds : t \in S <=> token[t].user = u /\ token[t].state = "LIVE"
  BY SigningOut DEF IdentityInv
<1>11. PICK q : q = [r EXCEPT !.op = "identify", !.password = b.password]
  OBVIOUS
<1>12. q \in SessionRequests /\ q.op = "identify" /\ q.user = u /\ q.parent = NoOne
  BY <1>2, <1>3, <1>7, <1>11 DEF SessionRequests
<1>13. Moves(h, q)
  BY <1>2, <1>6, <1>8, <1>11 DEF Moves
<1>14. IsRequest(q)' /\ Finds(q)'
  BY <1>7, <1>8, <1>12 DEF IsRequest, Finds
<1>15. ~overlapped => Matches(b)
  BY <1>7 DEF IdentityInv, InStep
<1>16. QED
  BY <1>6, <1>7, <1>9, <1>10, <1>13, <1>14, <1>15, AccountMoves

LEMMA LogoutKeeps == ASSUME IdentityInv, NEW t \in TokenIds, Logout(t) PROVE IdentityInv'
<1>1. PICK S \in SUBSET TokenIds : S = {t}
  OBVIOUS
<1>2. token' = Revoked(S) /\ \A s \in S : token[s].state = "LIVE"
  BY <1>1 DEF Logout, IsGood, Revoked, IdentityInv, IdentityTables
<1>3. UNCHANGED <<organization, account, invite>> /\ AtOnce
  BY DEF Logout
<1>4. /\ token' \in [TokenIds -> TokenRows]
      /\ \A s \in TokenIds : IsToken(token[s])' /\ (token[s].state # "NONE" => token'[s].state # "NONE")
  BY <1>2, <1>3, TokensStay DEF IdentityInv
<1>5. IdentityTables' /\ NothingUnmade
  BY <1>3, <1>4 DEF IdentityInv, IdentityTables, IsAccount, IsInvite, NothingUnmade
<1>6. \A s \in TokenIds :
        /\ token'[s].user = token[s].user /\ token'[s].parent = token[s].parent
        /\ token'[s].state = "LIVE" => token[s].state = "LIVE"
  BY <1>2, RevokedFacts DEF IdentityInv
<1>7. InStep => InStep'
  BY <1>3, <1>6 DEF InStep, Matches, IsOpened, HasPlace, OfficesIn
<1>8. QED
  BY <1>3, <1>5, <1>7, PeopleAtOnce DEF IdentityInv

LEMMA SessionsKeep == ASSUME IdentityInv, SessionsNext PROVE IdentityInv'
<1>1. \A u \in Users : account[u].password \in 0..LastPassword
  BY DEF IdentityInv, IdentityTables, AccountRows
<1>2. ASSUME NEW h \in Handlers, NEW u \in Users, NEW context \in AllContexts,
             CheckLogin(h, u, context) \/ CheckChangePassword(h, u, context)
      PROVE  IdentityInv'
  <2>1. PICK op \in {"identify", "changePassword"} :
          /\ Hold(h, ToSession(op, u, context, account[u].password, NoOne))
          /\ account[u].exists /\ UNCHANGED <<organization, account, invite, token>>
    BY <1>2 DEF CheckLogin, CheckChangePassword
  <2>2. PICK r : r = ToSession(op, u, context, account[u].password, NoOne)
    OBVIOUS
  <2>3. r \in SessionRequests /\ r.op = op /\ r.user = u /\ r.parent = NoOne
    BY <1>1, <2>2 DEF ToSession, SessionRequests
  <2>4. IsRequest(r) /\ Finds(r)
    BY <2>1, <2>3 DEF IsRequest, Finds
  <2>5. QED
    BY <2>1, <2>2, <2>4, CheckKeeps
<1>3. ASSUME NEW h \in Handlers, NEW t \in TokenIds, NEW context \in AllContexts,
             CheckRefresh(h, t, context)
      PROVE  IdentityInv'
  <2>1. /\ token[t] \in TokenRows /\ token[t].state = "LIVE" /\ token[t].user \in Users
        /\ account[token[t].user].exists
    BY <1>3 DEF CheckRefresh, IsGood, IdentityInv, IdentityTables, IsToken
  <2>2. PICK r : r = ToSession("identify", token[t].user, context, token[t].password, t)
    OBVIOUS
  <2>3. r \in SessionRequests /\ r.op = "identify" /\ r.user = token[t].user /\ r.parent = t
    BY <2>1, <2>2 DEF ToSession, SessionRequests, TokenRows
  <2>4. IsRequest(r) /\ Finds(r)
    BY <2>1, <2>3 DEF IsRequest, Finds
  <2>5. QED
    BY <1>3, <2>2, <2>4, CheckKeeps DEF CheckRefresh
<1>4. QED
  BY <1>2, <1>3, IssueKeeps, IdentifyKeeps, ChangePasswordKeeps, LogoutKeeps DEF SessionsNext

-----------------------------------------------------------------------------
LEMMA IdentityStarts == IdentityInit => IdentityInv
<1> SUFFICES ASSUME IdentityInit PROVE IdentityInv
  OBVIOUS
<1>1. NoAccount \in AccountRows /\ IsAccount(NoAccount) /\ Matches(NoAccount)
  BY DEF NoAccount, AccountRows, IsAccount, Matches, HasPlace, OfficesIn, Roles
<1>2. PICK b : b = PlatformAccount
  OBVIOUS
<1>3. /\ b \in AccountRows /\ b.exists /\ b.roles = {"SUPER_ADMIN"} /\ b.member = {} /\ b.admin = {}
      /\ b.offices = {} /\ b.employee = Nowhere
  <2>1. b = [NoAccount EXCEPT !.exists = TRUE, !.roles = {"SUPER_ADMIN"}] /\ "SUPER_ADMIN" \in Roles
    BY <1>2 DEF PlatformAccount, Roles
  <2>2. b \in AccountRows /\ b.exists /\ b.roles = {"SUPER_ADMIN"}
    BY <1>1, <2>1 DEF AccountRows
  <2>3. QED
    BY <2>1, <2>2 DEF NoAccount
<1>4. IsAccount(b) /\ Matches(b)
  BY <1>3 DEF IsAccount, Matches, HasPlace, OfficesIn
<1>5. /\ account \in [Users -> AccountRows]
      /\ \A u \in Users : IsAccount(account[u]) /\ Matches(account[u])
  BY <1>1, <1>2, <1>3, <1>4 DEF IdentityInit, SeededAccounts
<1>6. NoInvite \in InviteRows /\ IsInvite(NoInvite)
  BY DEF NoInvite, InviteRows, InviteStatuses, IsInvite
<1>7. NoToken \in TokenRows /\ IsToken(NoToken) /\ NoToken.state = "NONE" /\ NoToken.parent = NoOne
  <2>1. 0 \in 0..LastPassword
    OBVIOUS
  <2>2. QED
    BY <2>1 DEF NoToken, TokenRows, IsToken
<1>8. IdentityTables
  BY <1>5, <1>6, <1>7 DEF IdentityInit, IdentityTables
<1>9. InStep
  BY <1>5, <1>7 DEF IdentityInit, InStep, IsOpened
<1>10. HandlersInTurn /\ \A h \in Handlers : request[h] = NoRequest
  BY DEF IdentityInit, ApiInit, HandlersInTurn, OneInFlight, AtRest, NoRequest
<1>11. QED
  BY <1>8, <1>9, <1>10, NobodyAsks DEF IdentityInv

LEMMA IdentityMoves == ASSUME IdentityInv, [IdentityNext]_identityVars PROVE IdentityInv'
<1>1. ASSUME IdentityFailure PROVE IdentityInv'
  BY <1>1, PeopleEnd DEF IdentityFailure, BreakOff
<1>2. ASSUME UNCHANGED identityVars PROVE IdentityInv'
  <2>1. UNCHANGED <<organization, account, invite, token, request, overlapped>>
    BY <1>2 DEF identityVars, apiVars
  <2>2. IdentityTables' /\ (InStep => InStep')
    BY <2>1, NothingRead
  <2>3. HandlersInTurn'
    BY <2>1 DEF IdentityInv, HandlersInTurn, OneInFlight, AtRest
  <2>4. \A h \in Handlers : IsRequest(request[h])'
    BY <2>1 DEF IdentityInv, IsRequest, Withdrawing, IsSent
  <2>5. \A h \in Handlers : Finds(request[h]) => Finds(request[h])'
    BY <2>1 DEF Finds, IsUnanswered, HasPlace, OfficesIn, WithoutCompany, WithoutOffice, WithOffices
  <2>6. QED
    BY <2>1, <2>2, <2>3, <2>4, <2>5 DEF IdentityInv
<1>3. ASSUME AccountsNext PROVE IdentityInv'
  BY <1>3, OrganizationsKeep, StatusKeeps, AppointmentKeeps, WithdrawalKeeps, EmploymentKeeps
  DEF AccountsNext
<1>4. QED
  BY <1>1, <1>2, <1>3, InvitesKeep, SessionsKeep DEF IdentityNext

LEMMA IdentityIsKept == IdentitySpec => []IdentityInv
<1>1. IdentityInv /\ [IdentityNext]_identityVars => IdentityInv'
  BY IdentityMoves
<1>2. QED
  BY IdentityStarts, <1>1, PTL DEF IdentitySpec

\* Whoever is assigned somewhere has the role, the membership and the context
\* for it, and what the tables keep of an account agrees, while requests come
\* in turn.
THEOREM TablesOfAccountsAgree == IdentitySpec => []AccountsAgree
<1>1. ASSUME IdentityInv PROVE AccountsAgree
  <2>1. IdentityTypeOK
    BY <1>1 DEF IdentityInv, IdentityTables, IdentityTypeOK, IsAccount, IsInvite, IsToken,
       AccountRows, InviteRows, TokenRows, FreeInvite
  <2>2. WhoBelongsCanEnter
    <3> SUFFICES ASSUME NEW u \in Users, NEW o \in Organizations, IsOpen(o)
                 PROVE  /\ o \in account[u].admin => <<"org_admin", o>> \in Contexts(account[u])
                        /\ o = account[u].employee => <<"employee", o>> \in Contexts(account[u])
      BY DEF WhoBelongsCanEnter
    <3>1. o = account[u].employee => "EMPLOYEE" \in account[u].roles
      BY <1>1 DEF IdentityInv, IdentityTables, IsAccount
    <3>2. (o \in account[u].admin \/ o = account[u].employee) => o \in Known(account[u])
      BY DEF Known
    <3>3. o \in account[u].admin => <<"org_admin", o>> \in Contexts(account[u])
      BY <3>2 DEF Contexts
    <3>4. o = account[u].employee => <<"employee", o>> \in Contexts(account[u])
      BY <3>1, <3>2 DEF Contexts
    <3>5. QED
      BY <3>3, <3>4
  <2>3. RolesMatchPlaces
    BY <1>1 DEF IdentityInv, InStep, Matches, RolesMatchPlaces, InTurn
  <2>4. QED
    BY <2>1, <2>2, <2>3 DEF AccountsAgree
<1>2. QED
  BY IdentityIsKept, <1>1, PTL

\* A session is live only as the last of its chain and for an active account.
THEOREM SessionsStayInOrder == IdentitySpec => []SessionsInOrder
<1>1. ASSUME IdentityInv PROVE SessionsInOrder
  <2>1. OneSuccessor
    BY <1>1 DEF IdentityInv, InStep, IsOpened, OneSuccessor, InTurn
  <2>2. SuccessorReplaces
    BY <1>1 DEF IdentityInv, IdentityTables, IsToken, SuccessorReplaces
  <2>3. InactiveIsSignedOut
    BY <1>1 DEF IdentityInv, InStep, IsOpened, InactiveIsSignedOut, InTurn
  <2>4. QED
    BY <2>1, <2>2, <2>3 DEF SessionsInOrder
<1>2. QED
  BY IdentityIsKept, <1>1, PTL

-----------------------------------------------------------------------------
-----------------------------------------------------------------------------
(* What a step does to the answers of invites *)

AllAnswerOnce == \A i \in InviteIds : AnswersOnce(i)

LEMMA UntouchedAnswers == ASSUME UNCHANGED invite PROVE AllAnswerOnce
BY DEF AllAnswerOnce, AnswersOnce

LEMMA OneAnswers ==
  ASSUME IdentityInv, NEW i \in InviteIds, NEW x, invite' = [invite EXCEPT ![i] = x],
         invite[i].status \notin {"ACCEPTED", "CANCELLED"},
         x.status = "ACCEPTED" =>
           IF invite[i].type = "EMPLOYEE" THEN account[invite[i].user].employee = invite[i].org
           ELSE account[invite[i].user].exists /\ ~account'[invite[i].user].temporary
  PROVE  AllAnswerOnce
<1>1. invite'[i] = x /\ \A j \in InviteIds : j # i => invite'[j] = invite[j]
  BY DEF IdentityInv, IdentityTables
<1>2. ASSUME NEW j \in InviteIds, j # i PROVE AnswersOnce(j)
  BY <1>1, <1>2 DEF AnswersOnce
<1>3. AnswersOnce(i)
  BY <1>1 DEF AnswersOnce
<1>4. QED
  BY <1>2, <1>3 DEF AllAnswerOnce

LEMMA InvitedAnswers ==
  ASSUME IdentityInv, NEW r, NEW type, Invited(r, type) PROVE AllAnswerOnce
<1>1. ASSUME NEW i \in InviteIds, FreeInvite(i),
             invite' = [invite EXCEPT ![i] = NewInvite(type, r.user, r.org)]
      PROVE  AllAnswerOnce
  <2>1. PICK x : x = NewInvite(type, r.user, r.org)
    OBVIOUS
  <2>2. x.status = "PENDING"
    BY <2>1 DEF NewInvite
  <2>3. invite' = [invite EXCEPT ![i] = x] /\ invite[i].status \notin {"ACCEPTED", "CANCELLED"}
    BY <1>1, <2>1 DEF FreeInvite
  <2>4. QED
    BY <2>2, <2>3, OneAnswers
<1>2. QED
  BY <1>1, UntouchedAnswers DEF Invited

LEMMA AccountsAnswer == ASSUME IdentityInv, AccountsNext PROVE AllAnswerOnce
<1>1. \/ UNCHANGED invite \/ \E r, type : Invited(r, type)
  BY DEF AccountsNext, OrganizationsNext, StatusNext, AppointmentNext, WithdrawalNext, EmploymentNext,
     CreateOrganization, ChangeOrganizationStatus, ChangeEmployeeStatus, ChangeOrgAdminStatus,
     ChangeOfficeAdminStatus, ResetEmployeePassword, ResetOrgAdminPassword,
     ResetOfficeAdminPassword, SwitchStatus, GiveTemporaryPassword, AssignOrgAdmin,
     RejectionEndsProcess, AssignOfficeAdmin, CheckOrgAdmin, CheckOfficeAdmin, UnassignOrgAdmin,
     UpdateOffices, UnassignOffice, CheckUnassignOffice, CheckUnassignOrgAdmin,
     CheckUpdateOffices, Employ, CheckEmployee, Kept
<1>2. QED
  BY <1>1, UntouchedAnswers, InvitedAnswers

\* In turn, a request that answers an invite finds it as it was checked.
LEMMA WritesAnswer ==
  ASSUME IdentityInv, ~overlapped', NEW h \in Handlers,
         \/ MarkExpired(h) \/ AcceptEmployee(h) \/ Resend(h) \/ UpdateInvite(h) \/ CancelInvite(h)
  PROVE  AllAnswerOnce
<1>1. PICK r : r = request[h]
  OBVIOUS
<1>2. PICK i : i = r.i
  OBVIOUS
<1>3. r.op \in {"late", "accept", "resend", "updateInvite", "cancelInvite"}
  BY <1>1 DEF MarkExpired, AcceptEmployee, Resend, UpdateInvite, CancelInvite
<1>4. IsRequest(r) /\ Finds(r)
  BY <1>1 DEF IdentityInv, MarkExpired, AcceptEmployee, Resend, UpdateInvite, CancelInvite, Answer,
     Continue
<1>5. i \in InviteIds /\ invite[i] \in InviteRows
  BY <1>2, <1>3, <1>4 DEF IsRequest, IsSent, IdentityInv, IdentityTables
<1>6. /\ invite[i].status \in {"PENDING", "EXPIRED"}
      /\ r.op = "updateInvite" => invite[i].status = "PENDING"
      /\ r.op = "accept" => /\ invite[i].type = "EMPLOYEE"
                            /\ account[invite[i].user].employee = invite[i].org
  BY <1>2, <1>3, <1>4 DEF Finds, IsUnanswered
<1>7. PICK x : /\ invite' = [invite EXCEPT ![i] = x]
               /\ x.status = "ACCEPTED" => r.op = "accept"
  <2>1. CASE MarkExpired(h) \/ AcceptEmployee(h) \/ CancelInvite(h)
    <3>1. PICK status : /\ invite' = [invite EXCEPT ![i].status = status]
                        /\ status = "ACCEPTED" => r.op = "accept"
      BY <1>1, <1>2, <2>1 DEF MarkExpired, AcceptEmployee, CancelInvite
    <3>2. PICK x : x = [invite[i] EXCEPT !.status = status]
      OBVIOUS
    <3>3. x.status = status
      BY <1>5, <3>2 DEF InviteRows
    <3>4. QED
      BY <3>1, <3>2, <3>3
  <2>2. CASE Resend(h)
    <3>1. PICK x : x = [invite[i] EXCEPT !.status = "PENDING", !.due = FALSE]
      OBVIOUS
    <3>2. x.status = "PENDING"
      BY <1>5, <3>1 DEF InviteRows
    <3>3. QED
      BY <1>1, <1>2, <2>2, <3>1, <3>2 DEF Resend, SetInvite
  <2>3. CASE UpdateInvite(h)
    <3>1. PICK x : x = [invite[i] EXCEPT !.user = r.user, !.due = FALSE]
      OBVIOUS
    <3>2. x.status = invite[i].status /\ r.op = "updateInvite"
      BY <1>1, <1>5, <2>3, <3>1 DEF InviteRows, UpdateInvite
    <3>3. QED
      BY <1>1, <1>2, <1>6, <2>3, <3>1, <3>2 DEF UpdateInvite, SetInvite
  <2>4. QED
    BY <2>1, <2>2, <2>3
<1>8. QED
  BY <1>5, <1>6, <1>7, OneAnswers

LEMMA AcceptAdminAnswers ==
  ASSUME IdentityInv, ~overlapped', NEW h \in Handlers, AcceptAdmin(h) PROVE AllAnswerOnce
<1>1. PICK r : r = request[h]
  OBVIOUS
<1>2. PICK i : i = r.i
  OBVIOUS
<1>3. r.op = "acceptAdmin" /\ IsRequest(r) /\ Finds(r)
  BY <1>1 DEF AcceptAdmin, IdentityInv, Answer, Continue
<1>4. PICK u \in Users : u = r.user
  BY <1>3 DEF IsRequest
<1>5. /\ i \in InviteIds /\ invite[i] \in InviteRows /\ account[u].exists /\ IsAccount(account[u])
      /\ invite[i].status = "PENDING" /\ invite[i].type # "EMPLOYEE" /\ invite[i].user = u
      /\ ~r.password => ~account[u].temporary
  BY <1>2, <1>3, <1>4 DEF IsRequest, IsSent, Finds, IdentityInv, IdentityTables
<1>6. ~account'[u].temporary
  <2>1. CASE r.password
    <3>1. PICK temporary \in BOOLEAN, active \in BOOLEAN : temporary = FALSE /\ active = TRUE
      OBVIOUS
    <3>2. PICK b : b = WithPassword(account[u], temporary, active)
      OBVIOUS
    <3>3. account[u].password < LastPassword /\ account' = [account EXCEPT ![u] = b]
      BY <1>1, <1>4, <2>1, <3>1, <3>2 DEF AcceptAdmin
    <3>4. b.temporary = temporary
      BY <1>5, <3>2, <3>3, WithPasswordIs
    <3>5. QED
      BY <3>1, <3>3, <3>4 DEF IdentityInv, IdentityTables
  <2>2. CASE ~r.password
    BY <1>1, <1>5, <2>2 DEF AcceptAdmin
  <2>3. QED
    BY <2>1, <2>2
<1>7. PICK x : x = [invite[i] EXCEPT !.status = "ACCEPTED"]
  OBVIOUS
<1>8. invite' = [invite EXCEPT ![i] = x]
  BY <1>1, <1>2, <1>7 DEF AcceptAdmin
<1>9. QED
  BY <1>5, <1>6, <1>8, OneAnswers

LEMMA InvitesAnswer == ASSUME IdentityInv, ~overlapped', InvitesNext PROVE AllAnswerOnce
<1>1. ASSUME NEW i \in InviteIds, LinkExpires(i) PROVE AllAnswerOnce
  <2>1. PICK x : x = [invite[i] EXCEPT !.due = TRUE]
    OBVIOUS
  <2>2. x.status = "PENDING" /\ invite[i].status = "PENDING" /\ invite' = [invite EXCEPT ![i] = x]
    BY <1>1, <2>1 DEF LinkExpires, IdentityInv, IdentityTables, InviteRows
  <2>3. QED
    BY <2>2, OneAnswers
<1>2. ASSUME NEW h \in Handlers, NEW i \in InviteIds, CreateInvite(h, i) PROVE AllAnswerOnce
  <2>1. PICK x : x = NewInvite("EMPLOYEE", request[h].user, request[h].org)
    OBVIOUS
  <2>2. x.status = "PENDING" /\ invite[i].status = "NONE" /\ invite' = [invite EXCEPT ![i] = x]
    BY <1>2, <2>1 DEF CreateInvite, NewInvite, FreeInvite, SetInvite
  <2>3. QED
    BY <2>2, OneAnswers
<1>3. ASSUME NEW h \in Handlers,
             \/ Employ(h)
             \/ \E u \in Users, o \in Organizations : CheckInvite(h, u, o)
             \/ \E i \in InviteIds :
                  \/ OpenLateLink(h, i) \/ CheckAcceptAdmin(h, i) \/ CheckAcceptEmployee(h, i)
                  \/ CheckResend(h, i) \/ CheckCancelInvite(h, i)
                  \/ \E u \in Users : CheckUpdateInvite(h, i, u)
      PROVE  AllAnswerOnce
  BY <1>3, UntouchedAnswers DEF Employ, CheckInvite, OpenLateLink, CheckAcceptAdmin,
     CheckAcceptEmployee, CheckResend, CheckCancelInvite, CheckUpdateInvite, HoldInvite, Kept
<1>4. QED
  BY <1>1, <1>2, <1>3, WritesAnswer, AcceptAdminAnswers DEF InvitesNext

LEMMA StepsAnswer ==
  ASSUME IdentityInv, ~overlapped', [IdentityNext]_identityVars PROVE AllAnswerOnce
<1>1. CASE SessionsNext \/ IdentityFailure \/ UNCHANGED identityVars
  BY <1>1, UntouchedAnswers
  DEF SessionsNext, IdentityFailure, identityVars, Logout, CheckLogin, CheckChangePassword,
      CheckRefresh, Issue, Identify, ChangePassword
<1>2. QED
  BY <1>1, AccountsAnswer, InvitesAnswer DEF IdentityNext

\* An accepted or cancelled invite stays what it is, and is accepted by
\* somebody who has the place it is for, while requests come in turn.
THEOREM InvitesStayAnswered == IdentitySpec => InvitesAreAnsweredOnce
<1>1. IdentityInv /\ [IdentityNext]_identityVars =>
        [InTurn' => \A i \in InviteIds : AnswersOnce(i)]_identityVars
  BY StepsAnswer DEF InTurn, AllAnswerOnce
<1>2. QED
  BY IdentityIsKept, <1>1, PTL DEF IdentitySpec, InvitesAreAnsweredOnce

-----------------------------------------------------------------------------
(* What a step does to the sessions of an account that gets a password *)

AllEndWithPassword == \A t \in TokenIds : EndsWithPassword(t)

LEMMA SamePasswords ==
  ASSUME IdentityInv, \A u \in Users : account'[u].password = account[u].password
  PROVE  AllEndWithPassword
BY DEF AllEndWithPassword, EndsWithPassword, IdentityInv, IdentityTables, IsToken

LEMMA OneGetsPassword ==
  ASSUME IdentityInv, NEW u \in Users, NEW b, account' = [account EXCEPT ![u] = b],
         \/ b.password = account[u].password
         \/ b.employee # account[u].employee
         \/ token' = SignedOut(u)
  PROVE  AllEndWithPassword
<1>1. account'[u] = b /\ \A v \in Users : v # u => account'[v] = account[v]
  BY DEF IdentityInv, IdentityTables
<1>2. ASSUME NEW t \in TokenIds, token[t].state = "LIVE",
             account'[token[t].user].password # account[token[t].user].password,
             account'[token[t].user].employee = account[token[t].user].employee
      PROVE  token'[t].state # "LIVE"
  <2>1. token[t].user = u /\ token[t] \in TokenRows
    BY <1>1, <1>2 DEF IdentityInv, IdentityTables, IsToken
  <2>2. token' = SignedOut(u)
    BY <1>1, <1>2, <2>1
  <2>3. token'[t] = [token[t] EXCEPT !.state = "REVOKED"]
    BY <1>2, <2>1, <2>2 DEF SignedOut
  <2>4. QED
    BY <2>1, <2>3 DEF TokenRows
<1>3. QED
  BY <1>2 DEF AllEndWithPassword, EndsWithPassword

\* Places that are given or taken leave the password as it is.
LEMMA PlacesKeepPassword ==
  ASSUME NEW a \in AccountRows, NEW o, NEW offices, NEW f
  PROVE  /\ WithCompany(a, o).password = a.password
         /\ AlsoIn(a, offices).password = a.password
         /\ WithoutCompany(a, o).password = a.password /\ WithoutCompany(a, o) \in AccountRows
         /\ WithoutOffice(a, f).password = a.password /\ WithoutOffice(a, f) \in AccountRows
BY DEF WithCompany, AlsoIn, WithoutCompany, WithoutOffice, AccountRows

LEMMA OneKeepsPassword ==
  ASSUME IdentityInv, NEW u \in Users, NEW b, account' = [account EXCEPT ![u] = b],
         b.password = account[u].password
  PROVE  AllEndWithPassword
BY OneGetsPassword

LEMMA AppointedEnd ==
  ASSUME IdentityInv, NEW h \in Handlers, AssignOrgAdmin(h) \/ AssignOfficeAdmin(h)
  PROVE  AllEndWithPassword
<1>1. PICK r : r = request[h]
  OBVIOUS
<1>2. /\ r.op \in {"orgAdmin", "officeAdmin"} /\ IsRequest(r)
      /\ r.user \in Users /\ r.org \in Organizations
  BY <1>1 DEF AssignOrgAdmin, AssignOfficeAdmin, IdentityInv, IsRequest
<1>3. PICK u \in Users, o \in Organizations, a \in AccountRows : u = r.user /\ o = r.org /\ a = account[u]
  BY <1>2 DEF IdentityInv, IdentityTables
<1>4. CASE AssignOrgAdmin(h)
  <2>1. PICK c \in AccountRows : c = Granted(a, "ORG_ADMIN", o) /\ c.password = a.password
    <3>1. "ORG_ADMIN" \in Roles
      BY DEF Roles
    <3>2. QED
      BY <3>1, GrantedIs
  <2>2. PICK b : b = WithCompany(c, o)
    OBVIOUS
  <2>3. b.password = a.password
    BY <2>1, <2>2, PlacesKeepPassword
  <2>4. account' = [account EXCEPT ![u] = b]
    BY <1>1, <1>3, <1>4, <2>1, <2>2 DEF AssignOrgAdmin
  <2>5. QED
    BY <1>3, <2>3, <2>4, OneKeepsPassword
<1>5. CASE AssignOfficeAdmin(h) /\ ~IsPlatform(a)
  <2>1. PICK c \in AccountRows : c = Granted(a, "OFFICE_ADMIN", o) /\ c.password = a.password
    <3>1. "OFFICE_ADMIN" \in Roles
      BY DEF Roles
    <3>2. QED
      BY <3>1, GrantedIs
  <2>2. PICK b : b = AlsoIn(c, r.offices)
    OBVIOUS
  <2>3. b.password = a.password
    BY <2>1, <2>2, PlacesKeepPassword
  <2>4. account' = [account EXCEPT ![u] = b]
    BY <1>1, <1>3, <1>5, <2>1, <2>2 DEF AssignOfficeAdmin
  <2>5. QED
    BY <1>3, <2>3, <2>4, OneKeepsPassword
<1>6. CASE AssignOfficeAdmin(h) /\ IsPlatform(a)
  BY <1>1, <1>3, <1>6, SamePasswords DEF AssignOfficeAdmin
<1>7. QED
  BY <1>4, <1>5, <1>6

LEMMA WithdrawnEnd ==
  ASSUME IdentityInv, NEW h \in Handlers, UnassignOrgAdmin(h) \/ UnassignOffice(h) \/ UpdateOffices(h)
  PROVE  AllEndWithPassword
<1>1. PICK r : r = request[h]
  OBVIOUS
<1>2. PICK u \in Users : u = r.user
  BY <1>1 DEF UnassignOrgAdmin, UnassignOffice, UpdateOffices, IdentityInv, IsRequest, Withdrawing
<1>3. PICK a \in AccountRows : a = account[u]
  BY DEF IdentityInv, IdentityTables
<1>4. CASE UNCHANGED account
  BY <1>4, SamePasswords
<1>5. ASSUME NEW c \in AccountRows, c.password = a.password, NEW role,
             account' = [account EXCEPT ![u] = Left(c, r, role)]
      PROVE  AllEndWithPassword
  <2>1. PICK b : b = Left(c, r, role)
    OBVIOUS
  <2>2. b.password = c.password
    BY <2>1 DEF Left, AccountRows
  <2>3. QED
    BY <1>3, <1>5, <2>1, <2>2, OneKeepsPassword
<1>6. CASE UnassignOrgAdmin(h) /\ r.org \in account[u].admin
  <2>1. PICK c \in AccountRows : c = WithoutCompany(a, r.org) /\ c.password = a.password
    BY PlacesKeepPassword
  <2>2. account' = [account EXCEPT ![u] = Left(c, r, "ORG_ADMIN")]
    BY <1>1, <1>2, <1>3, <1>6, <2>1 DEF UnassignOrgAdmin
  <2>3. QED
    BY <1>5, <2>1, <2>2
<1>7. CASE UnassignOffice(h) /\ r.office \in account[u].offices
  <2>1. PICK c \in AccountRows : c = WithoutOffice(a, r.office) /\ c.password = a.password
    BY PlacesKeepPassword
  <2>2. account' = [account EXCEPT ![u] = Left(c, r, "OFFICE_ADMIN")]
    BY <1>1, <1>2, <1>3, <1>7, <2>1 DEF UnassignOffice
  <2>3. QED
    BY <1>5, <2>1, <2>2
<1>8. CASE UpdateOffices(h)
  <2>1. r.offices \in SUBSET Offices
    BY <1>1, <1>8 DEF UpdateOffices, IdentityInv, IsRequest
  <2>2. PICK c : c = WithOffices(a, r.org, r.offices)
    OBVIOUS
  <2>3. c \in AccountRows /\ c.password = a.password
    BY <2>1, <2>2 DEF WithOffices, OfficesIn, AccountRows
  <2>4. account' = [account EXCEPT ![u] = Left(c, r, "OFFICE_ADMIN")]
    BY <1>1, <1>2, <1>3, <1>8, <2>2 DEF UpdateOffices
  <2>5. QED
    BY <1>5, <2>3, <2>4
<1>9. \/ UNCHANGED account
      \/ UnassignOrgAdmin(h) /\ r.org \in account[u].admin
      \/ UnassignOffice(h) /\ r.office \in account[u].offices
      \/ UpdateOffices(h)
  BY <1>1, <1>2 DEF UnassignOrgAdmin, UnassignOffice
<1>10. QED
  BY <1>4, <1>6, <1>7, <1>8, <1>9

\* An employee is attached where there was none.
LEMMA EmployedEnd ==
  ASSUME IdentityInv, NEW h \in Handlers, Employ(h) PROVE AllEndWithPassword
<1>1. PICK r : r = request[h]
  OBVIOUS
<1>2. r.user \in Users /\ r.org \in Organizations
  BY <1>1 DEF Employ, IdentityInv, IsRequest
<1>3. PICK u \in Users, o \in Organizations, a \in AccountRows : u = r.user /\ o = r.org /\ a = account[u]
  BY <1>2 DEF IdentityInv, IdentityTables
<1>4. CASE ~MayBeEmployed(a)
  BY <1>1, <1>3, <1>4, SamePasswords DEF Employ
<1>5. CASE MayBeEmployed(a)
  <2>1. PICK b : b = Employed(a, r)
    OBVIOUS
  <2>2. account' = [account EXCEPT ![u] = b]
    BY <1>1, <1>3, <1>5, <2>1 DEF Employ
  <2>3. b.employee = o
    BY <1>3, <2>1 DEF Employed, Granted, AccountRows
  <2>4. a.employee # o
    BY <1>5 DEF MayBeEmployed
  <2>5. QED
    BY <1>3, <2>2, <2>3, <2>4, OneGetsPassword
<1>6. QED
  BY <1>4, <1>5

LEMMA StatusEnds == ASSUME IdentityInv, StatusNext PROVE AllEndWithPassword
<1>1. PICK u \in Users : SwitchStatus(u) \/ GiveTemporaryPassword(u)
  BY DEF StatusNext, ChangeEmployeeStatus, ChangeOrgAdminStatus, ChangeOfficeAdminStatus,
     ResetEmployeePassword, ResetOrgAdminPassword, ResetOfficeAdminPassword
<1>2. CASE SwitchStatus(u)
  <2>1. PICK b : b = [account[u] EXCEPT !.active = ~account[u].active]
    OBVIOUS
  <2>2. account' = [account EXCEPT ![u] = b]
    BY <1>2, <2>1 DEF SwitchStatus
  <2>3. b.password = account[u].password
    BY <2>1 DEF IdentityInv, IdentityTables, AccountRows
  <2>4. QED
    BY <2>2, <2>3, OneKeepsPassword
<1>3. CASE GiveTemporaryPassword(u)
  BY <1>3, OneGetsPassword DEF GiveTemporaryPassword
<1>4. QED
  BY <1>1, <1>2, <1>3

LEMMA ChosenEnd ==
  ASSUME IdentityInv, NEW h \in Handlers, AcceptAdmin(h) \/ ChangePassword(h)
  PROVE  AllEndWithPassword
<1>1. PICK r : r = request[h]
  OBVIOUS
<1>2. PICK u \in Users : u = r.user
  BY <1>1 DEF AcceptAdmin, ChangePassword, IdentityInv, IsRequest, SessionRequests
<1>3. \/ UNCHANGED account
      \/ \E active :
           /\ account' = [account EXCEPT ![u] = WithPassword(account[u], FALSE, active)]
           /\ token' = SignedOut(u)
  BY <1>1, <1>2 DEF AcceptAdmin, ChangePassword
<1>4. QED
  BY <1>3, SamePasswords, OneGetsPassword

LEMMA StepsEndSessions ==
  ASSUME IdentityInv, [IdentityNext]_identityVars PROVE AllEndWithPassword
<1>1. CASE OrganizationsNext \/ IdentityFailure \/ UNCHANGED identityVars
  BY <1>1, SamePasswords DEF OrganizationsNext, CreateOrganization, ChangeOrganizationStatus,
     IdentityFailure, identityVars
<1>2. CASE AppointmentNext \/ WithdrawalNext \/ EmploymentNext
  BY <1>2, SamePasswords, AppointedEnd, WithdrawnEnd, EmployedEnd
  DEF AppointmentNext, WithdrawalNext, EmploymentNext, RejectionEndsProcess, CheckOrgAdmin,
      CheckOfficeAdmin, CheckUnassignOffice, CheckUnassignOrgAdmin, CheckUpdateOffices,
      CheckEmployee, Kept
<1>3. CASE InvitesNext
  BY <1>3, SamePasswords, EmployedEnd, ChosenEnd
  DEF InvitesNext, LinkExpires, CreateInvite, CheckInvite, OpenLateLink, CheckAcceptAdmin,
      CheckAcceptEmployee, CheckResend, CheckCancelInvite, CheckUpdateInvite, HoldInvite, Kept,
      MarkExpired, AcceptEmployee, Resend, UpdateInvite, CancelInvite
<1>4. CASE SessionsNext
  BY <1>4, SamePasswords, ChosenEnd
  DEF SessionsNext, Logout, CheckLogin, CheckChangePassword, CheckRefresh, Issue, Identify
<1>5. QED
  BY <1>1, <1>2, <1>3, <1>4, StatusEnds DEF IdentityNext, AccountsNext

\* A new password ends the sessions that are open, however requests interleave.
THEOREM NewPasswordsSignOut == IdentitySpec => NewPasswordSignsOut
<1>1. IdentityInv /\ [IdentityNext]_identityVars =>
        [\A t \in TokenIds : EndsWithPassword(t)]_identityVars
  BY StepsEndSessions DEF AllEndWithPassword
<1>2. QED
  BY IdentityIsKept, <1>1, PTL DEF IdentitySpec, NewPasswordSignsOut

-----------------------------------------------------------------------------
(* The rating of attendance *)

Facts ==
  [expected : Nat, attended : Nat, late : Nat, missing : Nat, leaveHalves : Nat, holidays : Nat]

\* A penalty never takes the score out of its range.
LEMMA ScoreInRange ==
  ASSUME NEW f \in Facts
  PROVE  Score(f) \in 1..5
<1>1. AbsencePenalty(f) \in 0..6
  BY DEF AbsencePenalty, AbsentHalves, AtLeast0, Facts
<1>2. LatePenalty(f) \in 0..6
  BY DEF LatePenalty
<1>3. MissingPenalty(f) \in 0..2
  BY DEF MissingPenalty
<1>4. PICK halves \in Int : halves = 10 - AbsencePenalty(f) - LatePenalty(f) - MissingPenalty(f)
  BY <1>1, <1>2, <1>3
<1>5. halves <= 10 /\ (halves >= 2 => (halves + 1) \div 2 \in 1..5)
  BY <1>1, <1>2, <1>3, <1>4
<1>6. Score(f) = IF halves < 2 THEN 1 ELSE (halves + 1) \div 2
  BY <1>4 DEF Score
<1>7. QED
  BY <1>4, <1>5, <1>6

\* Facts that differ in fewer absences score no worse.
LEMMA FewerAbsencesScoreBetter ==
  ASSUME NEW f \in Facts, NEW g \in Facts,
         g.attended = f.attended, g.late = f.late, g.missing = f.missing,
         AbsentHalves(g) <= AbsentHalves(f)
  PROVE  Score(g) >= Score(f)
<1>1. AbsencePenalty(g) \in 0..6 /\ AbsencePenalty(f) \in 0..6 /\ AbsencePenalty(g) <= AbsencePenalty(f)
  BY DEF AbsencePenalty, AbsentHalves, AtLeast0, Facts
<1>2. LatePenalty(f) \in 0..6 /\ LatePenalty(g) = LatePenalty(f)
  BY DEF LatePenalty
<1>3. MissingPenalty(f) \in 0..2 /\ MissingPenalty(g) = MissingPenalty(f)
  BY DEF MissingPenalty
<1>4. PICK m \in Int : m = 10 - AbsencePenalty(f) - LatePenalty(f) - MissingPenalty(f)
  BY <1>1, <1>2, <1>3
<1>5. PICK n \in Int : n = 10 - AbsencePenalty(g) - LatePenalty(g) - MissingPenalty(g)
  BY <1>1, <1>2, <1>3
<1>6. n >= m
  BY <1>1, <1>2, <1>3, <1>4, <1>5
<1>7. Score(f) = (IF m < 2 THEN 1 ELSE (m + 1) \div 2) /\ Score(g) = (IF n < 2 THEN 1 ELSE (n + 1) \div 2)
  BY <1>4, <1>5 DEF Score
<1>8. QED
  BY <1>6, <1>7

LEMMA ExcusesDoNotReduce ==
  ASSUME NEW f \in Facts
  PROVE  ExcusesNeverReduce(f)
<1>1. Score(f) \in 1..5
  BY ScoreInRange
<1>2. Score([f EXCEPT !.leaveHalves = @ + 1]) >= Score(f)
  <2>1. PICK g : g = [f EXCEPT !.leaveHalves = @ + 1]
    OBVIOUS
  <2>2. /\ g \in Facts /\ g.expected = f.expected /\ g.attended = f.attended /\ g.late = f.late
        /\ g.missing = f.missing /\ g.leaveHalves = f.leaveHalves + 1 /\ g.holidays = f.holidays
    BY <2>1 DEF Facts
  <2>3. AbsentHalves(g) <= AbsentHalves(f)
    BY <2>2 DEF AbsentHalves, AtLeast0, Facts
  <2>4. QED
    BY <2>1, <2>2, <2>3, FewerAbsencesScoreBetter
<1>3. Score([f EXCEPT !.holidays = @ + 1]) >= Score(f)
  <2>1. PICK g : g = [f EXCEPT !.holidays = @ + 1]
    OBVIOUS
  <2>2. /\ g \in Facts /\ g.expected = f.expected /\ g.attended = f.attended /\ g.late = f.late
        /\ g.missing = f.missing /\ g.leaveHalves = f.leaveHalves /\ g.holidays = f.holidays + 1
    BY <2>1 DEF Facts
  <2>3. AbsentHalves(g) <= AbsentHalves(f)
    BY <2>2 DEF AbsentHalves, AtLeast0, Facts
  <2>4. QED
    BY <2>1, <2>2, <2>3, FewerAbsencesScoreBetter
<1>4. QED
  BY <1>1, <1>2, <1>3 DEF ExcusesNeverReduce

\* The leave of no request is none, that of one is its own.
LEMMA LeaveOfNone ==
  MapThenSumSet(LAMBDA l : l.halves, {}) = 0
<1> DEFINE Equation(g) ==
      g = [A \in SUBSET {} |->
             IF A = {} THEN 0
             ELSE (CHOOSE x \in A : TRUE).halves + g[A \ {CHOOSE x \in A : TRUE}]]
<1>1. MapThenSumSet(LAMBDA l : l.halves, {}) = (CHOOSE g : Equation(g))[{}]
  BY DEF MapThenSumSet, MapThenFoldSet
<1>2. PICK g : g = [A \in SUBSET {} |-> 0]
  OBVIOUS
<1>3. Equation(g)
  BY <1>2
<1>4. PICK h : h = CHOOSE g_ : Equation(g_)
  OBVIOUS
<1>5. Equation(h)
  <2> HIDE DEF Equation
  <2>1. \E x : Equation(x)
    BY <1>3
  <2>2. QED
    BY <1>4, <2>1, Zenon
<1>6. h[{}] = 0
  BY <1>5
<1>7. QED
  BY <1>1, <1>4, <1>6

LEMMA LeaveOfOne ==
  ASSUME NEW l, l.halves \in Nat
  PROVE  MapThenSumSet(LAMBDA x : x.halves, {l}) = l.halves
<1> DEFINE Equation(g) ==
      g = [A \in SUBSET {l} |->
             IF A = {} THEN 0
             ELSE (CHOOSE x \in A : TRUE).halves + g[A \ {CHOOSE x \in A : TRUE}]]
<1>1. MapThenSumSet(LAMBDA x : x.halves, {l}) = (CHOOSE g : Equation(g))[{l}]
  BY DEF MapThenSumSet, MapThenFoldSet
<1>2. \A A \in SUBSET {l} : A = {} \/ A = {l}
  OBVIOUS
<1>3. PICK only : only = CHOOSE x \in {l} : TRUE
  OBVIOUS
<1>4. only = l
  BY <1>3
<1>5. PICK g : g = [A \in SUBSET {l} |-> IF A = {} THEN 0 ELSE l.halves]
  OBVIOUS
<1>6. Equation(g)
  <2>1. ASSUME NEW A \in SUBSET {l}
        PROVE  g[A] = IF A = {} THEN 0
                      ELSE (CHOOSE x \in A : TRUE).halves + g[A \ {CHOOSE x \in A : TRUE}]
    <3>1. CASE A = {}
      BY <1>5, <3>1
    <3>2. CASE A = {l}
      <4>1. (CHOOSE x \in A : TRUE) = l
        BY <1>3, <1>4, <3>2
      <4>2. A \ {l} = {} /\ g[{}] = 0
        BY <1>5, <3>2
      <4>3. g[A] = l.halves /\ A # {}
        BY <1>5, <3>2
      <4>4. l.halves = l.halves + g[A \ {l}]
        BY <4>2
      <4>5. QED
        BY <4>1, <4>3, <4>4
    <3>3. QED
      BY <1>2, <3>1, <3>2
  <2>2. g = [A \in SUBSET {l} |-> g[A]]
    BY <1>5
  <2>3. QED
    BY <2>1, <2>2
<1>7. PICK h : h = CHOOSE g_ : Equation(g_)
  OBVIOUS
<1>8. Equation(h)
  <2> HIDE DEF Equation
  <2>1. \E x : Equation(x)
    BY <1>6
  <2>2. QED
    BY <1>7, <2>1, Zenon
<1>9. h[{}] = 0
  BY <1>8
<1>10. h[{l}] = l.halves
  <2>1. h[{l}] = (CHOOSE x \in {l} : TRUE).halves + h[{l} \ {CHOOSE x \in {l} : TRUE}]
    BY <1>8
  <2>2. {l} \ {l} = {}
    OBVIOUS
  <2>3. QED
    BY <1>3, <1>4, <1>9, <2>1, <2>2
<1>11. QED
  BY <1>1, <1>7, <1>10

\* Days that make up a set together number at least as many as it has.
LEMMA CoveredByThree ==
  ASSUME NEW A, NEW B, NEW C, IsFiniteSet(A), IsFiniteSet(B), IsFiniteSet(C),
         NEW S, S \subseteq A \cup B \cup C
  PROVE  Cardinality(S) <= Cardinality(A) + Cardinality(B) + Cardinality(C)
<1>1. /\ IsFiniteSet(A \cup B)
      /\ Cardinality(A \cup B) = Cardinality(A) + Cardinality(B) - Cardinality(A \cap B)
  BY FS_Union
<1>2. /\ IsFiniteSet(A \cup B \cup C)
      /\ Cardinality(A \cup B \cup C) =
           Cardinality(A \cup B) + Cardinality(C) - Cardinality((A \cup B) \cap C)
  BY <1>1, FS_Union
<1>3. IsFiniteSet(A \cap B) /\ IsFiniteSet((A \cup B) \cap C)
  BY <1>1, FS_Intersection
<1>4. Cardinality(S) <= Cardinality(A \cup B \cup C) /\ IsFiniteSet(S)
  BY <1>2, FS_Subset
<1>5. /\ Cardinality(A) \in Nat /\ Cardinality(B) \in Nat /\ Cardinality(C) \in Nat
      /\ Cardinality(A \cap B) \in Nat /\ Cardinality((A \cup B) \cap C) \in Nat
      /\ Cardinality(S) \in Nat
  BY <1>3, <1>4, FS_CardinalityType
<1>6. QED
  BY <1>1, <1>2, <1>4, <1>5

LEMMA AccountedForIsExcused ==
  ASSUME NEW period, IsFiniteSet(period), NEW scheduled, NEW leave, NEW holidays
  PROVE  AccountedForIsNotAbsent(period, scheduled, leave, holidays)
<1>1. PICK weekdayOf : weekdayOf = [d \in period |-> ((d - 1) % 7) + 1]
  OBVIOUS
<1>2. PICK work : work = {d \in period : weekdayOf[d] \in IF scheduled = {} THEN 1..5 ELSE scheduled}
  OBVIOUS
<1>3. PICK attended : attended = work \ (leave \cup holidays)
  OBVIOUS
<1>4. PICK off : off = (leave \cap work) \ holidays
  OBVIOUS
<1>5. PICK taken : taken = [days |-> leave, halves |-> 2 * Cardinality(off)]
  OBVIOUS
<1>6. PICK f : f = Snapshot(period, weekdayOf, scheduled, attended, {}, {}, {taken}, holidays)
  OBVIOUS
<1>7. /\ work \subseteq period /\ attended \subseteq period /\ off \subseteq period
      /\ work \subseteq attended \cup off \cup (holidays \cap period)
  BY <1>2, <1>3, <1>4
<1>8. /\ IsFiniteSet(work) /\ IsFiniteSet(attended) /\ IsFiniteSet(off)
      /\ IsFiniteSet(holidays \cap period)
  BY <1>7, FS_Subset
<1>9. /\ Cardinality(work) \in Nat /\ Cardinality(attended) \in Nat /\ Cardinality(off) \in Nat
      /\ Cardinality(holidays \cap period) \in Nat
  BY <1>8, FS_CardinalityType
<1>10. Cardinality(work) <= Cardinality(attended) + Cardinality(off) + Cardinality(holidays \cap period)
  BY <1>7, <1>8, CoveredByThree
<1>11. f.leaveHalves = 2 * Cardinality(off)
  <2>1. f.leaveHalves = MapThenSumSet(LAMBDA l : l.halves, {l \in {taken} : l.days \cap period # {}})
    BY <1>6 DEF Snapshot
  <2>2. taken.days = leave /\ taken.halves = 2 * Cardinality(off) /\ taken.halves \in Nat
    BY <1>5, <1>9
  <2>3. CASE leave \cap period = {}
    <3>1. {l \in {taken} : l.days \cap period # {}} = {}
      BY <2>2, <2>3
    <3>2. off = {}
      BY <1>2, <1>4, <2>3
    <3>3. Cardinality(off) = 0
      BY <3>2, FS_EmptySet
    <3>4. f.leaveHalves = 0
      BY <2>1, <3>1, LeaveOfNone
    <3>5. QED
      BY <3>3, <3>4
  <2>4. CASE leave \cap period # {}
    <3>1. {l \in {taken} : l.days \cap period # {}} = {taken}
      BY <2>2, <2>4
    <3>2. MapThenSumSet(LAMBDA l : l.halves, {taken}) = taken.halves
      BY <2>2, LeaveOfOne
    <3>3. QED
      BY <2>1, <2>2, <3>1, <3>2
  <2>5. QED
    BY <2>3, <2>4
<1>12. attended \cap period = attended
  BY <1>7
<1>13. /\ f.expected = Cardinality(work)
       /\ f.attended = Cardinality(attended)
       /\ f.holidays = Cardinality(holidays \cap period)
  BY <1>2, <1>6, <1>12 DEF Snapshot, ExpectedDays
<1>14. AbsentHalves(f) = 0
  BY <1>9, <1>10, <1>11, <1>13 DEF AbsentHalves, AtLeast0
<1>15. QED
  BY <1>1, <1>2, <1>3, <1>4, <1>5, <1>6, <1>14 DEF AccountedForIsNotAbsent

\* RatingIsFair holds of whatever was recorded of a period (rateReliabilityAttendance,
\* periodSnapshot): leave and holidays excuse, however they overlap and whatever else
\* lies outside the period, and the score stays in its range.
THEOREM RatingStaysFair ==
  ASSUME RatingTypeOK
  PROVE  RatingIsFair
<1>1. facts \in Facts /\ IsFiniteSet(days.period)
  BY DEF RatingTypeOK, Facts
<1>2. ExcusesNeverReduce(facts)
  BY <1>1, ExcusesDoNotReduce
<1>3. AccountedForIsNotAbsent(days.period, days.scheduled, days.leave, days.holidays)
  BY <1>1, AccountedForIsExcused
<1>4. QED
  BY <1>2, <1>3 DEF RatingIsFair
=============================================================================
