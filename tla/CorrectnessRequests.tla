------------------------ MODULE CorrectnessRequests ------------------------
(***************************************************************************)
(* The requests by which an employee asks to have past days, or halves of  *)
(* them, counted as worked, and their answers                              *)
(* (attendance-correctness.service.ts).  Nothing here is a transaction: a  *)
(* submission writes a row for each day in turn, and an answer writes the  *)
(* timesheet first and the row of the request after it.                    *)
(***************************************************************************)
EXTENDS ApiProcess

CONSTANTS
  PastDays,       \* past working days of the employee
  LeaveOf,        \* the halves of each day that leave or a holiday covers
  Rows,           \* identities of rows of requests
  SubmissionIds,  \* identities of submissions
  Wishes          \* what is asked for together: sets of days and sessions

\* What is asked for: a session of a day.
Asks == [day : PastDays, session : {"MORNING", "AFTERNOON", "FULL"}]

\* Something is asked for (createSchema: at least one day).
ASSUME CorrectnessAssumption == Wishes \subseteq (SUBSET Asks) \ {{}}

VARIABLES
  asked,    \* the row of each request, or NoRow
  worked,   \* the halves of each day its timesheet counts, or NoTimesheet
  approval, \* observation: whether an approval of a row wrote the sheet, and marked it
  told      \* observation: submissions the administrators were notified of

correctnessVars == <<apiVars, asked, worked, approval, told>>

NoRow == [status |-> "none"]
NoTimesheet == {"no timesheet"}

Halves(session) ==
  CASE session = "MORNING" -> {"am"}
    [] session = "AFTERNOON" -> {"pm"}
    [] session = "FULL" -> {"am", "pm"}

\* leaveSessionsConflict: two sessions of a day have a half in common.
Conflicts(s, t) == s = "FULL" \/ t = "FULL" \/ s = t

Is(row, status) == asked[row].status = status
IsActive(row) == Is(row, "PENDING") \/ Is(row, "APPROVED")

\* A session can be asked for unless leave, a holiday or another request that
\* waits or was approved covers a part of it.
CanBeAskedFor(one) ==
  /\ LeaveOf[one.day] \cap Halves(one.session) = {}
  /\ \A row \in Rows :
       IsActive(row) /\ asked[row].day = one.day => ~Conflicts(asked[row].session, one.session)

\* createRequests: the days are checked and written one after the other; the
\* first that cannot be asked for ends the request and leaves the rows before
\* it.
StartSubmission(h, id, wish) ==
  /\ \A row \in Rows : asked[row] # NoRow => asked[row].sub # id
  /\ \A g \in Handlers : request[g].op = "submit" => request[g].sub # id
  /\ Hold(h, [op |-> "submit", sub |-> id, left |-> wish])
  /\ UNCHANGED <<asked, worked, approval, told>>

CheckDay(h) ==
  LET r == request[h]
  IN /\ r.op = "submit"
     /\ \E one \in r.left :
          IF CanBeAskedFor(one)
          THEN Continue(h, [op |-> "write", sub |-> r.sub, left |-> r.left \ {one}, one |-> one])
          ELSE Answer(h)
     /\ UNCHANGED <<asked, worked, approval, told>>

CreateRow(h) ==
  LET r == request[h]
  IN /\ r.op = "write"
     /\ \E row \in Rows :
          /\ asked[row] = NoRow
          /\ asked' = [asked EXCEPT ![row] = [status |-> "PENDING", day |-> r.one.day,
                                             session |-> r.one.session, sub |-> r.sub]]
     /\ Continue(h, [op |-> "submit", sub |-> r.sub, left |-> r.left])
     /\ UNCHANGED <<worked, approval, told>>

\* Only a submission written to its end is announced.
Announce(h) ==
  LET r == request[h]
  IN /\ r.op = "submit"
     /\ r.left = {}
     /\ told' = told \cup {r.sub}
     /\ Answer(h)
     /\ UNCHANGED <<asked, worked, approval>>

(* Answers: of one row, or of the rows of a submission that wait, which are *)
(* looked up again one by one.                                              *)

Pending(id) == {row \in Rows : Is(row, "PENDING") /\ asked[row].sub = id}

StartAnswer(h, answer, rows) ==
  /\ rows # {}
  /\ Hold(h, [op |-> "answer", answer |-> answer, left |-> rows])
  /\ UNCHANGED <<asked, worked, approval, told>>

HasRow(row) == asked[row] # NoRow

\* Fault: an approval is marked before the timesheet is written.
MarksFirst(answer) == "mark"

FirstWrite(answer) == IF answer = "APPROVED" THEN "sheet" ELSE "mark"

CanBeAnswered(row) == Is(row, "PENDING")

\* One that no longer waits ends the whole answer.
LookUp(h) ==
  LET r == request[h]
  IN /\ r.op = "answer"
     /\ \E row \in r.left :
          IF CanBeAnswered(row)
          THEN Continue(h, [op |-> FirstWrite(r.answer), answer |-> r.answer,
                            left |-> r.left \ {row}, row |-> row])
          ELSE Answer(h)
     /\ UNCHANGED <<asked, worked, approval, told>>

\* sessionActuals: the times of the session replace those of the timesheet,
\* which is made when there is none.
Recorded(sheet, session) == Halves(session)

WriteSheet(h) ==
  LET r == request[h]
      row == asked[r.row]
  IN /\ r.op = "sheet"
     /\ worked' = [worked EXCEPT ![row.day] = Recorded(@, row.session)]
     /\ approval' = [approval EXCEPT ![r.row] = "written"]
     /\ Continue(h, [r EXCEPT !.op = "mark"])
     /\ UNCHANGED <<asked, told>>

\* The row is updated whatever its status is by now.
MarkAnswered(h) ==
  LET r == request[h]
  IN /\ r.op = "mark"
     /\ asked' = [asked EXCEPT ![r.row].status = r.answer]
     /\ approval' = IF r.answer = "APPROVED" THEN [approval EXCEPT ![r.row] = "marked"]
                    ELSE approval
     /\ Continue(h, [op |-> "answer", answer |-> r.answer, left |-> r.left])
     /\ UNCHANGED <<worked, told>>

EndAnswer(h) ==
  /\ request[h].op = "answer"
  /\ request[h].left = {}
  /\ Answer(h)
  /\ UNCHANGED <<asked, worked, approval, told>>

CorrectnessFailure == \E h \in Handlers : BreakOff(h) /\ UNCHANGED <<asked, worked, approval, told>>

CorrectnessInit ==
  /\ asked = [row \in Rows |-> NoRow]
  /\ worked \in [PastDays -> {NoTimesheet, {}}]
  /\ approval = [row \in Rows |-> "none"] /\ told = {}
  /\ ApiInit

SubmissionsNext ==
  \E h \in Handlers :
    \/ \E id \in SubmissionIds, wish \in Wishes : StartSubmission(h, id, wish)
    \/ CheckDay(h) \/ CreateRow(h) \/ Announce(h)

AnswersNext ==
  \E h \in Handlers :
    \/ LookUp(h) \/ WriteSheet(h) \/ MarkAnswered(h) \/ EndAnswer(h)
    \/ \E answer \in {"APPROVED", "REJECTED"} :
         \/ \E id \in SubmissionIds : StartAnswer(h, answer, Pending(id))
         \/ \E row \in Rows : HasRow(row) /\ StartAnswer(h, answer, {row})

CorrectnessNext == SubmissionsNext \/ AnswersNext \/ CorrectnessFailure

CorrectnessSpec == CorrectnessInit /\ [][CorrectnessNext]_correctnessVars

-----------------------------------------------------------------------------
(* What the correctness requests promise.                                 *)

\* Types of the rows and the sheets.
CorrectnessTypeOK ==
  /\ \A row \in Rows : HasRow(row) =>
       /\ asked[row].status \in {"PENDING", "APPROVED", "REJECTED"}
       /\ asked[row].day \in PastDays
       /\ asked[row].sub \in SubmissionIds
  /\ worked \in [PastDays -> (SUBSET {"am", "pm"}) \cup {NoTimesheet}]
  /\ approval \in [Rows -> {"none", "written", "marked"}]
  /\ told \subseteq SubmissionIds

\* Submissions that follow one another, whole or broken off, never ask for
\* the same half of a day twice (createRequests: REQUEST_ALREADY_PENDING).
NoHalfAskedTwice ==
  ~overlapped =>
    \A r, s \in Rows :
      r # s /\ IsActive(r) /\ IsActive(s) /\ asked[r].day = asked[s].day
        => Halves(asked[r].session) \cap Halves(asked[s].session) = {}

Counts(day) == worked[day] \notin {NoTimesheet, {}}

\* The day of a request that is approved is counted, also when the approval
\* broke off or met a rejection (approve: the timesheet before the status).
ApprovedHasItsSheet ==
  \A row \in Rows : Is(row, "APPROVED") => Counts(asked[row].day)

\* A day counts the halves of a request for it that an administrator was
\* approving, and of none that was only waiting or rejected.  While answers
\* follow one another that request is approved, unless its approval is still
\* between its two writes or broke off there.
OnlyApprovedIsCounted ==
  \A day \in PastDays :
    Counts(day) =>
      \E row \in Rows :
        /\ HasRow(row) /\ asked[row].day = day
        /\ worked[day] = Halves(asked[row].session)
        /\ approval[row] # "none"
        /\ ~overlapped => Is(row, "APPROVED") \/ approval[row] = "written"

\* Administrators are told only of submissions whose rows they find
\* (createRequests: the announcement after the last row).
ToldOfRows == \A id \in told : \E row \in Rows : HasRow(row) /\ asked[row].sub = id

\* What a day counts is what an administrator approved, and what is approved is
\* counted, however submissions and answers break off between their writes.
DaysAreAsApproved ==
  /\ CorrectnessTypeOK /\ ToldOfRows
  /\ NoHalfAskedTwice /\ ApprovedHasItsSheet /\ OnlyApprovedIsCounted
=============================================================================
