-------------------------- MODULE LeaveProperties --------------------------
(***************************************************************************)
(* What the leave desk promises.                                           *)
(***************************************************************************)
EXTENDS LeaveDesk

Bucket ==
  [status : {"NONE", "OPEN", "EXPIRED"}, granted : Nat, used : Nat, pending : Nat,
   expired : Nat]

Book == [bucket : [Years -> Bucket], alloc : [LeaveRequests -> [Years -> Nat]]]

\* Every table and every handler holds values the code can give it: no column
\* of a bucket is negative, whatever was released from it.
TypeOK ==
  /\ today \in Days /\ hire \in HireDays
  /\ book \in Book
  /\ request \in [LeaveRequests -> [status : Statuses, span : Spans \cup {NoSpan}]]
  /\ decisions \in [LeaveRequests -> 0..2]
  /\ deducted \in [Years -> Nat]
  /\ attended \subseteq WorkDays
  /\ adjusted \in 0..MaxAdjusted /\ epoch \in 0..MaxRebuilt
  /\ \A h \in Handlers :
       /\ proc[h].op \in Ops
       /\ proc[h].seen \in Book /\ proc[h].next \in Book

-----------------------------------------------------------------------------
HeldBy(status, y) ==
  SumFunctionOnSet([r \in LeaveRequests |-> book.alloc[r][y]],
                   {r \in LeaveRequests : request[r].status = status})

\* The buckets agree with the requests: what a bucket counts as used is what
\* the approved requests hold of it and what was deducted by hand, and an open
\* one has reserved what the pending requests hold.  Bucket columns and
\* allocation rows are written by different statements of five operations.
BucketsAgreeWithRequests ==
  \A y \in Years :
    LET b == book.bucket[y]
    IN /\ b.used = HeldBy("APPROVED", y) + deducted[y]
       /\ b.status = "OPEN" => b.pending = HeldBy("PENDING", y)

\* Nobody gets more leave than was granted: without a corrected hire date the
\* days used, reserved and expired of a bucket never exceed its grant.
NeverOverdrawn == epoch = 0 => \A y \in Years : Remaining(book.bucket[y]) >= 0

\* A request that counts is covered: without a corrected hire date the buckets
\* hold exactly the days a pending or approved request asks for, and none of
\* a request that was turned down or withdrawn.
HeldInFull ==
  epoch = 0 =>
    \A r \in LeaveRequests :
      SumFunctionOnSet(book.alloc[r], Years)
        = IF r \in StandingRequests /\ request[r].span.tracked THEN Size(r) ELSE 0

\* The books of annual leave balance (annual-leave.service: reserve, consume,
\* release, expire, adjust, rebuild): every day taken, reserved or deducted is
\* held against a bucket that was granted it, no more and no less.
BooksBalance == BucketsAgreeWithRequests /\ NeverOverdrawn /\ HeldInFull

\* docs-phase5-7: "submit non-overlapping leave requests".  No half-day is
\* covered by two requests that are pending or approved.
NoDayOffTwice ==
  \A r, s \in StandingRequests :
    r # s => request[r].span.slots \cap request[s].span.slots = {}

\* docs-phase5-7: "Approval is blocked when attendance already exists inside the
\* requested date range", and check-in is refused on approved leave: no day has
\* both a timesheet and approved leave.
NoAttendanceOnLeave ==
  \A r \in LeaveRequests :
    request[r].status = "APPROVED" =>
      \A d \in attended : d \notin request[r].span.first..request[r].span.last

\* "Only pending leave can be decided" (decide): a request that was approved or
\* rejected has the one row of LeaveDecision that says so, any other has none.
AnsweredOnce ==
  \A r \in LeaveRequests :
    decisions[r] = IF request[r].status \in {"APPROVED", "REJECTED"} THEN 1 ELSE 0

\* A half-day is taken off once, by a request that was answered once, and not
\* worked (create, decide, cancel; check-in).
DaysOffAreClear == AnsweredOnce /\ NoDayOffTwice /\ NoAttendanceOnLeave

\* Carry-over that expired does not come back: however stale the rows a
\* transaction read, an expired bucket stays expired and keeps what it lost,
\* until a corrected hire date replaces the book.
ExpiredStaysExpired ==
  [][\A y \in Years :
       epoch' = epoch /\ book.bucket[y].status = "EXPIRED" =>
         /\ book'.bucket[y].status = "EXPIRED"
         /\ book'.bucket[y].expired = book.bucket[y].expired]_vars

\* A year's leave is there to be used for MaxCarryYears after it ends: no bucket
\* is expired before.
CarriedOverForLongEnough ==
  \A y \in Years : book.bucket[y].status = "EXPIRED" => today >= hire + (y + 1 + MaxCarryYears) * YearLength

\* Once a balance has been shown, leave earned long ago is not offered: the
\* open buckets of a settled book are those whose carry-over still runs.
SettledIsCurrent ==
  \A y \in Years :
    LET settled == Settle(book, HeldNow, Sizes, StartDates, hire, today)
    IN hire <= today =>
         (settled.bucket[y].status = "OPEN"
            <=> y <= CompletedYears(hire, today) /\ today < ExpiresOn(y, hire))

\* Carried-over leave lasts for as long as the policy gives it, and no longer
\* (expireBuckets, settle).
CarryOverIsKept == CarriedOverForLongEnough /\ SettledIsCurrent
=============================================================================
