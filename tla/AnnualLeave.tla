---------------------------- MODULE AnnualLeave ----------------------------
(***************************************************************************)
(* The annual leave ledger of one employee: a bucket of days for each year *)
(* of service, filled by accrual, reserved and consumed oldest first, and  *)
(* expired when its carry-over runs out.  A book is what a transaction     *)
(* reads and writes: the buckets and which of their days each leave        *)
(* request holds.  The operators are the transaction bodies of             *)
(* annual-leave.service, as functions from a book to a book.               *)
(*                                                                         *)
(* Leave is counted in half-days, the smallest amount that can be asked    *)
(* for of an ordinary working day.                                         *)
(***************************************************************************)
EXTENDS Integers, FiniteSets, FiniteSetsExt, Functions, Folds

CONSTANTS
  LeaveRequests,   \* identities of leave requests
  LastDay,         \* the days of the model are 0..LastDay
  YearLength,      \* days in a leave year
  MonthLength,     \* DAYS_PER_SERVICE_MONTH
  MonthsPerYear,   \* months that earn the whole first-year entitlement
  BaseAnnual,      \* BASE_ANNUAL_DAYS
  MaxCarryYears    \* MAX_CARRY_YEARS

ASSUME LeaveYearAssumption ==
  /\ LastDay \in Nat
  /\ YearLength \in Nat \ {0} /\ MonthLength \in Nat \ {0}
  /\ MonthsPerYear \in Nat \ {0}
  /\ BaseAnnual \in Nat /\ MaxCarryYears \in Nat
  /\ MonthLength * MonthsPerYear <= YearLength

Days == 0..LastDay

\* Leave years, by the years of service completed when they start.
Years == 0..(LastDay \div YearLength)

NoBucket == [status |-> "NONE", granted |-> 0, used |-> 0, pending |-> 0, expired |-> 0]

NoAllocation == [y \in Years |-> 0]

EmptyBook == [bucket |-> [y \in Years |-> NoBucket],
              alloc  |-> [r \in LeaveRequests |-> NoAllocation]]

-----------------------------------------------------------------------------
(* The policy *)

CompletedYears(hire, day) == (day - hire) \div YearLength

ServiceMonths(hire, day) == (day - hire) \div MonthLength

ProRata(hire, day) ==
  (BaseAnnual * Min({MonthsPerYear, ServiceMonths(hire, day)})) \div MonthsPerYear

\* The first year is earned month by month; a later one is granted when it
\* starts, with a day more for every two years of service.
Entitlement(y, hire, day) ==
  CASE y = 0 /\ CompletedYears(hire, day) = 0 -> ProRata(hire, day)
    [] y = 0 /\ CompletedYears(hire, day) > 0 -> BaseAnnual
    [] OTHER -> BaseAnnual + (y - 1) \div 2

\* Fault: a year's bucket expires when the next one starts.
ExpiresNextYear(y, hire) == hire + (y + 1) * YearLength

ExpiresOn(y, hire) == hire + (y + 1 + MaxCarryYears) * YearLength

Remaining(b) == b.granted - b.used - b.pending - b.expired

Free(b) == Max({0, Remaining(b)})

OpenYears(book) == {y \in Years : book.bucket[y].status = "OPEN"}

FreeDays(book) == [y \in Years |-> Free(book.bucket[y])]

\* What the open buckets older than y could give.
FreeBefore(book, y) == SumFunctionOnSet(FreeDays(book), {x \in OpenYears(book) : x < y})

\* Oldest first, each bucket gives what it has until the days are covered.
AllocateFifo(book, days) ==
  [y \in Years |->
     IF y \in OpenYears(book)
       THEN Min({Free(book.bucket[y]), Max({0, days - FreeBefore(book, y)})})
       ELSE 0]

Shortfall(book, days) ==
  Max({0, days - SumFunctionOnSet(FreeDays(book), OpenYears(book))})

-----------------------------------------------------------------------------
(* ensureAccrual *)

\* The days nobody holds are lost, and the bucket holds nothing for pending
\* requests any more.
Expired(b) ==
  [b EXCEPT !.status = "EXPIRED", !.expired = @ + Free(b), !.pending = 0]

ToppedUp(b, days) ==
  IF b.status = "NONE"
    THEN [NoBucket EXCEPT !.status = "OPEN", !.granted = days]
    ELSE [b EXCEPT !.granted = Max({@, days})]

AccruedBucket(b, y, hire, day) ==
  LET started == IF y <= CompletedYears(hire, day)
                   THEN ToppedUp(b, Entitlement(y, hire, day)) ELSE b
  IN IF started.status = "OPEN" /\ ExpiresOn(y, hire) <= day
       THEN Expired(started) ELSE started

Accrue(book, hire, day) ==
  IF day < hire THEN book
  ELSE [book EXCEPT !.bucket =
          [y \in Years |-> AccruedBucket(book.bucket[y], y, hire, day)]]

-----------------------------------------------------------------------------
(* applyToBuckets, consumeReserved, release, adjust *)

\* An overdraw is charged to the newest open bucket.
WithOverdraw(book, take, short) ==
  [y \in Years |->
     IF short > 0 /\ OpenYears(book) # {} /\ y = Max(OpenYears(book))
       THEN take[y] + short ELSE take[y]]

\* The days of request r are taken into the given column.
Charge(book, r, days, column) ==
  LET take == WithOverdraw(book, AllocateFifo(book, days), Shortfall(book, days))
  IN [bucket |-> [y \in Years |-> [book.bucket[y] EXCEPT ![column] = @ + take[y]]],
      alloc  |-> [book.alloc EXCEPT ![r] =
                    [y \in Years |-> IF take[y] > 0 THEN take[y] ELSE @[y]]]]

\* Fault: the days stay reserved when they are consumed.
ConsumedTwice(b, days) == [b EXCEPT !.used = @ + days]

Consumed(b, days) == [b EXCEPT !.pending = Max({0, @ - days}), !.used = @ + days]

ConsumeReserved(book, r, days, hire, day) ==
  IF book.alloc[r] = NoAllocation
    THEN Charge(Accrue(book, hire, day), r, days, "used")
    ELSE [book EXCEPT !.bucket =
            [y \in Years |-> IF book.alloc[r][y] > 0
                               THEN Consumed(book.bucket[y], book.alloc[r][y])
                               ELSE book.bucket[y]]]

\* Fault: a release may leave less than nothing reserved.
ReleasedUnclamped(b, days) == [b EXCEPT !.pending = @ - days]

Released(b, days) == [b EXCEPT !.pending = Max({0, @ - days})]

Release(book, r) ==
  [bucket |-> [y \in Years |-> Released(book.bucket[y], book.alloc[r][y])],
   alloc  |-> [book.alloc EXCEPT ![r] = NoAllocation]]

\* A grant goes to the newest open bucket, a deduction to the oldest ones.
CanAdjust(book, days) ==
  IF days > 0 THEN OpenYears(book) # {} ELSE Shortfall(book, -days) = 0

Adjust(book, days) ==
  LET take == AllocateFifo(book, -days)
  IN [book EXCEPT !.bucket =
        [y \in Years |->
           IF days > 0
             THEN IF y = Max(OpenYears(book))
                    THEN [book.bucket[y] EXCEPT !.granted = @ + days] ELSE book.bucket[y]
             ELSE [book.bucket[y] EXCEPT !.used = @ + take[y]]]]

-----------------------------------------------------------------------------
(* syncUsageFromRequests and rebuild; held[r] is the column a request that  *)
(* still counts is held in, "none" when it does not count, and first[r] is  *)
(* the day it starts.                                                       *)

SyncOne(book, r, held, size) ==
  IF held[r] = "none" \/ book.alloc[r] # NoAllocation THEN book
  ELSE Charge(book, r, size[r], held[r])

Latest(S, first) == CHOOSE r \in S : \A s \in S : first[s] <= first[r]

\* In the order of the start dates: the latest request comes last.
Sync(book, held, size, first) ==
  MapThenFoldSet(LAMBDA r, b : SyncOne(b, r, held, size), book,
                 LAMBDA r : r, LAMBDA S : Latest(S, first), LeaveRequests)

\* A balance is shown after accrual, sync and accrual again.
Settle(book, held, size, first, hire, day) ==
  Accrue(Sync(Accrue(book, hire, day), held, size, first), hire, day)

Rebuild(held, size, first, hire, day) ==
  Sync(Accrue(EmptyBook, hire, day), held, size, first)
=============================================================================
