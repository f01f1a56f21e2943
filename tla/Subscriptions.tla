--------------------------- MODULE Subscriptions ---------------------------
(***************************************************************************)
(* The subscriptions of the vault: one subscription and the row it keeps   *)
(* for each month it runs, with what the month costs and whether it was    *)
(* paid (vault.service.ts).  Months are numbers; an open subscription runs *)
(* OpenMonths months (24 in the code).                                     *)
(***************************************************************************)
EXTENDS ApiProcess

CONSTANTS
  Months,      \* the months of the instance, 0 the first
  OpenMonths,  \* months an open subscription is given rows for
  Orders,      \* bodies of POST /subscriptions
  Updates,     \* bodies of PATCH /subscriptions/:id: what they name, only
  Edits        \* bodies of PUT /subscriptions/:id/periods/:yearMonth

VARIABLES
  subscription,  \* the row, Absent or Deleted
  period,        \* the row of each month, or NoPeriod
  month          \* the month it is

subscriptionVars == <<apiVars, subscription, period, month>>

Absent == [state |-> "absent"]
Deleted == [state |-> "deleted"]
IsLive == subscription.state = "live"
NoPeriod == [status |-> "none"]
Open == 1000  \* an end date of null

\* input.field ?? fallback, over what a body names.
Named(input, field, fallback) ==
  IF field \in DOMAIN input THEN input[field] ELSE fallback

\* What the schemas let through.
IsBody(input) ==
  /\ \A f \in {"seats", "unit", "start", "end", "from"} : Named(input, f, 0) \in Nat
  /\ Named(input, "cycle", "MONTHLY") \in {"MONTHLY", "YEARLY"}
  /\ Named(input, "type", "COMPANY") \in {"COMPANY", "PERSON"}

Payments == {"WAITING", "PAID", "CANCELLED"}

ASSUME SubscriptionAssumption ==
  /\ OpenMonths \in Nat /\ Months \subseteq Nat /\ \E last \in Months : Months = 0..last
  /\ \A input \in Orders : IsBody(input) /\ {"seats", "unit", "start", "end"} \subseteq DOMAIN input
  /\ \A input \in Updates : IsBody(input)
  /\ \A input \in Edits : /\ Named(input, "status", "PAID") \in Payments
                          /\ Named(input, "paid", TRUE) \in BOOLEAN
                          /\ Named(input, "amount", 0) \in Nat

\* The body a handler gets: the schema fills in the defaults of the fields
\* that are not named, those of PATCH too, whose fields are optional fields
\* with a default.
Parsed(input) ==
  [f \in DOMAIN input \cup {"cycle", "type"} |->
    Named(input, f, IF f = "cycle" THEN "MONTHLY" ELSE "COMPANY")]

EndOf(terms) ==
  IF terms.end = Open THEN terms.start + OpenMonths - 1 ELSE terms.end

MonthsInRange(terms) == {m \in Months : m \in terms.start..EndOf(terms)}

PeriodAmount(terms) ==
  IF terms.cycle = "YEARLY" THEN (terms.seats * terms.unit) \div 12
  ELSE terms.seats * terms.unit

NewPeriod(terms) ==
  [status |-> "WAITING", dated |-> FALSE, amount |-> PeriodAmount(terms), byHand |-> FALSE]

Added(terms) == NewPeriod(terms)

\* Fault: a row that is there keeps its amount.
LeftAlone(row, terms) == row

Rewritten(row, terms) == [row EXCEPT !.amount = PeriodAmount(terms), !.byHand = FALSE]

IsReached(m, from, terms) == m >= from /\ m >= terms.start

\* The rows after the terms changed: missing months are added, those from
\* the given month on are rewritten, those out of range are deleted.
SyncPeriods(terms, from) ==
  [m \in Months |->
    IF m \notin MonthsInRange(terms) THEN NoPeriod
    ELSE IF period[m] = NoPeriod THEN Added(terms)
    ELSE IF IsReached(m, from, terms) THEN Rewritten(period[m], terms)
    ELSE period[m]]

\* Who uses it: a person who is named, or else the company.
Assignee(input, row) ==
  IF input.type = "PERSON" THEN Named(input, "person", row.person) ELSE "none"

CreateSubscription(input) ==
  /\ subscription = Absent
  /\ Parsed(input).type = "PERSON" => "person" \in DOMAIN input
  /\ LET terms == Parsed(input)
     IN /\ subscription' = [state |-> "live", seats |-> terms.seats, unit |-> terms.unit,
             cycle |-> terms.cycle, start |-> terms.start, end |-> terms.end,
             type |-> terms.type, person |-> Assignee(terms, [person |-> "none"]),
             agreedFrom |-> terms.start]
        /\ period' = SyncPeriods(terms, terms.start)
  /\ AtOnce
  /\ UNCHANGED month

\* The month an update counts from.  A start date is longer than the name of
\* its month and sorts after it.
From(input, terms) ==
  Named(input, "from",
    IF {"seats", "unit", "cycle"} \cap DOMAIN input # {} THEN month ELSE terms.start + 1)

\* The terms the rows are rewritten to, over the row read before.
NextTerms(input, row) ==
  [f \in {"seats", "unit", "cycle", "start", "end"} |-> Named(input, f, row[f])]

CheckUpdateSubscription(h, input) ==
  LET named == Parsed(input)
      terms == NextTerms(named, subscription)
  IN /\ IsLive
     /\ "type" \in DOMAIN named /\ named.type = "PERSON"
          => Assignee(named, subscription) # "none"
     /\ Hold(h, [op |-> "update", input |-> input, terms |-> terms, from |-> From(named, terms),
                 person |-> IF "type" \in DOMAIN named THEN Assignee(named, subscription)
                            ELSE subscription.person])
     /\ UNCHANGED <<subscription, period, month>>

\* The requests in flight, told which rows they read are gone.
Losing(rows) ==
  [g \in Handlers |->
    IF request[g].op = "period" /\ rows[request[g].month] = NoPeriod
    THEN [request[g] EXCEPT !.existing = IF @ = "yes" THEN "gone" ELSE @]
    ELSE request[g]]

UpdateSubscription(h) ==
  LET r == request[h]
      named == Parsed(r.input)
      rewrites == {"seats", "unit", "cycle", "start", "end"} \cap DOMAIN named # {}
      Now(f) == Named(named, f, subscription[f])
      rows == IF rewrites THEN SyncPeriods(r.terms, r.from) ELSE period
  IN /\ r.op = "update"
     /\ IsLive
     /\ subscription' = [state |-> "live", seats |-> Now("seats"), unit |-> Now("unit"),
          cycle |-> Now("cycle"), start |-> Now("start"), end |-> Now("end"),
          type |-> Now("type"), person |-> r.person,
          agreedFrom |-> IF rewrites THEN r.from ELSE subscription.agreedFrom]
     /\ period' = rows
     /\ request' = [Losing(rows) EXCEPT ![h] = NoRequest]
     /\ UNCHANGED <<overlapped, month>>

\* Deleting the row cascades to its periods.
DeleteSubscription ==
  LET rows == [m \in Months |-> NoPeriod]
  IN /\ IsLive
     /\ subscription' = Deleted
     /\ period' = rows
     /\ request' = Losing(rows)
     /\ MeetsAnother
     /\ UNCHANGED month

\* paymentFromInput.
PaymentFrom(input, existing) ==
  IF "status" \in DOMAIN input THEN input.status
  ELSE IF "paid" \in DOMAIN input THEN (IF input.paid THEN "PAID" ELSE "WAITING")
  ELSE IF existing = NoPeriod THEN "WAITING" ELSE existing.status

\* A month is edited or paid by hand, a month out of range too.
CheckUpsertPeriod(h, m, input) ==
  LET was == IF period[m] = NoPeriod THEN NewPeriod(subscription) ELSE period[m]
  IN /\ IsLive
     /\ Hold(h, [op |-> "period", month |-> m, existing |-> IF period[m] = NoPeriod THEN "no" ELSE "yes",
                 amount |-> Named(input, "amount", was.amount),
                 status |-> PaymentFrom(input, period[m])])
     /\ UNCHANGED <<subscription, period, month>>

\* A row has a date of payment when it is paid.
Dated(r) == r.status = "PAID"

\* The row read before is updated, or a row is created; a row of the month
\* that was created meanwhile refuses it.
UpsertPeriod(h) ==
  LET r == request[h]
  IN /\ r.op = "period"
     /\ IsLive
     /\ r.existing = IF period[r.month] = NoPeriod THEN "no" ELSE "yes"
     /\ period' = [period EXCEPT ![r.month] =
          [status |-> r.status, dated |-> Dated(r), amount |-> r.amount, byHand |-> TRUE]]
     /\ Answer(h)
     /\ UNCHANGED <<subscription, month>>

(* What the screens show *)

\* resolveActionPeriod: the month the screen asks to pay for, the earliest
\* that waits from this month on, else the earliest cancelled one, else the
\* month after the last one paid.
Upcoming(status) == {m \in Months : m >= month /\ period[m].status = status}

EarliestOf(S) == CHOOSE m \in S : \A n \in S : m <= n
LatestOf(S) == CHOOSE m \in S : \A n \in S : n <= m

ActionMonth ==
  IF Upcoming("WAITING") # {} THEN EarliestOf(Upcoming("WAITING"))
  ELSE IF Upcoming("CANCELLED") # {} THEN EarliestOf(Upcoming("CANCELLED"))
  ELSE IF Upcoming("PAID") # {} THEN LatestOf(Upcoming("PAID")) + 1
  ELSE month

NextMonth ==
  /\ month + 1 \in Months
  /\ month' = month + 1
  /\ UNCHANGED <<apiVars, subscription, period>>

SubscriptionFailure == \E h \in Handlers : BreakOff(h) /\ UNCHANGED <<subscription, period, month>>

SubscriptionInit ==
  /\ subscription = Absent
  /\ period = [m \in Months |-> NoPeriod]
  /\ month = 0
  /\ ApiInit

SubscriptionNext ==
  \/ \E input \in Orders : CreateSubscription(input)
  \/ \E h \in Handlers, input \in Updates : CheckUpdateSubscription(h, input)
  \/ \E h \in Handlers : UpdateSubscription(h) \/ UpsertPeriod(h)
  \/ \E h \in Handlers, m \in Months, input \in Edits : CheckUpsertPeriod(h, m, input)
  \/ DeleteSubscription
  \/ NextMonth

SubscriptionSpec ==
  SubscriptionInit /\ [][SubscriptionNext \/ SubscriptionFailure]_subscriptionVars

-----------------------------------------------------------------------------
(* What the months of a subscription promise.                              *)

\* Types of the subscription and its rows; nobody is named who uses it when the
\* company does.
SubscriptionTypeOK ==
  /\ subscription.state \in {"absent", "live", "deleted"}
  /\ IsLive =>
       /\ subscription.cycle \in {"MONTHLY", "YEARLY"}
       /\ subscription.type = "COMPANY" => subscription.person = "none"
  /\ \A m \in Months : period[m] # NoPeriod =>
       /\ period[m].status \in Payments
       /\ period[m].amount \in Nat
       /\ period[m].dated \in BOOLEAN

\* A month carries the date of its payment exactly while it is paid, however
\* it was paid, taken back and edited (upsertPeriod).
PaidHasItsDate ==
  \A m \in Months : period[m] # NoPeriod => (period[m].dated <=> period[m].status = "PAID")

\* One after the other, the updates leave a row for every month of the term
\* (syncPeriods).
RowsCoverTheTerm ==
  ~overlapped /\ IsLive => \A m \in MonthsInRange(subscription) : period[m] # NoPeriod

\* One after the other, the updates leave every month of the term, from the
\* one the last update counts from, at the price agreed last, unless the
\* month was edited by hand (updateSubscription, syncPeriods).
BilledAsAgreed ==
  ~overlapped /\ IsLive =>
    \A m \in MonthsInRange(subscription) :
      m >= subscription.agreedFrom /\ period[m] # NoPeriod /\ ~period[m].byHand
        => period[m].amount = PeriodAmount(subscription)

\* The month the screen asks to pay for is neither over nor paid
\* (resolveActionPeriod).
AsksForAnUnpaidMonth ==
  ActionMonth >= month /\ (ActionMonth \in Months => period[ActionMonth].status # "PAID")

\* The months of a subscription are those of its term at the price agreed, each
\* paid once and asked for until then, through updates, payments, edits and
\* deletion (syncPeriods, upsertPeriod, resolveActionPeriod).
MonthsAreBilled ==
  /\ SubscriptionTypeOK /\ BilledAsAgreed /\ RowsCoverTheTerm
  /\ PaidHasItsDate /\ AsksForAnUnpaidMonth
=============================================================================
