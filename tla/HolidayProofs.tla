---------------------------- MODULE HolidayProofs ----------------------------
(***************************************************************************)
(* Whoever is told of a holiday has the day off, and keeps it, for any     *)
(* employees, holidays, runs and days.  The strengthening says which       *)
(* holidays a request in flight may still carry: those whose date nothing  *)
(* changes any more, because they are in the catalog or have a row.  While *)
(* runs come one after the other, a second strengthening says what a run   *)
(* has read is still so, and nobody is told twice of a day off.            *)
(***************************************************************************)
EXTENDS HolidayCalendar, TLAPS

\* The requests that apply holidays: between two of them, and with one.
Between == [op : {"next"}, rest : SUBSET Items, auto : BOOLEAN, job : BOOLEAN,
            x : {NoHoliday}, to : SUBSET Staff]

Within == [op : {"apply", "announce"}, rest : SUBSET Items, auto : BOOLEAN, job : BOOLEAN,
           x : Holidays, to : SUBSET Staff]

Runs == {NoRequest} \cup Between \cup Within

Known(x) == x \in CatalogHolidays \/ holiday[x].made

HasTheDayOff(e, x) == dayOff[e][holiday[x].date] # NoHoliday

\* What a request carries is known, and whom it is about to tell has the day off.
Fits(r) ==
  /\ r \in Between \cup Within => \A i \in r.rest : Known(i.x)
  /\ r \in Within => Known(r.x)
  /\ r.op = "announce" => \A e \in r.to : HasTheDayOff(e, r.x)

ToldHaveTheDayOff ==
  \A e \in Staff, x \in Holidays :
    announced[e][x] # "never" => Known(x) /\ HasTheDayOff(e, x)

AutomaticAreMade == \A x \in Holidays : holiday[x].auto => holiday[x].made

Inv ==
  /\ HolidayTypeOK
  /\ AutomaticAreMade
  /\ request \in [Handlers -> Runs]
  /\ \A h \in Handlers : Fits(request[h])
  /\ ToldHaveTheDayOff

\* What a step may never do to the tables.
DatesAreKept ==
  \A x \in Holidays : Known(x) => Known(x)' /\ holiday'[x].date = holiday[x].date

DaysAreKept ==
  \A e \in Staff, d \in Dates : dayOff[e][d] # NoHoliday => dayOff'[e][d] = dayOff[e][d]

USE HolidayAssumption

-----------------------------------------------------------------------------
LEMMA NoRequestFits == NoRequest \in Runs /\ Fits(NoRequest) /\ Fits(NoRequest)'
BY DEF NoRequest, Runs, Fits, Between, Within

\* A handler that comes to hold a request that fits, beside tables that keep
\* what they have.
LEMMA KeptByOne ==
  ASSUME Inv, HolidayTypeOK', AutomaticAreMade', DatesAreKept, DaysAreKept, UNCHANGED announced,
         NEW h \in Handlers, NEW r \in Runs, Fits(r)', request' = [request EXCEPT ![h] = r]
  PROVE  Inv'
<1>1. request' \in [Handlers -> Runs] /\ request'[h] = r
  BY DEF Inv
<1>2. ASSUME NEW e \in Staff, NEW x \in Holidays, Known(x), HasTheDayOff(e, x)
      PROVE  Known(x)' /\ HasTheDayOff(e, x)'
  BY <1>2 DEF Inv, DatesAreKept, DaysAreKept, HasTheDayOff, HolidayTypeOK, HolidayRows
<1>3. ASSUME NEW g \in Handlers, g # h PROVE Fits(request[g])'
  <2>1. request'[g] = request[g] /\ request[g] \in Runs /\ Fits(request[g])
    BY <1>3 DEF Inv
  <2>2. PICK s \in Runs : s = request[g]
    BY <2>1
  <2>3. s \in Between \cup Within => \A i \in s.rest : i.x \in Holidays /\ Known(i.x)
    BY <2>1, <2>2 DEF Fits, Between, Within, Items
  <2>4. s \in Within => s.x \in Holidays /\ s.to \subseteq Staff /\ Known(s.x)
    BY <2>1, <2>2 DEF Fits, Within
  <2>5. s.op = "announce" => s \in Within /\ \A e \in s.to : HasTheDayOff(e, s.x)
    BY <2>1, <2>2 DEF Fits, Between, Within, Runs, NoRequest
  <2>6. Fits(s)'
    BY <1>2, <2>3, <2>4, <2>5 DEF Fits, DatesAreKept
  <2>7. QED
    BY <2>1, <2>2, <2>6
<1>4. ToldHaveTheDayOff'
  BY <1>2 DEF Inv, ToldHaveTheDayOff
<1>5. QED
  BY <1>1, <1>3, <1>4 DEF Inv

\* The same, when no handler moves on.
LEMMA KeptByNone ==
  ASSUME Inv, HolidayTypeOK', UNCHANGED <<holiday, dayOff, announced, request>>
  PROVE  Inv'
BY DEF Inv, Fits, Known, HasTheDayOff, ToldHaveTheDayOff, AutomaticAreMade

\* A step that leaves the rows, the days off and the employees as they are.
LEMMA ReadsKeep ==
  ASSUME Inv, UNCHANGED <<holiday, dayOff, announced, working, today>>
  PROVE  HolidayTypeOK' /\ AutomaticAreMade' /\ DatesAreKept /\ DaysAreKept
BY DEF Inv, HolidayTypeOK, AutomaticAreMade, DatesAreKept, DaysAreKept, Known

LEMMA InvInit == HolidayInit => Inv
<1> SUFFICES ASSUME HolidayInit PROVE Inv
  OBVIOUS
<1>1. HolidayTypeOK
  BY DEF HolidayInit, HolidayTypeOK, HolidayRows, Row, Holidays, Dates
<1>2. /\ request \in [Handlers -> Runs]
      /\ \A h \in Handlers : Fits(request[h])
  BY NoRequestFits DEF HolidayInit, ApiInit
<1>3. ToldHaveTheDayOff /\ AutomaticAreMade
  BY DEF HolidayInit, ToldHaveTheDayOff, AutomaticAreMade, Row
<1>4. QED
  BY <1>1, <1>2, <1>3 DEF Inv

-----------------------------------------------------------------------------
(* Requests that begin *)

LEMMA ApplyingFits ==
  ASSUME NEW rest \in SUBSET Items, NEW auto \in BOOLEAN, NEW job \in BOOLEAN,
         \A i \in rest : Known(i.x)'
  PROVE  Applying(rest, auto, job) \in Runs /\ Fits(Applying(rest, auto, job))'
BY DEF Applying, Runs, Between, Within, Fits

LEMMA StartApplyKeeps ==
  ASSUME Inv, NEW h \in Handlers, NEW x \in Holidays, NEW audience \in Audiences,
         StartApply(h, x, audience)
  PROVE  Inv'
<1> DEFINE r == Applying({Item(x, audience)}, FALSE, FALSE)
<1>1. {Item(x, audience)} \in SUBSET Items /\ \A i \in {Item(x, audience)} : Known(i.x)'
  BY DEF StartApply, Items, Item, Known
<1>2. r \in Runs /\ Fits(r)'
  BY <1>1, ApplyingFits
<1>3. QED
  BY <1>2, ReadsKeep, KeptByOne DEF StartApply, Hold

LEMMA RunAutoApplyJobKeeps ==
  ASSUME Inv, NEW h \in Handlers, RunAutoApplyJob(h)
  PROVE  Inv'
<1> DEFINE due == {x \in Holidays : IsDue(x)}
<1> DEFINE rest == {Item(x, holiday[x].audience) : x \in due}
<1>1. rest \in SUBSET Items /\ \A i \in rest : Known(i.x)'
  <2>1. \A x \in due : holiday[x].audience \in Audiences /\ holiday'[x] = holiday[x] /\ Known(x)
    BY DEF RunAutoApplyJob, Inv, HolidayTypeOK, HolidayRows, IsDue, IsPending, AutomaticAreMade,
       Known
  <2>2. QED
    BY <2>1 DEF Items, Item, Known
<1>2. PICK r \in Runs : r = Applying(rest, TRUE, TRUE) /\ Fits(r)'
  BY <1>1, ApplyingFits
<1>3. request' = [request EXCEPT ![h] = r]
  BY <1>2 DEF RunAutoApplyJob, Hold
<1>4. QED
  BY <1>2, <1>3, ReadsKeep, KeptByOne DEF RunAutoApplyJob

\* New rows are ones nothing refers to, so their dates may be anything.
LEMMA CreateCustomKeeps ==
  ASSUME Inv, NEW h \in Handlers, NEW audience \in Audiences, NEW auto \in BOOLEAN,
         NEW applyNow \in BOOLEAN, NEW xs \in SUBSET CustomHolidays, NEW new \in [xs -> Dates],
         CreateCustom(h, new, audience, auto, applyNow)
  PROVE  Inv'
<1> DEFINE due == {x \in DOMAIN new : applyNow \/ (auto /\ new[x] <= today)}
<1> DEFINE rest == {Item(x, audience) : x \in due}
<1>1. /\ xs \subseteq Holidays /\ DOMAIN new = xs
      /\ \A x \in xs : ~holiday[x].made /\ x \notin CatalogHolidays
      /\ \A x \in xs : holiday'[x] = Row(TRUE, new[x], auto, FALSE, audience)
      /\ \A x \in Holidays \ xs : holiday'[x] = holiday[x]
      /\ DOMAIN holiday' = Holidays /\ holiday' = [x \in Holidays |-> holiday'[x]]
  BY DEF CreateCustom, Holidays
<1>2. \A x \in xs : /\ holiday'[x] \in HolidayRows
                    /\ holiday'[x].made /\ holiday'[x].date = new[x]
  <2>1. ASSUME NEW x \in xs
        PROVE  /\ Row(TRUE, new[x], auto, FALSE, audience) \in HolidayRows
               /\ Row(TRUE, new[x], auto, FALSE, audience).made
               /\ Row(TRUE, new[x], auto, FALSE, audience).date = new[x]
    <3>1. new[x] \in Dates /\ (IF auto THEN audience ELSE {}) \in Audiences
      BY <1>1
    <3>2. QED
      BY <3>1 DEF Row, HolidayRows
  <2>2. QED
    BY <1>1, <2>1
<1>3. holiday' \in [Holidays -> HolidayRows]
  BY <1>1, <1>2 DEF Inv, HolidayTypeOK
<1>4. \A e \in Staff, d \in Dates : dayOff[e][d] \notin xs
  BY <1>1 DEF Inv, HolidayTypeOK
<1>5. HolidayTypeOK'
  <2>1. UNCHANGED <<dayOff, announced, working, today>>
    BY DEF CreateCustom
  <2>2. ASSUME NEW e \in Staff, NEW d \in Dates, dayOff[e][d] # NoHoliday
        PROVE  holiday'[dayOff[e][d]].made /\ holiday'[dayOff[e][d]].date = d
    BY <1>1, <1>4, <2>2 DEF Inv, HolidayTypeOK
  <2>3. QED
    BY <1>3, <2>1, <2>2 DEF Inv, HolidayTypeOK
<1>6. AutomaticAreMade'
  BY <1>1, <1>2 DEF Inv, AutomaticAreMade
<1>7. DatesAreKept /\ DaysAreKept
  BY <1>1 DEF DatesAreKept, DaysAreKept, Known, CreateCustom
<1>8. rest \in SUBSET Items /\ \A i \in rest : Known(i.x)'
  BY <1>1, <1>2 DEF Items, Item, Known
<1>9. PICK r \in Runs : r = Applying(rest, auto, FALSE) /\ Fits(r)'
  BY <1>8, ApplyingFits
<1>10. request' = [request EXCEPT ![h] = r]
  BY <1>9 DEF CreateCustom, Hold
<1>11. QED
  BY <1>5, <1>6, <1>7, <1>9, <1>10, KeptByOne DEF CreateCustom

LEMMA SetAutoApplyKeeps ==
  ASSUME Inv, NEW h \in Handlers, NEW x \in Holidays, NEW on \in BOOLEAN,
         NEW audience \in Audiences, SetAutoApply(h, x, on, audience)
  PROVE  Inv'
<1> DEFINE row == Row(TRUE, holiday[x].date, on, MarkAfter(holiday[x], on), audience)
<1> DEFINE rest == IF on /\ ~row.applied /\ row.date <= today THEN {Item(x, audience)} ELSE {}
<1>1. /\ holiday' = [holiday EXCEPT ![x] = row]
      /\ row \in HolidayRows /\ row.made /\ row.date = holiday[x].date
  <2>1. holiday[x].date \in Dates /\ MarkAfter(holiday[x], on) \in BOOLEAN
    <3>1. holiday[x].date \in Dates
      BY DEF Inv, HolidayTypeOK, HolidayRows
    <3>2. MarkAfter(holiday[x], on) \in BOOLEAN
      BY DEF MarkAfter
    <3>3. QED
      BY <3>1, <3>2
  <2>2. row \in HolidayRows /\ row.made /\ row.date = holiday[x].date
    <3>1. (IF on THEN audience ELSE {}) \in Audiences
      OBVIOUS
    <3>2. QED
      BY <2>1, <3>1 DEF Row, HolidayRows
  <2>3. holiday' = [holiday EXCEPT ![x] = row]
    BY DEF SetAutoApply
  <2>4. QED
    BY <2>2, <2>3
<1>2. HolidayTypeOK'
  <2>1. UNCHANGED <<dayOff, announced, working, today>>
    BY DEF SetAutoApply
  <2>2. /\ holiday' \in [Holidays -> HolidayRows]
        /\ \A y \in Holidays : holiday'[y].date = holiday[y].date
        /\ \A y \in Holidays : holiday[y].made => holiday'[y].made
    BY <1>1 DEF Inv, HolidayTypeOK
  <2>3. QED
    BY <2>1, <2>2 DEF Inv, HolidayTypeOK
<1>3. AutomaticAreMade' /\ DatesAreKept /\ DaysAreKept
  BY <1>1 DEF SetAutoApply, Inv, HolidayTypeOK, AutomaticAreMade, DatesAreKept, DaysAreKept, Known
<1>4. rest \in SUBSET Items /\ \A i \in rest : Known(i.x)'
  <2>1. Item(x, audience) \in Items /\ Item(x, audience).x = x
    BY DEF Items, Item
  <2>2. Known(x)'
    BY <1>1 DEF Known, Inv, HolidayTypeOK
  <2>3. rest \in SUBSET {Item(x, audience)}
    BY Zenon
  <2>4. QED
    BY <2>1, <2>2, <2>3
<1>5. PICK r \in Runs : r = Applying(rest, TRUE, FALSE) /\ Fits(r)'
  BY <1>4, ApplyingFits
<1>6. request' = [request EXCEPT ![h] = r]
  BY <1>5 DEF SetAutoApply, Hold
<1>7. QED
  BY <1>2, <1>3, <1>5, <1>6, KeptByOne DEF SetAutoApply

-----------------------------------------------------------------------------
(* The steps of a request that applies holidays *)

LEMMA ReadEmployeesKeeps ==
  ASSUME Inv, NEW h \in Handlers, NEW i \in Items, ReadEmployees(h, i)
  PROVE  Inv'
<1> DEFINE to == {e \in Reached(i.audience) : HasToWork(e, i.x)}
<1>1. PICK q \in Between : q = request[h] /\ i \in q.rest /\ \A j \in q.rest : Known(j.x)
  BY DEF ReadEmployees, Inv, Runs, Within, NoRequest, Fits
<1>2. to \subseteq Staff
  BY DEF Reached, Inv, HolidayTypeOK
<1>3. PICK r \in Within : r = [q EXCEPT !.op = "apply", !.x = i.x, !.rest = @ \ {i}, !.to = to]
  BY <1>1, <1>2 DEF Between, Within, Items
<1>4. request' = [request EXCEPT ![h] = r]
  BY <1>1, <1>3 DEF ReadEmployees, Continue
<1>5. r.op = "apply" /\ r.x = i.x /\ r.rest \subseteq q.rest
  BY <1>3 DEF Between
<1>6. r \in Runs /\ Fits(r)'
  BY <1>1, <1>5 DEF Runs, Fits, Known, ReadEmployees
<1>7. QED
  BY <1>4, <1>6, ReadsKeep, KeptByOne DEF ReadEmployees

LEMMA RefuseHolidayKeeps ==
  ASSUME Inv, NEW h \in Handlers, NEW i \in Items, RefuseHoliday(h, i)
  PROVE  Inv'
<1>1. PICK q \in Between : q = request[h] /\ \A j \in q.rest : Known(j.x)
  BY DEF RefuseHoliday, Inv, Runs, Within, NoRequest, Fits
<1> DEFINE on == [q EXCEPT !.rest = @ \ {i}]
<1>2. PICK r \in Runs : r = AfterRefusal(q, i) /\ (r = NoRequest \/ (r \in Between /\ r.rest \subseteq q.rest))
  <2>1. on \in Between /\ on.rest = q.rest \ {i}
    BY DEF Between
  <2>2. AfterRefusal(q, i) = on \/ AfterRefusal(q, i) = NoRequest
    BY DEF AfterRefusal
  <2>3. QED
    BY <2>1, <2>2 DEF Runs
<1>3. Fits(r)'
  BY <1>1, <1>2, NoRequestFits DEF Fits, Known, RefuseHoliday, Between, Within
<1>4. request' = [request EXCEPT ![h] = r]
  BY <1>1, <1>2 DEF RefuseHoliday, Continue
<1>5. QED
  BY <1>3, <1>4, ReadsKeep, KeptByOne DEF RefuseHoliday

LEMMA ApplyHolidayKeeps ==
  ASSUME Inv, NEW h \in Handlers, NEW notify \in BOOLEAN, ApplyHoliday(h, notify)
  PROVE  Inv'
<1>1. PICK q \in Within : q = request[h] /\ Known(q.x) /\ \A i \in q.rest : Known(i.x)
  BY DEF ApplyHoliday, Inv, Runs, Between, NoRequest, Fits
<1> DEFINE x == q.x
<1>2. /\ holiday' = [holiday EXCEPT ![x] = Ensured(holiday[x], q.auto)]
      /\ x \in Holidays /\ q.to \subseteq Staff
      /\ Ensured(holiday[x], q.auto) \in HolidayRows /\ Ensured(holiday[x], q.auto).made
      /\ Ensured(holiday[x], q.auto).date = holiday[x].date
  <2>1. x \in Holidays /\ q.to \subseteq Staff /\ q.auto \in BOOLEAN /\ holiday[x] \in HolidayRows
    BY DEF Within, Inv, HolidayTypeOK
  <2>2. (holiday[x].applied \/ q.auto) \in BOOLEAN
    OBVIOUS
  <2>3. QED
    BY <1>1, <2>1, <2>2 DEF ApplyHoliday, Ensured, HolidayRows
<1>3. \A e \in Staff, d \in Dates :
         dayOff'[e][d] = IF e \in q.to /\ d = holiday[x].date /\ dayOff[e][d] = NoHoliday
                         THEN x ELSE dayOff[e][d]
  BY <1>1 DEF ApplyHoliday, Assigned, Inv, HolidayTypeOK
<1>4. dayOff' \in [Staff -> [Dates -> Holidays \cup {NoHoliday}]]
  <2>1. dayOff' = [e \in Staff |->
                    [dayOff[e] EXCEPT ![holiday[x].date] = Assigned(@, x, q, e)]]
    BY <1>1 DEF ApplyHoliday
  <2>2. \A e \in Staff : Assigned(dayOff[e][holiday[x].date], x, q, e) \in Holidays \cup {NoHoliday}
    BY <1>2 DEF Assigned, Inv, HolidayTypeOK, HolidayRows
  <2>3. QED
    BY <1>2, <2>1, <2>2 DEF Inv, HolidayTypeOK
<1>5. DatesAreKept /\ DaysAreKept
  BY <1>2, <1>3 DEF DatesAreKept, DaysAreKept, Known, Inv, HolidayTypeOK
<1>6. \A y \in Holidays : holiday'[y].date = holiday[y].date /\ (holiday[y].made \/ y = x => holiday'[y].made)
  BY <1>2 DEF Inv, HolidayTypeOK
<1>7. HolidayTypeOK'
  <2>1. holiday' \in [Holidays -> HolidayRows]
    BY <1>2 DEF Inv, HolidayTypeOK
  <2>2. ASSUME NEW e \in Staff, NEW d \in Dates, dayOff'[e][d] # NoHoliday
        PROVE  holiday'[dayOff'[e][d]].made /\ holiday'[dayOff'[e][d]].date = d
    BY <1>2, <1>3, <1>6, <2>2 DEF Inv, HolidayTypeOK
  <2>3. QED
    BY <1>4, <2>1, <2>2 DEF ApplyHoliday, Inv, HolidayTypeOK
<1>8. AutomaticAreMade'
  BY <1>2 DEF Ensured, Inv, AutomaticAreMade, HolidayTypeOK
<1> DEFINE after == [q EXCEPT !.op = "announce", !.to = IF notify THEN @ ELSE {}]
<1>9. PICK r \in Within : r = after /\ r.x = x /\ r.rest = q.rest /\ r.to \subseteq q.to
  <2>1. (IF notify THEN q.to ELSE {}) \in SUBSET q.to /\ q.to \in SUBSET Staff
    BY DEF Within
  <2>2. after \in Within /\ after.x = x /\ after.rest = q.rest /\ after.to \subseteq q.to
    BY <2>1 DEF Within
  <2>3. QED
    BY <2>2
<1>10. Fits(r)'
  <2>1. \A e \in q.to : HasTheDayOff(e, x)'
    BY <1>2, <1>3, <1>6 DEF HasTheDayOff, Inv, HolidayTypeOK, HolidayRows
  <2>2. Known(x)' /\ \A i \in q.rest : i.x \in Holidays /\ Known(i.x)'
    BY <1>1, <1>2, <1>5 DEF DatesAreKept, Within, Items
  <2>3. QED
    BY <1>9, <2>1, <2>2 DEF Fits
<1>11. r \in Runs /\ request' = [request EXCEPT ![h] = r]
  BY <1>1, <1>9 DEF ApplyHoliday, Continue, Runs
<1>12. QED
  BY <1>5, <1>7, <1>8, <1>10, <1>11, KeptByOne DEF ApplyHoliday

LEMMA AnnounceKeeps ==
  ASSUME Inv, NEW h \in Handlers, NEW e \in Staff, Announce(h, e)
  PROVE  Inv'
<1>1. PICK q \in Within : /\ q = request[h] /\ q.op = "announce" /\ e \in q.to
                          /\ Known(q.x) /\ HasTheDayOff(e, q.x)
                          /\ \A i \in q.rest : Known(i.x)
                          /\ \A f \in q.to : HasTheDayOff(f, q.x)
  BY DEF Announce, Inv, Runs, Between, NoRequest, Fits
<1>2. announced' = [announced EXCEPT ![e][q.x] = IF @ = "never" THEN "once" ELSE "again"]
  BY <1>1 DEF Announce
<1>3. HolidayTypeOK' /\ ToldHaveTheDayOff' /\ AutomaticAreMade'
  BY <1>1, <1>2 DEF Announce, Inv, HolidayTypeOK, ToldHaveTheDayOff, AutomaticAreMade, Within,
     Known, HasTheDayOff
<1> DEFINE less == [q EXCEPT !.to = @ \ {e}]
<1>4. PICK r \in Within : /\ r = less /\ r.x = q.x /\ r.rest = q.rest
                          /\ r.to \subseteq q.to /\ r.op = "announce"
  <2>1. less \in Within /\ less.x = q.x /\ less.rest = q.rest /\ less.to \subseteq q.to /\ less.op = "announce"
    BY <1>1 DEF Within
  <2>2. QED
    BY <2>1
<1>5. request' = [request EXCEPT ![h] = r]
  BY <1>1, <1>4 DEF Announce, Continue
<1>6. Fits(r)
  <2>1. Known(r.x) /\ \A i \in r.rest : Known(i.x)
    BY <1>1, <1>4 DEF Known
  <2>2. \A f \in r.to : HasTheDayOff(f, r.x)
    <3>1. r.to \subseteq q.to /\ r.x = q.x /\ \A f \in q.to : HasTheDayOff(f, q.x)
      BY <1>1, <1>4
    <3>2. QED
      BY <3>1
  <2>3. QED
    BY <2>1, <2>2 DEF Fits
<1>7. request' \in [Handlers -> Runs] /\ \A g \in Handlers : Fits(request'[g])
  BY <1>4, <1>5, <1>6 DEF Inv, Runs
<1>8. \A g \in Handlers : Fits(request[g])'
  BY <1>7 DEF Announce, Fits, Known, HasTheDayOff
<1>9. QED
  BY <1>3, <1>7, <1>8 DEF Inv

LEMMA NextHolidayKeeps ==
  ASSUME Inv, NEW h \in Handlers, NextHoliday(h)
  PROVE  Inv'
<1>1. PICK q \in Within : q = request[h] /\ \A i \in q.rest : Known(i.x)
  BY DEF NextHoliday, Inv, Runs, Between, NoRequest, Fits
<1> DEFINE next == [q EXCEPT !.op = "next", !.x = NoHoliday]
<1>2. PICK r \in Between : r = next /\ r.rest = q.rest
  <2>1. next \in Between /\ next.rest = q.rest
    BY DEF Within, Between
  <2>2. QED
    BY <2>1
<1>3. r \in Runs /\ Fits(r)'
  BY <1>1, <1>2 DEF Runs, Fits, Between, Within, Known, NextHoliday
<1>4. request' = [request EXCEPT ![h] = r]
  BY <1>1, <1>2 DEF NextHoliday, Continue
<1>5. QED
  BY <1>3, <1>4, ReadsKeep, KeptByOne DEF NextHoliday

\* Whatever a request has written stays when it ends or breaks off.
LEMMA EndKeeps ==
  ASSUME Inv, NEW h \in Handlers, Answer(h),
         UNCHANGED <<holiday, dayOff, announced, working, today>>
  PROVE  Inv'
BY NoRequestFits, ReadsKeep, KeptByOne DEF Answer, Continue

-----------------------------------------------------------------------------
LEMMA InvNext == Inv /\ [HolidayNext]_holidayVars => Inv'
<1> SUFFICES ASSUME Inv, [HolidayNext]_holidayVars PROVE Inv'
  OBVIOUS
<1>1. CASE UNCHANGED holidayVars
  BY <1>1, ReadsKeep, KeptByNone DEF holidayVars, apiVars
<1>2. ASSUME NEW h \in Handlers, HolidayRequest(h) PROVE Inv'
  BY <1>2, StartApplyKeeps, CreateCustomKeeps, SetAutoApplyKeeps DEF HolidayRequest
<1>3. ASSUME NEW h \in Handlers, ApplyStep(h) PROVE Inv'
  BY <1>3, ReadEmployeesKeeps, RefuseHolidayKeeps, ApplyHolidayKeeps, AnnounceKeeps,
     NextHolidayKeeps, EndKeeps DEF ApplyStep, EndApply
<1>4. CASE CalendarNext
  BY <1>2, <1>3, <1>4, RunAutoApplyJobKeeps DEF CalendarNext
<1>5. CASE NextDay \/ \E e \in Staff : SetWorking(e)
  <2>1. /\ working' \subseteq Staff /\ today' \in Dates
        /\ UNCHANGED <<holiday, dayOff, announced, request>>
    BY <1>5 DEF NextDay, SetWorking, AtOnce, apiVars, Inv, HolidayTypeOK, Dates
  <2>2. HolidayTypeOK'
    BY <2>1 DEF Inv, HolidayTypeOK
  <2>3. QED
    BY <2>1, <2>2, KeptByNone
<1>6. CASE HolidayFailure
  BY <1>6, EndKeeps DEF HolidayFailure, BreakOff
<1>7. QED
  BY <1>1, <1>4, <1>5, <1>6 DEF HolidayNext

LEMMA InvAlways == HolidaySpec => []Inv
BY InvInit, InvNext, PTL DEF HolidaySpec

\* The tables are well typed, and a day off refers to the row of a holiday of
\* that day, which no request may move or take away.
THEOREM TypeCorrect == HolidaySpec => []HolidayTypeOK
<1>1. Inv => HolidayTypeOK
  BY DEF Inv
<1>2. QED
  BY <1>1, InvAlways, PTL

\* Whoever is told of a holiday has that day off, though the announcement goes
\* to everyone who had nothing on that day when the employees were read (apply).
THEOREM ToldHaveTheDay == HolidaySpec => []AnnouncedHaveTheDayOff
<1>1. Inv => AnnouncedHaveTheDayOff
  BY DEF Inv, ToldHaveTheDayOff, HasTheDayOff, AnnouncedHaveTheDayOff
<1>2. QED
  BY <1>1, InvAlways, PTL

\* A day off is neither withdrawn nor handed to another holiday of that day,
\* however many runs of apply meet on it (createMany, skipDuplicates).
THEOREM DaysOffAreKept == HolidaySpec => DayOffIsKept
<1> DEFINE Kept == \A e \in Staff, d \in Dates :
                     dayOff[e][d] # NoHoliday => dayOff'[e][d] = dayOff[e][d]
<1>1. ASSUME Inv, HolidayNext PROVE UNCHANGED dayOff \/ \E h \in Handlers, n \in BOOLEAN : ApplyHoliday(h, n)
  BY <1>1 DEF HolidayNext, CalendarNext, HolidayRequest, StartApply, CreateCustom, SetAutoApply,
     RunAutoApplyJob, ApplyStep, ReadEmployees, RefuseHoliday, Announce, NextHoliday, EndApply,
     SetWorking, NextDay, HolidayFailure
<1>2. ASSUME Inv, NEW h \in Handlers, NEW n \in BOOLEAN, ApplyHoliday(h, n) PROVE Kept
  BY <1>2 DEF ApplyHoliday, Assigned, Inv, HolidayTypeOK
<1>3. Inv /\ [HolidayNext]_holidayVars => [Kept]_holidayVars
  BY <1>1, <1>2
<1>4. QED
  BY <1>3, InvAlways, PTL DEF HolidaySpec, DayOffIsKept

-----------------------------------------------------------------------------
-----------------------------------------------------------------------------
(* One run after the other *)

\* The day off somebody was told of, once, is that of the holiday they were
\* told of: nobody has two of a day, so nobody is told twice of one.
ToldOfTheirs ==
  \A e \in Staff, x \in Holidays :
    announced[e][x] # "never" => announced[e][x] = "once" /\ dayOff[e][holiday[x].date] = x

OnlyAutomaticAreMarked == \A x \in Holidays : ~holiday[x].auto => ~holiday[x].applied

\* What a request that is alone may count on: the employees it has read have
\* nothing on the day until it assigns it, and have not been told when it has;
\* and what it applies as the automatic run is automatic.
Stands(r) ==
  /\ r.op = "apply" => /\ \A e \in r.to : dayOff[e][holiday[r.x].date] = NoHoliday
                       /\ r.auto => holiday[r.x].auto
  /\ r.op = "announce" =>
       \A e \in r.to : announced[e][r.x] = "never" /\ dayOff[e][holiday[r.x].date] = r.x
  /\ r \in Between \cup Within /\ r.auto => \A i \in r.rest : holiday[i.x].auto

OneInFlight == \A g, h \in Handlers : g = h \/ AtRest(g) \/ AtRest(h)

TablesStand == ToldOfTheirs /\ OnlyAutomaticAreMarked

SerialInv ==
  /\ Inv
  /\ overlapped \in BOOLEAN
  /\ ~overlapped => OneInFlight /\ TablesStand /\ \A h \in Handlers : Stands(request[h])

LEMMA NoRequestStands == Stands(NoRequest) /\ Stands(NoRequest)'
BY DEF Stands, NoRequest, Between, Within

Moves(h, r) == Hold(h, r) \/ (~AtRest(h) /\ Continue(h, r))

\* While runs come one after the other, the others are at rest.
LEMMA OthersRest ==
  ASSUME SerialInv, NEW h \in Handlers, NEW r \in Runs, Moves(h, r)
  PROVE  /\ overlapped' \in BOOLEAN
         /\ request' = [request EXCEPT ![h] = r]
         /\ ~overlapped' => /\ ~overlapped
                            /\ \A g \in Handlers \ {h} : request[g] = NoRequest
<1>1. overlapped' \in BOOLEAN /\ request' = [request EXCEPT ![h] = r] /\ (~overlapped' => ~overlapped)
  BY DEF SerialInv, Moves, Hold, Continue, MeetsAnother
<1>2. ASSUME ~overlapped', NEW g \in Handlers \ {h} PROVE request[g] = NoRequest
  <2>1. AtRest(g)
    BY <1>1, <1>2 DEF SerialInv, Moves, Hold, Continue, MeetsAnother, OneInFlight
  <2>2. request[g] \in Runs
    BY DEF SerialInv, Inv
  <2>3. QED
    BY <2>1, <2>2 DEF AtRest, Runs, Between, Within, NoRequest
<1>3. QED
  BY <1>1, <1>2

\* What the one request in flight does has to fit itself and the tables only.
LEMMA StandsAlone ==
  ASSUME SerialInv, Inv', NEW h \in Handlers, NEW r \in Runs, Moves(h, r),
         ~overlapped /\ (\A g \in Handlers \ {h} : request[g] = NoRequest)
            => TablesStand' /\ Stands(r)'
  PROVE  SerialInv'
<1>1. /\ overlapped' \in BOOLEAN /\ request' = [request EXCEPT ![h] = r]
      /\ ~overlapped' => TablesStand' /\ Stands(r)'
      /\ ~overlapped' => \A g \in Handlers \ {h} : request[g] = NoRequest
  BY OthersRest
<1>2. request'[h] = r /\ \A g \in Handlers \ {h} : request'[g] = request[g]
  BY <1>1 DEF SerialInv, Inv
<1>3. ASSUME ~overlapped', NEW g \in Handlers PROVE Stands(request[g])'
  BY <1>1, <1>2, <1>3, NoRequestStands
<1>4. ASSUME ~overlapped' PROVE OneInFlight'
  BY <1>1, <1>2, <1>4 DEF OneInFlight, AtRest, NoRequest
<1>5. QED
  BY <1>1, <1>3, <1>4 DEF SerialInv

\* A step that leaves the rows, the days off and what was told as they are.
LEMMA TablesStay ==
  ASSUME TablesStand, UNCHANGED <<holiday, dayOff, announced>>
  PROVE  TablesStand'
BY DEF TablesStand, ToldOfTheirs, OnlyAutomaticAreMarked

LEMMA ApplyingStands ==
  ASSUME NEW rest \in SUBSET Items, NEW auto \in BOOLEAN, NEW job \in BOOLEAN,
         auto => \A i \in rest : holiday'[i.x].auto
  PROVE  Applying(rest, auto, job) \in Runs /\ Stands(Applying(rest, auto, job))'
BY DEF Applying, Runs, Between, Within, Stands

-----------------------------------------------------------------------------
LEMMA StartApplyStands ==
  ASSUME SerialInv, Inv', NEW h \in Handlers, NEW x \in Holidays, NEW audience \in Audiences,
         StartApply(h, x, audience)
  PROVE  SerialInv'
<1>1. {Item(x, audience)} \in SUBSET Items
  BY DEF Items, Item
<1>2. PICK r \in Runs : r = Applying({Item(x, audience)}, FALSE, FALSE) /\ Stands(r)'
  BY <1>1, ApplyingStands
<1>3. Moves(h, r) /\ UNCHANGED <<holiday, dayOff, announced>>
  BY <1>2 DEF StartApply, Moves
<1>4. QED
  BY <1>2, <1>3, TablesStay, StandsAlone DEF SerialInv

LEMMA RunAutoApplyJobStands ==
  ASSUME SerialInv, Inv', NEW h \in Handlers, RunAutoApplyJob(h)
  PROVE  SerialInv'
<1> DEFINE due == {x \in Holidays : IsDue(x)}
<1> DEFINE rest == {Item(x, holiday[x].audience) : x \in due}
<1>1. rest \in SUBSET Items /\ \A i \in rest : holiday'[i.x].auto
  <2>1. \A x \in due : holiday[x].audience \in Audiences /\ holiday[x].auto
    BY DEF SerialInv, Inv, HolidayTypeOK, HolidayRows, IsDue, IsPending
  <2>2. UNCHANGED holiday
    BY DEF RunAutoApplyJob
  <2>3. QED
    BY <2>1, <2>2 DEF Items, Item
<1>2. PICK r \in Runs : r = Applying(rest, TRUE, TRUE) /\ Stands(r)'
  BY <1>1, ApplyingStands
<1>3. Moves(h, r) /\ UNCHANGED <<holiday, dayOff, announced>>
  BY <1>2 DEF RunAutoApplyJob, Moves
<1>4. QED
  BY <1>2, <1>3, TablesStay, StandsAlone DEF SerialInv

\* Nobody was told of a holiday that has no row yet.
LEMMA CreateCustomStands ==
  ASSUME SerialInv, Inv', NEW h \in Handlers, NEW audience \in Audiences, NEW auto \in BOOLEAN,
         NEW applyNow \in BOOLEAN, NEW xs \in SUBSET CustomHolidays, NEW new \in [xs -> Dates],
         CreateCustom(h, new, audience, auto, applyNow)
  PROVE  SerialInv'
<1> DEFINE due == {x \in DOMAIN new : applyNow \/ (auto /\ new[x] <= today)}
<1> DEFINE rest == {Item(x, audience) : x \in due}
<1>1. /\ xs \subseteq Holidays /\ DOMAIN new = xs
      /\ \A x \in xs : ~Known(x)
      /\ \A x \in xs : holiday'[x] = Row(TRUE, new[x], auto, FALSE, audience)
      /\ \A x \in Holidays \ xs : holiday'[x] = holiday[x]
      /\ UNCHANGED <<dayOff, announced>>
  BY DEF CreateCustom, Holidays, Known
<1>2. \A x \in xs : holiday'[x].auto = auto /\ ~holiday'[x].applied
  <2>1. ASSUME NEW x \in xs
        PROVE  /\ Row(TRUE, new[x], auto, FALSE, audience).auto = auto
               /\ Row(TRUE, new[x], auto, FALSE, audience).applied = FALSE
    BY DEF Row
  <2>2. QED
    BY <1>1, <2>1
<1>3. rest \in SUBSET Items /\ (auto => \A i \in rest : holiday'[i.x].auto)
  BY <1>1, <1>2 DEF Items, Item
<1>4. PICK r \in Runs : r = Applying(rest, auto, FALSE) /\ Stands(r)'
  BY <1>3, ApplyingStands
<1>5. Moves(h, r)
  BY <1>4 DEF CreateCustom, Moves
<1>6. ASSUME TablesStand PROVE TablesStand'
  <2>1. ASSUME NEW e \in Staff, NEW x \in Holidays, announced[e][x] # "never"
        PROVE  x \notin xs
    BY <1>1, <2>1 DEF SerialInv, Inv, ToldHaveTheDayOff
  <2>2. ToldOfTheirs'
    BY <1>1, <1>6, <2>1 DEF TablesStand, ToldOfTheirs
  <2>3. OnlyAutomaticAreMarked'
    BY <1>1, <1>2, <1>6 DEF TablesStand, OnlyAutomaticAreMarked
  <2>4. QED
    BY <2>2, <2>3 DEF TablesStand
<1>7. QED
  BY <1>4, <1>5, <1>6, StandsAlone DEF SerialInv

\* Switched off, the row loses its mark; switched on, it may keep it.
LEMMA SetAutoApplyStands ==
  ASSUME SerialInv, Inv', NEW h \in Handlers, NEW x \in Holidays, NEW on \in BOOLEAN,
         NEW audience \in Audiences, SetAutoApply(h, x, on, audience)
  PROVE  SerialInv'
<1> DEFINE row == Row(TRUE, holiday[x].date, on, MarkAfter(holiday[x], on), audience)
<1> DEFINE rest == IF on /\ ~row.applied /\ row.date <= today THEN {Item(x, audience)} ELSE {}
<1>1. /\ holiday' = [holiday EXCEPT ![x] = row]
      /\ row.date = holiday[x].date /\ row.auto = on /\ (~on => ~row.applied)
  BY DEF SetAutoApply, Row, MarkAfter
<1>2. /\ \A y \in Holidays : holiday'[y].date = holiday[y].date
      /\ \A y \in Holidays \ {x} : holiday'[y] = holiday[y]
      /\ holiday'[x].auto = on /\ (~on => ~holiday'[x].applied)
  <2>1. holiday \in [Holidays -> HolidayRows]
    BY DEF SerialInv, Inv, HolidayTypeOK
  <2>2. QED
    BY <1>1, <2>1
<1>3. rest \in SUBSET Items /\ \A i \in rest : holiday'[i.x].auto
  <2>1. Item(x, audience) \in Items /\ Item(x, audience).x = x
    BY DEF Items, Item
  <2>2. CASE on
    <3>1. rest \in SUBSET {Item(x, audience)} /\ holiday'[x].auto
      BY <1>2, <2>2, Zenon
    <3>2. QED
      BY <2>1, <3>1
  <2>3. CASE ~on
    BY <2>3
  <2>4. QED
    BY <2>2, <2>3
<1>4. PICK r \in Runs : r = Applying(rest, TRUE, FALSE) /\ Stands(r)'
  BY <1>3, ApplyingStands
<1>5. Moves(h, r) /\ UNCHANGED <<dayOff, announced>>
  BY <1>4 DEF SetAutoApply, Moves
<1>6. ASSUME TablesStand PROVE TablesStand'
  <2>1. ToldOfTheirs'
    BY <1>2, <1>5, <1>6 DEF TablesStand, ToldOfTheirs
  <2>2. OnlyAutomaticAreMarked'
    BY <1>2, <1>6 DEF TablesStand, OnlyAutomaticAreMarked
  <2>3. QED
    BY <2>1, <2>2 DEF TablesStand
<1>7. QED
  BY <1>4, <1>5, <1>6, StandsAlone DEF SerialInv

-----------------------------------------------------------------------------
LEMMA ReadEmployeesStands ==
  ASSUME SerialInv, Inv', NEW h \in Handlers, NEW i \in Items, ReadEmployees(h, i)
  PROVE  SerialInv'
<1> DEFINE to == {e \in Reached(i.audience) : HasToWork(e, i.x)}
<1>1. PICK q \in Between : q = request[h] /\ i \in q.rest /\ ~AtRest(h)
  BY DEF ReadEmployees, SerialInv, Inv, Runs, Within, NoRequest, AtRest
<1>2. to \subseteq Staff
  BY DEF Reached, SerialInv, Inv, HolidayTypeOK
<1>3. PICK r \in Within : r = [q EXCEPT !.op = "apply", !.x = i.x, !.rest = @ \ {i}, !.to = to]
  BY <1>1, <1>2 DEF Between, Within, Items
<1>4. r.op = "apply" /\ r.x = i.x /\ r.rest \subseteq q.rest /\ r.auto = q.auto /\ r.to = to
  BY <1>3 DEF Between
<1>5. Moves(h, r) /\ UNCHANGED <<holiday, dayOff, announced>>
  BY <1>1, <1>3 DEF ReadEmployees, Moves
<1>6. ASSUME ~overlapped PROVE Stands(r)'
  <2>1. q.auto => \A j \in q.rest : holiday[j.x].auto
    BY <1>1, <1>6 DEF SerialInv, Stands
  <2>2. \A e \in to : dayOff[e][holiday[i.x].date] = NoHoliday
    BY DEF HasToWork
  <2>3. QED
    BY <1>1, <1>4, <1>5, <2>1, <2>2 DEF Stands
<1>7. r \in Runs
  BY DEF Runs
<1>8. QED
  BY <1>5, <1>6, <1>7, TablesStay, StandsAlone DEF SerialInv

LEMMA RefuseHolidayStands ==
  ASSUME SerialInv, Inv', NEW h \in Handlers, NEW i \in Items, RefuseHoliday(h, i)
  PROVE  SerialInv'
<1>1. PICK q \in Between : q = request[h] /\ ~AtRest(h)
  BY DEF RefuseHoliday, SerialInv, Inv, Runs, Within, NoRequest, AtRest
<1> DEFINE on == [q EXCEPT !.rest = @ \ {i}]
<1>2. PICK r \in Runs : /\ r = AfterRefusal(q, i)
                        /\ \/ r = NoRequest
                           \/ r \in Between /\ r.rest \subseteq q.rest /\ r.auto = q.auto
  <2>1. on \in Between /\ on.rest = q.rest \ {i} /\ on.auto = q.auto
    BY DEF Between
  <2>2. AfterRefusal(q, i) = on \/ AfterRefusal(q, i) = NoRequest
    BY DEF AfterRefusal
  <2>3. QED
    BY <2>1, <2>2 DEF Runs
<1>3. Moves(h, r) /\ UNCHANGED <<holiday, dayOff, announced>>
  BY <1>1, <1>2 DEF RefuseHoliday, Moves
<1>4. ASSUME ~overlapped PROVE Stands(r)'
  <2>1. q.auto => \A j \in q.rest : holiday[j.x].auto
    BY <1>1, <1>4 DEF SerialInv, Stands
  <2>2. CASE r \in Between /\ r.rest \subseteq q.rest /\ r.auto = q.auto
    BY <1>3, <2>1, <2>2 DEF Stands, Between
  <2>3. QED
    BY <1>2, <2>2, NoRequestStands
<1>5. QED
  BY <1>3, <1>4, TablesStay, StandsAlone DEF SerialInv

\* The employees it has read had nothing on the day, so nobody has told them of
\* this holiday; all of them have it now.
LEMMA ApplyHolidayStands ==
  ASSUME SerialInv, Inv', NEW h \in Handlers, NEW notify \in BOOLEAN, ApplyHoliday(h, notify)
  PROVE  SerialInv'
<1>1. PICK q \in Within : q = request[h] /\ q.op = "apply" /\ ~AtRest(h)
  BY DEF ApplyHoliday, SerialInv, Inv, Runs, Between, NoRequest, AtRest
<1> DEFINE x == q.x
<1>2. /\ x \in Holidays /\ q.to \subseteq Staff /\ q.auto \in BOOLEAN
      /\ \A y \in Holidays : holiday'[y].date = holiday[y].date /\ holiday'[y].auto = holiday[y].auto
      /\ \A y \in Holidays \ {x} : holiday'[y] = holiday[y]
      /\ holiday'[x].applied => holiday[x].applied \/ q.auto
  <2>1. x \in Holidays /\ q.to \subseteq Staff /\ q.auto \in BOOLEAN
    BY DEF Within
  <2>2. holiday' = [holiday EXCEPT ![x] = Ensured(holiday[x], q.auto)]
    BY <1>1 DEF ApplyHoliday
  <2>3. holiday \in [Holidays -> HolidayRows]
    BY DEF SerialInv, Inv, HolidayTypeOK
  <2>4. QED
    BY <2>1, <2>2, <2>3 DEF Ensured, HolidayRows
<1>3. \A e \in Staff, d \in Dates :
         dayOff'[e][d] = IF e \in q.to /\ d = holiday[x].date /\ dayOff[e][d] = NoHoliday
                         THEN x ELSE dayOff[e][d]
  <2>1. dayOff \in [Staff -> [Dates -> Holidays \cup {NoHoliday}]]
    BY DEF SerialInv, Inv, HolidayTypeOK
  <2>2. dayOff' = [e \in Staff |->
                    [dayOff[e] EXCEPT ![holiday[x].date] = Assigned(@, x, q, e)]]
    BY <1>1 DEF ApplyHoliday
  <2>3. QED
    BY <2>1, <2>2 DEF Assigned
<1> DEFINE after == [q EXCEPT !.op = "announce", !.to = IF notify THEN @ ELSE {}]
<1>4. PICK r \in Within : /\ r = after /\ r.op = "announce" /\ r.x = x /\ r.rest = q.rest
                          /\ r.to \subseteq q.to /\ r.auto = q.auto
  <2>1. (IF notify THEN q.to ELSE {}) \in SUBSET q.to /\ q.to \in SUBSET Staff
    BY DEF Within
  <2>2. /\ after \in Within /\ after.op = "announce" /\ after.x = x /\ after.rest = q.rest
        /\ after.to \subseteq q.to /\ after.auto = q.auto
    BY <2>1 DEF Within
  <2>3. QED
    BY <2>2
<1>5. Moves(h, r) /\ r \in Runs /\ UNCHANGED announced
  BY <1>1, <1>4 DEF ApplyHoliday, Moves, Runs
<1>6. \A y \in Holidays : holiday[y].date \in Dates /\ holiday[y].date = holiday'[y].date
  BY <1>2 DEF SerialInv, Inv, HolidayTypeOK, HolidayRows
<1>7. \A e \in Staff, d \in Dates : dayOff[e][d] # NoHoliday => dayOff'[e][d] = dayOff[e][d]
  BY <1>3
<1>8. ASSUME ~overlapped PROVE TablesStand' /\ Stands(r)'
  <2>1. /\ ToldOfTheirs /\ OnlyAutomaticAreMarked
        /\ \A e \in q.to : dayOff[e][holiday[x].date] = NoHoliday
        /\ q.auto => holiday[x].auto /\ \A j \in q.rest : holiday[j.x].auto
    BY <1>1, <1>8 DEF SerialInv, TablesStand, Stands
  <2>2. ToldOfTheirs'
    <3>1. ASSUME NEW e \in Staff, NEW y \in Holidays, announced'[e][y] # "never"
          PROVE  announced'[e][y] = "once" /\ dayOff'[e][holiday'[y].date] = y
      <4>1. announced[e][y] = "once" /\ dayOff[e][holiday[y].date] = y
        BY <1>5, <2>1, <3>1 DEF ToldOfTheirs
      <4>2. y # NoHoliday
        OBVIOUS
      <4>3. QED
        BY <1>5, <1>6, <1>7, <4>1, <4>2
    <3>2. QED
      BY <3>1 DEF ToldOfTheirs
  <2>3. OnlyAutomaticAreMarked'
    BY <1>2, <2>1 DEF OnlyAutomaticAreMarked
  <2>4. \A e \in q.to : dayOff'[e][holiday'[x].date] = x
    BY <1>2, <1>3, <1>6, <2>1
  <2>5. \A e \in q.to : announced'[e][x] = "never"
    BY <1>2, <1>5, <2>1 DEF SerialInv, Inv, ToldHaveTheDayOff, HasTheDayOff
  <2>6. q.auto => \A j \in q.rest : holiday'[j.x].auto
    <3>1. \A j \in q.rest : j.x \in Holidays
      BY DEF Within, Items
    <3>2. QED
      BY <1>2, <2>1, <3>1
  <2>7. Stands(r)'
    BY <1>4, <2>4, <2>5, <2>6 DEF Stands
  <2>8. QED
    BY <2>2, <2>3, <2>7 DEF TablesStand
<1>9. QED
  BY <1>5, <1>8, StandsAlone

LEMMA AnnounceStands ==
  ASSUME SerialInv, Inv', NEW h \in Handlers, NEW e \in Staff, Announce(h, e)
  PROVE  SerialInv'
<1>1. PICK q \in Within : q = request[h] /\ q.op = "announce" /\ e \in q.to /\ ~AtRest(h)
  BY DEF Announce, SerialInv, Inv, Runs, Between, NoRequest, AtRest
<1>2. q.x \in Holidays /\ q.to \subseteq Staff
  BY DEF Within
<1>3. /\ \A f \in Staff, y \in Holidays :
            announced'[f][y] = IF f = e /\ y = q.x
                               THEN IF announced[e][q.x] = "never" THEN "once" ELSE "again"
                               ELSE announced[f][y]
      /\ UNCHANGED <<holiday, dayOff>>
  BY <1>1, <1>2 DEF Announce, SerialInv, Inv, HolidayTypeOK
<1> DEFINE less == [q EXCEPT !.to = @ \ {e}]
<1>4. PICK r \in Within : /\ r = less /\ r.x = q.x /\ r.rest = q.rest /\ r.auto = q.auto
                          /\ r.to = q.to \ {e} /\ r.op = "announce"
  <2>1. /\ less \in Within /\ less.x = q.x /\ less.rest = q.rest /\ less.auto = q.auto
        /\ less.to = q.to \ {e} /\ less.op = "announce"
    BY <1>1 DEF Within
  <2>2. QED
    BY <2>1
<1>5. Moves(h, r) /\ r \in Runs
  BY <1>1, <1>4 DEF Announce, Moves, Runs
<1>6. ASSUME ~overlapped PROVE TablesStand' /\ Stands(r)'
  <2>1. /\ ToldOfTheirs /\ OnlyAutomaticAreMarked
        /\ \A f \in q.to : announced[f][q.x] = "never" /\ dayOff[f][holiday[q.x].date] = q.x
        /\ q.auto => \A j \in q.rest : holiday[j.x].auto
    BY <1>1, <1>6 DEF SerialInv, TablesStand, Stands
  <2>2. ToldOfTheirs' /\ OnlyAutomaticAreMarked'
    BY <1>1, <1>3, <2>1 DEF ToldOfTheirs, OnlyAutomaticAreMarked
  <2>3. \A f \in r.to : announced'[f][r.x] = "never" /\ dayOff'[f][holiday'[r.x].date] = r.x
    BY <1>2, <1>3, <1>4, <2>1
  <2>4. r.auto => \A j \in r.rest : holiday'[j.x].auto
    BY <1>3, <1>4, <2>1
  <2>5. Stands(r)'
    BY <1>4, <2>3, <2>4 DEF Stands
  <2>6. QED
    BY <2>2, <2>5 DEF TablesStand
<1>7. QED
  BY <1>5, <1>6, StandsAlone

LEMMA NextHolidayStands ==
  ASSUME SerialInv, Inv', NEW h \in Handlers, NextHoliday(h)
  PROVE  SerialInv'
<1>1. PICK q \in Within : q = request[h] /\ ~AtRest(h)
  BY DEF NextHoliday, SerialInv, Inv, Runs, Between, NoRequest, AtRest
<1> DEFINE next == [q EXCEPT !.op = "next", !.x = NoHoliday]
<1>2. PICK r \in Between : r = next /\ r.rest = q.rest /\ r.auto = q.auto
  <2>1. next \in Between /\ next.rest = q.rest /\ next.auto = q.auto
    BY <1>1 DEF Within, Between, NextHoliday
  <2>2. QED
    BY <2>1
<1>3. Moves(h, r) /\ r \in Runs /\ UNCHANGED <<holiday, dayOff, announced>>
  BY <1>1, <1>2 DEF NextHoliday, Moves, Runs
<1>4. ASSUME ~overlapped PROVE Stands(r)'
  <2>1. q.auto => \A j \in q.rest : holiday[j.x].auto
    BY <1>1, <1>4 DEF SerialInv, Stands
  <2>2. QED
    BY <1>2, <1>3, <2>1 DEF Stands, Between
<1>5. QED
  BY <1>3, <1>4, TablesStay, StandsAlone DEF SerialInv

LEMMA EndStands ==
  ASSUME SerialInv, Inv', NEW h \in Handlers, ~AtRest(h), Answer(h),
         UNCHANGED <<holiday, dayOff, announced>>
  PROVE  SerialInv'
BY NoRequestFits, NoRequestStands, TablesStay, StandsAlone DEF Answer, Moves, SerialInv

\* Employees come and go and days pass beside whatever is in flight.
LEMMA StandsStill ==
  ASSUME SerialInv, Inv', UNCHANGED <<holiday, dayOff, announced, request>>,
         UNCHANGED overlapped \/ MeetsAnother
  PROVE  SerialInv'
<1>1. overlapped' \in BOOLEAN /\ (~overlapped' => ~overlapped)
  BY DEF SerialInv, MeetsAnother
<1>2. TablesStand => TablesStand'
  BY TablesStay
<1>3. ASSUME NEW h \in Handlers, Stands(request[h]) PROVE Stands(request[h])'
  BY <1>3 DEF Stands
<1>4. OneInFlight => OneInFlight'
  BY DEF OneInFlight, AtRest
<1>5. QED
  BY <1>1, <1>2, <1>3, <1>4 DEF SerialInv

LEMMA SerialNext == SerialInv /\ [HolidayNext]_holidayVars => SerialInv'
<1> SUFFICES ASSUME SerialInv, [HolidayNext]_holidayVars PROVE SerialInv'
  OBVIOUS
<1>0. Inv'
  BY InvNext DEF SerialInv
<1>1. CASE UNCHANGED holidayVars
  BY <1>0, <1>1, StandsStill DEF holidayVars, apiVars
<1>2. ASSUME NEW h \in Handlers, HolidayRequest(h) PROVE SerialInv'
  BY <1>0, <1>2, StartApplyStands, CreateCustomStands, SetAutoApplyStands DEF HolidayRequest
<1>3. ASSUME NEW h \in Handlers, ApplyStep(h) PROVE SerialInv'
  <2>1. EndApply(h) => SerialInv'
    BY <1>0, EndStands DEF EndApply, AtRest
  <2>2. QED
    BY <1>0, <1>3, <2>1, ReadEmployeesStands, RefuseHolidayStands, ApplyHolidayStands,
       AnnounceStands, NextHolidayStands DEF ApplyStep
<1>4. CASE CalendarNext
  BY <1>0, <1>2, <1>3, <1>4, RunAutoApplyJobStands DEF CalendarNext
<1>5. CASE NextDay \/ \E e \in Staff : SetWorking(e)
  BY <1>0, <1>5, StandsStill DEF NextDay, SetWorking, AtOnce, apiVars
<1>6. CASE HolidayFailure
  BY <1>0, <1>6, EndStands DEF HolidayFailure, BreakOff
<1>7. QED
  BY <1>1, <1>4, <1>5, <1>6 DEF HolidayNext

LEMMA SerialInit == HolidayInit => SerialInv
<1> SUFFICES ASSUME HolidayInit PROVE SerialInv
  OBVIOUS
<1>1. Inv
  BY InvInit
<1>2. overlapped \in BOOLEAN /\ OneInFlight /\ \A h \in Handlers : Stands(request[h])
  BY NoRequestStands DEF HolidayInit, ApiInit, OneInFlight, AtRest, NoRequest
<1>3. TablesStand
  BY DEF HolidayInit, TablesStand, ToldOfTheirs, OnlyAutomaticAreMarked, Row
<1>4. QED
  BY <1>1, <1>2, <1>3 DEF SerialInv

\* Applications by hand and by the job, whole or broken off and started again,
\* tell nobody twice of a day off or of one they do not have, and a holiday that is switched off keeps no
\* mark that would hold the job off it (apply, setAutoApply, runAutoApplyJob).
THEOREM HolidaysStayToldOnce == HolidaySpec => []HolidaysAreToldOnce
<1>1. SerialInv => HolidaysAreToldOnce
  <2>1. ASSUME SerialInv, ~overlapped, NEW e \in Staff, NEW x \in Holidays, NEW y \in Holidays,
               holiday[x].date = holiday[y].date, announced[e][x] # "never"
        PROVE  /\ dayOff[e][holiday[x].date] = x
               /\ announced[e][y] = IF x = y THEN "once" ELSE "never"
    BY <2>1 DEF SerialInv, TablesStand, ToldOfTheirs
  <2>2. SerialInv => HolidayTypeOK /\ SwitchedOffIsUnmarked
    BY DEF SerialInv, Inv, SwitchedOffIsUnmarked, TablesStand, OnlyAutomaticAreMarked
  <2>3. QED
    BY <2>1, <2>2 DEF HolidaysAreToldOnce, ToldOnceADay
<1>2. HolidaySpec => []SerialInv
  BY SerialInit, SerialNext, PTL DEF HolidaySpec
<1>3. QED
  BY <1>1, <1>2, PTL
=============================================================================
