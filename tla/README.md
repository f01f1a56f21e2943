# TLA+ models of the workforce backend

This directory is a verification project for the workforce backend in `src/`:
TLA+ modules translated from its TypeScript, TLC configurations that check them
on small instances, and theorems that the TLA+ proof system checks for every
instance. Run everything from this directory:

    tlc -workers 2 -config Workplace.cfg MCWorkplace
    tlapm OfficeProofs.tla

## The system

An Express API over PostgreSQL (Prisma), one Node process under PM2
(`src/ecosystem.config.cjs`), beside cron processes that run to completion and
exit. Three facts shape every model here.

* **Handlers interleave at every `await`.** A handler typically reads rows,
  validates them, and later writes in a transaction. Nothing sets an isolation
  level, takes a row lock or an advisory lock, so transactions run at READ
  COMMITTED: what a handler validated may no longer hold when it writes. Only a
  `where` clause of an `updateMany`, or a unique index, is checked at the time of
  the write.
* **A request may break off.** A statement fails or the process restarts, and
  what was committed before stays. Where a service writes in several
  transactions, or without one, the rest is missing.
* **Clients, jobs and administrators work on the same rows.** A mobile client
  retries; cron starts a job again although an earlier run may still be at work;
  an administrator edits a row that a job has just read.

### Inventory

| Part | State | Operations | What is hard |
|---|---|---|---|
| Attendance (`modules/attendance`, `jobs/missing-checkouts.ts`) | `Timesheet`, one row per employee and work date, with idempotency keys | check-in, re-entry, check-out, auto-checkout job, missing-checkout job | retries, stale rows, a day that changes meanwhile, several closers |
| Corrections (`history/history.service.ts`) | `Timesheet` | overwrite by an administrator | races every other writer |
| Correctness requests (`modules/attendance-correctness`) | rows of requests, `Timesheet` | submit several days, approve, reject | no transaction: a submission or an answer breaks off half way |
| Reminders (`attendance-reminder.service.ts`) | `AttendanceReminderLog`, notifications | a run goes through the employees | due window, overlapping and killed runs, delivery after the log |
| Annual leave (`leave/annual-leave.service.ts`) | `AnnualLeaveBucket`, `LeaveBalanceAllocation` | accrual, expiry, FIFO allocation, consume, release, adjust, rebuild | absolute values written from stale reads |
| Leave requests (`leave/leave.service.ts`) | `LeaveRequest` | create, cancel, approve, reject | check outside the transaction; decided twice |
| Meetings | `MeetingBooking`, `MeetingRoom` | book, reschedule, cancel, switch a room | overlap check outside the transaction |
| Holidays | `OrganizationHoliday`, `HolidayAssignment` | apply, custom days, automatic on and off, hourly job | job against administrator; one refused holiday among several |
| Performance evaluation | cycles, evaluations, scores, templates | open, draft, submit, evaluate, finalize, close; default form | totals from stale scores; a form loses its mark before the next has it |
| Accounts (`users`, `office-admins`, `platform`, `employees`) | users, roles, memberships, assignments | assign, withdraw, employ, switch off, reset passwords | five tables that must agree, counted and then written |
| Invites | `Invite` | create, accept, resend, change, cancel, expire | a link in the mail against a resend |
| Sessions (`modules/auth`) | `RefreshToken` | login, switch, refresh, logout, change password | rotation checked outside the transaction |
| Vault | credentials, audit rows, subscriptions, months, attempts in memory, tokens that expire | unlock a section, reveal, write; update terms, pay a month | defaults of PATCH; months to rewrite; a counter in memory; tokens that outlive a lockout |
| Chat | conversations, participants, messages, notifications | open a thread, groups, send, read, leave, read notifications | both open a thread at once; marks and notifications in two statements, and in two places |
| Displays | `DisplayDevice` | create, pair again, pair, refresh, revoke | lost answers, codes looked up before they are written |
| Task tracker (`modules/task-tracker`) | projects, tasks, trash, archive, staff, handoff tokens, events | board, staff synchronization and enabling, live streams, whole-workspace writes | payloads read before the transaction; a stream against the connection that listens; merges by right |
| Notifications, realtime | rows with a read mark, devices | deliver after commit, mark one or all read | may be lost in a crash; marked read beside what they are about |
| Master data (offices, departments, schedules), emergency contacts, birthday wishes, reports | one row per entity, or reads | create, update, list | little beyond one row |

How they meet: check-in asks leave and holidays; approval of leave asks for
timesheets; approved corrections write timesheets; an evaluation rates
attendance, leave and holidays of a period; invites end in accounts, accounts end
sessions; the task tracker copies its staff from the employees and is entered by
a token the backend hands out.

## Module map

| Modules | What they are |
|---|---|
| `ApiProcess` | the process that serves the API: handlers, what each keeps between its steps, and whether two requests were ever in flight at once |
| `DayClock`, `Attendance` | instants and schedules; every handler and job that writes a timesheet |
| `DayLifecycle` | the abstract specification of one employee's day |
| `AttendanceProperties`, `MCAttendance` | properties with the refinement mapping; the instance |
| `AnnualLeave`, `LeaveDesk` | the ledger as operators on a book; leave requests, the book, check-ins |
| `LeaveProperties`, `MCLeave` | properties; the instance |
| `MeetingRooms`, `MeetingProperties`, `MCMeetings` | bookings of rooms |
| `Identity` | the tables that say who may enter, and the contexts they come to |
| `Accounts`, `Invites`, `Sessions` | the operations on them |
| `IdentityProperties`, `MCPeople` | properties; five scenarios |
| `Evaluations`, `EvaluationTemplates`, `AttendanceRating` | cycles and sheets; forms; the rating as operators, and what it promises of the facts and days of a period, which no step changes |
| `CorrectnessRequests` | submissions of past days and their answers |
| `EvaluationProperties`, `MCWork` | properties; six scenarios |
| `HolidayCalendar`, `Reminders`, `Subscriptions`, `Vault`, `Chat`, `Displays` | one part of the office each, with its properties |
| `MCWorkplace` | twelve scenarios of them |
| `MCDaily` | shifts, holidays and their jobs, with fairness |
| `TaskBoard`, `TrackerStaff`, `WorkspaceEvents`, `WorkspaceReplace` | the task tracker, with their properties |
| `MCTasks` | its scenarios |
| `AttendanceProofs`, `WorkdayProofs` (reminders, corrections), `LeaveProofs`, `MeetingProofs`, `HolidayProofs`, `PeopleProofs` (evaluations, forms, rating, accounts, invites, sessions), `OfficeProofs` (chat, subscriptions, vault, displays), `TrackerProofs` | theorems and proofs |

Compositions: `LeaveDesk` composes leave with attendance as far as the two check
each other (in `Attendance` that refusal is one of the reasons for `Fail`).
`Accounts`, `Invites` and `Sessions` extend `Identity` and act on the same
tables. `Attendance` takes the approval of a correction as one of the writers of
a timesheet; `CorrectnessRequests` says which approvals there are.

### Requests and their steps

All modules but `Attendance`, `LeaveDesk` and `MeetingRooms`, which keep handlers
of their own, extend `ApiProcess`. A service that reads, checks and writes later
is an action `Check...` that `Hold`s a request, with what the handler keeps of
what it read, and one action per write; `Continue` and `Answer` go on and end.
`AtOnce` is a request whose check and write are one statement or one transaction
on rows it has locked. `BreakOff` ends a request at any step. `overlapped` records
whether a request has ever arrived while another was in flight; a property with
`~overlapped =>` speaks of requests one after the other, any number of them, and
guards nothing else. An operator that follows a comment `Fault:` is not part of
the model: it is the mistake with which the operator below it is compared.

### Attendance

`sheet[<<employee, day>>]` is the row of the table `Timesheet`; its unique index
on employee and work date is the domain of the function. A row that does not
exist has status `ABSENT`. The on-time and late variants of a status are not told
apart, since no handler decides on them. `proc[p]` is a handler at work: where
it is (`pc`), the sheet it works on, its idempotency key, the time it read and the
row it read. One action is what a handler does between two awaits at which
another process can be seen: a read, or one committed write. The check-in
transaction is two steps, because at READ COMMITTED its first statement (no
open shift) and its last (the insert) see different states; the other
transactions start with the statement that locks the row, so they are one step.

| Code | Action |
|---|---|
| `checkIn`: key lookup, clock | `ReceiveCheckIn` |
| `checkIn`: today's sheet | `ReadToday` |
| `checkIn`: `findFirst` open, in the transaction | `GuardOpenShift` |
| `checkIn`: create / re-entry | `FirstCheckIn` / `ReCheckIn` |
| `checkOut`: key lookup; open sheet and clock | `ReceiveCheckOut`; `FindOpenShift` |
| `closeOpenTimesheet` | `CloseByEmployee`, `CloseBySystem` |
| `autoCheckoutService.run`: candidates | `AutoCheckoutRead` |
| `missing-checkouts.ts`: candidates; mark | `MissingCheckoutRead`; `MarkMissing` |
| `correctTimesheet`: read; transaction | `CorrectRead`; `CorrectTimesheet` |
| correctness `approve`: read; write | `ApproveRead`; `ApproveCorrectness` |
| any refusal, rollback or crash | `Fail` |

A job reads all its candidates first and works through them later. Each member of
`Jobs` is one such row, so several of them stand for one run with several rows
as well as for overlapping runs. A message of `Messages` may be delivered at any
time and any number of times: retries and late duplicates.

Three variables are observations and guard nothing: `done` (keys that have
changed a sheet), `marks` (notices since a sheet was last opened, counted up
to 2) and `settled` (sheets an administrator has written).

`DayLifecycle` is the promise: a day is absent, open, left or sealed. Only a day
that its employee left can be opened again. `ImplementsLifecycle` says that the
handlers keep it under the mapping `PhaseOf`.

### Leave

`book` is what a transaction of `annual-leave.service` reads and writes: the
bucket of each leave year and, for each request, the days of each bucket it
holds (`LeaveBalanceAllocation`). `AnnualLeave` holds the transaction bodies as
functions from a book to a book: `Accrue` (create, top up, expire),
`Charge` (FIFO over open buckets, an overdraw to the newest), `ConsumeReserved`,
`Release`, `Adjust`, `Sync` and `Rebuild`. Days are counted in half-days and
leave years have equal length; a request is its first and last date with the
set of half-days of working days it covers, so schedules and session fractions
are given, not computed.

A handler of `LeaveDesk` makes its checks, then reads, then commits. The reads
of one transaction are one step (`Read`), which keeps the book it saw and the
book it wants; the commit (`Merged`) writes over the rows as they are by then
exactly the columns it changed, because the code writes absolute values of the
columns it computed. A transaction fails (`Fails`) when a bucket it creates
exists by then, or when the book it read has been deleted and rebuilt.

| Code | Action |
|---|---|
| `create`: checks; transaction | `ReceiveCreate`; `CreateRead`, `CommitCreate` |
| `cancel`: check; transaction | `ReceiveCancel`; `AnswerRead`, `CommitCancel` |
| `adminGet` with its balance, then `decide` | `ReceiveDecide`, `SettleRead`, `SettleCommit`, `CheckAttendance`, `AnswerRead`, `CommitDecision` |
| `adminAdjustBalance` | `ReceiveAdjust`, `SettleRead`, `SettleCommit`, `AdjustRead`, `CommitAdjust` |
| `myBalance`, `summary`, lists | `ReceiveView`, `SettleRead`, `SettleCommit` |
| `checkIn`: leave check; create | `ReceiveCheckIn`; `Attend` |
| `employees.update`: employment start date | `CorrectHireDate` |

Showing a balance writes: it accrues, expires and charges requests that hold
nothing. `CorrectHireDate` is one step: its transaction deletes the rows first
and so holds them. `deducted` is an observation, the deductions that ADJUST
rows of the ledger record; `decisions` counts the rows of `LeaveDecision`.

### Meetings

Booking, moving and cancelling are two steps each: the checks, and the write.
A move takes what the request leaves out from the row it reads and writes start,
end, room and office whatever was given; `given` remembers which parts differed
and guards nothing. A handler may be booking in a room that is switched off
meanwhile. A room's office never changes, hence a constant.

| Code | Action |
|---|---|
| `createBooking`: checks; transaction | `CheckCreate`; `Create` |
| `reschedule`: checks; transaction | `CheckMove`; `Move` |
| `cancelOwn`, `adminCancel` | `CheckCancel`; `Cancel` |
| `updateRoom` | `SetActive` |

### Accounts, invites and sessions

`account[u]` gathers what five tables say of an address: user, roles,
memberships, company and office assignments, employment. `Contexts` translates
`buildContextsForUser`. A handler that withdraws a place keeps what it counted
and removes role and membership by it (`Left`, `DropsRole`). The check that
refuses a platform administrator as company administrator is asynchronous and
not awaited, so `AssignOrgAdmin` goes on in any case, and `RejectionEndsProcess`
is its other outcome: the unhandled rejection ends the process and with it every
request in flight.

| Code | Action |
|---|---|
| `assignOrgAdmin`: lookup; transaction | `CheckOrgAdmin`; `AssignOrgAdmin` or `RejectionEndsProcess` |
| `unassignOrgAdmin`, `syncOrgAdminTenantState` | `CheckUnassignOrgAdmin`, `UnassignOrgAdmin` |
| office administrators: assign, offices, withdraw | `...OfficeAdmin`, `UpdateOffices`, `UnassignOffice`, each with its check |
| employees: attach or make | `CheckEmployee`, `Employ` |
| status and passwords | `Change...Status`, `Reset...Password` |
| `invites`: create, resend, change, cancel | `CheckInvite`, `CreateInvite` and so on |
| `loadUsableInvite`, `acceptAdmin`, `acceptEmployee` | `OpenLateLink`, `MarkExpired`, `CheckAccept...`, `Accept...` |
| `login`, `selectContext`, `switchContext`, `refresh` | `CheckLogin` or `CheckRefresh`, then `Identify` (`resolveScopedIdentity`), then `Issue` |
| `changePassword`, `logout` | `CheckChangePassword`, `ChangePassword`; `Logout` |

A link of an invite that was sent again is not the link of the row any more: a
late one finds nothing. A refresh token is a row with its parent
(`replacedByTokenId` read backwards).

### Evaluations, forms, rating, corrections

`sheet[c][e]` is the evaluation of an employee in a cycle with its stage; scores
of a side are a function from areas to `Scores` or `None`, and goals go with
them. Every stage is a check and a write that is not conditional on the stage, so
most promises are for requests in turn; a hand-in keeps the total it computed
from the scores it read. `SeenByEmployee` is what the employee is sent of it.

| Code | Action |
|---|---|
| `employeeDraft`, `employeeSubmit`, `evaluatorDraft`, `evaluatorSubmit`, `finalize` | `Check...` and the write of that name |
| `createCycle`, `updateCycle`, `openCycle`, `closeCycle`, `deleteCycle` | `CreateCycle` to `DeleteCycle` |
| `ensureStandardTemplate` and what follows | `ReadStandard`, `ClearDefaults`, `EnsureStandard`, `RetireLegacy`, `Reassign`: a statement each |
| saving and assigning a template | `SaveTemplate`, `WriteTemplate`; `AssignTemplate` |
| `attendance-rating.ts` | `Snapshot`, `Score` and their parts |
| correctness `createRequests` | `StartSubmission`, then `CheckDay` and `CreateRow` per day, `Announce` |
| `approve`, `reject`, of a row or a submission | `StartAnswer`, then `LookUp`, `WriteSheet`, `MarkAnswered` per row, `EndAnswer` |

### Holidays, reminders, vault, chat, displays

A run of apply (by hand, for a custom day, on switching to automatic, or by the
job) is one request with the holidays it still has to apply: `ReadEmployees`,
`ApplyHoliday` (the transaction), `Announce` one by one, `NextHoliday`. The job
goes on after a holiday that is refused; a request ends. The row of a holiday of
the calendar exists from its first application.

A run of the reminders reads the clock once and goes through the employees:
`Consider`, `SendReminder` (log and notification in one transaction, refused by
the unique key), `Deliver`. Cron replaces a run that is still at work (`KillRun`);
a run by hand goes beside it.

`Subscriptions` keeps one subscription and its months. An update reads the row,
and its transaction writes the terms and synchronizes the months; a body passes
the schema first (`Parsed`), which fills in the defaults of fields that a PATCH
does not name. `Vault` counts wrong PINs in a window of the process, whatever section
they are for; the right PIN of a section forgets them and gives a token of that section
(`NewToken`), which is good for a while and asked for by every route of the section
(`TokensOf`), whether or not its owner is locked out by then. `CheckReveal` reads the
secret, `RevealCredential` writes the audit row, and `ShowSecret` answers after it.

`Chat` numbers messages by the moment they are created; a mark is such a number.
`OpenThread` meets the unique key of a pair. `SendMessage` notifies those who were
there at the check. `MarkRead` sets a mark taken before it and clears the
notifications of the whole conversation. Notifications are also marked read where they
are listed, one or all (`ReadNotification`, `ReadAllNotifications`), which leaves the
messages unread: `dismissed` remembers them. Sending a message marks the conversation
read and leaves the sender's own notifications of it waiting, so that `BellIsUnread`
says of a notification that waits: its message is unread or its user wrote since.

`Displays` pairs by a code the panel shows: `ChooseCode` looks for a free code and
`SetPairingCode` writes it later. `CheckPair` finds any of the active displays that have
the code, those included whose code ran out (`WithCode`), and refuses the screen if it
found one of these. `IssueSession` replaces the token, and `arrives` says whether the
screen gets the answer.

### Task tracker

In `TaskBoard` trash and archive know a project by its name, which is unique and can
change (`Taken`, `UpdateProject`): a task that comes back goes to the project that bears
the name by then (`GetProjectIdByName`). A handler keeps payload and former owners from its check; the write, the
members the owners become, the event and the notifications follow, each in a step
(`CreateTask` ... `RestoreTask`, `EnsureProjectMembers`, `Publish`,
`NotifyAssignees`). `screen` is what each member's board shows after the events
they received.

`TrackerStaff` brings candidates of the workforce over (`CollectCandidates` with its
cache of 15 seconds, `CompareStaff`, `AddStaff`), makes a member of whoever comes
first (`EnsureMembership`, `CreateMember`), makes a Super Admin of a company
administrator who enables the tracker (`Enable`, then the same synchronization with
`Promote`, then `EnsureEnabler`), and exchanges handoff tokens
(`FindExchange`, `ConsumeExchange`).

`WorkspaceEvents` gives each event a revision, a row and a `NOTIFY` in three
statements; one connection listens (`listener`: none, connecting, up, or deaf when
it is lost and that is not noticed yet) and fans out to the open streams. A stream
starts with the rows it missed (`GetEventsAfterRevision`, `Subscribe`).

`WorkspaceReplace` translates `applyPermittedWorkspaceUpdate` as operators (`MergeStaff`,
`MergeTasks`, `MergeById`, `Replaced`) between `PutWorkspace`, which reads and merges,
and `SyncWorkspace`, which empties the tables and writes the merged copy.

## Runs

Several properties are conjunctions of named parts, stated side by side in the
property modules; the table gives what they come to.

| Run | Properties | What it shows |
|---|---|---|
| `requests` | `TimesheetsAreSound` (types, the columns of an end agree, rows remembered by handlers are good enough), `EndsAfterItBegan`, `CarriedOverIsFlagged`, `ImplementsLifecycle` | two API handlers at once, every message delivered at any time, corrections and approvals: a timesheet stays consistent and moves as the lifecycle says |
| `jobs` | `OneNoticePerShift`, `OneOpenShift` | one handler beside two rows of the jobs: a shift is announced once, an employee has one open shift |
| `liveness` | `OpenShiftIsClosed`, `ForgottenShiftIsFlagged`, `DueGetsApplied` | with cron: an open shift is closed, a forgotten one flagged, a due holiday applied whatever another of the run does |
| `retry` | `EachKeyTakesEffectOnce` | **violated**: re-entry erases the key of the check-out before it, and a late delivery of that check-out ends the new stretch of work; `src/docs-phase4.md` promises idempotency keys |
| `leave_serial` | `BooksBalance` (buckets agree with requests, nobody overdrawn, reservations held in full), `DaysOffAreClear`, `CarryOverIsKept` | one request at a time over three leave years, with expiry, adjustment and a corrected start date |
| `leave_concurrent` | `TypeOK` (no column negative), `ExpiredStaysExpired` | two handlers that write over each other's columns |
| `meetings_rooms` | `BookingsAreLegal`, `NoDoubleBookingInTurn` | windows and offices survive interleaved moves; in turn, no room is booked twice |
| `people` | `AccountsAgree` (rows allowed by the schema, whoever belongs can enter, roles match places), `SessionsInOrder`, `InvitesAreAnsweredOnce`, `NewPasswordSignsOut` | companies, administrators, appointments, invites and sessions |
| `people_platform` | `PlatformStaysPlatform` | **violated**: the check that keeps a platform administrator from tenant roles is not awaited |
| `work` | `SheetsOfOpenedCycles`, `StagesInOrder`, `ReviewsAreWhole`, `FormsInOrder`, `RatingIsFair`, `DaysAreAsApproved` | evaluations, forms, ratings, corrections |
| `workplace` | `AnnouncedHaveTheDayOff`, `HolidaysAreToldOnce`, `RemindedOnce`, `RemindersArrive`, `MonthsAreBilled`, `VaultIsGuarded`, `ThreadsOfTwo`, `MembersAreTold`, `PairingsAreSound` | holidays, reminders, vault, chat, displays |
| `tasks` | `TasksAreKept`, `WhoIsConcernedKnows`, `StaffIsSound`, `EventsArrive`, `WorkspaceIsWhole` | the task tracker |

### Scenarios

`MCPeople`, `MCWork`, `MCWorkplace`, `MCTasks` and `MCDaily` hold parts that share no
step. A variable `scenario`, chosen in Init and never changed, says which part moves, so the state
space is the sum and not the product of the parts. A scenario starts where its
part is busy (an open company, a cycle opened for one employee, a group and a
thread): states the operations lead to from the empty tables. Where a next-state
relation ends in `~overlapped'`, the scenario is of requests one after the other,
with failures between their steps, which affords more operations; scenarios
beside it have two requests in flight.

### Bounds

**Attendance.** One employee suffices: no handler relates two employees, except
by the unique idempotency keys, and those are the client's own. Two days are
needed for carried-over shifts; two or three ticks a day
separate the scheduled start, its end and the auto time. Three messages are a
first check-in, a check-out and a second check-in; each may be delivered again.
Two handlers are enough for every pairwise race; `requests` has two and no jobs,
`jobs` has one and two job rows. `marks` saturates at 2: the property only asks
whether it exceeds 1. The clock stops at `LastInstant`; handlers can still be
started, so there is no deadlock.

**Leave.** Leave years of two days, an entitlement of two half-days and a
carry-over of one year let a bucket be earned by halves, topped up, carried over,
drawn on together with the next and expired within six days. Two requests are
needed for an overlap and for a shortage; the spans include one longer than a
bucket, so that it is charged to two, one that goes over a day of rest, and one
that is not counted. `MaxAdjusted` and `MaxRebuilt` bound adjustments and
corrected start dates to one; decisions are counted up to 2.

**Meetings.** Three instants give two meetings that touch, overlap and contain
each other; two rooms in two offices let a move change the office. Two bookings
and two handlers are the pairwise races.

**Accounts.** Two addresses, one organization with one office, two invites and three refresh
tokens: a device's chain of three, two invites of one address, an invite beside
an assignment. `LastPassword = 1` numbers two passwords, an old and a new.

**Evaluations and corrections.** One cycle with two periods and two employees; two
areas and the scores 2 and 4, which are far enough apart to need a comment. Two
templates beside a retired one. Two past days, one half of them on leave, and
three rows of two submissions. The rating is evaluated on all facts up to the sizes at
which a penalty changes, and on all leave and holidays of five days around a
weekend.

**Holidays, reminders.** A holiday of the calendar and a custom one of the same
day meet on one assignment. Six ticks hold both due times; `Slack = 2` and
`MaxMissed = 2` let exactly as many runs be missing as a reminder can bear.

**Vault, chat, displays.** Three months, `OpenMonths = 2` (24 in the code) so that
an open term ends within them, one yearly order, updates of price, end and user.
`MaxAttempts = 2` and `LastWindow = 2` fill a window and begin others; two sections, of
the credentials and of the secrets, tell tokens apart, and `Lifetime = 1` lets one outlive
the window it was got in. Three talkers
and two conversations are a thread beside a group; `MaxMessages = 2`, one before
and one after a mark. Two displays, two codes, two screens; `LastToken` and
`LastPeriod` bound rotations and time.

**Tasks.** One task and two projects with two names, which they can take from each other,
an administrator and two members. Two people of the staff, who become company
administrators or leave, and `RolesGiven = {"ADMIN"}`, a role no row is made with.
`MaxRevision = 3` with `ReplayLimit = 2` lets a client miss more than a replay holds.
A workspace of two people, one project and one task, under six permission
matrices, with every copy of these a client could send that gives no new
Super Admin.

Deadlock: the runs of parts that may stop say `CHECK_DEADLOCK FALSE`: every counter
of the model is at its bound, or every booking cancelled, and all is answered.

### Fairness

`JobFairness` asks for weak fairness of the clock and strong fairness of the
jobs' steps; `HolidayFairness` for strong fairness of the start of the hourly job
and weak fairness of the next step of a request at work. Cron starts each job
again and again (`src/ecosystem.config.cjs`), and a run that dies is followed by
another, so a step that is possible again and again is taken; one run of the
holidays is killed in the model. Nothing is assumed of clients or
administrators.

### What does not hold

Beside `retry` and `people_platform`, which contradict what the repository says, the
code has weaknesses nothing in it denies. They have no run; the properties name
the conditions that exclude them.

* Two check-ins either side of midnight leave two open shifts (`OneOpenShift` is
  checked with one handler and proved for check-ins of an employee in turn). A shift
  that began after its scheduled end and is closed by the system is recorded as ending before it began. An overnight shift
  is flagged as a missing check-out even when left on time.
* With two requests in flight leave is answered twice, two submissions reserve
  the same half-day, and leave meets leave or attendance (`DaysOffAreClear` is
  checked with one handler and proved for requests in turn); a room is booked
  twice; a move may overtake a cancellation and moves the cancelled meeting.
* Annual leave loses a change when two transactions write the same bucket, and keeps days
  of a request that was withdrawn while hire dates were corrected (`BooksBalance` is
  checked with one handler and proved for requests and corrections in turn).
* An invite sent again while it is accepted becomes pending anew; the same refresh
  token presented twice at once opens two sessions; a session opened while its
  account is switched off stays.
* A draft in flight while the sheet is handed in takes it back a stage.
* The second half of a day that is approved replaces the first in the
  timesheet's times.
* Two runs of apply at once tell employees twice of a holiday, or of one when another of
  that day was assigned: `AnnouncedHaveTheDayOff` promises a day off, not which.
* A PATCH of a subscription that does not name its cycle or type sets them to
  their defaults: `MonthsAreBilled` takes the terms as they were stored.
* Wrong PINs in flight at once all pass the limit, and a restart forgets them. So does
  the right PIN of any section, also for the others: the limit of `WrongPinsAreLimited`
  counts from it. A token got before a lockout goes on revealing secrets.
* Two displays created at once can hold one code. A display whose creation broke off
  has neither a session nor a code until it is paired again: `NeverBoth` promises no more
  than that it never has both.
* A display revoked while a screen refreshes it gets a session back, and stays revoked.
* A leave that touches the period of a rating excuses as many days as it has,
  those outside included.
* The leader of a project is not told when a task gets its first owner or loses
  its last.
* A request that moves a task to another project without naming owners joins nobody to
  that project (`tasks.service.ts:199`): owners who are no members of it may not open
  their own task. `NamedMayOpenIt` speaks of requests that name owners, and then of all
  owners of the task.
* "Existing permissionRole is never changed here" (`membership.service.ts:28`) and "Never
  overwrites an existing permissionRole" (`staff-sync.service.ts:226`) are not so for
  whoever enables the tracker: lines 41-44 and 287-308 make a Super Admin of them,
  whatever role they were given. `GivenRoleStays` makes this one exception, and nobody
  but a company administrator may ask for it.
* When an approval of a correction runs into a rejection of it, what it wrote stays
  counted although the request is rejected: `OnlyApprovedIsCounted` asks for the request to
  be approved of answers in turn, and otherwise that somebody was approving it.

## Proofs

TLC checks the instances above; the theorems hold for every value of the
constants that satisfies the assumption named in the component's module.

`AttendanceProofs`, for every set of employees, keys, messages, requests,
jobs and every calendar that satisfies `ClockAssumption` and
`AttendanceAssumption`:

* `TypeCorrect`, `RecordsStayConsistent`: `Spec => []RecordConsistent` is inductive
  together with the types.
* `SealedStaysSealed`: a day closed by the system or by an administrator is never
  opened again. It follows from `RecordConsistent`: an open sheet has no source.
* `NoticesAreSingle`: by strengthening it to "an open sheet without the flag has
  not been announced".
* `StaleRowsAreHarmless`, `TimesheetsStaySound`, `ShiftsEndAfterTheyBegin` and
  `CarriedOverShiftsAreFlagged`. That a shift ends after it began is not
  inductive: the check-out time comes from a handler's earlier read of the clock
  and the check-in from the table. `StaleRowsAgree` is the strengthening: the
  handler's clock value is not in the future, and the check-in it read is still
  the one in the table unless an administrator wrote it.
* `AttendanceImplementsLifecycle`: `Spec => Lifecycle!DaySpec`.

All rest on `WriteStep`: a step writes no sheet, or one handler writes the sheet
it works on in one of seven ways. The invariants are then argued row by row.

`CheckInsInTurnOpenOne` proves `OneOpenShift` under `[]CheckInsInTurn`: no two
check-ins of one employee are between the check and the write at once. Whatever
else interleaves, whoever has passed the check then still finds no open shift. The
code does not see to it, so it is a hypothesis of the theorem; a single request handler
beside any number of jobs meets it, as in the run.

`MeetingProofs`, for any rooms, offices, bookings, handlers and limits of
a meeting's length that satisfy `MeetingAssumption`:

* `TypeCorrect`, `WindowsStayLegal`, `OfficeStaysWithRoom`, `BookingsStayLegal`,
  `CancelledStaysCancelled`: what holds however requests interleave. They need
  `HandlersAreLegal`: a handler about to write holds a whole window
  that was checked, of a booking that was made. It is why a move must
  write all its columns and not only those it was given.
* `BookingsInTurnDoNotClash`: while no request has met another in flight, no room
  is booked twice. The strengthening is `InTurn`: at most one handler is in flight
  and the window it is about to write still clashes with no other booking.

`LeaveProofs`, for any requests, spans, years, policy and handlers
(`LeaveYearAssumption`, `LeaveAssumption`, `FiniteAssumption`):

* `DaysOffStayClear` proves `DaysOffAreClear` under `[]RequestsInTurn`, at most one
  handler at work, which the code does not see to; the run with one handler meets it.
  The strengthening `Relies` says what the handler has
  checked and needs until it commits; it says nothing of the books, so a rebuild
  or a refused transaction does not disturb it.
* `LedgerKeepsTheBook` is about the operations of the ledger themselves, on any
  book: each of `Accrue`, `Charge`, `ConsumeReserved`, `Release` and `Adjust` makes
  a book of a book, leaves an expired bucket expired with what it lost, and
  overdraws no bucket that was not (a charge while its days are covered, a
  reservation while it is still there).
* `LeaveTypeCorrect`, `CarryOverStaysKept` and `ExpiredNeverReturns` hold however
  handlers interleave, by `DeskInv`: the table's book and both books of every
  handler are good, and what a handler computed moves buckets forward only. A good
  book is `Linked`: a bucket is expired exactly when the bucket of the year in which
  its carry-over runs out is there, because one accrual does both. A second
  transaction that expires the same bucket from a stale read would therefore open
  the same bucket too, and fails on its unique index (`Fails`); this, and no check of
  the expiry itself, is why the second expiry cannot overwrite the first.
* `BooksStayBalanced` proves `BooksBalance` under `[]RequestsInTurn` and
  `CorrectsInTurn` (no hire date is corrected while a request is at work). The
  strengthening is `BalanceInv`: what a handler is about to commit was computed from
  the book as it is (`Proposes`), and fits the requests as they will be then: each
  bucket counts what the requests hold of it (`Agrees`) and, up to the first corrected
  hire date, none is overdrawn and each request that counts holds all its days
  (`Solvent`). The code sees to neither hypothesis, and the property needs both. The
  columns a transaction writes are absolute values, so two at once lose a change. And a
  transaction that has nothing to write does not notice that the rows it read are gone: a
  cancellation that found no days to give back commits after a second corrected hire
  date, although the rebuilt book holds days for the request by then. The run with one
  handler meets both.

What a fold computes is proved where a theorem needs it, without the induction
theorems: a fold over a finite set exists and is unique because a set with the
least number of elements for which it failed could not fail (`FoldExists`,
`FoldIsUnique`). From it follow the laws of `SumFunctionOnSet` (`SumTakesOut`,
`SumsCompare`), that first-in-first-out gives the days asked for or all
there are (`FifoAddsUp`), and that what each charge of a settlement keeps, the
settlement keeps (`SyncStaysIn`). `FiniteAssumption` of `LeaveDesk` says that the
requests are finitely many.

### One shape for the others

The remaining invariants have two parts. The first holds whatever interleaves: the
tables and what each request in flight carries are typed, and a request relies on
nothing another may take away. The second is guarded by `~overlapped`: at most
one request is in flight, the tables agree, and what that request has read is still so.
Neither can be proved without the requests: a table is only as good as what the next
write brings. Lemmas say that a request that fits and tables that keep what they promise
preserve the invariant; a lemma per action provides these. A property whose guard is
`~overlapped` is proved with that guard and no hypothesis beside it.

* `WorkdayProofs`. Reminders (`ReminderAssumption`): `TypeCorrect`,
  `RemindersAreSingle` by `LogTellsAll` (the log holds exactly the reminders that were
  written), and `RemindersDoArrive` by `MissedOnlyByLostRuns`: each tick since a
  reminder was due has cost a run. Its hypothesis `MaxMissed <= Slack` relates the
  number of lost runs to the slack of the cron; with more lost runs the reminder is
  lost, and nothing in the code excludes that. Corrections (`CorrectnessAssumption`):
  `DaysStayAsApproved`.
* `HolidayProofs` (`HolidayAssumption`): `TypeCorrect`, `ToldHaveTheDay`,
  `DaysOffAreKept`, `HolidaysStayToldOnce`. A run that announces is about to tell only
  those who have the day, which needs that the date of a holiday it carries no longer
  changes (`Known`); in turn, who was told of a holiday has that one assigned, which is what
  keeps them from being told again (`ToldOfTheirs`).
* `PeopleProofs`. Evaluations (`EvaluationAssumption`): `SheetsHaveTheirCycle` by `Inv`
  (what a request to open a cycle read as no draft is none when it writes),
  `ReviewsStayWhole` by `ReviewInv`, and the action property `StagesStayInOrder`. Forms
  (`TemplateAssumption`): `FormsStayInOrder`. The rating: `RatingStaysFair`, for any facts
  and any finite period (`RatingTypeOK`), by cardinalities: the working days of a period are
  covered by those attended, those of leave and the holidays. Accounts (`IdentityAssumption`), all by
  `IdentityInv`: `TablesOfAccountsAgree`, `SessionsStayInOrder`, and the action properties
  `InvitesStayAnswered` and `NewPasswordsSignOut`. The last holds whatever
  interleaves, because tokens are revoked by the statement's own condition.
* `OfficeProofs`. Chat: `TypeCorrect`, `ThreadsStayTwo` (the key of a conversation names
  its type, so that a group never has the key of a thread) and `MembersStayTold`, which is of
  requests one after the other, the marks set in the list of notifications among them.
  Subscriptions (`SubscriptionAssumption`): `MonthsStayBilled`. Vault
  (`VaultAssumption`): `VaultStaysGuarded`; `PinsAreCounted` says that the counter in
  memory counts the wrong answers since the last right one, and what a request is about to
  show is of a token of the secrets, whatever interleaves. Displays (`DisplayAssumption`):
  `PairingsStaySound`; that one screen at most goes on rests on tokens being signed once
  (`TokensApart`), however requests interleave.
* `TrackerProofs`. Staff (`RolesAssumption`): `StaffStaysSound`: a token that is not used
  was never exchanged, and what was read is asked again by the write; a promotion under way is
  of one who asked to enable the tracker. Writes of the whole
  workspace (`IncomingAssumption`): `WorkspaceStaysWhole`: a copy that waits to be written
  is typed and has a Super Admin by the way it was merged, so that it does not matter what
  was written while it waited; TLC checks this in turn, the proof covers any interleaving.
  Board (`BoardAssumption`): `TasksStayKept`, and `WhoIsConcernedLearns` by `OwnersInv`
  (whoever owns a task, or did, knows of it or a request is on its way to tell them,
  whatever interleaves) and `ConcernInv` (in turn, a board shows the task as it is or an
  event that will show it is pending). Live events (`EventAssumption`): `EventsDoArrive`
  by `StreamInv` (revisions, rows and streams), `OpenInv` (what an open stream has not yet
  is on its way to it) and `ReturnInv` (in turn the channel is in order, so that a client
  that returns has all up to its last).

### Only model-checked

* Liveness (`OpenShiftIsClosed`, `ForgottenShiftIsFlagged`, `DueGetsApplied`): the
  prover handles neither fairness nor `ENABLED`.

These three are all: every other property of a passing run is stated by a theorem.
Two runs expect a violation and have none.

## Plan

Modelled: every component with rules across requests. What would add most next:

1. An abstract lifecycle of an evaluation and of an invite, with the detailed
   modules shown to implement them in turn.
2. The books of annual leave after a corrected hire date: which requests a rebuilt
   book can hold in full.
3. Comments of a task and its permission matrix; the limit of emergency
   contacts; worksheets.

## Not modelled

Who may call which operation beyond what decides a state, geofence and photo
checks, minute counts, wording of messages, encryption, listings and reports
(reads), delivery of notifications and socket events (after commit), read marks of
notifications other than those of the chat, devices, mail, file storage. Offices, departments, schedules, teams and schedule
events of the task tracker are rows of their own, one per request, without a rule
across requests. Emergency contacts have one, a limit on their number that is
counted before the insert; birthday wishes are sent once a year by a unique log
row, as the reminders are. The roster and worksheets read what the modelled
components write, and nothing reads a worksheet back. `latest/workforce-backend` is
an older copy of the same program.
