---------------------------- MODULE MCWorkplace ----------------------------
(***************************************************************************)
(* Holidays, reminders, the vault, the chat and the displays on small      *)
(* instances.  The scenarios share no step: each starts where its part of  *)
(* the services is busy, and TLC explores them side by side.               *)
(***************************************************************************)
EXTENDS HolidayCalendar, Reminders, Subscriptions, Vault, Chat,
        Displays, TLC

CONSTANTS e1, x1, k1

VARIABLE scenario

holidayTables == <<holiday, dayOff, announced, working, today>>
reminderTables == <<dayVars, runVars, logVars>>
termTables == <<subscription, period, month>>
vaultTables == <<attempts, window, vaultTokens, credential, audit, shown, verified>>
chatTables == <<conversation, participant, message, bell, dismissed>>
displayTables == <<device, screen, tokens, lifetime, panel>>

workplaceVars ==
  <<holidayTables, reminderTables, termTables, vaultTables, chatTables, displayTables,
    apiVars, scenario>>

Symmetry ==
  UNION {Permutations(S) : S \in {Handlers, Screens, Displays, Talkers \ {x1}}}

-----------------------------------------------------------------------------
OnTheFirstDay == [x \in CatalogHolidays |-> 0]

ReminderTimes == [kind \in Kinds |-> IF kind = "CHECK_IN" THEN 1 ELSE 3]

\* An open yearly subscription of the company.
SmallOrders ==
  {[seats |-> 1, unit |-> 12, start |-> 0, end |-> Open, cycle |-> "YEARLY", type |-> "COMPANY"]}

\* A price from a given month, an end, a person in place of the company.
SmallUpdates ==
  {[unit |-> 24, from |-> 1], [end |-> 2], [type |-> "PERSON", person |-> e1]}

SmallEdits == {[status |-> "PAID"], [paid |-> FALSE, amount |-> 5]}

-----------------------------------------------------------------------------
\* A group of two and their thread.
GroupAndThread ==
  \E v \in Talkers \ {x1} :
    /\ conversation = [c \in Conversations |->
         IF c = k1 THEN [type |-> "GROUP", key |-> [type |-> "GROUP", pair |-> {}], renamed |-> FALSE]
         ELSE [type |-> "DIRECT", key |-> KeyOf("DIRECT", x1, v), renamed |-> FALSE]]
    /\ participant = [c \in Conversations |->
         FirstMembers(x1, {v})]
    /\ message = <<>> /\ bell = {} /\ dismissed = {}

\* Every section was just opened.
EverySectionOpen ==
  vaultTokens = [admin : Admins, section : Sections, at : {0}, after : {0}]

WorkplaceInit ==
  /\ HolidayInit /\ ReminderInit /\ SubscriptionInit /\ VaultRowsInit /\ DisplayInit
  /\ \/ EverySectionOpen /\ ChatInit /\ scenario = "credentials"
     \/ vaultTokens = {} /\ ChatInit /\ scenario \in
          {"holidays", "reminders", "terms", "racing terms", "unlock", "vault", "threads", "displays"}
     \/ vaultTokens = {} /\ GroupAndThread /\ scenario \in {"members", "talk", "racing talk"}

\* Of a subscription whose end is moved while seats are bought and a month paid.
RacingTerms ==
  \/ \E input \in Orders : CreateSubscription(input)
  \/ \E h \in Handlers :
       \/ \E input \in {[end |-> 0], [seats |-> 2]} : CheckUpdateSubscription(h, input)
       \/ \E input \in Edits : CheckUpsertPeriod(h, 1, input)
       \/ UpdateSubscription(h) \/ UpsertPeriod(h)
  \/ DeleteSubscription \/ NextMonth

TermsStep ==
  \/ scenario = "terms" /\ SubscriptionNext /\ ~overlapped'
  \/ scenario = "racing terms" /\ RacingTerms
  \/ scenario \in {"terms", "racing terms"} /\ SubscriptionFailure

\* Of one section.
RacingPins ==
  \/ \E h \in Handlers, a \in Admins, right \in BOOLEAN : CheckUnlock(h, a, "reveal", right)
  \/ \E h \in Handlers : Unlock(h)
  \/ NextWindow

\* Of a credential nobody changes, until a secret is shown.
OpenAndReveal ==
  /\ shown = {}
  /\ \/ UnlockNext
     \/ \E c \in Credentials, s \in Secrets : CreateCredential(c, s)
     \/ \E h \in Handlers, c \in Credentials : CheckReveal(h, c)
     \/ \E h \in Handlers : RevealCredential(h) \/ ShowSecret(h)

VaultStep ==
  \/ scenario = "unlock" /\ RacingPins
  \/ scenario = "credentials" /\ (CredentialNext \/ NextWindow)
  \/ scenario = "vault" /\ OpenAndReveal /\ ~overlapped'
  \/ scenario \in {"unlock", "credentials", "vault"} /\ VaultFailure

\* Whoever was in the group leaves and is taken back.
ComeAndGo ==
  \/ LeavingNext
  \/ \E h \in Handlers, c \in Conversations, v \in Everybody(k1) \ {x1} : CheckAddMembers(h, c, x1, {v})
  \/ \E h \in Handlers : AddMember(h)

ChatStep ==
  \/ scenario = "threads" /\ (ThreadsNext \/ LeavingNext)
  \/ scenario = "members" /\ (MembersNext \/ LeavingNext)
  \/ scenario = "talk" /\ (ComeAndGo \/ TalkNext \/ NoticesNext) /\ ~overlapped'
  \/ scenario = "racing talk" /\ TalkNext
  \/ scenario \in {"threads", "members", "talk", "racing talk"} /\ ChatFailure

WorkplaceNext ==
  /\ UNCHANGED scenario
  /\ \/ /\ scenario = "holidays" /\ (CalendarNext \/ HolidayFailure)
        /\ UNCHANGED <<reminderTables, termTables, vaultTables, chatTables, displayTables>>
     \/ /\ scenario = "reminders" /\ ReminderNext
        /\ UNCHANGED <<holidayTables, termTables, vaultTables, chatTables, displayTables>>
     \/ /\ TermsStep
        /\ UNCHANGED <<holidayTables, reminderTables, vaultTables, chatTables, displayTables>>
     \/ /\ VaultStep
        /\ UNCHANGED <<holidayTables, reminderTables, termTables, chatTables, displayTables>>
     \/ /\ ChatStep
        /\ UNCHANGED <<holidayTables, reminderTables, termTables, vaultTables, displayTables>>
     \/ /\ scenario = "displays" /\ (DisplayNext \/ DisplayFailure)
        /\ UNCHANGED <<holidayTables, reminderTables, termTables, vaultTables, chatTables>>

WorkplaceSpec == WorkplaceInit /\ [][WorkplaceNext]_workplaceVars
=============================================================================
