----------------------------- MODULE TrackerStaff ----------------------------
(***************************************************************************)
(* Who is on the staff of a workspace and in which role.  People of the    *)
(* directory are brought over whenever the workspace is loaded, and        *)
(* whoever comes to the tracker is made a member.  A role is given when    *)
(* the row is made, afterwards by an administrator, and a company          *)
(* administrator who enables the tracker takes the highest one.  The web   *)
(* tracker is entered with a token that can be exchanged once.             *)
(***************************************************************************)
EXTENDS ApiProcess

CONSTANTS
  People,
  Tokens,           \* of the session exchange
  RolesGiven,       \* those of the roles that an administrator gives: a bound
  DirectoryChanges  \* what people become in the workforce: a bound

ASSUME RolesAssumption ==
  RolesGiven \subseteq {"SUPER_ADMIN", "ADMIN", "LEAD", "JUNIOR_STAFF"}

VARIABLES
  directory,  \* what each person is in the workforce, or "Gone"
  cached,     \* the candidates of the last 15 seconds, by person, if any
  role,       \* permissionRole of each row of tt_staff_members, or "none"
  given,      \* observation: the role an administrator gave each person last
  enablers,   \* observation: who asked to enable the tracker
  token,      \* tt_session_exchanges: "none", "unused", "used" or "expired"
  sessions    \* observation: how often each token was exchanged

staffVars == <<directory, cached, role, given, enablers, token, sessions>>

PermissionRoles == {"SUPER_ADMIN", "ADMIN", "LEAD", "JUNIOR_STAFF"}

NotCached == [p \in People |-> "not read"]

\* The role a new row is given.
RoleOf(workforceRole) ==
  CASE workforceRole = "Org Admin" -> "SUPER_ADMIN"
    [] workforceRole = "Office Admin" -> "LEAD"
    [] OTHER -> "JUNIOR_STAFF"

-----------------------------------------------------------------------------
\* collectWorkforceStaffCandidates: read anew unless it was within 15 seconds;
\* syncWorkforceStaffForOrganization forgets what was read.
Candidates(fresh) == IF fresh \/ cached = NotCached THEN directory ELSE cached

\* A synchronization is for nobody, or for whoever enables the tracker.
Nobody == "nobody"

ASSUME NobodyAssumption == Nobody \notin People

CollectCandidates(h, fresh, for) ==
  /\ cached' = Candidates(fresh)
  /\ Hold(h, [op |-> "compare", who |-> Candidates(fresh), for |-> for])
  /\ UNCHANGED <<directory, role, given, token, sessions>>

SyncStaff(h, fresh) == CollectCandidates(h, fresh, Nobody) /\ UNCHANGED enablers

\* enable: only a company administrator may; the directory is brought over and
\* the enabler is made a member, each of which makes a Super Admin of them.
Enable(h, p) ==
  /\ directory[p] = "Org Admin"
  /\ CollectCandidates(h, FALSE, p)
  /\ enablers' = enablers \cup {p}

CacheExpires ==
  /\ cached # NotCached /\ cached' = NotCached
  /\ UNCHANGED <<directory, role, given, enablers, token, sessions, apiVars>>

MissingStaff(who) == {p \in People : who[p] # "Gone" /\ role[p] = "none"}

Outranked(p) == p \in People /\ role[p] \notin {"none", "SUPER_ADMIN"}

\* What follows the synchronization: the enabler's membership.
EndSync(h, for) ==
  IF for \in People THEN Continue(h, [op |-> "join", who |-> for]) ELSE Answer(h)

Promotion(p, then) == [op |-> "promote", who |-> p, then |-> then]

\* syncWorkforceStaffToWorkspace: who is missing is read and then inserted, all
\* or none; of those who are there the enabler alone is given another role, if
\* they were read among the candidates; those who left stay.
CompareStaff(h) ==
  LET r == request[h]
      missing == MissingStaff(r.who)
      needsSuper == Outranked(r.for) /\ r.who[r.for] # "Gone"
  IN /\ r.op = "compare"
     /\ \/ /\ missing # {}
           /\ Continue(h, [op |-> "add", who |-> r.who, missing |-> missing,
                           for |-> r.for, needsSuper |-> needsSuper])
        \/ missing = {} /\ needsSuper /\ Continue(h, Promotion(r.for, "join"))
        \/ missing = {} /\ ~needsSuper /\ EndSync(h, r.for)
     /\ UNCHANGED staffVars

NewRole(r, p) == IF p = r.for THEN "SUPER_ADMIN" ELSE RoleOf(r.who[p])

AddStaff(h) ==
  LET r == request[h]
  IN /\ r.op = "add"
     /\ IF \A p \in r.missing : role[p] = "none"
        THEN /\ role' = [p \in People |-> IF p \in r.missing THEN NewRole(r, p) ELSE role[p]]
             /\ IF r.needsSuper THEN Continue(h, Promotion(r.for, "join")) ELSE EndSync(h, r.for)
        ELSE Answer(h) /\ UNCHANGED role
     /\ UNCHANGED <<directory, cached, given, enablers, token, sessions>>

\* The role is overwritten, whatever it has become since it was read.
Promote(h) ==
  LET r == request[h]
  IN /\ r.op = "promote"
     /\ role' = [role EXCEPT ![r.who] = "SUPER_ADMIN"]
     /\ IF r.then = "join" THEN EndSync(h, r.who) ELSE Answer(h)
     /\ UNCHANGED <<directory, cached, given, enablers, token, sessions>>

-----------------------------------------------------------------------------
\* ensureMembership: of whoever comes to the tracker with a context of the
\* organization, and of the enabler.
Visit(p, as) == [op |-> "visit", who |-> p, as |-> as]

EnsureMembership(h, p) ==
  /\ directory[p] # "Gone" /\ role[p] = "none"
  /\ Hold(h, Visit(p, directory[p]))
  /\ UNCHANGED staffVars

EnsureEnabler(h) ==
  LET p == request[h].who
  IN /\ request[h].op = "join"
     /\ \/ role[p] = "none" /\ Continue(h, Visit(p, "Org Admin"))
        \/ Outranked(p) /\ Continue(h, Promotion(p, "answer"))
        \/ role[p] = "SUPER_ADMIN" /\ Answer(h)
     /\ UNCHANGED staffVars

CreateMember(h) ==
  LET r == request[h]
  IN /\ r.op = "visit"
     /\ role' = IF role[r.who] = "none" THEN [role EXCEPT ![r.who] = RoleOf(r.as)] ELSE role
     /\ Answer(h)
     /\ UNCHANGED <<directory, cached, given, enablers, token, sessions>>

\* updateStaffRole.
UpdateStaffRole(p, new) ==
  /\ role[p] # "none" /\ AtOnce
  /\ role' = [role EXCEPT ![p] = new]
  /\ given' = [given EXCEPT ![p] = new]
  /\ UNCHANGED <<directory, cached, enablers, token, sessions>>

\* The directory: somebody joins, leaves, or is given another role.
Directory(p, as) ==
  /\ directory' = [directory EXCEPT ![p] = as]
  /\ UNCHANGED <<cached, role, given, enablers, token, sessions, apiVars>>

-----------------------------------------------------------------------------
\* sessionExchangeService.
CreateExchange(t) ==
  /\ token[t] = "none" /\ AtOnce
  /\ token' = [token EXCEPT ![t] = "unused"]
  /\ UNCHANGED <<directory, cached, role, given, enablers, sessions>>

FindExchange(h, t) ==
  /\ token[t] = "unused"
  /\ Hold(h, [op |-> "exchange", t |-> t])
  /\ UNCHANGED staffVars

ExchangeExpires(t) ==
  /\ token[t] = "unused" /\ token' = [token EXCEPT ![t] = "expired"]
  /\ UNCHANGED <<directory, cached, role, given, enablers, sessions, apiVars>>

\* Fault: what was read is relied on.
ExchangeableAsRead(t) == TRUE

\* usedAt is set only where it was not: expiry was checked when it was read.
Exchangeable(t) == token[t] # "used"

ConsumeExchange(h) ==
  LET t == request[h].t
  IN /\ request[h].op = "exchange"
     /\ IF Exchangeable(t)
        THEN /\ token' = [token EXCEPT ![t] = "used"]
             /\ sessions' = [sessions EXCEPT ![t] = @ + 1]
        ELSE UNCHANGED <<token, sessions>>
     /\ Answer(h)
     /\ UNCHANGED <<directory, cached, role, given, enablers>>

-----------------------------------------------------------------------------
StaffNext ==
  \/ CacheExpires
  \/ \E p \in People :
       \/ \E new \in RolesGiven : UpdateStaffRole(p, new)
       \/ \E as \in DirectoryChanges : Directory(p, as)
  \/ \E h \in Handlers :
       \/ CompareStaff(h) \/ AddStaff(h) \/ Promote(h)
       \/ EnsureEnabler(h) \/ CreateMember(h)
       \/ \E fresh \in BOOLEAN : SyncStaff(h, fresh)
       \/ \E p \in People : EnsureMembership(h, p) \/ Enable(h, p)

ExchangeNext ==
  \/ \E t \in Tokens : CreateExchange(t) \/ ExchangeExpires(t)
  \/ \E h \in Handlers :
       ConsumeExchange(h) \/ \E t \in Tokens : FindExchange(h, t)

StaffInit ==
  /\ directory \in [People -> {"Employee", "Office Admin", "Gone"}]
  /\ cached = NotCached
  /\ role = [p \in People |-> "none"] /\ given = [p \in People |-> "none"]
  /\ enablers = {}
  /\ token = [t \in Tokens |-> "none"] /\ sessions = [t \in Tokens |-> 0]
  /\ ApiInit

StaffSpec == StaffInit /\ [][StaffNext \/ ExchangeNext]_<<staffVars, apiVars>>

-----------------------------------------------------------------------------
(* What the task tracker promises about its staff and its handoff tokens. *)

\* The tables hold values the code can give them.
StaffTypeOK ==
  /\ role \in [People -> PermissionRoles \cup {"none"}]
  /\ given \in [People -> PermissionRoles \cup {"none"}]
  /\ enablers \subseteq People
  /\ token \in [Tokens -> {"none", "unused", "used", "expired"}]

\* syncWorkforceStaffToWorkspace, ensureMembership, updateStaffRole: whatever
\* synchronizations, first visits and enablings run into each other, a role that
\* an administrator gave changes to Super Admin alone, and only of one who
\* enabled the tracker; nobody else's is raised or taken back.
GivenRoleStays ==
  \A p \in People :
    given[p] # "none" => role[p] = given[p] \/ (p \in enablers /\ role[p] = "SUPER_ADMIN")

\* sessionExchangeService: "one-time handoff token".  A token is exchanged for a
\* session once, however many requests found it unused.
OneSessionPerToken == \A t \in Tokens : sessions[t] <= 1

\* Synchronizations, first visits, enablings, role changes and exchanges of
\* tokens that run into each other take no role back and let nobody in twice.
StaffIsSound == StaffTypeOK /\ GivenRoleStays /\ OneSessionPerToken
=============================================================================
