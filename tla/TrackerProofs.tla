---------------------------- MODULE TrackerProofs ----------------------------
(***************************************************************************)
(* Four parts of the task tracker, for any people, tokens, tasks, copies   *)
(* and handlers.  The staff: only an enabler's request raises a role, and *)
(* a token is exchanged once because the write asks again.  The            *)
(* writes of a whole workspace: the strengthening says that a merged copy  *)
(* that waits to be written is typed and has a Super Admin already, so     *)
(* that it does not matter what was written while it waited.  The board:   *)
(* the strengthening types what each request holds between two statements, *)
(* and says that a project in use is still there; whoever owns a task      *)
(* knows of it or is about to be told, and in turn a board shows the task  *)
(* as it is or an event that will is pending.  The live events: what       *)
(* a stream has not yet is on its way to it; with requests one at a time   *)
(* the channel is in order, so that a client has all up to its last.       *)
(***************************************************************************)
EXTENDS TrackerStaff, WorkspaceReplace, TaskBoard, WorkspaceEvents, FiniteSetTheorems, TLAPS

(* The staff *)

\* A used token was exchanged once, any other never.
TokensAreUsedOnce ==
  /\ sessions \in [Tokens -> Nat]
  /\ \A t \in Tokens : sessions[t] = IF token[t] = "used" THEN 1 ELSE 0

\* Who is raised to Super Admin by a request has enabled the tracker.
Raises(r, E) ==
  /\ r.op \in {"compare", "add"} /\ r.for \in People => r.for \in E
  /\ r.op = "add" /\ r.needsSuper => r.for \in E
  /\ r.op \in {"promote", "join"} => r.who \in E

EnablersAlone ==
  /\ request = [h \in Handlers |-> request[h]]
  /\ \A h \in Handlers : Raises(request[h], enablers)

RolesInv == StaffTypeOK /\ GivenRoleStays /\ TokensAreUsedOnce

StaffInv == RolesInv /\ EnablersAlone

LEMMA NewRolesAreTyped == \A r : RoleOf(r) \in PermissionRoles /\ RoleOf(r) # "none"
BY DEF RoleOf, PermissionRoles

\* Who has no row gets one; nobody loses what they were given.
LEMMA NewRowsKeep ==
  ASSUME RolesInv, UNCHANGED <<given, enablers, token, sessions>>,
         role' \in [People -> PermissionRoles \cup {"none"}],
         \A p \in People : role[p] # "none" =>
           role'[p] = role[p] \/ (p \in enablers /\ role'[p] = "SUPER_ADMIN")
  PROVE  RolesInv'
<1>1. ASSUME NEW p \in People, given[p] # "none"
      PROVE  role'[p] = given[p] \/ (p \in enablers /\ role'[p] = "SUPER_ADMIN")
  <2>1. role[p] # "none"
    BY <1>1 DEF RolesInv, GivenRoleStays
  <2>2. QED
    BY <1>1, <2>1 DEF RolesInv, GivenRoleStays
<1>2. GivenRoleStays'
  BY <1>1 DEF GivenRoleStays
<1>3. QED
  BY <1>2 DEF RolesInv, StaffTypeOK, TokensAreUsedOnce

LEMMA StaffReadsKeep ==
  ASSUME RolesInv, UNCHANGED <<role, given, enablers, token, sessions>> PROVE RolesInv'
BY DEF RolesInv, StaffTypeOK, GivenRoleStays, TokensAreUsedOnce

\* A request goes on, or another begins, on behalf of an enabler.
LEMMA RequestsKeep ==
  ASSUME EnablersAlone, enablers \subseteq enablers', NEW h \in Handlers, NEW r,
         request' = [request EXCEPT ![h] = r], Raises(r, enablers')
  PROVE  EnablersAlone'
<1>1. request' = [g \in Handlers |-> IF g = h THEN r ELSE request[g]]
  BY DEF EnablersAlone
<1>2. ASSUME NEW g \in Handlers PROVE Raises(request'[g], enablers')
  BY <1>1 DEF EnablersAlone, Raises
<1>3. QED
  BY <1>1, <1>2 DEF EnablersAlone

LEMMA NothingRaised == \A E : Raises(NoRequest, E)
BY DEF Raises, NoRequest

LEMMA AnswersKeep ==
  ASSUME EnablersAlone, UNCHANGED enablers, NEW h \in Handlers, Answer(h) PROVE EnablersAlone'
BY RequestsKeep, NothingRaised DEF Answer, Continue

LEMMA EndSyncKeeps ==
  ASSUME EnablersAlone, UNCHANGED enablers, NEW h \in Handlers, NEW p,
         p \in People => p \in enablers, EndSync(h, p)
  PROVE  EnablersAlone'
<1>1. CASE p \in People
  <2>1. Raises([op |-> "join", who |-> p], enablers')
    BY <1>1 DEF Raises
  <2>2. request' = [request EXCEPT ![h] = [op |-> "join", who |-> p]]
    BY <1>1 DEF EndSync, Continue
  <2>3. QED
    BY <2>1, <2>2, RequestsKeep
<1>2. CASE p \notin People
  BY <1>2, AnswersKeep DEF EndSync
<1>3. QED
  BY <1>1, <1>2

LEMMA PromotionKeeps ==
  ASSUME EnablersAlone, UNCHANGED enablers, NEW h \in Handlers, NEW p \in enablers, NEW then,
         Continue(h, Promotion(p, then))
  PROVE  EnablersAlone'
<1>1. Raises(Promotion(p, then), enablers')
  BY DEF Raises, Promotion
<1>2. QED
  BY <1>1, RequestsKeep DEF Continue

LEMMA StaffStart == StaffInit => StaffInv
<1> SUFFICES ASSUME StaffInit PROVE StaffInv
  OBVIOUS
<1>1. StaffTypeOK
  BY DEF StaffInit, StaffTypeOK
<1>2. GivenRoleStays
  BY DEF StaffInit, GivenRoleStays
<1>3. TokensAreUsedOnce
  BY DEF StaffInit, TokensAreUsedOnce
<1>4. EnablersAlone
  BY NothingRaised DEF StaffInit, ApiInit, EnablersAlone
<1>5. QED
  BY <1>1, <1>2, <1>3, <1>4 DEF StaffInv, RolesInv

LEMMA SyncKeepsRequests ==
  ASSUME StaffInv, NEW h \in Handlers,
         \/ \E fresh \in BOOLEAN : SyncStaff(h, fresh)
         \/ \E p \in People : Enable(h, p)
  PROVE  StaffInv'
<1>1. PICK fresh, for :
        /\ CollectCandidates(h, fresh, for)
        /\ enablers' \subseteq People /\ enablers \subseteq enablers'
        /\ for \in People => for \in enablers'
  <2>1. ASSUME NEW fresh \in BOOLEAN, SyncStaff(h, fresh)
        PROVE  CollectCandidates(h, fresh, Nobody) /\ UNCHANGED enablers
    BY <2>1 DEF SyncStaff
  <2>2. ASSUME NEW p \in People, Enable(h, p)
        PROVE  /\ CollectCandidates(h, FALSE, p)
               /\ enablers' \subseteq People /\ enablers \subseteq enablers' /\ p \in enablers'
    BY <2>2 DEF Enable, StaffInv, RolesInv, StaffTypeOK
  <2>3. QED
    BY <2>1, <2>2, NobodyAssumption DEF StaffInv, RolesInv, StaffTypeOK
<1> DEFINE asked == [op |-> "compare", who |-> Candidates(fresh), for |-> for]
<1>2. request' = [request EXCEPT ![h] = asked]
  BY <1>1 DEF CollectCandidates, Hold
<1>3. Raises(asked, enablers')
  BY <1>1 DEF Raises
<1>4. EnablersAlone'
  <2> HIDE DEF asked
  <2>1. QED
    BY <1>1, <1>2, <1>3, RequestsKeep DEF StaffInv
<1>5. UNCHANGED <<role, given, token, sessions>>
  BY <1>1 DEF CollectCandidates
<1>6. RolesInv'
  BY <1>1, <1>5 DEF StaffInv, RolesInv, StaffTypeOK, GivenRoleStays, TokensAreUsedOnce
<1>7. QED
  BY <1>4, <1>6 DEF StaffInv

LEMMA CompareKeeps == ASSUME StaffInv, NEW h \in Handlers, CompareStaff(h) PROVE StaffInv'
<1>1. PICK r : r = request[h]
  OBVIOUS
<1>2. r.for \in People => r.for \in enablers
  BY <1>1 DEF CompareStaff, StaffInv, EnablersAlone, Raises
<1>3. EnablersAlone /\ UNCHANGED enablers
  BY DEF StaffInv, CompareStaff, staffVars
<1> DEFINE missing == MissingStaff(r.who)
           needsSuper == Outranked(r.for) /\ r.who[r.for] # "Gone"
           adding == [op |-> "add", who |-> r.who, missing |-> missing,
                      for |-> r.for, needsSuper |-> needsSuper]
<1>4. \/ Continue(h, adding)
      \/ needsSuper /\ Continue(h, Promotion(r.for, "join"))
      \/ EndSync(h, r.for)
  BY <1>1 DEF CompareStaff
<1>5. CASE Continue(h, adding)
  <2>1. adding.op = "add" /\ adding.for = r.for /\ (adding.needsSuper => r.for \in People)
    BY DEF Outranked
  <2> HIDE DEF adding
  <2>2. Raises(adding, enablers')
    BY <1>2, <1>3, <2>1 DEF Raises
  <2>3. EnablersAlone'
    BY <1>3, <1>5, <2>2, RequestsKeep DEF Continue
  <2>4. QED
    BY <2>3, StaffReadsKeep DEF CompareStaff, staffVars, StaffInv
<1>6. CASE needsSuper /\ Continue(h, Promotion(r.for, "join"))
  <2>1. r.for \in enablers
    BY <1>2, <1>6 DEF Outranked
  <2>2. EnablersAlone'
    BY <1>3, <1>6, <2>1, PromotionKeeps
  <2>3. QED
    BY <2>2, StaffReadsKeep DEF CompareStaff, staffVars, StaffInv
<1>7. CASE EndSync(h, r.for)
  <2>1. EnablersAlone'
    BY <1>2, <1>3, <1>7, EndSyncKeeps
  <2>2. QED
    BY <2>1, StaffReadsKeep DEF CompareStaff, staffVars, StaffInv
<1>8. QED
  BY <1>4, <1>5, <1>6, <1>7

LEMMA AddStaffKeeps == ASSUME StaffInv, NEW h \in Handlers, AddStaff(h) PROVE StaffInv'
<1>1. PICK r : r = request[h]
  OBVIOUS
<1>2. r.for \in People => r.for \in enablers
  BY <1>1 DEF AddStaff, StaffInv, EnablersAlone, Raises
<1>3. EnablersAlone /\ RolesInv /\ UNCHANGED <<given, enablers, token, sessions>>
  BY DEF StaffInv, AddStaff
<1>4. CASE ~ \A p \in r.missing : role[p] = "none"
  <2>1. Answer(h) /\ UNCHANGED role
    BY <1>1, <1>4 DEF AddStaff
  <2>2. QED
    BY <1>3, <2>1, AnswersKeep, StaffReadsKeep DEF StaffInv
<1>5. CASE \A p \in r.missing : role[p] = "none"
  <2>1. role' = [p \in People |-> IF p \in r.missing THEN NewRole(r, p) ELSE role[p]]
    BY <1>1, <1>5 DEF AddStaff
  <2>2. \A p : NewRole(r, p) \in PermissionRoles
    BY NewRolesAreTyped DEF NewRole, PermissionRoles
  <2>3. role' \in [People -> PermissionRoles \cup {"none"}]
    BY <1>3, <2>1, <2>2 DEF RolesInv, StaffTypeOK
  <2>4. \A p \in People : role[p] # "none" => role'[p] = role[p]
    BY <1>5, <2>1
  <2>5. RolesInv'
    BY <1>3, <2>3, <2>4, NewRowsKeep
  <2>6. CASE r.needsSuper
    <3>1. r.for \in enablers
      BY <1>1, <2>6 DEF AddStaff, StaffInv, EnablersAlone, Raises
    <3>2. Continue(h, Promotion(r.for, "join"))
      BY <1>1, <1>5, <2>6 DEF AddStaff
    <3>3. QED
      BY <1>3, <2>5, <3>1, <3>2, PromotionKeeps DEF StaffInv
  <2>7. CASE ~r.needsSuper
    <3>1. EndSync(h, r.for)
      BY <1>1, <1>5, <2>7 DEF AddStaff
    <3>2. QED
      BY <1>2, <1>3, <2>5, <3>1, EndSyncKeeps DEF StaffInv
  <2>8. QED
    BY <2>6, <2>7
<1>6. QED
  BY <1>4, <1>5

LEMMA PromoteKeeps == ASSUME StaffInv, NEW h \in Handlers, Promote(h) PROVE StaffInv'
<1>1. PICK r : r = request[h]
  OBVIOUS
<1>2. r.who \in enablers
  BY <1>1 DEF Promote, StaffInv, EnablersAlone, Raises
<1>3. EnablersAlone /\ RolesInv /\ UNCHANGED <<given, enablers, token, sessions>>
  BY DEF StaffInv, Promote
<1>4. role' = [role EXCEPT ![r.who] = "SUPER_ADMIN"]
  BY <1>1 DEF Promote
<1>5. role' \in [People -> PermissionRoles \cup {"none"}]
  BY <1>3, <1>4 DEF RolesInv, StaffTypeOK, PermissionRoles
<1>6. \A p \in People : role'[p] = role[p] \/ (p \in enablers /\ role'[p] = "SUPER_ADMIN")
  BY <1>2, <1>3, <1>4 DEF RolesInv, StaffTypeOK
<1>7. RolesInv'
  BY <1>3, <1>5, <1>6, NewRowsKeep
<1>8. EndSync(h, r.who) \/ Answer(h)
  BY <1>1 DEF Promote
<1>9. EnablersAlone'
  BY <1>2, <1>3, <1>8, EndSyncKeeps, AnswersKeep
<1>10. QED
  BY <1>7, <1>9 DEF StaffInv

LEMMA VisitKeeps ==
  ASSUME EnablersAlone, UNCHANGED enablers, NEW h \in Handlers, NEW p, NEW as,
         request' = [request EXCEPT ![h] = Visit(p, as)]
  PROVE  EnablersAlone'
<1>1. Raises(Visit(p, as), enablers')
  BY DEF Raises, Visit
<1>2. QED
  BY <1>1, RequestsKeep

LEMMA EnsureKeeps ==
  ASSUME StaffInv, NEW h \in Handlers,
         EnsureEnabler(h) \/ \E p \in People : EnsureMembership(h, p)
  PROVE  StaffInv'
<1>1. UNCHANGED staffVars /\ EnablersAlone /\ RolesInv
  BY DEF EnsureEnabler, EnsureMembership, StaffInv
<1>2. EnablersAlone'
  <2>1. ASSUME NEW p \in People, EnsureMembership(h, p) PROVE EnablersAlone'
    BY <1>1, <2>1, VisitKeeps DEF EnsureMembership, Hold, staffVars
  <2>2. ASSUME EnsureEnabler(h) PROVE EnablersAlone'
    <3>1. PICK p : p = request[h].who
      OBVIOUS
    <3>2. p \in enablers
      BY <2>2, <3>1 DEF EnsureEnabler, StaffInv, EnablersAlone, Raises
    <3>3. \/ Continue(h, Visit(p, "Org Admin"))
          \/ Continue(h, Promotion(p, "answer"))
          \/ Answer(h)
      BY <2>2, <3>1 DEF EnsureEnabler
    <3>4. QED
      BY <1>1, <3>2, <3>3, VisitKeeps, PromotionKeeps, AnswersKeep DEF Continue, staffVars
  <2>3. QED
    BY <2>1, <2>2
<1>3. RolesInv'
  BY <1>1, StaffReadsKeep DEF staffVars
<1>4. QED
  BY <1>2, <1>3 DEF StaffInv

LEMMA StaffStepKeeps == ASSUME StaffInv, StaffNext PROVE StaffInv'
<1>1. ASSUME NEW p \in People, NEW new \in RolesGiven, UpdateStaffRole(p, new) PROVE StaffInv'
  <2>1. new \in PermissionRoles
    BY RolesAssumption DEF PermissionRoles
  <2>2. StaffTypeOK'
    BY <1>1, <2>1 DEF StaffInv, RolesInv, StaffTypeOK, UpdateStaffRole
  <2>3. GivenRoleStays'
    BY <1>1 DEF StaffInv, RolesInv, StaffTypeOK, GivenRoleStays, UpdateStaffRole
  <2>4. TokensAreUsedOnce'
    BY <1>1 DEF StaffInv, RolesInv, TokensAreUsedOnce, UpdateStaffRole
  <2>5. EnablersAlone'
    BY <1>1 DEF StaffInv, EnablersAlone, UpdateStaffRole, AtOnce
  <2>6. QED
    BY <2>2, <2>3, <2>4, <2>5 DEF StaffInv, RolesInv
<1>2. ASSUME NEW h \in Handlers, CreateMember(h) PROVE StaffInv'
  <2> DEFINE r == request[h]
  <2>1. /\ role' = IF role[r.who] = "none" THEN [role EXCEPT ![r.who] = RoleOf(r.as)] ELSE role
        /\ UNCHANGED <<given, enablers, token, sessions>>
        /\ Answer(h)
    BY <1>2 DEF CreateMember
  <2>2. role' \in [People -> PermissionRoles \cup {"none"}]
    BY <2>1, NewRolesAreTyped DEF StaffInv, RolesInv, StaffTypeOK
  <2>3. \A p \in People : role[p] # "none" => role'[p] = role[p]
    BY <2>1 DEF StaffInv, RolesInv, StaffTypeOK
  <2>4. RolesInv'
    BY <2>1, <2>2, <2>3, NewRowsKeep DEF StaffInv
  <2>5. QED
    BY <2>1, <2>4, AnswersKeep DEF StaffInv
<1>3. ASSUME CacheExpires \/ \E p \in People, as \in DirectoryChanges : Directory(p, as)
      PROVE  StaffInv'
  <2>1. UNCHANGED <<role, given, enablers, token, sessions, request>>
    BY <1>3 DEF CacheExpires, Directory, apiVars
  <2>2. QED
    BY <2>1, StaffReadsKeep DEF StaffInv, EnablersAlone
<1>4. QED
  BY <1>1, <1>2, <1>3, SyncKeepsRequests, CompareKeeps, AddStaffKeeps, PromoteKeeps, EnsureKeeps
  DEF StaffNext

LEMMA ExchangeStepKeeps == ASSUME StaffInv, ExchangeNext PROVE StaffInv'
<1>1. ASSUME NEW h \in Handlers, ConsumeExchange(h) PROVE RolesInv'
  <2> DEFINE t == request[h].t
  <2>1. UNCHANGED <<role, given, enablers>>
    BY <1>1 DEF ConsumeExchange
  <2>2. CASE Exchangeable(t)
    <3>1. token' = [token EXCEPT ![t] = "used"] /\ sessions' = [sessions EXCEPT ![t] = @ + 1]
      BY <1>1, <2>2 DEF ConsumeExchange
    <3>2. token[t] # "used"
      BY <2>2 DEF Exchangeable
    <3> HIDE DEF t
    <3>3. ASSUME NEW s \in Tokens
          PROVE  sessions'[s] = IF token'[s] = "used" THEN 1 ELSE 0
      BY <3>1, <3>2 DEF StaffInv, RolesInv, StaffTypeOK, TokensAreUsedOnce
    <3>4. sessions' \in [Tokens -> Nat] /\ token' \in [Tokens -> {"none", "unused", "used", "expired"}]
      <4>1. /\ sessions' \in [Tokens -> {sessions[s] : s \in Tokens} \cup {sessions[t] + 1}]
            /\ token' \in [Tokens -> {"none", "unused", "used", "expired"}]
        BY <3>1 DEF StaffInv, RolesInv, StaffTypeOK, TokensAreUsedOnce
      <4>2. QED
        BY <3>3, <4>1
    <3>5. QED
      BY <2>1, <3>3, <3>4 DEF StaffInv, RolesInv, StaffTypeOK, GivenRoleStays, TokensAreUsedOnce
  <2>3. CASE ~Exchangeable(t)
    BY <1>1, <2>1, <2>3, StaffReadsKeep DEF ConsumeExchange, StaffInv
  <2>4. QED
    BY <2>2, <2>3
<1>2. ASSUME NEW t \in Tokens, CreateExchange(t) \/ ExchangeExpires(t) PROVE RolesInv'
  <2>1. /\ UNCHANGED <<role, given, enablers, sessions>>
        /\ token[t] # "used"
        /\ \/ token' = [token EXCEPT ![t] = "unused"]
           \/ token' = [token EXCEPT ![t] = "expired"]
    BY <1>2 DEF CreateExchange, ExchangeExpires
  <2>2. QED
    BY <2>1 DEF StaffInv, RolesInv, StaffTypeOK, GivenRoleStays, TokensAreUsedOnce
<1>3. ASSUME NEW h \in Handlers, NEW t \in Tokens, FindExchange(h, t) PROVE RolesInv'
  BY <1>3, StaffReadsKeep DEF FindExchange, staffVars, StaffInv
<1>4. RolesInv'
  BY <1>1, <1>2, <1>3 DEF ExchangeNext
<1>5. EnablersAlone /\ UNCHANGED enablers
  BY DEF StaffInv, ExchangeNext, CreateExchange, ExchangeExpires, ConsumeExchange, FindExchange, staffVars
<1>6. CASE UNCHANGED request
  BY <1>4, <1>5, <1>6 DEF StaffInv, EnablersAlone
<1>7. ASSUME NEW h \in Handlers, NEW t \in Tokens, FindExchange(h, t) PROVE StaffInv'
  <2>1. Raises([op |-> "exchange", t |-> t], enablers')
    BY DEF Raises
  <2>2. EnablersAlone'
    BY <1>5, <1>7, <2>1, RequestsKeep DEF FindExchange, Hold
  <2>3. QED
    BY <1>4, <2>2 DEF StaffInv
<1>8. ASSUME NEW h \in Handlers, ConsumeExchange(h) PROVE StaffInv'
  BY <1>4, <1>5, <1>8, AnswersKeep DEF ConsumeExchange, StaffInv
<1>9. QED
  BY <1>6, <1>7, <1>8 DEF ExchangeNext, CreateExchange, ExchangeExpires, AtOnce, apiVars

\* Whatever synchronizations, first visits, enablings, role changes and exchanges
\* run into each other, a role that was given changes by nobody else's hand,
\* except to Super Admin for one who enabled the tracker, and a token lets one
\* session in (syncWorkforceStaffToWorkspace, ensureMembership,
\* sessionExchangeService).
THEOREM StaffStaysSound == StaffSpec => []StaffIsSound
<1>1. StaffInv /\ [StaffNext \/ ExchangeNext]_<<staffVars, apiVars>> => StaffInv'
  <2> SUFFICES ASSUME StaffInv, [StaffNext \/ ExchangeNext]_<<staffVars, apiVars>> PROVE StaffInv'
    OBVIOUS
  <2>1. CASE UNCHANGED <<staffVars, apiVars>>
    BY <2>1, StaffReadsKeep DEF staffVars, apiVars, StaffInv, EnablersAlone
  <2>2. QED
    BY <2>1, StaffStepKeeps, ExchangeStepKeeps
<1>2. StaffInv => StaffIsSound
  BY DEF StaffInv, RolesInv, StaffIsSound, OneSessionPerToken, TokensAreUsedOnce
<1>3. QED
  BY <1>1, <1>2, StaffStart, PTL DEF StaffSpec

-----------------------------------------------------------------------------
(* The writes of a whole workspace *)

Syncing == [op : {"sync"}, by : Names, as : Roles \cup {Absent}, data : Workspaces]

\* A copy that waits to be written has a Super Admin.
CanBeWritten(r) == r \in Syncing => StaffHasSuperAdmin(r.data)

ReplaceInv ==
  /\ WorkspaceIsWhole
  /\ request \in [Handlers -> {NoRequest} \cup Syncing]
  /\ \A h \in Handlers : CanBeWritten(request[h])

HasSuperAdmin(roles) == \E n \in Names : roles[n] # Absent /\ roles[n] = "Super Admin"

LEMMA LoadedIsTyped ==
  ASSUME workspace \in Workspaces
  PROVE  Loaded \in Workspaces /\ Loaded.role = workspace.role
BY DEF Loaded, Workspaces

\* mergeStaff: either the merged roles have a Super Admin or the old one keeps
\* the role.
LEMMA MergedStaffIsTyped ==
  ASSUME NEW existing \in Workspaces, NEW incoming \in Workspaces, NEW role_, NEW actor \in Names
  PROVE  MergeStaff(existing, incoming, role_, actor) \in [Names -> Roles \cup {Absent}]
<1> DEFINE removed == IF Can(role_, "staff.delete")
                      THEN StaffOf(existing) \ (StaffOf(incoming) \cup {actor}) ELSE {}
           added == IF Can(role_, "staff.create")
                    THEN StaffOf(incoming) \ StaffOf(existing) ELSE {}
           roles == [n \in Names |->
                      IF n \in removed THEN Absent
                      ELSE IF n \in added THEN incoming.role[n]
                      ELSE IF n \in StaffOf(existing) \cap StaffOf(incoming) /\ Can(role_, "staff.assignRole")
                           THEN incoming.role[n]
                      ELSE existing.role[n]]
           merged == [existing EXCEPT !.role = roles]
           kept == [n \in Names |->
                     IF existing.role[n] = "Super Admin" THEN existing.role[n] ELSE merged.role[n]]
<1>1. roles \in [Names -> Roles \cup {Absent}]
  <2> HIDE DEF removed, added
  <2>1. QED
    BY DEF Workspaces
<1>2. MergeStaff(existing, incoming, role_, actor) =
        IF StaffHasSuperAdmin(merged) THEN merged.role ELSE kept
  BY DEF MergeStaff
<1> HIDE DEF roles
<1>3. merged.role = roles
  BY DEF Workspaces
<1> HIDE DEF merged
<1>4. kept \in [Names -> Roles \cup {Absent}]
  BY <1>1, <1>3 DEF Workspaces
<1> HIDE DEF kept
<1>5. QED
  BY <1>1, <1>2, <1>3, <1>4

LEMMA MergedStaffHasSuperAdmin ==
  ASSUME NEW existing \in Workspaces, NEW incoming \in Workspaces, NEW role_, NEW actor \in Names,
         StaffHasSuperAdmin(existing)
  PROVE  HasSuperAdmin(MergeStaff(existing, incoming, role_, actor))
<1> DEFINE removed == IF Can(role_, "staff.delete")
                      THEN StaffOf(existing) \ (StaffOf(incoming) \cup {actor}) ELSE {}
           added == IF Can(role_, "staff.create")
                    THEN StaffOf(incoming) \ StaffOf(existing) ELSE {}
           roles == [n \in Names |->
                      IF n \in removed THEN Absent
                      ELSE IF n \in added THEN incoming.role[n]
                      ELSE IF n \in StaffOf(existing) \cap StaffOf(incoming) /\ Can(role_, "staff.assignRole")
                           THEN incoming.role[n]
                      ELSE existing.role[n]]
           merged == [existing EXCEPT !.role = roles]
           kept == [n \in Names |->
                     IF existing.role[n] = "Super Admin" THEN existing.role[n] ELSE merged.role[n]]
<1>1. MergeStaff(existing, incoming, role_, actor) =
        IF StaffHasSuperAdmin(merged) THEN merged.role ELSE kept
  BY DEF MergeStaff
<1> HIDE DEF merged
<1>2. CASE StaffHasSuperAdmin(merged)
  BY <1>1, <1>2 DEF StaffHasSuperAdmin, StaffOf, HasSuperAdmin
<1>3. CASE ~StaffHasSuperAdmin(merged)
  <2>1. PICK n \in Names : existing.role[n] # Absent /\ existing.role[n] = "Super Admin"
    BY DEF StaffHasSuperAdmin, StaffOf
  <2>2. kept[n] = "Super Admin" /\ kept[n] # Absent
    BY <2>1
  <2>3. QED
    BY <1>1, <1>3, <2>2 DEF HasSuperAdmin
<1>4. QED
  BY <1>2, <1>3

LEMMA MergedByIdIsTyped ==
  ASSUME NEW existing \in [TaskIds -> Teams \cup {Absent}],
         NEW incoming \in [TaskIds -> Teams \cup {Absent}], NEW canAdd, NEW canRemove
  PROVE  MergeById(existing, incoming, canAdd, canRemove) \in [TaskIds -> Teams \cup {Absent}]
<1>1. CASE canAdd /\ canRemove
  BY <1>1 DEF MergeById
<1>2. CASE ~(canAdd /\ canRemove)
  <2>1. CASE canAdd
    BY <1>2, <2>1 DEF MergeById
  <2>2. CASE ~canAdd
    <3>1. CASE canRemove
      BY <1>2, <2>2, <3>1 DEF MergeById
    <3>2. CASE ~canRemove
      BY <1>2, <2>2, <3>2 DEF MergeById
    <3>3. QED
      BY <3>1, <3>2
  <2>3. QED
    BY <2>1, <2>2
<1>3. QED
  BY <1>1, <1>2

\* The copy of one who may replace everything.
LEMMA ReplacedIsWhole ==
  ASSUME NEW existing \in Workspaces, NEW incoming \in Workspaces, NEW actor \in Names,
         StaffHasSuperAdmin(existing)
  PROVE  /\ Replaced(existing, incoming, actor) \in Workspaces
         /\ StaffHasSuperAdmin(Replaced(existing, incoming, actor))
<1> DEFINE staff == IF StaffHasSuperAdmin(incoming) THEN incoming.role ELSE existing.role
           roles == IF staff[actor] = Absent THEN [staff EXCEPT ![actor] = existing.role[actor]]
                    ELSE staff
<1>1. staff \in [Names -> Roles \cup {Absent}]
  BY DEF Workspaces
<1>2. PICK n \in Names : staff[n] # Absent /\ staff[n] = "Super Admin"
  BY DEF StaffHasSuperAdmin, StaffOf
<1>3. existing.role[actor] \in Roles \cup {Absent}
  BY DEF Workspaces
<1>4. Replaced(existing, incoming, actor) = [incoming EXCEPT !.role = roles]
  BY DEF Replaced
<1> HIDE DEF staff
<1>5. roles \in [Names -> Roles \cup {Absent}]
  BY <1>1, <1>3
<1>6. roles[n] # Absent /\ roles[n] = "Super Admin"
  BY <1>1, <1>2
<1> HIDE DEF roles
<1>7. /\ [incoming EXCEPT !.role = roles] \in Workspaces
      /\ [incoming EXCEPT !.role = roles].role = roles
  BY <1>5 DEF Workspaces
<1>8. QED
  BY <1>4, <1>6, <1>7 DEF StaffHasSuperAdmin, StaffOf

\* applyPermittedWorkspaceUpdate
LEMMA MergedIsWhole ==
  ASSUME NEW existing \in Workspaces, NEW incoming \in Workspaces, NEW role_, NEW actor \in Names,
         StaffHasSuperAdmin(existing)
  PROVE  /\ Merged(existing, incoming, role_, actor) \in Workspaces
         /\ StaffHasSuperAdmin(Merged(existing, incoming, role_, actor))
<1>1. CASE ReplacesAll(role_)
  BY <1>1, ReplacedIsWhole DEF Merged
<1>2. CASE ~ReplacesAll(role_)
  <2> DEFINE staff == MergeStaff(existing, incoming, role_, actor)
             projects == IF Can(role_, "projects") THEN incoming.projects ELSE existing.projects
             tasks == MergeTasks(existing.tasks, incoming.tasks, role_)
             bin == MergeById(existing.trash, incoming.trash,
                              Can(role_, "tasks.delete"), Can(role_, "trash.restore"))
             shelf == MergeById(existing.archive, incoming.archive,
                                Can(role_, "tasks.archive"), Can(role_, "tasks.archive"))
             merged == [role |-> staff, projects |-> projects, tasks |-> tasks,
                        trash |-> bin, archive |-> shelf]
  <2>1. staff \in [Names -> Roles \cup {Absent}]
    BY MergedStaffIsTyped
  <2>2. HasSuperAdmin(staff)
    BY MergedStaffHasSuperAdmin
  <2>3. projects \in SUBSET Teams
    BY DEF Workspaces
  <2>4. tasks \in [TaskIds -> Teams \cup {Absent}]
    BY DEF MergeTasks, Workspaces
  <2>5. bin \in [TaskIds -> Teams \cup {Absent}] /\ shelf \in [TaskIds -> Teams \cup {Absent}]
    <3>1. /\ existing.trash \in [TaskIds -> Teams \cup {Absent}]
          /\ incoming.trash \in [TaskIds -> Teams \cup {Absent}]
          /\ existing.archive \in [TaskIds -> Teams \cup {Absent}]
          /\ incoming.archive \in [TaskIds -> Teams \cup {Absent}]
      BY DEF Workspaces
    <3>2. QED
      BY <3>1, MergedByIdIsTyped
  <2>6. Merged(existing, incoming, role_, actor) = merged
    BY <1>2 DEF Merged
  <2> HIDE DEF staff, projects, tasks, bin, shelf
  <2>7. merged \in Workspaces /\ merged.role = staff
    BY <2>1, <2>3, <2>4, <2>5 DEF Workspaces
  <2>8. QED
    BY <2>2, <2>6, <2>7 DEF HasSuperAdmin, StaffHasSuperAdmin, StaffOf
<1>3. QED
  BY <1>1, <1>2

LEMMA ReplaceStart == ReplaceInit => ReplaceInv
BY IncomingAssumption
DEF ReplaceInit, ApiInit, ReplaceInv, WorkspaceIsWhole, ReplaceTypeOK, SuperAdminRemains,
    CanBeWritten, Syncing, NoRequest

\* What is done meanwhile leaves the roles and the projects of tasks alone.
LEMMA MeanwhileKeeps ==
  ASSUME ReplaceInv, NEW p \in Teams, DropProject(p) \/ \E t \in TaskIds : NewTask(t, p)
  PROVE  ReplaceInv'
<1>1. request' = request
  BY DEF DropProject, NewTask, AtOnce
<1>2. CASE DropProject(p)
  <2>1. workspace' = [workspace EXCEPT !.projects = @ \ {p}]
    BY <1>2 DEF DropProject
  <2>2. workspace' \in Workspaces
    BY <2>1 DEF ReplaceInv, WorkspaceIsWhole, ReplaceTypeOK, Workspaces
  <2>3. workspace'.role = workspace.role /\ workspace'.tasks = workspace.tasks
        /\ workspace'.projects = workspace.projects \ {p}
    BY <2>1 DEF ReplaceInv, WorkspaceIsWhole, ReplaceTypeOK, Workspaces
  <2>4. HaveTheirProject(workspace)' /\ StaffHasSuperAdmin(workspace)'
    BY <1>2, <2>3 DEF ReplaceInv, WorkspaceIsWhole, ReplaceTypeOK, SuperAdminRemains,
                      HaveTheirProject, StaffHasSuperAdmin, StaffOf, DropProject
  <2>5. QED
    BY <1>1, <2>2, <2>4 DEF ReplaceInv, WorkspaceIsWhole, ReplaceTypeOK, SuperAdminRemains,
                            CanBeWritten, StaffHasSuperAdmin, StaffOf
<1>3. ASSUME NEW t \in TaskIds, NewTask(t, p) PROVE ReplaceInv'
  <2>1. workspace' = [workspace EXCEPT !.tasks[t] = p] /\ p \in workspace.projects
    BY <1>3 DEF NewTask
  <2>2. workspace' \in Workspaces
    BY <2>1 DEF ReplaceInv, WorkspaceIsWhole, ReplaceTypeOK, Workspaces
  <2>3. workspace'.role = workspace.role /\ workspace'.projects = workspace.projects
        /\ workspace'.tasks = [workspace.tasks EXCEPT ![t] = p]
    BY <2>1 DEF ReplaceInv, WorkspaceIsWhole, ReplaceTypeOK, Workspaces
  <2>4. HaveTheirProject(workspace)' /\ StaffHasSuperAdmin(workspace)'
    BY <2>1, <2>3 DEF ReplaceInv, WorkspaceIsWhole, ReplaceTypeOK, SuperAdminRemains, Workspaces,
                      HaveTheirProject, StaffHasSuperAdmin, StaffOf
  <2>5. QED
    BY <1>1, <2>2, <2>4 DEF ReplaceInv, WorkspaceIsWhole, ReplaceTypeOK, SuperAdminRemains,
                            CanBeWritten, StaffHasSuperAdmin, StaffOf
<1>4. QED
  BY <1>2, <1>3

LEMMA PutKeeps ==
  ASSUME ReplaceInv, NEW h \in Handlers, NEW a \in Names, NEW incoming \in Incoming,
         PutWorkspace(h, a, incoming)
  PROVE  ReplaceInv'
<1> DEFINE data == Merged(Loaded, incoming, workspace.role[a], a)
           r == [op |-> "sync", by |-> a, as |-> workspace.role[a], data |-> data]
<1>1. workspace \in Workspaces /\ StaffHasSuperAdmin(workspace) /\ incoming \in Workspaces
  BY IncomingAssumption DEF ReplaceInv, WorkspaceIsWhole, ReplaceTypeOK, SuperAdminRemains
<1>2. Loaded \in Workspaces /\ StaffHasSuperAdmin(Loaded)
  BY <1>1, LoadedIsTyped DEF StaffHasSuperAdmin, StaffOf
<1>3. data \in Workspaces /\ StaffHasSuperAdmin(data)
  BY <1>1, <1>2, MergedIsWhole
<1>4. request' = [request EXCEPT ![h] = r] /\ UNCHANGED replaceVars
  BY DEF PutWorkspace, Hold
<1>5. workspace.role[a] \in Roles \cup {Absent}
  BY <1>1 DEF Workspaces
<1> HIDE DEF data
<1>6. r \in Syncing /\ CanBeWritten(r)
  BY <1>3, <1>5 DEF Syncing, CanBeWritten
<1> HIDE DEF r
<1>7. QED
  BY <1>4, <1>6 DEF ReplaceInv, replaceVars, WorkspaceIsWhole, ReplaceTypeOK, SuperAdminRemains,
                    CanBeWritten, HaveTheirProject, StaffHasSuperAdmin, StaffOf

LEMMA SyncKeeps ==
  ASSUME ReplaceInv, NEW h \in Handlers, SyncWorkspace(h) PROVE ReplaceInv'
<1>1. PICK r \in Syncing : r = request[h] /\ StaffHasSuperAdmin(r.data)
  BY DEF SyncWorkspace, ReplaceInv, CanBeWritten, NoRequest
<1>2. /\ workspace' = IF CanSync(r.data) THEN r.data ELSE workspace
      /\ request' = [request EXCEPT ![h] = NoRequest]
  BY <1>1 DEF SyncWorkspace, Answer, Continue
<1>3. r.data \in Workspaces
  BY DEF Syncing
<1>4. WorkspaceIsWhole'
  BY <1>1, <1>2, <1>3 DEF ReplaceInv, WorkspaceIsWhole, ReplaceTypeOK, SuperAdminRemains, CanSync,
                          HaveTheirProject, StaffHasSuperAdmin, StaffOf
<1>5. NoRequest \notin Syncing
  BY DEF NoRequest, Syncing
<1>6. QED
  BY <1>2, <1>4, <1>5 DEF ReplaceInv, CanBeWritten

\* However many whole-workspace writes and other requests run into each other,
\* the tables hold a workspace whose tasks have their project and that somebody
\* may administer (putWorkspace, applyPermittedWorkspaceUpdate,
\* syncLegacyWorkspaceData).
THEOREM WorkspaceStaysWhole == ReplaceSpec => []WorkspaceIsWhole
<1>1. ReplaceInv /\ [ReplaceNext]_<<replaceVars, apiVars>> => ReplaceInv'
  <2> SUFFICES ASSUME ReplaceInv, [ReplaceNext]_<<replaceVars, apiVars>> PROVE ReplaceInv'
    OBVIOUS
  <2>1. CASE UNCHANGED <<replaceVars, apiVars>>
    BY <2>1 DEF ReplaceInv, replaceVars, apiVars, WorkspaceIsWhole, ReplaceTypeOK,
                SuperAdminRemains, CanBeWritten, HaveTheirProject, StaffHasSuperAdmin, StaffOf
  <2>2. QED
    BY <2>1, MeanwhileKeeps, PutKeeps, SyncKeeps DEF ReplaceNext
<1>2. ReplaceInv => WorkspaceIsWhole
  BY DEF ReplaceInv
<1>3. QED
  BY <1>1, <1>2, ReplaceStart, PTL DEF ReplaceSpec

(* The board *)

\* Those named as owners, of the staff or not.
Anybody == Staff \cup UNION Lists

ChangeRequests ==
  [op : {"join", "create", "publish", "notify"}, next : {"create", "publish"}, by : Staff,
   id : Tasks \cup {Nil}, in : Projects, names : BOOLEAN, named : SUBSET Anybody,
   before : SUBSET Staff, concerns : SUBSET Anybody]

UpdateRequests ==
  [op : {"update"}, by : Staff, id : Tasks, in : Projects, names : BOOLEAN,
   named : SUBSET Anybody, before : SUBSET Staff, concerns : SUBSET Anybody]

MoveRequests == [op : {"move"}, by : Staff, id : Tasks, done : BOOLEAN]

MovedRequests ==
  [op : {"publish", "notify"}, by : Staff, id : Tasks, in : Projects, names : {FALSE},
   named : SUBSET Staff, before : SUBSET Staff, concerns : SUBSET Staff]

RemoveRequests ==
  [op : {"trash", "archive", "publish", "notify"}, by : Staff, id : Tasks,
   in : Projects \cup {Nil}, team : ProjectNames \cup {Nil}, done : BOOLEAN,
   names : {FALSE}, named : SUBSET Staff, before : SUBSET Staff, concerns : SUBSET Staff]

RestoreRequests ==
  [op : {"join", "restore", "publish", "notify"}, next : {"restore"}, by : Staff, id : Tasks,
   in : Projects, team : ProjectNames \cup {Nil}, done : BOOLEAN, names : {TRUE},
   named : SUBSET Staff, before : SUBSET Staff, concerns : SUBSET Staff]

DropRequests == [op : {"expel", "drop"}, by : Staff, id : {Nil}, in : Projects]

TellingRequests == ChangeRequests \cup MovedRequests \cup RemoveRequests \cup RestoreRequests

BoardRequests ==
  {NoRequest} \cup TellingRequests \cup UpdateRequests \cup MoveRequests \cup DropRequests

IsMade(t) == t \in created

LEMMA FoundByName == ASSUME NEW n PROVE GetProjectIdByName(n) \in {Nil} \cup {p \in Projects : Exists(p)}
BY DEF GetProjectIdByName, Exists

\* What a request still relies on when it writes: the task it names was made, and
\* what it is to archive was done.
BoardFits(r) ==
  /\ r \in BoardRequests
  /\ r # NoRequest /\ r.id \in Tasks => IsMade(r.id)
  /\ r.op = "archive" => r.done

\* No two entries of the trash, or of the archive, hold the same task.
OneEntryEach(place) == \A x, y \in place : x.id = y.id => x = y

\* A task is in one place only, and in one if it was made.
OnePlaceEach ==
  /\ OneEntryEach(trash) /\ OneEntryEach(archive)
  /\ \A t \in Tasks :
       /\ IsMade(t) <=> task[t] # NoTask \/ Copies(t, trash) # {} \/ Copies(t, archive) # {}
       /\ task[t] # NoTask => Copies(t, trash) = {} /\ Copies(t, archive) = {}
       /\ Copies(t, trash) = {} \/ Copies(t, archive) = {}

BoardInv ==
  /\ TaskTypeOK /\ OnePlaceEach /\ TasksHaveAProject
  /\ request \in [Handlers -> BoardRequests]
  /\ \A h \in Handlers : BoardFits(request[h])

\* What a step may never do: a task that was made is never forgotten.
NothingForgotten == \A t \in Tasks : IsMade(t) => IsMade(t)'

BoardTables == TaskTypeOK /\ OnePlaceEach /\ TasksHaveAProject

LEMMA RowsAreTasks == NoTask \notin Rows
BY BoardAssumption DEF NoTask, Rows

LEMMA NoRequestFitsBoard == BoardFits(NoRequest) /\ BoardFits(NoRequest)'
BY DEF BoardFits, BoardRequests, NoRequest

\* A handler comes to hold a request that fits.
LEMMA BoardKeptByOne ==
  ASSUME BoardInv, BoardTables', NothingForgotten, NEW h \in Handlers, NEW r, BoardFits(r)',
         request' = [request EXCEPT ![h] = r]
  PROVE  BoardInv'
<1>1. r \in BoardRequests
  BY DEF BoardFits
<1>2. request' \in [Handlers -> BoardRequests] /\ request'[h] = r
  BY <1>1 DEF BoardInv
<1>3. ASSUME NEW g \in Handlers, g # h PROVE BoardFits(request[g])'
  <2>1. request'[g] = request[g] /\ BoardFits(request[g])
    BY <1>3 DEF BoardInv
  <2>2. QED
    BY <2>1 DEF BoardFits, NothingForgotten
<1>4. QED
  BY <1>2, <1>3 DEF BoardInv, BoardTables

LEMMA BoardKeptByNone ==
  ASSUME BoardInv, BoardTables', NothingForgotten, UNCHANGED request
  PROVE  BoardInv'
<1>1. ASSUME NEW g \in Handlers PROVE BoardFits(request[g])'
  <2>1. request'[g] = request[g] /\ BoardFits(request[g])
    BY <1>1 DEF BoardInv
  <2>2. QED
    BY <2>1 DEF BoardFits, NothingForgotten
<1>2. QED
  BY <1>1 DEF BoardInv, BoardTables

\* Requests that only read, and writes to the projects that keep those that are.
LEMMA BoardReadsKeep ==
  ASSUME BoardInv, UNCHANGED <<task, trash, archive, created, knows>>,
         project' \in [Projects -> ProjectRows],
         screen' \in [Staff -> SUBSET Tasks],
         \A t \in Tasks : task[t] # NoTask => project'[task[t].in].made
  PROVE  BoardTables' /\ NothingForgotten
<1>1. TaskTypeOK'
  BY DEF BoardInv, TaskTypeOK
<1>2. OnePlaceEach'
  BY DEF BoardInv, OnePlaceEach, OneEntryEach, IsMade, Copies
<1>3. TasksHaveAProject'
  BY DEF BoardInv, TasksHaveAProject, Exists
<1>4. QED
  BY <1>1, <1>2, <1>3 DEF BoardTables, NothingForgotten, IsMade

LEMMA BoardHoldKeeps ==
  ASSUME BoardInv, UNCHANGED boardVars, NEW h \in Handlers, NEW r, BoardFits(r),
         request' = [request EXCEPT ![h] = r]
  PROVE  BoardInv'
<1>1. BoardTables' /\ NothingForgotten
  BY BoardReadsKeep DEF boardVars, BoardInv, TaskTypeOK, TasksHaveAProject, Exists
<1>2. BoardFits(r)'
  BY DEF BoardFits, IsMade, boardVars
<1>3. QED
  BY <1>1, <1>2, BoardKeptByOne

\* The requests with a given step still to do.
LEMMA BoardRequestsByOp ==
  ASSUME NEW r \in BoardRequests
  PROVE  /\ r.op = "join" => r \in ChangeRequests \cup RestoreRequests
         /\ r.op = "create" => r \in ChangeRequests
         /\ r.op \in {"publish", "notify"} => r \in TellingRequests
         /\ r.op = "update" => r \in UpdateRequests
         /\ r.op = "move" => r \in MoveRequests
         /\ r.op \in {"trash", "archive"} => r \in RemoveRequests
         /\ r.op = "restore" => r \in RestoreRequests
         /\ r.op \in {"expel", "drop"} => r \in DropRequests
<1>1. r \in ChangeRequests => r.op \in {"join", "create", "publish", "notify"}
  BY DEF ChangeRequests
<1>2. r \in MovedRequests => r.op \in {"publish", "notify"}
  BY DEF MovedRequests
<1>3. r \in RemoveRequests => r.op \in {"trash", "archive", "publish", "notify"}
  BY DEF RemoveRequests
<1>4. r \in RestoreRequests => r.op \in {"join", "restore", "publish", "notify"}
  BY DEF RestoreRequests
<1>5. /\ r \in UpdateRequests => r.op = "update"
      /\ r \in MoveRequests => r.op = "move"
      /\ r \in DropRequests => r.op \in {"expel", "drop"}
      /\ r = NoRequest => r.op = "none"
  BY DEF UpdateRequests, MoveRequests, DropRequests, NoRequest
<1>6. QED
  BY <1>1, <1>2, <1>3, <1>4, <1>5 DEF BoardRequests, TellingRequests

\* Going on to the next step of the same request.
LEMMA NextStepFits ==
  ASSUME NEW r \in TellingRequests, BoardFits(r)', NEW op,
         \/ op \in {"publish", "notify"}
         \/ r.op = "join" /\ op = r.next
  PROVE  BoardFits([r EXCEPT !.op = op])'
<1> DEFINE s == [r EXCEPT !.op = op]
<1>1. CASE r \in ChangeRequests
  <2>1. s \in ChangeRequests /\ s.id = r.id /\ s.op # "archive"
    BY <1>1 DEF ChangeRequests
  <2>2. s \in BoardRequests
    BY <2>1 DEF BoardRequests, TellingRequests
  <2>3. r # NoRequest
    BY <1>1 DEF ChangeRequests, NoRequest
  <2>4. QED
    BY <2>1, <2>2, <2>3 DEF BoardFits
<1>2. CASE r \in MovedRequests
  <2>1. s \in MovedRequests /\ s.id = r.id /\ s.op # "archive"
    BY <1>2 DEF MovedRequests
  <2>2. s \in BoardRequests
    BY <2>1 DEF BoardRequests, TellingRequests
  <2>3. r # NoRequest
    BY <1>2 DEF MovedRequests, NoRequest
  <2>4. QED
    BY <2>1, <2>2, <2>3 DEF BoardFits
<1>3. CASE r \in RemoveRequests
  <2>1. s \in RemoveRequests /\ s.id = r.id /\ s.op # "archive"
    BY <1>3 DEF RemoveRequests
  <2>2. s \in BoardRequests
    BY <2>1 DEF BoardRequests, TellingRequests
  <2>3. r # NoRequest
    BY <1>3 DEF RemoveRequests, NoRequest
  <2>4. QED
    BY <2>1, <2>2, <2>3 DEF BoardFits
<1>4. CASE r \in RestoreRequests
  <2>1. s \in RestoreRequests /\ s.id = r.id /\ s.op # "archive"
    BY <1>4 DEF RestoreRequests
  <2>2. s \in BoardRequests
    BY <2>1 DEF BoardRequests, TellingRequests
  <2>3. r # NoRequest
    BY <1>4 DEF RestoreRequests, NoRequest
  <2>4. QED
    BY <2>1, <2>2, <2>3 DEF BoardFits
<1>5. QED
  BY <1>1, <1>2, <1>3, <1>4 DEF TellingRequests

LEMMA BoardFitsNext == ASSUME NEW r, BoardFits(r), NothingForgotten PROVE BoardFits(r)'
BY DEF BoardFits, NothingForgotten

-----------------------------------------------------------------------------
\* The steps that requests share.
LEMMA JoinKeeps == ASSUME BoardInv, NEW h \in Handlers, EnsureProjectMembers(h) PROVE BoardInv'
<1> PICK r : r = request[h]
  OBVIOUS
<1> DEFINE named == r.named \cap Staff
<1>1. r \in TellingRequests /\ BoardFits(r)
  BY BoardRequestsByOp DEF EnsureProjectMembers, BoardInv, TellingRequests
<1>2. named \subseteq Staff
  OBVIOUS
<1>3. \/ project' = project
      \/ Exists(r.in) /\ project' = [project EXCEPT ![r.in].members = @ \cup named]
  BY DEF EnsureProjectMembers
<1> HIDE DEF named
<1>4. BoardTables' /\ NothingForgotten
  <2>1. /\ project' \in [Projects -> ProjectRows]
        /\ \A p \in Projects : project'[p].made = project[p].made
    <3>1. CASE project' = project
      BY <3>1 DEF BoardInv, TaskTypeOK
    <3>2. CASE Exists(r.in) /\ project' = [project EXCEPT ![r.in].members = @ \cup named]
      <4>1. r.in \in Projects
        BY <3>2 DEF Exists
      <4>2. PICK p \in Projects : p = r.in
        BY <4>1
      <4> DEFINE row == [project[p] EXCEPT !.members = @ \cup named]
      <4>3. row \in ProjectRows /\ row.made = project[p].made
        BY <1>2 DEF BoardInv, TaskTypeOK, ProjectRows
      <4>4. project' = [project EXCEPT ![p] = row]
        BY <3>2, <4>2 DEF BoardInv, TaskTypeOK
      <4> HIDE DEF row
      <4>5. QED
        BY <4>3, <4>4 DEF BoardInv, TaskTypeOK
    <3>3. QED
      BY <1>3, <3>1, <3>2
  <2>2. \A t \in Tasks : task[t] # NoTask => project'[task[t].in].made
    BY <2>1 DEF BoardInv, TasksHaveAProject, Exists
  <2>3. UNCHANGED <<task, trash, archive, created, knows, screen>>
    BY DEF EnsureProjectMembers
  <2>4. screen' \in [Staff -> SUBSET Tasks]
    BY <2>3 DEF BoardInv, TaskTypeOK
  <2>5. QED
    BY <2>1, <2>2, <2>3, <2>4, BoardReadsKeep
<1>5. r.op = "join"
  BY DEF EnsureProjectMembers
<1>6. BoardFits([r EXCEPT !.op = r.next])'
  BY <1>1, <1>4, <1>5, BoardFitsNext, NextStepFits
<1>7. \/ request' = [request EXCEPT ![h] = [r EXCEPT !.op = r.next]]
      \/ request' = [request EXCEPT ![h] = NoRequest]
  BY DEF EnsureProjectMembers, Continue, Answer
<1>8. QED
  BY <1>4, <1>6, <1>7, NoRequestFitsBoard, BoardKeptByOne

LEMMA PublishKeeps == ASSUME BoardInv, NEW h \in Handlers, Publish(h) PROVE BoardInv'
<1> PICK r : r = request[h]
  OBVIOUS
<1>1. r \in TellingRequests /\ BoardFits(r)
  BY BoardRequestsByOp DEF Publish, BoardInv
<1>2. screen' \in [Staff -> SUBSET Tasks]
  <2>1. \A s \in Staff : Board(s) \subseteq Tasks
    BY DEF Board
  <2>2. screen' \in [Staff -> {Board(s) : s \in Staff} \cup {screen[s] : s \in Staff}]
    BY DEF Publish, Reload
  <2>3. QED
    BY <2>1, <2>2 DEF BoardInv, TaskTypeOK
<1>3. BoardTables' /\ NothingForgotten
  BY <1>2, BoardReadsKeep DEF Publish, BoardInv, TaskTypeOK, TasksHaveAProject, Exists
<1>4. BoardFits([r EXCEPT !.op = "notify"])'
  BY <1>1, <1>3, BoardFitsNext, NextStepFits
<1>5. request' = [request EXCEPT ![h] = [r EXCEPT !.op = "notify"]]
  BY DEF Publish, Continue
<1>6. QED
  BY <1>3, <1>4, <1>5, BoardKeptByOne

\* Tables after a write that lets more people know of a task that was made.
LEMMA KnowingMoreKeeps ==
  ASSUME BoardInv, UNCHANGED <<project, task, trash, archive, created, screen>>,
         NEW t \in Tasks, NEW new \in SUBSET Staff,
         knows' = [knows EXCEPT ![t] = @ \cup new]
  PROVE  BoardTables' /\ NothingForgotten
<1>1. knows' \in [Tasks -> SUBSET Staff] /\ \A u \in Tasks : IsMade(u)' <=> IsMade(u)
  BY DEF BoardInv, TaskTypeOK, IsMade
<1>2. TaskTypeOK'
  BY <1>1 DEF BoardInv, TaskTypeOK
<1>3. OnePlaceEach'
  BY <1>1 DEF BoardInv, OnePlaceEach, OneEntryEach, Copies
<1>4. QED
  BY <1>1, <1>2, <1>3 DEF BoardTables, NothingForgotten, BoardInv, TasksHaveAProject, Exists

LEMMA NotifyKeeps == ASSUME BoardInv, NEW h \in Handlers, NotifyAssignees(h) PROVE BoardInv'
<1> PICK r : r = request[h]
  OBVIOUS
<1> DEFINE new == GetNewAssigneeIds(r.before, r.named \cap Staff, r.by)
<1>1. r \in TellingRequests /\ BoardFits(r)
  BY BoardRequestsByOp DEF NotifyAssignees, BoardInv
<1>2. /\ knows' = IF r.id \in Tasks THEN [knows EXCEPT ![r.id] = @ \cup new] ELSE knows
      /\ request' = [request EXCEPT ![h] = NoRequest]
      /\ UNCHANGED <<project, task, trash, archive, created, screen>>
  BY DEF NotifyAssignees, Answer, Continue
<1>3. new \in SUBSET Staff
  BY DEF GetNewAssigneeIds
<1>4. r # NoRequest
  BY DEF NotifyAssignees, NoRequest
<1> HIDE DEF new
<1>5. BoardTables' /\ NothingForgotten
  <2>1. CASE r.id \in Tasks
    BY <1>1, <1>2, <1>3, <1>4, <2>1, KnowingMoreKeeps DEF BoardFits
  <2>2. CASE r.id \notin Tasks
    BY <1>2, <2>2, BoardReadsKeep DEF BoardInv, TaskTypeOK, TasksHaveAProject, Exists
  <2>3. QED
    BY <2>1, <2>2
<1>6. QED
  BY <1>2, <1>5, NoRequestFitsBoard, BoardKeptByOne

-----------------------------------------------------------------------------
\* Requests arrive: they keep what they read.
LEMMA TasksOnTheBoard ==
  ASSUME BoardInv, NEW t \in Tasks, task[t] # NoTask
  PROVE  task[t] \in Rows /\ IsMade(t)
BY DEF BoardInv, TaskTypeOK, OnePlaceEach

LEMMA AskCreateKeeps ==
  ASSUME BoardInv, NEW h \in Handlers, NEW a \in Staff, NEW p \in Projects, NEW named \in Lists,
         AskCreate(h, a, p, named)
  PROVE  BoardInv'
<1> DEFINE r == [op |-> "join", next |-> "create", by |-> a, id |-> Nil, in |-> p,
                 names |-> TRUE, named |-> named, before |-> {}, concerns |-> named \cap Staff]
<1>1. r \in ChangeRequests
  BY DEF ChangeRequests, Anybody
<1>2. BoardFits(r)
  BY <1>1, BoardAssumption DEF BoardFits, BoardRequests, TellingRequests
<1>3. request' = [request EXCEPT ![h] = r]
  BY DEF AskCreate, Hold
<1> HIDE DEF r
<1>4. QED
  BY <1>2, <1>3, BoardHoldKeeps DEF AskCreate

LEMMA AskUpdateKeeps ==
  ASSUME BoardInv, NEW h \in Handlers, NEW a \in Staff, NEW t \in Tasks, NEW p \in Projects,
         NEW named \in Lists, AskUpdate(h, a, t, p, named)
  PROVE  BoardInv'
<1>1. PICK names \in BOOLEAN :
        request' = [request EXCEPT ![h] =
          [op |-> "update", by |-> a, id |-> t, in |-> p, names |-> names,
           named |-> IF names THEN named ELSE task[t].owners,
           before |-> task[t].owners, concerns |-> named \cup task[t].owners]]
  BY DEF AskUpdate, Hold
<1> DEFINE r == [op |-> "update", by |-> a, id |-> t, in |-> p, names |-> names,
                 named |-> IF names THEN named ELSE task[t].owners,
                 before |-> task[t].owners, concerns |-> named \cup task[t].owners]
<1>2. task[t].owners \subseteq Staff /\ IsMade(t)
  BY TasksOnTheBoard DEF AskUpdate, Rows
<1>3. r \in UpdateRequests /\ r.id = t /\ r.op = "update"
  BY <1>2 DEF UpdateRequests, Anybody
<1>4. BoardFits(r)
  BY <1>2, <1>3 DEF BoardFits, BoardRequests
<1> HIDE DEF r
<1>5. QED
  BY <1>1, <1>4, BoardHoldKeeps DEF AskUpdate, r

LEMMA AskMoveKeeps ==
  ASSUME BoardInv, NEW h \in Handlers, NEW a \in Staff, NEW t \in Tasks, NEW done \in BOOLEAN,
         AskMove(h, a, t, done)
  PROVE  BoardInv'
<1> DEFINE r == [op |-> "move", by |-> a, id |-> t, done |-> done]
<1>1. r \in MoveRequests /\ r.id = t /\ r.op = "move"
  BY DEF MoveRequests
<1>2. BoardFits(r)
  BY <1>1, TasksOnTheBoard DEF BoardFits, BoardRequests, AskMove
<1>3. request' = [request EXCEPT ![h] = r]
  BY DEF AskMove, Hold
<1> HIDE DEF r
<1>4. QED
  BY <1>2, <1>3, BoardHoldKeeps DEF AskMove

LEMMA AskRemoveKeeps ==
  ASSUME BoardInv, NEW h \in Handlers, NEW a \in Staff, NEW t \in Tasks,
         NEW place \in {"trash", "archive"}, AskRemove(h, a, t, place)
  PROVE  BoardInv'
<1> PICK x \in Rows : x = task[t]
  BY TasksOnTheBoard DEF AskRemove
<1> DEFINE r == [op |-> place, by |-> a, id |-> t, in |-> Nil, team |-> project[x.in].name,
                 done |-> x.done, names |-> FALSE, named |-> x.owners, before |-> x.owners, concerns |-> x.owners]
<1>1. r \in RemoveRequests /\ r.id = t /\ r.op = place /\ r.done = x.done
  BY DEF RemoveRequests, Rows, BoardInv, TaskTypeOK, ProjectRows
<1>2. place = "archive" => x.done
  BY DEF AskRemove
<1>3. BoardFits(r)
  BY <1>1, <1>2, TasksOnTheBoard DEF BoardFits, BoardRequests, TellingRequests, AskRemove
<1>4. request' = [request EXCEPT ![h] = r]
  BY DEF AskRemove, Hold
<1> HIDE DEF r
<1>5. QED
  BY <1>3, <1>4, BoardHoldKeeps DEF AskRemove

LEMMA AskRestoreKeeps ==
  ASSUME BoardInv, NEW h \in Handlers, NEW a \in Staff, NEW x \in trash, AskRestore(h, a, x)
  PROVE  BoardInv'
<1> PICK p : p = GetProjectIdByName(x.team)
  OBVIOUS
<1> DEFINE r == [op |-> "join", next |-> "restore", by |-> a, id |-> x.id, in |-> p,
                 team |-> x.team, done |-> x.done, names |-> TRUE, named |-> x.owners,
                 before |-> x.owners, concerns |-> x.owners]
<1>1. x \in Entries /\ p \in Projects
  BY FoundByName DEF BoardInv, TaskTypeOK, AskRestore
<1>2. r \in RestoreRequests /\ r.id = x.id /\ r.op = "join"
  BY <1>1 DEF RestoreRequests, Entries
<1>3. IsMade(x.id)
  <2>1. x.id \in Tasks /\ x \in Copies(x.id, trash)
    BY <1>1 DEF Entries, Copies
  <2>2. QED
    BY <2>1 DEF BoardInv, OnePlaceEach
<1>4. BoardFits(r)
  BY <1>2, <1>3 DEF BoardFits, BoardRequests, TellingRequests
<1>5. request' = [request EXCEPT ![h] = r]
  BY DEF AskRestore, Hold
<1> HIDE DEF r
<1>6. QED
  BY <1>4, <1>5, BoardHoldKeeps DEF AskRestore

-----------------------------------------------------------------------------
\* Requests write a task.
LEMMA ChangedRowKeeps ==
  ASSUME BoardInv, NEW t \in Tasks, NEW row \in Rows, task[t] # NoTask, Exists(row.in),
         task' = [task EXCEPT ![t] = row], UNCHANGED <<project, trash, archive, created, screen>>,
         NEW new \in SUBSET Staff, knows' = [knows EXCEPT ![t] = @ \cup new]
  PROVE  BoardTables' /\ NothingForgotten
<1>1. IsMade(t)
  BY TasksOnTheBoard
<1>2. knows' \in [Tasks -> SUBSET Staff] /\ \A u \in Tasks : IsMade(u)' <=> IsMade(u)
  BY <1>1 DEF BoardInv, TaskTypeOK, IsMade
<1>3. /\ task' \in [Tasks -> Rows \cup {NoTask}]
      /\ \A u \in Tasks : task'[u] # NoTask <=> task[u] # NoTask
  BY RowsAreTasks DEF BoardInv, TaskTypeOK
<1>4. TaskTypeOK'
  BY <1>2, <1>3 DEF BoardInv, TaskTypeOK
<1>5. OnePlaceEach'
  BY <1>2, <1>3 DEF BoardInv, OnePlaceEach, OneEntryEach, Copies
<1>6. TasksHaveAProject'
  BY <1>3 DEF BoardInv, TaskTypeOK, TasksHaveAProject, Exists
<1>7. QED
  BY <1>2, <1>4, <1>5, <1>6 DEF BoardTables, NothingForgotten

LEMMA CreateTaskKeeps == ASSUME BoardInv, NEW h \in Handlers, CreateTask(h) PROVE BoardInv'
<1> PICK r : r = request[h]
  OBVIOUS
<1>1. r \in ChangeRequests /\ BoardFits(r)
  BY BoardRequestsByOp DEF CreateTask, BoardInv
<1>2. CASE request' = [request EXCEPT ![h] = NoRequest] /\ UNCHANGED <<task, created, knows>>
  BY <1>2, BoardReadsKeep, NoRequestFitsBoard, BoardKeptByOne
  DEF CreateTask, BoardInv, TaskTypeOK, TasksHaveAProject, Exists
<1>3. CASE r.named \subseteq Staff /\ Exists(r.in) /\ \E t \in Tasks :
              /\ Unused(t)
              /\ task' = [task EXCEPT ![t] = [in |-> r.in, owners |-> r.named, done |-> FALSE]]
              /\ created' = created \cup {t}
              /\ knows' = [knows EXCEPT ![t] = @ \cup (r.named \cap {r.by})]
              /\ request' = [request EXCEPT ![h] = [r EXCEPT !.op = "publish", !.id = t]]
  <2>1. PICK t \in Tasks :
              /\ Unused(t)
              /\ task' = [task EXCEPT ![t] = [in |-> r.in, owners |-> r.named, done |-> FALSE]]
              /\ created' = created \cup {t}
              /\ knows' = [knows EXCEPT ![t] = @ \cup (r.named \cap {r.by})]
              /\ request' = [request EXCEPT ![h] = [r EXCEPT !.op = "publish", !.id = t]]
    BY <1>3
  <2> DEFINE row == [in |-> r.in, owners |-> r.named, done |-> FALSE]
             next == [r EXCEPT !.op = "publish", !.id = t]
  <2>2. row \in Rows /\ row # NoTask /\ row.in = r.in
    <3>1. row \in Rows /\ row.in = r.in
      BY <1>3 DEF Rows, Exists
    <3>2. QED
      BY <3>1, RowsAreTasks
  <2>3. UNCHANGED <<project, trash, archive, screen>>
    BY DEF CreateTask
  <2>4. ~IsMade(t) /\ task[t] = NoTask /\ Copies(t, trash) = {} /\ Copies(t, archive) = {}
    BY <2>1 DEF Unused, Copies, BoardInv, OnePlaceEach
  <2>5. r.by \in Staff
    BY <1>1 DEF ChangeRequests
  <2>6. next \in ChangeRequests /\ next.op = "publish" /\ next.id = t /\ next # NoRequest
    BY <1>1 DEF ChangeRequests, NoRequest
  <2> HIDE DEF row, next
  <2>7. /\ task' \in [Tasks -> Rows \cup {NoTask}] /\ task'[t] = row
        /\ \A u \in Tasks : u # t => task'[u] = task[u]
    BY <2>1, <2>2 DEF BoardInv, TaskTypeOK, row
  <2>8. /\ knows' \in [Tasks -> SUBSET Staff] /\ created' \subseteq Tasks /\ IsMade(t)'
        /\ \A u \in Tasks : u # t => (IsMade(u)' <=> IsMade(u))
    BY <2>1, <2>5 DEF BoardInv, TaskTypeOK, IsMade
  <2>9. TaskTypeOK'
    BY <2>3, <2>7, <2>8 DEF BoardInv, TaskTypeOK
  <2>10. OnePlaceEach'
    BY <2>2, <2>3, <2>4, <2>7, <2>8 DEF BoardInv, OnePlaceEach, OneEntryEach, Copies
  <2>11. TasksHaveAProject'
    BY <1>3, <2>2, <2>3, <2>7 DEF BoardInv, TasksHaveAProject, Exists
  <2>12. BoardTables' /\ NothingForgotten
    BY <2>4, <2>8, <2>9, <2>10, <2>11 DEF BoardTables, NothingForgotten
  <2>13. BoardFits(next)'
    BY <2>6, <2>8 DEF BoardFits, BoardRequests, TellingRequests
  <2>14. QED
    BY <2>1, <2>12, <2>13, BoardKeptByOne DEF next
<1>4. QED
  BY <1>2, <1>3 DEF CreateTask, Answer, Continue

LEMMA UpdateTaskKeeps == ASSUME BoardInv, NEW h \in Handlers, UpdateTask(h) PROVE BoardInv'
<1> PICK r : r = request[h]
  OBVIOUS
<1>1. r \in UpdateRequests /\ BoardFits(r)
  BY BoardRequestsByOp DEF UpdateTask, BoardInv
<1>2. CASE request' = [request EXCEPT ![h] = NoRequest] /\ UNCHANGED <<task, knows>>
  BY <1>2, BoardReadsKeep, NoRequestFitsBoard, BoardKeptByOne
  DEF UpdateTask, BoardInv, TaskTypeOK, TasksHaveAProject, Exists
<1>3. CASE task[r.id] # NoTask /\ Exists(r.in) /\ (r.names => r.named \subseteq Staff)
  <2> PICK t \in Tasks : t = r.id
    BY <1>1 DEF UpdateRequests
  <2> DEFINE row == [task[t] EXCEPT !.in = r.in, !.owners = IF r.names THEN r.named ELSE @]
             new == IF r.names /\ r.by \in r.named THEN {r.by} ELSE {}
             next == [op |-> IF r.names THEN "join" ELSE "publish", next |-> "publish", by |-> r.by,
                      id |-> r.id, in |-> r.in, names |-> r.names, named |-> r.named,
                      before |-> r.before, concerns |-> r.concerns]
  <2>1. task[t] \in Rows /\ IsMade(t)
    BY <1>3, TasksOnTheBoard
  <2>2. row \in Rows /\ row.in = r.in
    BY <1>1, <1>3, <2>1 DEF Rows, Exists
  <2>3. UNCHANGED <<project, trash, archive, created, screen>>
    BY DEF UpdateTask
  <2>4. task' = [task EXCEPT ![t] = row]
    BY <1>3 DEF UpdateTask, BoardInv, TaskTypeOK
  <2>5. new \in SUBSET Staff
    BY <1>1 DEF UpdateRequests
  <2>6. knows' = [knows EXCEPT ![t] = @ \cup new]
    <3>1. CASE r.names /\ r.by \in r.named
      BY <1>3, <3>1 DEF UpdateTask
    <3>2. CASE ~(r.names /\ r.by \in r.named)
      BY <1>3, <3>2 DEF UpdateTask, BoardInv, TaskTypeOK
    <3>3. QED
      BY <3>1, <3>2
  <2>7. request' = [request EXCEPT ![h] = next]
    BY <1>3 DEF UpdateTask, Continue
  <2>8. next \in ChangeRequests /\ next.op # "archive" /\ next.id = t
    BY <1>1 DEF UpdateRequests, ChangeRequests
  <2> HIDE DEF row, new, next
  <2>9. BoardTables' /\ NothingForgotten
    BY <1>3, <2>2, <2>3, <2>4, <2>5, <2>6, ChangedRowKeeps
  <2>10. BoardFits(next)'
    BY <2>1, <2>8, <2>9 DEF BoardFits, BoardRequests, TellingRequests, NothingForgotten
  <2>11. QED
    BY <2>7, <2>9, <2>10, BoardKeptByOne
<1>4. QED
  BY <1>2, <1>3 DEF UpdateTask, Answer, Continue

LEMMA MoveTaskKeeps == ASSUME BoardInv, NEW h \in Handlers, MoveTask(h) PROVE BoardInv'
<1> PICK r : r = request[h]
  OBVIOUS
<1>1. r \in MoveRequests /\ BoardFits(r)
  BY BoardRequestsByOp DEF MoveTask, BoardInv
<1>2. CASE task[r.id] = NoTask
  BY <1>2, BoardReadsKeep, NoRequestFitsBoard, BoardKeptByOne
  DEF MoveTask, BoardInv, TaskTypeOK, TasksHaveAProject, Exists, Answer, Continue
<1>3. CASE task[r.id] # NoTask
  <2> PICK t \in Tasks : t = r.id
    BY <1>1 DEF MoveRequests
  <2> PICK x \in Rows : x = task[t]
    BY <1>3, TasksOnTheBoard
  <2> DEFINE row == [x EXCEPT !.done = r.done]
             next == [op |-> "publish", by |-> r.by, id |-> r.id, in |-> x.in,
                      names |-> FALSE, named |-> x.owners, before |-> x.owners,
                      concerns |-> x.owners]
  <2>1. row \in Rows /\ Exists(row.in)
    BY <1>1, <1>3 DEF Rows, MoveRequests, BoardInv, TasksHaveAProject, Exists
  <2>2. task' = [task EXCEPT ![t] = row]
    BY <1>3 DEF MoveTask, BoardInv, TaskTypeOK
  <2> PICK new \in SUBSET Staff : new = {}
    OBVIOUS
  <2>3. UNCHANGED <<project, trash, archive, created, screen>> /\ knows' = [knows EXCEPT ![t] = @ \cup new]
    BY DEF MoveTask, BoardInv, TaskTypeOK
  <2>4. request' = [request EXCEPT ![h] = next]
    BY <1>3 DEF MoveTask, Continue
  <2>5. next \in MovedRequests /\ next.op # "archive" /\ next.id = t
    BY <1>1 DEF Rows, MoveRequests, MovedRequests
  <2> HIDE DEF row, next
  <2>6. BoardTables' /\ NothingForgotten
    BY <1>3, <2>1, <2>2, <2>3, ChangedRowKeeps
  <2>7. BoardFits(next)'
    BY <1>3, <2>5, <2>6, TasksOnTheBoard DEF BoardFits, BoardRequests, TellingRequests, NothingForgotten
  <2>8. QED
    BY <2>4, <2>6, <2>7, BoardKeptByOne
<1>4. QED
  BY <1>2, <1>3

LEMMA RemoveTaskKeeps == ASSUME BoardInv, NEW h \in Handlers, RemoveTask(h) PROVE BoardInv'
<1> PICK r : r = request[h]
  OBVIOUS
<1>1. r \in RemoveRequests /\ BoardFits(r) /\ r.op \in {"trash", "archive"}
  BY BoardRequestsByOp DEF RemoveTask, BoardInv
<1>2. CASE task[r.id] = NoTask
  BY <1>2, BoardReadsKeep, NoRequestFitsBoard, BoardKeptByOne
  DEF RemoveTask, BoardInv, TaskTypeOK, TasksHaveAProject, Exists, Answer, Continue
<1>3. CASE task[r.id] # NoTask
  <2> PICK t \in Tasks : t = r.id
    BY <1>1 DEF RemoveRequests
  <2> PICK q : q = [r EXCEPT !.in = GetProjectIdByName(r.team)]
    OBVIOUS
  <2> DEFINE x == Entry(r)
  <2>1. x \in Entries /\ x.id = t /\ (r.op = "archive" => x.done)
    BY <1>1 DEF Entry, Entries, RemoveRequests, BoardFits
  <2> HIDE DEF x
  <2>2. /\ task' = [task EXCEPT ![t] = NoTask]
        /\ trash' = IF r.op = "trash" THEN trash \cup {x} ELSE trash
        /\ archive' = IF r.op = "archive" THEN archive \cup {x} ELSE archive
        /\ request' = [request EXCEPT ![h] = [q EXCEPT !.op = "publish"]]
        /\ UNCHANGED <<project, created, knows, screen>>
    BY <1>1, <1>3 DEF RemoveTask, Continue, x, RemoveRequests
  <2>3. IsMade(t) /\ Copies(t, trash) = {} /\ Copies(t, archive) = {}
    BY <1>3, TasksOnTheBoard DEF BoardInv, OnePlaceEach
  <2>4. TaskTypeOK'
    BY <2>1, <2>2 DEF BoardInv, TaskTypeOK
  <2>5. /\ Copies(t, trash)' = IF r.op = "trash" THEN {x} ELSE {}
        /\ Copies(t, archive)' = IF r.op = "archive" THEN {x} ELSE {}
        /\ \A u \in Tasks : u # t => Copies(u, trash)' = Copies(u, trash)
        /\ \A u \in Tasks : u # t => Copies(u, archive)' = Copies(u, archive)
    BY <2>1, <2>2, <2>3 DEF Copies
  <2>6. OnePlaceEach'
    <3>1. OneEntryEach(trash)' /\ OneEntryEach(archive)'
      BY <2>1, <2>2, <2>3 DEF BoardInv, OnePlaceEach, OneEntryEach, Copies
    <3>2. \A u \in Tasks : (IsMade(u)' <=> IsMade(u)) /\ (u # t => task'[u] = task[u])
      BY <2>2 DEF IsMade, BoardInv, TaskTypeOK
    <3>3. task'[t] = NoTask
      BY <2>2 DEF BoardInv, TaskTypeOK
    <3>4. ASSUME NEW u \in Tasks
          PROVE  /\ IsMade(u)' <=> task'[u] # NoTask \/ Copies(u, trash)' # {} \/ Copies(u, archive)' # {}
                 /\ task'[u] # NoTask => Copies(u, trash)' = {} /\ Copies(u, archive)' = {}
                 /\ Copies(u, trash)' = {} \/ Copies(u, archive)' = {}
      <4>1. CASE u = t
        BY <1>1, <2>3, <2>5, <3>2, <3>3, <4>1
      <4>2. CASE u # t
        BY <2>5, <3>2, <4>2 DEF BoardInv, OnePlaceEach
      <4>3. QED
        BY <4>1, <4>2
    <3>5. QED
      BY <3>1, <3>4 DEF OnePlaceEach
  <2>7. TasksHaveAProject'
    BY <2>2 DEF BoardInv, TaskTypeOK, TasksHaveAProject, Exists
  <2>8. BoardTables' /\ NothingForgotten
    BY <2>2, <2>4, <2>6, <2>7 DEF BoardTables, NothingForgotten, IsMade
  <2>9. q \in RemoveRequests /\ q.id = t /\ q.op = r.op /\ q.done = r.done /\ BoardFits(q)
    <3>1. q \in RemoveRequests /\ q.id = t /\ q.op = r.op /\ q.done = r.done
      BY <1>1, FoundByName DEF RemoveRequests
    <3>2. QED
      BY <1>1, <2>3, <3>1 DEF BoardFits, BoardRequests, TellingRequests
  <2>10. BoardFits([q EXCEPT !.op = "publish"])'
    BY <2>8, <2>9, BoardFitsNext, NextStepFits DEF TellingRequests
  <2>11. QED
    BY <2>2, <2>8, <2>10, BoardKeptByOne
<1>4. QED
  BY <1>2, <1>3

LEMMA RestoreTaskKeeps == ASSUME BoardInv, NEW h \in Handlers, RestoreTask(h) PROVE BoardInv'
<1> PICK r : r = request[h]
  OBVIOUS
<1>1. r \in RestoreRequests /\ BoardFits(r)
  BY BoardRequestsByOp DEF RestoreTask, BoardInv
<1> DEFINE x == Entry(r)
<1>2. CASE ~(task[r.id] = NoTask /\ x \in trash /\ Exists(r.in))
  BY <1>2, BoardReadsKeep, NoRequestFitsBoard, BoardKeptByOne
  DEF RestoreTask, BoardInv, TaskTypeOK, TasksHaveAProject, Exists, Answer, Continue
<1>3. CASE task[r.id] = NoTask /\ x \in trash /\ Exists(r.in)
  <2> PICK t \in Tasks : t = r.id
    BY <1>1 DEF RestoreRequests
  <2> DEFINE row == [in |-> r.in, owners |-> r.named, done |-> r.done]
  <2>1. x.id = t /\ row \in Rows /\ row.in = r.in
    BY <1>1 DEF Entry, RestoreRequests, Rows
  <2>2. /\ task' = [task EXCEPT ![t] = row]
        /\ trash' = trash \ {x}
        /\ request' = [request EXCEPT ![h] = [r EXCEPT !.op = "publish"]]
        /\ UNCHANGED <<project, archive, created, knows, screen>>
    BY <1>3 DEF RestoreTask, Continue
  <2> HIDE DEF x, row
  <2>3. row # NoTask
    BY <2>1, RowsAreTasks
  <2>4. IsMade(t) /\ Copies(t, trash) = {x} /\ Copies(t, archive) = {}
    <3>1. x \in Copies(t, trash)
      BY <1>3, <2>1 DEF Copies
    <3>2. \A y \in Copies(t, trash) : y = x
      BY <1>3, <2>1 DEF Copies, BoardInv, OnePlaceEach, OneEntryEach
    <3>3. QED
      BY <3>1, <3>2 DEF BoardInv, OnePlaceEach
  <2>5. TaskTypeOK'
    BY <2>1, <2>2 DEF BoardInv, TaskTypeOK
  <2>6. /\ Copies(t, trash)' = {} /\ Copies(t, archive)' = {}
        /\ \A u \in Tasks : u # t => Copies(u, trash)' = Copies(u, trash)
        /\ \A u \in Tasks : Copies(u, archive)' = Copies(u, archive)
    BY <2>1, <2>2, <2>4 DEF Copies
  <2>7. /\ task'[t] = row
        /\ \A u \in Tasks : (IsMade(u)' <=> IsMade(u)) /\ (u # t => task'[u] = task[u])
    BY <2>2 DEF IsMade, BoardInv, TaskTypeOK
  <2>8. OnePlaceEach'
    <3>1. OneEntryEach(trash)' /\ OneEntryEach(archive)'
      BY <2>2 DEF BoardInv, OnePlaceEach, OneEntryEach
    <3>2. ASSUME NEW u \in Tasks
          PROVE  /\ IsMade(u)' <=> task'[u] # NoTask \/ Copies(u, trash)' # {} \/ Copies(u, archive)' # {}
                 /\ task'[u] # NoTask => Copies(u, trash)' = {} /\ Copies(u, archive)' = {}
                 /\ Copies(u, trash)' = {} \/ Copies(u, archive)' = {}
      <4>1. CASE u = t
        BY <2>3, <2>4, <2>6, <2>7, <4>1
      <4>2. CASE u # t
        BY <2>6, <2>7, <4>2 DEF BoardInv, OnePlaceEach
      <4>3. QED
        BY <4>1, <4>2
    <3>3. QED
      BY <3>1, <3>2 DEF OnePlaceEach
  <2>9. TasksHaveAProject'
    BY <1>3, <2>1, <2>2, <2>7 DEF BoardInv, TasksHaveAProject, Exists
  <2>10. BoardTables' /\ NothingForgotten
    BY <2>5, <2>7, <2>8, <2>9 DEF BoardTables, NothingForgotten
  <2>11. BoardFits([r EXCEPT !.op = "publish"])'
    BY <1>1, <2>10, BoardFitsNext, NextStepFits DEF TellingRequests
  <2>12. QED
    BY <2>2, <2>10, <2>11, BoardKeptByOne
<1>4. QED
  BY <1>2, <1>3

-----------------------------------------------------------------------------
\* Projects: none is dropped that a task refers to.
LEMMA ToEveryoneFits ==
  ASSUME NEW op \in {"join", "publish"}, NEW a \in Staff, NEW p \in Projects,
         NEW joining \in SUBSET Staff
  PROVE  BoardFits(ToEveryone(op, a, p, joining))'
<1> DEFINE r == ToEveryone(op, a, p, joining)
<1>1. r \in ChangeRequests /\ r.op # "archive" /\ r.id = Nil
  BY DEF ToEveryone, ChangeRequests, Anybody
<1> HIDE DEF r
<1>2. QED
  BY <1>1, BoardAssumption DEF BoardFits, BoardRequests, TellingRequests, r

LEMMA ProjectRowKeeps ==
  ASSUME BoardInv, NEW p \in Projects,
         NEW row \in ProjectRows,
         project' = [project EXCEPT ![p] = row],
         row.made \/ \A t \in Tasks : task[t].in # p,
         UNCHANGED <<task, trash, archive, created, knows, screen>>
  PROVE  BoardTables' /\ NothingForgotten
<1>1. /\ project' \in [Projects -> ProjectRows]
      /\ project'[p] = row
      /\ \A q \in Projects : q # p => project'[q] = project[q]
  BY DEF BoardInv, TaskTypeOK
<1>2. \A t \in Tasks : task[t] # NoTask => project'[task[t].in].made
  BY <1>1 DEF BoardInv, TasksHaveAProject, Exists
<1>3. QED
  BY <1>1, <1>2, BoardReadsKeep DEF BoardInv, TaskTypeOK

LEMMA ProjectsKeep == ASSUME BoardInv, ProjectNext PROVE BoardInv'
<1> USE DEF ProjectRows
<1>1. ASSUME NEW h \in Handlers, NEW a \in Staff, NEW p \in Projects,
             NEW n \in ProjectNames, CreateProject(h, a, p, n)
      PROVE  BoardInv'
  <2> DEFINE row == [NoProject EXCEPT !.made = TRUE, !.name = n]
  <2>1. row \in ProjectRows /\ row.made
    BY DEF NoProject
  <2>2. /\ project' = [project EXCEPT ![p] = row]
        /\ UNCHANGED <<task, trash, archive, created, knows, screen>>
        /\ request' = [request EXCEPT ![h] = ToEveryone("join", a, p, {a})]
    BY <1>1 DEF CreateProject, Hold
  <2> HIDE DEF row
  <2>3. BoardTables' /\ NothingForgotten
    BY <2>1, <2>2, ProjectRowKeeps
  <2>4. BoardFits(ToEveryone("join", a, p, {a}))'
    BY ToEveryoneFits
  <2>5. QED
    BY <2>2, <2>3, <2>4, BoardKeptByOne
<1>2. ASSUME NEW h \in Handlers, NEW a \in Staff, NEW p \in Projects,
             NEW n \in ProjectNames, NEW leader \in Staff \cup {Nil}, UpdateProject(h, a, p, n, leader)
      PROVE  BoardInv'
  <2> DEFINE row == [project[p] EXCEPT !.name = n, !.leader = leader]
  <2>1. row \in ProjectRows /\ row.made
    BY <1>2 DEF BoardInv, TaskTypeOK, UpdateProject, MayEnter, Exists
  <2>2. /\ project' = [project EXCEPT ![p] = row]
        /\ UNCHANGED <<task, trash, archive, created, knows, screen>>
        /\ request' = [request EXCEPT ![h] = ToEveryone("publish", a, p, {})]
    BY <1>2 DEF UpdateProject, Hold, BoardInv, TaskTypeOK
  <2> HIDE DEF row
  <2>3. BoardTables' /\ NothingForgotten
    BY <2>1, <2>2, ProjectRowKeeps
  <2>4. BoardFits(ToEveryone("publish", a, p, {}))'
    BY ToEveryoneFits
  <2>5. QED
    BY <2>2, <2>3, <2>4, BoardKeptByOne
<1>3. ASSUME NEW h \in Handlers, NEW a \in Staff, NEW p \in Projects,
             NEW members \in SUBSET Staff, SetProjectMembers(h, a, p, members)
      PROVE  BoardInv'
  <2> DEFINE row == [project[p] EXCEPT !.members = members]
  <2>1. row \in ProjectRows /\ row.made
    BY <1>3 DEF BoardInv, TaskTypeOK, SetProjectMembers, MayEnter, Exists
  <2>2. /\ project' = [project EXCEPT ![p] = row]
        /\ UNCHANGED <<task, trash, archive, created, knows, screen>>
        /\ request' = [request EXCEPT ![h] = ToEveryone("publish", a, p, {})]
    BY <1>3 DEF SetProjectMembers, Hold, BoardInv, TaskTypeOK
  <2> HIDE DEF row
  <2>3. BoardTables' /\ NothingForgotten
    BY <2>1, <2>2, ProjectRowKeeps
  <2>4. BoardFits(ToEveryone("publish", a, p, {}))'
    BY ToEveryoneFits
  <2>5. QED
    BY <2>2, <2>3, <2>4, BoardKeptByOne
<1>4. ASSUME NEW h \in Handlers, NEW a \in Staff, NEW p \in Projects, AskDeleteProject(h, a, p)
      PROVE  BoardInv'
  <2> DEFINE r == [op |-> "expel", by |-> a, id |-> Nil, in |-> p]
  <2>1. r \in DropRequests /\ r.id = Nil /\ r.op # "archive"
    BY DEF DropRequests
  <2>2. BoardFits(r)
    BY <2>1, BoardAssumption DEF BoardFits, BoardRequests
  <2>3. request' = [request EXCEPT ![h] = r]
    BY <1>4 DEF AskDeleteProject, Hold
  <2> HIDE DEF r
  <2>4. QED
    BY <1>4, <2>2, <2>3, BoardHoldKeeps DEF AskDeleteProject
<1>5. ASSUME NEW h \in Handlers, DeleteMembers(h) PROVE BoardInv'
  <2> PICK r \in DropRequests : r = request[h]
    BY <1>5, BoardRequestsByOp DEF DeleteMembers, BoardInv
  <2> PICK p \in Projects : p = r.in
    BY DEF DropRequests
  <2>1. /\ project' = [project EXCEPT ![p] = [project[p] EXCEPT !.members = {}]]
        /\ UNCHANGED <<task, trash, archive, created, knows, screen>>
        /\ request' = [request EXCEPT ![h] = [r EXCEPT !.op = "drop"]]
    BY <1>5 DEF DeleteMembers, Continue, BoardInv, TaskTypeOK
  <2>2. /\ [project[p] EXCEPT !.members = {}] \in ProjectRows
        /\ [project[p] EXCEPT !.members = {}].made = project[p].made
    BY DEF BoardInv, TaskTypeOK
  <2>3. project[p].made \/ \A t \in Tasks : task[t].in # p
    BY BoardAssumption DEF BoardInv, TasksHaveAProject, NoTask, Exists
  <2>4. BoardTables' /\ NothingForgotten
    BY <2>1, <2>2, <2>3, ProjectRowKeeps
  <2>5. [r EXCEPT !.op = "drop"] \in DropRequests
    BY DEF DropRequests
  <2>6. PICK s \in DropRequests : s = [r EXCEPT !.op = "drop"]
    BY <2>5
  <2>7. BoardFits(s)'
    BY BoardAssumption DEF BoardFits, BoardRequests, DropRequests
  <2>8. QED
    BY <2>1, <2>4, <2>6, <2>7, BoardKeptByOne
<1>6. ASSUME NEW h \in Handlers, DeleteProject(h) PROVE BoardInv'
  <2> PICK r \in DropRequests : r = request[h]
    BY <1>6, BoardRequestsByOp DEF DeleteProject, BoardInv
  <2> PICK p \in Projects : p = r.in
    BY DEF DropRequests
  <2>1. CASE \A t \in Tasks : task[t].in # p
    <3>1. /\ project' = [project EXCEPT ![p] = NoProject]
          /\ UNCHANGED <<task, trash, archive, created, knows, screen>>
          /\ request' = [request EXCEPT ![h] = ToEveryone("publish", r.by, p, {})]
      BY <1>6, <2>1 DEF DeleteProject, Continue
    <3>2. NoProject \in ProjectRows
      BY DEF NoProject
    <3>3. BoardTables' /\ NothingForgotten
      BY <2>1, <3>1, <3>2, ProjectRowKeeps
    <3>4. BoardFits(ToEveryone("publish", r.by, p, {}))'
      <4>1. r.by \in Staff
        BY DEF DropRequests
      <4>2. QED
        BY <4>1, ToEveryoneFits
    <3>5. QED
      BY <3>1, <3>3, <3>4, BoardKeptByOne
  <2>2. CASE ~ \A t \in Tasks : task[t].in # p
    BY <1>6, <2>2, BoardReadsKeep, NoRequestFitsBoard, BoardKeptByOne
    DEF DeleteProject, BoardInv, TaskTypeOK, TasksHaveAProject, Exists, Answer, Continue
  <2>3. QED
    BY <2>1, <2>2
<1>7. QED
  BY <1>1, <1>2, <1>3, <1>4, <1>5, <1>6 DEF ProjectNext

-----------------------------------------------------------------------------
LEMMA BoardStart == BoardInit => BoardInv
<1> SUFFICES ASSUME BoardInit PROVE BoardInv
  OBVIOUS
<1>1. TaskTypeOK
  BY DEF BoardInit, TaskTypeOK, NoProject, ProjectRows
<1>2. OnePlaceEach
  BY DEF BoardInit, OnePlaceEach, OneEntryEach, IsMade, Copies
<1>3. TasksHaveAProject
  BY DEF BoardInit, TasksHaveAProject
<1>4. QED
  BY <1>1, <1>2, <1>3, NoRequestFitsBoard DEF BoardInit, ApiInit, BoardInv, BoardFits

LEMMA TasksKeep == ASSUME BoardInv, TaskNext PROVE BoardInv'
BY JoinKeeps, PublishKeeps, NotifyKeeps, CreateTaskKeeps, UpdateTaskKeeps, MoveTaskKeeps,
   RemoveTaskKeeps, RestoreTaskKeeps, AskRestoreKeeps, AskMoveKeeps, AskRemoveKeeps,
   AskCreateKeeps, AskUpdateKeeps
DEF TaskNext, TaskStep

LEMMA BoardStep == BoardInv /\ [TaskNext \/ ProjectNext \/ BoardFailure]_<<boardVars, apiVars>> => BoardInv'
<1> SUFFICES ASSUME BoardInv, [TaskNext \/ ProjectNext \/ BoardFailure]_<<boardVars, apiVars>>
             PROVE  BoardInv'
  OBVIOUS
<1> USE DEF BoardInv, TaskTypeOK, TasksHaveAProject, Exists
<1>1. CASE UNCHANGED <<boardVars, apiVars>>
  BY <1>1, BoardReadsKeep, BoardKeptByNone DEF boardVars, apiVars
<1>2. CASE BoardFailure
  BY <1>2, BoardReadsKeep, NoRequestFitsBoard, BoardKeptByOne DEF BoardFailure, BreakOff, Answer, Continue
<1>3. QED
  BY <1>1, <1>2, TasksKeep, ProjectsKeep

\* However requests to delete, archive and restore tasks and to delete their
\* projects run into each other, no task is lost or doubled and each has its
\* project (deleteTask, archiveTask, restoreTrashTask, deleteProject).
THEOREM TasksStayKept == BoardSpec => []TasksAreKept
<1>1. BoardInv => TasksAreKept
  <2> SUFFICES ASSUME BoardInv PROVE TasksAreKept
    OBVIOUS
  <2>1. ASSUME NEW place, OneEntryEach(place), NEW t, Copies(t, place) # {}
        PROVE  Cardinality(Copies(t, place)) = 1
    <3>1. PICK x \in place : x.id = t
      BY <2>1 DEF Copies
    <3>2. Copies(t, place) = {x}
      BY <2>1, <3>1 DEF Copies, OneEntryEach
    <3>3. QED
      BY <3>2, FS_Singleton
  <2>2. Cardinality({}) = 0
    BY FS_EmptySet
  <2>3. ASSUME NEW t \in created
        PROVE  Cardinality(Copies(t, trash)) + Cardinality(Copies(t, archive))
                 + (IF task[t] = NoTask THEN 0 ELSE 1) = 1
    <3>1. /\ Cardinality(Copies(t, trash)) = IF Copies(t, trash) = {} THEN 0 ELSE 1
          /\ Cardinality(Copies(t, archive)) = IF Copies(t, archive) = {} THEN 0 ELSE 1
      BY <2>1, <2>2 DEF BoardInv, OnePlaceEach
    <3>2. QED
      BY <2>3, <3>1 DEF BoardInv, TaskTypeOK, OnePlaceEach, IsMade
  <2>4. OnceSomewhere
    BY <2>3 DEF OnceSomewhere
  <2>5. QED
    BY <2>4 DEF BoardInv, TasksAreKept
<1>2. QED
  BY <1>1, BoardStart, BoardStep, PTL DEF BoardSpec

-----------------------------------------------------------------------------
(* Owners hear of their tasks *)

\* A request that is on its way to notify somebody of a task.
WillTell(r, t, s) ==
  /\ r.op \in {"join", "publish", "notify"} /\ r.id = t
  /\ r.op = "join" => r.next = "publish"
  /\ s \in (r.named \cap Staff) \ (r.before \cup {r.by})

\* Who knows of a task, or is about to, unless a request broke off.
IsTold(t, s) ==
  broken \/ s \in knows[t] \/ \E h \in Handlers : WillTell(request[h], t, s)

\* The steps of the requests that keep the owners a task had.
KeepsOwners(r) ==
  r.op \in {"join", "create", "update", "trash", "archive", "restore", "publish", "notify"}

\* What is carried to where a task goes is what was read of it; one that is to
\* be created had no owners.
Carries(r) ==
  /\ r.op \in {"trash", "archive", "restore"} \/ (r.op = "join" /\ r.next = "restore") =>
       r.named = r.before
  /\ r.op = "create" \/ (r.op = "join" /\ r.next = "create") => r.before = {}

\* Whoever owns a task, owned it when it went away or when it was read.
OwnersAreTold ==
  /\ \A t \in Tasks : \A s \in task[t].owners : IsTold(t, s)
  /\ \A x \in trash \cup archive : \A s \in x.owners : IsTold(x.id, s)
  /\ \A h \in Handlers :
       KeepsOwners(request[h]) /\ request[h].id \in Tasks =>
         \A s \in request[h].before : IsTold(request[h].id, s)

OwnersInv ==
  BoardInv /\ broken \in BOOLEAN /\ OwnersAreTold /\ \A h \in Handlers : Carries(request[h])

\* What a step may never do: somebody who is told is not forgotten.
StayTold == \A t \in Tasks, s \in Staff : IsTold(t, s) => IsTold(t, s)'

LEMMA OwnersRead == ASSUME NEW r \in BoardRequests, KeepsOwners(r) PROVE r.before \subseteq Staff
BY BoardRequestsByOp DEF KeepsOwners, TellingRequests, ChangeRequests, MovedRequests,
   RemoveRequests, RestoreRequests, UpdateRequests

LEMMA OwnersAreStaff ==
  ASSUME BoardInv
  PROVE  /\ \A t \in Tasks : task[t].owners \subseteq Staff
         /\ \A x \in trash \cup archive : x.id \in Tasks /\ x.owners \subseteq Staff
         /\ \A h \in Handlers : KeepsOwners(request[h]) => request[h].before \subseteq Staff
<1>1. \A t \in Tasks : task[t].owners \subseteq Staff
  BY DEF BoardInv, TaskTypeOK, Rows, NoTask
<1>2. \A x \in trash \cup archive : x.id \in Tasks /\ x.owners \subseteq Staff
  BY DEF BoardInv, TaskTypeOK, Entries
<1>3. QED
  BY <1>1, <1>2, OwnersRead DEF BoardInv

\* A request that was to tell somebody still is, has told them or has failed.
LEMMA TellingGoesOn ==
  ASSUME BoardInv, NEW h \in Handlers, NEW r, request' = [request EXCEPT ![h] = r],
         broken => broken', \A t \in Tasks : knows[t] \subseteq knows'[t],
         \A t \in Tasks, s \in Staff :
           WillTell(request[h], t, s) => broken' \/ s \in knows'[t] \/ WillTell(r, t, s)
  PROVE  StayTold
<1> SUFFICES ASSUME NEW t \in Tasks, NEW s \in Staff, IsTold(t, s) PROVE IsTold(t, s)'
  BY DEF StayTold
<1>1. CASE broken \/ s \in knows[t]
  BY <1>1 DEF IsTold
<1>2. ASSUME NEW g \in Handlers, WillTell(request[g], t, s) PROVE IsTold(t, s)'
  <2>1. request'[h] = r /\ (g # h => request'[g] = request[g])
    BY DEF BoardInv
  <2>2. QED
    BY <1>2, <2>1 DEF IsTold
<1>3. QED
  BY <1>1, <1>2 DEF IsTold

LEMMA OwnersStayTold ==
  ASSUME OwnersInv, StayTold, NEW h \in Handlers, NEW r, request' = [request EXCEPT ![h] = r],
         BoardInv', broken' \in BOOLEAN, Carries(r),
         \A t \in Tasks : \A s \in task'[t].owners : s \in task[t].owners \/ IsTold(t, s)',
         \A x \in trash' \cup archive' :
           x \in trash \cup archive \/ \A s \in x.owners : IsTold(x.id, s)',
         KeepsOwners(r) /\ r.id \in Tasks => \A s \in r.before : IsTold(r.id, s)'
  PROVE  OwnersInv'
<1>1. request'[h] = r /\ \A g \in Handlers : g # h => request'[g] = request[g]
  BY DEF OwnersInv, BoardInv
<1>2. \A t \in Tasks : \A s \in task'[t].owners : IsTold(t, s)'
  BY OwnersAreStaff DEF OwnersInv, OwnersAreTold, StayTold
<1>3. \A x \in trash' \cup archive' : \A s \in x.owners : IsTold(x.id, s)'
  BY OwnersAreStaff DEF OwnersInv, OwnersAreTold, StayTold
<1>4. ASSUME NEW g \in Handlers, NEW q, q = request'[g], KeepsOwners(q), q.id \in Tasks,
             NEW s \in q.before
      PROVE  IsTold(q.id, s)'
  <2>1. CASE g = h
    BY <1>1, <1>4, <2>1
  <2>2. CASE g # h
    <3>1. q = request[g] /\ s \in Staff
      BY <1>1, <1>4, <2>2, OwnersAreStaff DEF OwnersInv
    <3>2. IsTold(q.id, s)
      BY <1>4, <3>1 DEF OwnersInv, OwnersAreTold
    <3>3. QED
      BY <1>4, <3>1, <3>2 DEF StayTold
  <2>3. QED
    BY <2>1, <2>2
<1>5. OwnersAreTold'
  <2>1. ASSUME NEW g \in Handlers, KeepsOwners(request[g])', (request[g].id \in Tasks)'
        PROVE  (\A s \in request[g].before : IsTold(request[g].id, s))'
    <3>1. PICK q : q = request'[g]
      OBVIOUS
    <3>2. KeepsOwners(q) /\ q.id \in Tasks
      BY <2>1, <3>1 DEF KeepsOwners
    <3>3. \A s \in q.before : IsTold(q.id, s)'
      BY <1>4, <3>1, <3>2
    <3>4. QED
      BY <3>1, <3>3 DEF IsTold
  <2>2. QED
    BY <1>2, <1>3, <2>1 DEF OwnersAreTold
<1>6. \A g \in Handlers : Carries(request[g])'
  BY <1>1 DEF OwnersInv, Carries
<1>7. QED
  BY <1>5, <1>6 DEF OwnersInv

\* A request comes to the next of its steps.
LEMMA SameButItsStep ==
  ASSUME NEW r \in TellingRequests, NEW op, NEW q, q = [r EXCEPT !.op = op]
  PROVE  /\ q.op = op /\ q.id = r.id /\ q.in = r.in /\ q.by = r.by /\ q.names = r.names
         /\ q.named = r.named /\ q.before = r.before /\ q.concerns = r.concerns
         /\ r.op = "join" => q.next = r.next
BY DEF TellingRequests, ChangeRequests, MovedRequests, RemoveRequests, RestoreRequests

\* Requests that arrive, and those that write no task and tell nobody.
LEMMA AskingKeepsOwners ==
  ASSUME OwnersInv, BoardInv', NEW h \in Handlers, NEW r, request' = [request EXCEPT ![h] = r],
         request[h].op \notin {"join", "publish", "notify"},
         UNCHANGED <<task, trash, archive, created, knows, broken>>, Carries(r),
         KeepsOwners(r) /\ r.id \in Tasks => \A s \in r.before : s \in Staff /\ IsTold(r.id, s)
  PROVE  OwnersInv'
<1>1. StayTold
  BY TellingGoesOn DEF OwnersInv, WillTell
<1>2. KeepsOwners(r) /\ r.id \in Tasks => \A s \in r.before : IsTold(r.id, s)'
  BY <1>1 DEF StayTold
<1>3. QED
  BY <1>1, <1>2, OwnersStayTold DEF OwnersInv

LEMMA ArrivalsKeepOwners ==
  ASSUME OwnersInv, BoardInv', NEW h \in Handlers, NEW a \in Staff,
         \/ \E x \in trash : AskRestore(h, a, x)
         \/ \E t \in Tasks, done \in BOOLEAN : AskMove(h, a, t, done)
         \/ \E t \in Tasks, place \in {"trash", "archive"} : AskRemove(h, a, t, place)
         \/ \E p \in Projects, named \in Lists : AskCreate(h, a, p, named)
         \/ \E p \in Projects, named \in Lists, t \in Tasks : AskUpdate(h, a, t, p, named)
  PROVE  OwnersInv'
<1>1. PICK r :
        /\ Hold(h, r) /\ Carries(r)
        /\ KeepsOwners(r) /\ r.id \in Tasks =>
             \/ task[r.id].owners = r.before
             \/ \E x \in trash : x.id = r.id /\ x.owners = r.before
  <2>1. ASSUME NEW x \in trash, AskRestore(h, a, x)
        PROVE  \E r : /\ Hold(h, r) /\ Carries(r) /\ x.id = r.id /\ x.owners = r.before
    <3>1. PICK r : r = [op |-> "join", next |-> "restore", by |-> a, id |-> x.id,
                        in |-> GetProjectIdByName(x.team), team |-> x.team, done |-> x.done,
                        names |-> TRUE, named |-> x.owners, before |-> x.owners,
                        concerns |-> x.owners]
      OBVIOUS
    <3>2. Carries(r) /\ x.id = r.id /\ x.owners = r.before
      BY <3>1 DEF Carries
    <3>3. QED
      BY <2>1, <3>1, <3>2 DEF AskRestore
  <2>2. ASSUME NEW t \in Tasks, NEW done \in BOOLEAN, AskMove(h, a, t, done)
        PROVE  \E r : Hold(h, r) /\ Carries(r) /\ ~KeepsOwners(r)
    <3>1. PICK r : r = [op |-> "move", by |-> a, id |-> t, done |-> done]
      OBVIOUS
    <3>2. Carries(r) /\ ~KeepsOwners(r)
      BY <3>1 DEF Carries, KeepsOwners
    <3>3. QED
      BY <2>2, <3>1, <3>2 DEF AskMove
  <2>3. ASSUME NEW t \in Tasks, NEW place \in {"trash", "archive"}, AskRemove(h, a, t, place)
        PROVE  \E r : Hold(h, r) /\ Carries(r) /\ task[r.id].owners = r.before
    <3>1. PICK r : r = [op |-> place, by |-> a, id |-> t, in |-> Nil,
                        team |-> project[task[t].in].name, done |-> task[t].done,
                        names |-> FALSE, named |-> task[t].owners, before |-> task[t].owners,
                        concerns |-> task[t].owners]
      OBVIOUS
    <3>2. Carries(r) /\ task[r.id].owners = r.before
      BY <3>1 DEF Carries
    <3>3. QED
      BY <2>3, <3>1, <3>2 DEF AskRemove
  <2>4. ASSUME NEW p \in Projects, NEW named \in Lists, AskCreate(h, a, p, named)
        PROVE  \E r : Hold(h, r) /\ Carries(r) /\ r.id \notin Tasks
    <3>1. PICK r : r = [op |-> "join", next |-> "create", by |-> a, id |-> Nil, in |-> p,
                        names |-> TRUE, named |-> named, before |-> {}, concerns |-> named \cap Staff]
      OBVIOUS
    <3>2. Carries(r) /\ r.id \notin Tasks
      BY <3>1, BoardAssumption DEF Carries
    <3>3. QED
      BY <2>4, <3>1, <3>2 DEF AskCreate
  <2>5. ASSUME NEW p \in Projects, NEW named \in Lists, NEW t \in Tasks, AskUpdate(h, a, t, p, named)
        PROVE  \E r : Hold(h, r) /\ Carries(r) /\ task[r.id].owners = r.before
    <3>1. PICK names \in BOOLEAN :
            Hold(h, [op |-> "update", by |-> a, id |-> t, in |-> p, names |-> names,
                     named |-> IF names THEN named ELSE task[t].owners,
                     before |-> task[t].owners, concerns |-> named \cup task[t].owners])
      BY <2>5 DEF AskUpdate
    <3>2. PICK r : r = [op |-> "update", by |-> a, id |-> t, in |-> p, names |-> names,
                        named |-> IF names THEN named ELSE task[t].owners,
                        before |-> task[t].owners, concerns |-> named \cup task[t].owners]
      OBVIOUS
    <3>3. Carries(r) /\ task[r.id].owners = r.before
      BY <3>2 DEF Carries
    <3>4. QED
      BY <3>1, <3>2, <3>3
  <2>6. QED
    BY <2>1, <2>2, <2>3, <2>4, <2>5
<1>2. UNCHANGED boardVars
  BY DEF AskRestore, AskMove, AskRemove, AskCreate, AskUpdate
<1>3. request' = [request EXCEPT ![h] = r] /\ request[h].op \notin {"join", "publish", "notify"}
  BY <1>1 DEF Hold, AtRest
<1>4. KeepsOwners(r) /\ r.id \in Tasks => \A s \in r.before : s \in Staff /\ IsTold(r.id, s)
  BY <1>1, OwnersAreStaff DEF OwnersInv, OwnersAreTold
<1>5. QED
  BY <1>1, <1>2, <1>3, <1>4, AskingKeepsOwners DEF boardVars

LEMMA ProjectsKeepOwners == ASSUME OwnersInv, BoardInv', ProjectNext PROVE OwnersInv'
<1>1. PICK h, r :
        /\ h \in Handlers
        /\ request' = [request EXCEPT ![h] = r]
        /\ request[h].op \notin {"join", "publish", "notify"}
        /\ ~KeepsOwners(r) \/ (r.id = Nil /\ Carries(r))
        /\ Carries(r)
  <2>1. ASSUME NEW op \in {"join", "publish"}, NEW a, NEW p, NEW joining, NEW h \in Handlers,
               \/ Hold(h, ToEveryone(op, a, p, joining))
               \/ request[h].op = "drop" /\ Continue(h, ToEveryone(op, a, p, joining))
        PROVE  \E r : /\ request' = [request EXCEPT ![h] = r]
                      /\ request[h].op \notin {"join", "publish", "notify"}
                      /\ r.id = Nil /\ Carries(r)
    <3>1. PICK r : r = ToEveryone(op, a, p, joining)
      OBVIOUS
    <3>2. r.id = Nil /\ Carries(r)
      BY <3>1 DEF ToEveryone, Carries
    <3>3. QED
      BY <2>1, <3>1, <3>2 DEF Hold, AtRest, Continue
  <2>2. ASSUME NEW h \in Handlers, NEW a \in Staff, NEW p \in Projects, AskDeleteProject(h, a, p)
        PROVE  \E r : /\ request' = [request EXCEPT ![h] = r]
                      /\ request[h].op \notin {"join", "publish", "notify"}
                      /\ ~KeepsOwners(r) /\ Carries(r)
    <3>1. PICK r : r = [op |-> "expel", by |-> a, id |-> Nil, in |-> p]
      OBVIOUS
    <3>2. ~KeepsOwners(r) /\ Carries(r)
      BY <3>1 DEF KeepsOwners, Carries
    <3>3. QED
      BY <2>2, <3>1, <3>2 DEF AskDeleteProject, Hold, AtRest
  <2>3. ASSUME NEW h \in Handlers, DeleteMembers(h)
        PROVE  \E r : /\ request' = [request EXCEPT ![h] = r]
                      /\ request[h].op \notin {"join", "publish", "notify"}
                      /\ ~KeepsOwners(r) /\ Carries(r)
    <3>1. request[h] \in DropRequests
      BY <2>3, BoardRequestsByOp DEF DeleteMembers, OwnersInv, BoardInv
    <3>2. PICK r : r = [request[h] EXCEPT !.op = "drop"]
      OBVIOUS
    <3>3. r.op = "drop"
      BY <3>1, <3>2 DEF DropRequests
    <3>4. QED
      BY <2>3, <3>2, <3>3 DEF DeleteMembers, Continue, KeepsOwners, Carries
  <2>4. ASSUME NEW h \in Handlers, DeleteProject(h), Answer(h)
        PROVE  \E r : /\ request' = [request EXCEPT ![h] = r]
                      /\ request[h].op \notin {"join", "publish", "notify"}
                      /\ ~KeepsOwners(r) /\ Carries(r)
    <3>1. PICK r : r = NoRequest
      OBVIOUS
    <3>2. ~KeepsOwners(r) /\ Carries(r)
      BY <3>1 DEF KeepsOwners, Carries, NoRequest
    <3>3. QED
      BY <2>4, <3>1, <3>2 DEF DeleteProject, Answer, Continue
  <2>5. ASSUME NEW h \in Handlers, NEW a \in Staff, NEW p \in Projects,
               \/ \E n \in ProjectNames : CreateProject(h, a, p, n)
               \/ \E n \in ProjectNames, leader \in Staff \cup {Nil} : UpdateProject(h, a, p, n, leader)
               \/ \E members \in Lists : SetProjectMembers(h, a, p, members)
        PROVE  \E op \in {"join", "publish"} : \E joining : Hold(h, ToEveryone(op, a, p, joining))
    BY <2>5 DEF CreateProject, UpdateProject, SetProjectMembers
  <2>6. ASSUME NEW h \in Handlers, DeleteProject(h)
        PROVE  \/ Answer(h)
               \/ \E a, p : request[h].op = "drop" /\ Continue(h, ToEveryone("publish", a, p, {}))
    BY <2>6 DEF DeleteProject
  <2>7. CASE \E h \in Handlers, a \in Staff, p \in Projects :
               \/ \E n \in ProjectNames : CreateProject(h, a, p, n)
               \/ \E n \in ProjectNames, leader \in Staff \cup {Nil} : UpdateProject(h, a, p, n, leader)
               \/ \E members \in Lists : SetProjectMembers(h, a, p, members)
    <3>1. PICK h \in Handlers, a \in Staff, p \in Projects :
            \/ \E n \in ProjectNames : CreateProject(h, a, p, n)
            \/ \E n \in ProjectNames, leader \in Staff \cup {Nil} : UpdateProject(h, a, p, n, leader)
            \/ \E members \in Lists : SetProjectMembers(h, a, p, members)
      BY <2>7
    <3>2. PICK op \in {"join", "publish"} : \E joining : Hold(h, ToEveryone(op, a, p, joining))
      BY <2>5, <3>1
    <3>3. QED
      BY <2>1, <3>2
  <2>8. CASE \E h \in Handlers, a \in Staff, p \in Projects : AskDeleteProject(h, a, p)
    BY <2>2, <2>8
  <2>9. CASE \E h \in Handlers : DeleteMembers(h)
    BY <2>3, <2>9
  <2>10. CASE \E h \in Handlers : DeleteProject(h)
    BY <2>1, <2>4, <2>6, <2>10
  <2>11. QED
    BY <2>7, <2>8, <2>9, <2>10 DEF ProjectNext
<1>2. UNCHANGED <<task, trash, archive, created, knows, broken>>
  <2>1. ASSUME NEW g \in Handlers, DeleteMembers(g) \/ DeleteProject(g)
        PROVE  UNCHANGED <<task, trash, archive, created, knows, broken>>
    BY <2>1 DEF DeleteMembers, DeleteProject
  <2>2. ASSUME NEW g \in Handlers, NEW a \in Staff, NEW p \in Projects,
               \/ AskDeleteProject(g, a, p)
               \/ \E n \in ProjectNames : CreateProject(g, a, p, n)
               \/ \E n \in ProjectNames, leader \in Staff \cup {Nil} : UpdateProject(g, a, p, n, leader)
               \/ \E members \in Lists : SetProjectMembers(g, a, p, members)
        PROVE  UNCHANGED <<task, trash, archive, created, knows, broken>>
    BY <2>2 DEF CreateProject, UpdateProject, SetProjectMembers, AskDeleteProject, boardVars
  <2>3. QED
    BY <2>1, <2>2 DEF ProjectNext
<1>3. KeepsOwners(r) => r.id \notin Tasks
  BY <1>1, BoardAssumption
<1>4. QED
  BY <1>1, <1>2, <1>3, AskingKeepsOwners

\* The steps that requests share.
LEMMA JoinTells ==
  ASSUME OwnersInv, BoardInv', NEW h \in Handlers, EnsureProjectMembers(h) PROVE OwnersInv'
<1>1. PICK r \in TellingRequests : r = request[h] /\ r.op = "join"
  BY BoardRequestsByOp DEF EnsureProjectMembers, OwnersInv, BoardInv, TellingRequests
<1>2. UNCHANGED <<task, trash, archive, created, knows>>
  BY DEF EnsureProjectMembers
<1>3. Carries(r) /\ (r.id \in Tasks => \A s \in r.before : s \in Staff /\ IsTold(r.id, s))
  BY <1>1, OwnersAreStaff DEF OwnersInv, OwnersAreTold, KeepsOwners
<1>4. CASE request' = [request EXCEPT ![h] = [r EXCEPT !.op = r.next]] /\ UNCHANGED broken
  <2>1. PICK q : q = [r EXCEPT !.op = r.next]
    OBVIOUS
  <2>2. /\ q.op = r.next /\ q.id = r.id /\ q.by = r.by /\ q.named = r.named /\ q.before = r.before
        /\ q.next = r.next
    BY <1>1, <2>1, SameButItsStep
  <2>3. r.next \in {"create", "publish", "restore"}
    BY <1>1 DEF TellingRequests, ChangeRequests, MovedRequests, RemoveRequests, RestoreRequests
  <2>4. \A t \in Tasks, s \in Staff : WillTell(r, t, s) => WillTell(q, t, s)
    BY <1>1, <2>2, <2>3 DEF WillTell
  <2>5. Carries(q)
    BY <1>1, <1>3, <2>2, <2>3 DEF Carries
  <2>6. StayTold
    BY <1>1, <1>2, <1>4, <2>1, <2>4, TellingGoesOn DEF OwnersInv
  <2>7. q.id \in Tasks => \A s \in q.before : IsTold(q.id, s)'
    BY <1>3, <2>2, <2>6 DEF StayTold
  <2>8. QED
    BY <1>2, <1>4, <2>1, <2>5, <2>6, <2>7, OwnersStayTold DEF OwnersInv
<1>5. CASE request' = [request EXCEPT ![h] = NoRequest] /\ broken' = (broken \/ r.next = "publish")
  <2>1. \A t \in Tasks, s \in Staff : WillTell(r, t, s) => broken'
    BY <1>1, <1>5 DEF WillTell
  <2>2. Carries(NoRequest) /\ ~KeepsOwners(NoRequest)
    BY DEF Carries, KeepsOwners, NoRequest
  <2>3. broken' \in BOOLEAN /\ (broken => broken')
    BY <1>5 DEF OwnersInv
  <2>4. StayTold
    BY <1>1, <1>2, <1>5, <2>1, <2>3, TellingGoesOn DEF OwnersInv
  <2>5. QED
    BY <1>2, <1>5, <2>2, <2>3, <2>4, OwnersStayTold DEF OwnersInv
<1>6. QED
  BY <1>1, <1>4, <1>5 DEF EnsureProjectMembers, Continue, Answer

LEMMA PublishTells ==
  ASSUME OwnersInv, BoardInv', NEW h \in Handlers, Publish(h) PROVE OwnersInv'
<1>1. PICK r \in TellingRequests : r = request[h] /\ r.op = "publish"
  BY BoardRequestsByOp DEF Publish, OwnersInv, BoardInv
<1>2. PICK q : q = [r EXCEPT !.op = "notify"]
  OBVIOUS
<1>3. /\ q.op = "notify" /\ q.id = r.id /\ q.by = r.by /\ q.named = r.named /\ q.before = r.before
  BY <1>2, SameButItsStep
<1>4. request' = [request EXCEPT ![h] = q] /\ UNCHANGED <<task, trash, archive, created, knows, broken>>
  BY <1>1, <1>2 DEF Publish, Continue
<1>5. \A t \in Tasks, s \in Staff : WillTell(r, t, s) => WillTell(q, t, s)
  BY <1>1, <1>3 DEF WillTell
<1>6. StayTold
  BY <1>1, <1>4, <1>5, TellingGoesOn DEF OwnersInv
<1>7. q.id \in Tasks => \A s \in q.before : IsTold(q.id, s)'
  BY <1>1, <1>3, <1>6, OwnersAreStaff DEF OwnersInv, OwnersAreTold, KeepsOwners, StayTold
<1>8. Carries(q)
  BY <1>3 DEF Carries
<1>9. QED
  BY <1>4, <1>6, <1>7, <1>8, OwnersStayTold DEF OwnersInv

LEMMA NotifyTells ==
  ASSUME OwnersInv, BoardInv', NEW h \in Handlers, NotifyAssignees(h) PROVE OwnersInv'
<1>1. PICK r \in TellingRequests : r = request[h] /\ r.op = "notify"
  BY BoardRequestsByOp DEF NotifyAssignees, OwnersInv, BoardInv
<1>2. PICK new : new = GetNewAssigneeIds(r.before, r.named \cap Staff, r.by)
  OBVIOUS
<1>3. /\ knows' = IF r.id \in Tasks THEN [knows EXCEPT ![r.id] = @ \cup new] ELSE knows
      /\ request' = [request EXCEPT ![h] = NoRequest]
      /\ UNCHANGED <<task, trash, archive, broken>>
  BY <1>1, <1>2 DEF NotifyAssignees, Answer, Continue
<1>4. /\ \A t \in Tasks : knows[t] \subseteq knows'[t]
      /\ r.id \in Tasks => new \subseteq knows'[r.id]
  BY <1>3 DEF OwnersInv, BoardInv, TaskTypeOK
<1>5. \A t \in Tasks, s \in Staff : WillTell(r, t, s) => s \in knows'[t]
  BY <1>2, <1>4 DEF WillTell, GetNewAssigneeIds
<1>6. Carries(NoRequest) /\ ~KeepsOwners(NoRequest)
  BY DEF Carries, KeepsOwners, NoRequest
<1>7. StayTold
  BY <1>1, <1>3, <1>4, <1>5, TellingGoesOn DEF OwnersInv
<1>8. QED
  BY <1>3, <1>6, <1>7, OwnersStayTold DEF OwnersInv

\* The writes of a task.
LEMMA CreateTells ==
  ASSUME OwnersInv, BoardInv', NEW h \in Handlers, CreateTask(h) PROVE OwnersInv'
<1>1. PICK r \in ChangeRequests : r = request[h] /\ r.op = "create"
  BY BoardRequestsByOp DEF CreateTask, OwnersInv, BoardInv
<1>2. \A t \in Tasks, s \in Staff : ~WillTell(r, t, s)
  BY <1>1 DEF WillTell
<1>3. CASE broken' = TRUE /\ Answer(h) /\ UNCHANGED <<task, created, knows>>
  <2>1. Carries(NoRequest) /\ ~KeepsOwners(NoRequest)
    BY DEF Carries, KeepsOwners, NoRequest
  <2>2. UNCHANGED <<trash, archive>> /\ request' = [request EXCEPT ![h] = NoRequest]
    BY <1>3 DEF CreateTask, Answer, Continue
  <2>3. StayTold
    BY <1>1, <1>2, <1>3, <2>2, TellingGoesOn DEF OwnersInv
  <2>4. QED
    BY <1>3, <2>1, <2>2, <2>3, OwnersStayTold DEF OwnersInv
<1>4. ASSUME NEW t \in Tasks, Unused(t), r.named \subseteq Staff, UNCHANGED broken,
             task' = [task EXCEPT ![t] = [in |-> r.in, owners |-> r.named, done |-> FALSE]],
             knows' = [knows EXCEPT ![t] = @ \cup (r.named \cap {r.by})],
             Continue(h, [r EXCEPT !.op = "publish", !.id = t])
      PROVE  OwnersInv'
  <2>1. PICK q : q = [r EXCEPT !.op = "publish", !.id = t]
    OBVIOUS
  <2>2. q.op = "publish" /\ q.id = t /\ q.by = r.by /\ q.named = r.named /\ q.before = r.before
    BY <2>1 DEF ChangeRequests
  <2>3. request' = [request EXCEPT ![h] = q] /\ request'[h] = q /\ UNCHANGED <<trash, archive>>
    BY <1>1, <1>4, <2>1 DEF CreateTask, Continue, OwnersInv, BoardInv
  <2>4. \A u \in Tasks : knows[u] \subseteq knows'[u]
    BY <1>4 DEF Unused, Copies, OwnersInv, BoardInv, TaskTypeOK, OnePlaceEach, IsMade
  <2>5. StayTold
    BY <1>1, <1>2, <1>4, <2>3, <2>4, TellingGoesOn DEF OwnersInv
  <2>6. (r.by \in r.named => r.by \in knows'[t]) /\ Carries(q)
    BY <1>4, <2>2 DEF OwnersInv, BoardInv, TaskTypeOK, Carries
  <2>7. r.before = {}
    BY <1>1 DEF OwnersInv, Carries
  <2>8. ASSUME NEW s \in r.named PROVE IsTold(t, s)'
    <3>1. CASE s = r.by
      BY <2>6, <2>8, <3>1 DEF IsTold
    <3>2. CASE s # r.by
      <4>1. WillTell(q, t, s)
        BY <1>4, <2>2, <2>7, <2>8, <3>2 DEF WillTell
      <4>2. QED
        BY <2>3, <4>1 DEF IsTold
    <3>3. QED
      BY <3>1, <3>2
  <2>9. /\ task'[t].owners = r.named
        /\ \A u \in Tasks : u # t => task'[u].owners = task[u].owners
    BY <1>4 DEF OwnersInv, BoardInv, TaskTypeOK
  <2>10. \A u \in Tasks : \A s \in task'[u].owners : s \in task[u].owners \/ IsTold(u, s)'
    BY <2>8, <2>9
  <2>11. KeepsOwners(q) /\ q.id \in Tasks => \A s \in q.before : IsTold(q.id, s)'
    BY <2>2, <2>7
  <2>12. QED
    BY <1>4, <2>3, <2>5, <2>6, <2>10, <2>11, OwnersStayTold DEF OwnersInv
<1>5. QED
  BY <1>1, <1>3, <1>4 DEF CreateTask

LEMMA UpdateTells ==
  ASSUME OwnersInv, BoardInv', NEW h \in Handlers, UpdateTask(h) PROVE OwnersInv'
<1>1. PICK r \in UpdateRequests : r = request[h] /\ r.op = "update"
  BY BoardRequestsByOp DEF UpdateTask, OwnersInv, BoardInv
<1>2. PICK t \in Tasks : t = r.id
  BY DEF UpdateRequests
<1>3. /\ \A u \in Tasks, s \in Staff : ~WillTell(r, u, s)
      /\ \A s \in r.before : s \in Staff /\ IsTold(t, s)
  BY <1>1, <1>2, OwnersAreStaff DEF OwnersInv, OwnersAreTold, KeepsOwners, WillTell
<1>4. UNCHANGED <<trash, archive, broken>>
  BY DEF UpdateTask
<1>5. CASE Answer(h) /\ UNCHANGED <<task, knows>>
  <2>1. Carries(NoRequest) /\ ~KeepsOwners(NoRequest)
    BY DEF Carries, KeepsOwners, NoRequest
  <2>2. request' = [request EXCEPT ![h] = NoRequest]
    BY <1>5 DEF Answer, Continue
  <2>3. StayTold
    BY <1>1, <1>3, <1>4, <1>5, <2>2, TellingGoesOn DEF OwnersInv
  <2>4. QED
    BY <1>4, <1>5, <2>1, <2>2, <2>3, OwnersStayTold DEF OwnersInv
<1>6. CASE task[t] # NoTask /\ Exists(r.in) /\ (r.names => r.named \subseteq Staff)
  <2>1. PICK q : q = [op |-> IF r.names THEN "join" ELSE "publish",
                      next |-> "publish", by |-> r.by, id |-> r.id, in |-> r.in,
                      names |-> r.names, named |-> r.named, before |-> r.before, concerns |-> r.concerns]
    OBVIOUS
  <2>2. /\ q.op = IF r.names THEN "join" ELSE "publish"
        /\ q.next = "publish" /\ q.id = t /\ q.by = r.by /\ q.named = r.named /\ q.before = r.before
    BY <1>2, <2>1
  <2>3. /\ task' = [task EXCEPT ![t].in = r.in, ![t].owners = IF r.names THEN r.named ELSE @]
        /\ knows' = IF r.names /\ r.by \in r.named THEN [knows EXCEPT ![t] = @ \cup {r.by}] ELSE knows
        /\ request' = [request EXCEPT ![h] = q]
    BY <1>1, <1>2, <1>6, <2>1 DEF UpdateTask, Continue
  <2>4. /\ \A u \in Tasks : knows[u] \subseteq knows'[u]
        /\ r.names /\ r.by \in r.named => r.by \in knows'[t]
        /\ request'[h] = q
    BY <2>3 DEF OwnersInv, BoardInv, TaskTypeOK
  <2>5. StayTold
    BY <1>1, <1>3, <1>4, <2>3, <2>4, TellingGoesOn DEF OwnersInv
  <2>6. \A s \in r.before : IsTold(t, s)'
    BY <1>3, <2>5 DEF StayTold
  <2>7. ASSUME r.names, NEW s \in r.named PROVE IsTold(t, s)'
    <3>1. CASE s = r.by
      BY <2>4, <2>7, <3>1 DEF IsTold
    <3>2. CASE s \in r.before
      BY <2>6, <3>2
    <3>3. CASE s # r.by /\ s \notin r.before
      <4>1. WillTell(q, t, s)
        BY <1>6, <2>2, <2>7, <3>3 DEF WillTell
      <4>2. QED
        BY <2>4, <4>1 DEF IsTold
    <3>4. QED
      BY <3>1, <3>2, <3>3
  <2>8. /\ task'[t].owners = IF r.names THEN r.named ELSE task[t].owners
        /\ \A u \in Tasks : u # t => task'[u].owners = task[u].owners
    <3>1. PICK row \in Rows : row = task[t]
      BY <1>6, TasksOnTheBoard DEF OwnersInv
    <3>2. /\ task'[t] = [row EXCEPT !.in = r.in, !.owners = IF r.names THEN r.named ELSE @]
          /\ \A u \in Tasks : u # t => task'[u] = task[u]
      BY <2>3, <3>1 DEF OwnersInv, BoardInv, TaskTypeOK
    <3>3. QED
      BY <3>1, <3>2 DEF Rows
  <2>9. \A u \in Tasks : \A s \in task'[u].owners : s \in task[u].owners \/ IsTold(u, s)'
    BY <2>7, <2>8
  <2>10. KeepsOwners(q) /\ q.id \in Tasks => \A s \in q.before : IsTold(q.id, s)'
    BY <2>2, <2>6
  <2>11. Carries(q)
    BY <2>2 DEF Carries
  <2>12. QED
    BY <1>4, <2>3, <2>5, <2>9, <2>10, <2>11, OwnersStayTold DEF OwnersInv
<1>7. QED
  BY <1>1, <1>2, <1>5, <1>6 DEF UpdateTask

LEMMA MoveTells ==
  ASSUME OwnersInv, BoardInv', NEW h \in Handlers, MoveTask(h) PROVE OwnersInv'
<1>1. PICK r \in MoveRequests : r = request[h] /\ r.op = "move"
  BY BoardRequestsByOp DEF MoveTask, OwnersInv, BoardInv
<1>2. PICK t \in Tasks : t = r.id
  BY DEF MoveRequests
<1>3. \A u \in Tasks, s \in Staff : ~WillTell(r, u, s)
  BY <1>1 DEF WillTell
<1>4. UNCHANGED <<trash, archive, created, knows, broken>>
  BY DEF MoveTask
<1>5. CASE Answer(h) /\ UNCHANGED task
  <2>1. Carries(NoRequest) /\ ~KeepsOwners(NoRequest)
    BY DEF Carries, KeepsOwners, NoRequest
  <2>2. request' = [request EXCEPT ![h] = NoRequest]
    BY <1>5 DEF Answer, Continue
  <2>3. StayTold
    BY <1>1, <1>3, <1>4, <1>5, <2>2, TellingGoesOn DEF OwnersInv
  <2>4. QED
    BY <1>4, <1>5, <2>1, <2>2, <2>3, OwnersStayTold DEF OwnersInv
<1>6. CASE task[t] # NoTask
  <2>1. PICK x \in Rows : x = task[t]
    BY <1>6, TasksOnTheBoard DEF OwnersInv
  <2>2. PICK q : q = [op |-> "publish", by |-> r.by, id |-> r.id, in |-> x.in,
                      names |-> FALSE, named |-> x.owners, before |-> x.owners,
                      concerns |-> x.owners]
    OBVIOUS
  <2>3. q.op = "publish" /\ q.id = t /\ q.before = x.owners
    BY <1>2, <2>2
  <2>4. request' = [request EXCEPT ![h] = q] /\ task' = [task EXCEPT ![t].done = r.done]
    BY <1>1, <1>2, <1>6, <2>1, <2>2 DEF MoveTask, Continue
  <2>5. StayTold
    BY <1>1, <1>3, <1>4, <2>4, TellingGoesOn DEF OwnersInv
  <2>6. \A u \in Tasks : task'[u].owners = task[u].owners
    <3>1. /\ task'[t] = [x EXCEPT !.done = r.done]
          /\ \A u \in Tasks : u # t => task'[u] = task[u]
      BY <2>1, <2>4 DEF OwnersInv, BoardInv, TaskTypeOK
    <3>2. QED
      BY <2>1, <3>1 DEF Rows
  <2>7. \A s \in q.before : IsTold(t, s)'
    BY <2>1, <2>3, <2>5, OwnersAreStaff DEF OwnersInv, OwnersAreTold, StayTold
  <2>8. Carries(q) /\ (KeepsOwners(q) /\ q.id \in Tasks => \A s \in q.before : IsTold(q.id, s)')
    BY <2>3, <2>7 DEF Carries
  <2>9. QED
    BY <1>4, <2>4, <2>5, <2>6, <2>8, OwnersStayTold DEF OwnersInv
<1>7. QED
  BY <1>1, <1>2, <1>5, <1>6 DEF MoveTask

\* A task that goes away, or comes back, and the owners it keeps.
LEMMA CarryingTells ==
  ASSUME OwnersInv, BoardInv', NEW h \in Handlers, RemoveTask(h) \/ RestoreTask(h) PROVE OwnersInv'
<1>1. PICK r : r = request[h] /\ r \in RemoveRequests \cup RestoreRequests
                /\ r.op \in {"trash", "archive", "restore"}
  BY BoardRequestsByOp DEF RemoveTask, RestoreTask, OwnersInv, BoardInv
<1>2. PICK t \in Tasks : t = r.id
  BY <1>1 DEF RemoveRequests, RestoreRequests
<1>3. /\ \A u \in Tasks, s \in Staff : ~WillTell(r, u, s)
      /\ \A s \in r.before : s \in Staff /\ IsTold(t, s)
      /\ r.named = r.before
  BY <1>1, <1>2, OwnersAreStaff DEF OwnersInv, OwnersAreTold, KeepsOwners, WillTell, Carries
<1>4. UNCHANGED <<knows, broken>>
  BY DEF RemoveTask, RestoreTask
<1>5. CASE Answer(h) /\ UNCHANGED <<task, trash, archive>>
  <2>1. Carries(NoRequest) /\ ~KeepsOwners(NoRequest)
    BY DEF Carries, KeepsOwners, NoRequest
  <2>2. request' = [request EXCEPT ![h] = NoRequest]
    BY <1>5 DEF Answer, Continue
  <2>3. StayTold
    BY <1>1, <1>3, <1>4, <1>5, <2>2, TellingGoesOn DEF OwnersInv
  <2>4. QED
    BY <1>4, <1>5, <2>1, <2>2, <2>3, OwnersStayTold DEF OwnersInv
<1>6. ASSUME NEW q, Continue(h, q),
             \/ q = [r EXCEPT !.op = "publish"]
             \/ q = [r EXCEPT !.op = "publish", !.in = GetProjectIdByName(r.team)]
      PROVE  OwnersInv'
  <2>2. q.op = "publish" /\ q.id = t /\ q.before = r.before
    BY <1>1, <1>2, <1>6 DEF RemoveRequests, RestoreRequests
  <2>3. request' = [request EXCEPT ![h] = q]
    BY <1>6 DEF Continue
  <2>4. StayTold
    BY <1>1, <1>3, <1>4, <2>3, TellingGoesOn DEF OwnersInv
  <2>5. \A s \in r.before : IsTold(t, s)'
    BY <1>3, <2>4 DEF StayTold
  <2>6. Entry(r).id = t /\ Entry(r).owners = r.before
    BY <1>2, <1>3 DEF Entry
  <2>7. /\ \A x \in trash' \cup archive' : x \in trash \cup archive \/ x = Entry(r)
        /\ \A u \in Tasks : task'[u].owners \subseteq task[u].owners
                              \/ (u = t /\ task'[u].owners = r.named)
    <3>1. ASSUME UNCHANGED <<task, trash, archive>>
          PROVE  /\ \A x \in trash' \cup archive' : x \in trash \cup archive \/ x = Entry(r)
                 /\ \A u \in Tasks : task'[u].owners \subseteq task[u].owners
                                       \/ (u = t /\ task'[u].owners = r.named)
      BY <3>1
    <3>2. ASSUME NEW row, row.owners = {} \/ row.owners = r.named, task' = [task EXCEPT ![t] = row]
          PROVE  \A u \in Tasks : task'[u].owners \subseteq task[u].owners
                                    \/ (u = t /\ task'[u].owners = r.named)
      BY <3>2 DEF OwnersInv, BoardInv, TaskTypeOK
    <3>3. NoTask.owners = {} /\ [in |-> r.in, owners |-> r.named, done |-> r.done].owners = r.named
      BY DEF NoTask
    <3>4. CASE RemoveTask(h)
      BY <1>1, <1>2, <3>1, <3>2, <3>3, <3>4 DEF RemoveTask
    <3>5. CASE RestoreTask(h)
      BY <1>1, <1>2, <3>1, <3>2, <3>3, <3>5 DEF RestoreTask
    <3>6. QED
      BY <3>4, <3>5
  <2>8. \A u \in Tasks : \A s \in task'[u].owners : s \in task[u].owners \/ IsTold(u, s)'
    BY <1>3, <2>5, <2>7
  <2>9. \A x \in trash' \cup archive' :
          x \in trash \cup archive \/ \A s \in x.owners : IsTold(x.id, s)'
    BY <2>5, <2>6, <2>7
  <2>10. Carries(q) /\ (KeepsOwners(q) /\ q.id \in Tasks => \A s \in q.before : IsTold(q.id, s)')
    BY <2>2, <2>5 DEF Carries
  <2>11. QED
    BY <1>4, <2>3, <2>4, <2>8, <2>9, <2>10, OwnersStayTold DEF OwnersInv
<1>7. QED
  BY <1>1, <1>5, <1>6 DEF RemoveTask, RestoreTask

LEMMA OwnersStart == BoardInit => OwnersInv
<1> SUFFICES ASSUME BoardInit PROVE OwnersInv
  OBVIOUS
<1>1. (\A h \in Handlers : request[h] = NoRequest) /\ trash = {} /\ archive = {} /\ broken = FALSE
  BY DEF BoardInit, ApiInit
<1>2. ~KeepsOwners(NoRequest) /\ Carries(NoRequest)
  BY DEF KeepsOwners, Carries, NoRequest
<1>3. \A t \in Tasks : task[t].owners = {}
  BY DEF BoardInit, NoTask
<1>4. QED
  BY <1>1, <1>2, <1>3, BoardStart DEF OwnersInv, OwnersAreTold

LEMMA OwnersStep ==
  OwnersInv /\ [TaskNext \/ ProjectNext \/ BoardFailure]_<<boardVars, apiVars>> => OwnersInv'
<1> SUFFICES ASSUME OwnersInv, [TaskNext \/ ProjectNext \/ BoardFailure]_<<boardVars, apiVars>>
             PROVE  OwnersInv'
  OBVIOUS
<1>1. BoardInv'
  BY BoardStep DEF OwnersInv
<1>2. CASE UNCHANGED <<boardVars, apiVars>>
  BY <1>1, <1>2 DEF boardVars, apiVars, OwnersInv, OwnersAreTold, IsTold
<1>3. CASE BoardFailure
  <2>1. PICK h \in Handlers : request' = [request EXCEPT ![h] = NoRequest]
    BY <1>3 DEF BoardFailure, BreakOff, Answer, Continue
  <2>2. broken' = TRUE /\ UNCHANGED <<task, trash, archive, created, knows>>
    BY <1>3 DEF BoardFailure
  <2>3. StayTold
    BY <2>2 DEF StayTold, IsTold
  <2>4. Carries(NoRequest) /\ ~KeepsOwners(NoRequest)
    BY DEF Carries, KeepsOwners, NoRequest
  <2>5. QED
    BY <1>1, <2>1, <2>2, <2>3, <2>4, OwnersStayTold
<1>4. CASE ProjectNext
  BY <1>1, <1>4, ProjectsKeepOwners
<1>5. CASE TaskNext
  <2>1. ASSUME NEW h \in Handlers, TaskStep(h) PROVE OwnersInv'
    BY <1>1, <2>1, JoinTells, PublishTells, NotifyTells, CreateTells, UpdateTells, MoveTells,
       CarryingTells DEF TaskStep
  <2>2. QED
    BY <1>1, <1>5, <2>1, ArrivalsKeepOwners DEF TaskNext
<1>6. QED
  BY <1>2, <1>3, <1>4, <1>5

LEMMA OwnersGet == OwnersInv => OwnersKnow
<1> SUFFICES ASSUME OwnersInv, ~broken, \A h \in Handlers : AtRest(h),
                    NEW t \in Tasks, NEW s \in task[t].owners
             PROVE  s \in knows[t]
  BY DEF OwnersKnow
<1>1. IsTold(t, s)
  BY DEF OwnersInv, OwnersAreTold
<1>2. QED
  BY <1>1 DEF IsTold, WillTell, AtRest

-----------------------------------------------------------------------------
(* Who is concerned knows, requests in turn *)

\* In turn, a request finds the projects and tasks as it read them.
ConcernsInTurn(r) ==
  /\ r.op \in {"join", "create"} => r.named \cap Staff \subseteq r.concerns
  /\ r.op \in {"join", "restore"} => Exists(r.in)
  /\ r.op \in {"create", "restore"} =>
       r.in \in Projects /\ r.named \cap Staff \subseteq project[r.in].members
  /\ r.op = "restore" \/ (r.op = "join" /\ r.next = "restore") =>
       task[r.id] = NoTask /\ Entry(r) \in trash /\ r.named \subseteq r.concerns
  /\ r.op = "join" /\ r.next = "publish" /\ r.id \in Tasks =>
       task[r.id] # NoTask /\ task[r.id].in = r.in /\ task[r.id].owners = r.named
  /\ r.op = "update" =>
       /\ task[r.id] # NoTask /\ task[r.id].owners = r.before /\ r.before \subseteq r.concerns
       /\ r.names => r.named \subseteq r.concerns
  /\ r.op \in {"trash", "archive"} => task[r.id] # NoTask /\ task[r.id].owners \subseteq r.concerns
  /\ r.op = "publish" /\ r.names /\ r.id \in Tasks =>
       task[r.id] # NoTask /\ \A s \in task[r.id].owners : MayTouch(s, task[r.id])
  /\ r.op \in {"expel", "drop"} => \A t \in Tasks : task[t].in # r.in

\* Whom a request is about to show the board as it changes it.
WillShow(r, s) ==
  r.op \in {"join", "create", "restore", "publish"} /\ s \in r.concerns \cup Admins

NotLeading(s) == \A p \in Projects : project[p].leader # s

ShownOrPending ==
  \A s \in Staff :
    NotLeading(s) => screen[s] = Board(s) \/ \E h \in Handlers : WillShow(request[h], s)

BoardOneInFlight == \A g, h \in Handlers : g = h \/ AtRest(g) \/ AtRest(h)

ConcernInv ==
  /\ OwnersInv /\ overlapped \in BOOLEAN
  /\ ~overlapped => BoardOneInFlight /\ \A h \in Handlers : ConcernsInTurn(request[h])
  /\ ~overlapped /\ ~broken => ShownOrPending

\* What a handler comes to hold.
BoardMoves(h, r) == Hold(h, r) \/ (~AtRest(h) /\ Continue(h, r))

\* Somebody who neither leads nor administers sees the tasks of their own.
Sees(s, t) ==
  /\ task[t] # NoTask /\ s \in task[t].owners
  /\ Exists(task[t].in) /\ s \in project[task[t].in].members

LEMMA MemberSees ==
  ASSUME NEW s, s \notin Admins, NotLeading(s)
  PROVE  Board(s) = {t \in Tasks : Sees(s, t)}
BY DEF NotLeading, Board, MayTouch, MayEnter, IsVisibleTo, Sees, Exists

LEMMA MemberSeesNext ==
  ASSUME NEW s, s \notin Admins, NotLeading(s)'
  PROVE  Board(s)' = {t \in Tasks : Sees(s, t)'}
BY DEF NotLeading, Board, MayTouch, MayEnter, IsVisibleTo, Sees, Exists

LEMMA MemberSeesTheSame ==
  ASSUME NEW s, s \notin Admins, NotLeading(s), NotLeading(s)',
         \A t \in Tasks : Sees(s, t)' <=> Sees(s, t)
  PROVE  Board(s)' = Board(s)
BY MemberSees, MemberSeesNext

\* The board is the same for everybody while tasks are in the same projects,
\* these unchanged, with the same owners.
LEMMA SameBoard ==
  ASSUME NEW s,
         \A t \in Tasks : task'[t] = NoTask <=> task[t] = NoTask,
         \A t \in Tasks : task[t] # NoTask =>
            /\ task'[t].in = task[t].in /\ task'[t].owners = task[t].owners
            /\ project'[task[t].in] = project[task[t].in]
  PROVE  Board(s)' = Board(s)
BY DEF Board, MayTouch, MayEnter, IsVisibleTo, Exists

LEMMA RestInTurn == ASSUME NEW r, r.op = "none" PROVE ConcernsInTurn(r)' /\ \A s : ~WillShow(r, s)
BY DEF ConcernsInTurn, WillShow

LEMMA BoardAlone ==
  ASSUME ConcernInv, NEW h \in Handlers, NEW r, BoardMoves(h, r)
  PROVE  /\ overlapped' \in BOOLEAN /\ (~overlapped' => ~overlapped)
         /\ request' = [request EXCEPT ![h] = r] /\ request'[h] = r
         /\ \A g \in Handlers \ {h} : request'[g] = request[g]
         /\ ~overlapped' => \A g \in Handlers \ {h} : request[g].op = "none"
<1>1. /\ request' = [request EXCEPT ![h] = r] /\ overlapped' \in BOOLEAN
      /\ ~overlapped' => ~overlapped
  BY DEF ConcernInv, BoardMoves, Hold, Continue, MeetsAnother
<1>2. request'[h] = r /\ \A g \in Handlers \ {h} : request'[g] = request[g]
  BY <1>1 DEF ConcernInv, OwnersInv, BoardInv
<1>3. ASSUME ~overlapped', NEW g \in Handlers \ {h} PROVE AtRest(g)
  BY <1>1, <1>3 DEF ConcernInv, BoardMoves, Hold, Continue, MeetsAnother, BoardOneInFlight
<1>4. QED
  BY <1>1, <1>2, <1>3 DEF AtRest

\* What a step has to show of the request that makes it.
LEMMA ConcernKept ==
  ASSUME ConcernInv, OwnersInv', NEW h \in Handlers, NEW r, BoardMoves(h, r),
         ~overlapped' => ConcernsInTurn(r)',
         ~overlapped' /\ ~broken' =>
           /\ ~broken
           /\ \A s \in Staff : NotLeading(s)' =>
                \/ WillShow(r, s) \/ screen'[s] = Board(s)'
                \/ /\ NotLeading(s) /\ ~WillShow(request[h], s)
                   /\ screen'[s] = screen[s] /\ Board(s)' = Board(s)
  PROVE  ConcernInv'
<1>1. /\ overlapped' \in BOOLEAN /\ (~overlapped' => ~overlapped) /\ request'[h] = r
      /\ \A g \in Handlers \ {h} : request'[g] = request[g]
      /\ ~overlapped' => \A g \in Handlers \ {h} : request[g].op = "none"
  BY BoardAlone
<1>2. ~overlapped' => BoardOneInFlight'
  BY <1>1 DEF BoardOneInFlight, AtRest
<1>3. ASSUME ~overlapped', NEW g \in Handlers PROVE ConcernsInTurn(request[g])'
  <2>1. PICK q : q = request'[g]
    OBVIOUS
  <2>2. ConcernsInTurn(q)'
    <3>1. CASE g = h
      BY <1>1, <1>3, <2>1, <3>1
    <3>2. CASE g # h
      BY <1>1, <1>3, <2>1, <3>2, RestInTurn
    <3>3. QED
      BY <3>1, <3>2
  <2>3. QED
    BY <2>1, <2>2 DEF ConcernsInTurn, Entry
<1>4. ASSUME ~overlapped', ~broken', NEW s \in Staff, NotLeading(s)'
      PROVE  screen'[s] = Board(s)' \/ \E g \in Handlers : WillShow(request'[g], s)
  <2>1. CASE WillShow(r, s)
    BY <1>1, <2>1
  <2>2. CASE /\ NotLeading(s) /\ ~WillShow(request[h], s)
             /\ screen'[s] = screen[s] /\ Board(s)' = Board(s)
    <3>1. \A g \in Handlers : ~WillShow(request[g], s)
      BY <1>1, <1>4, <2>2 DEF WillShow
    <3>2. screen[s] = Board(s)
      BY <1>1, <1>4, <2>2, <3>1 DEF ConcernInv, ShownOrPending
    <3>3. QED
      BY <2>2, <3>2
  <2>3. QED
    BY <1>4, <2>1, <2>2
<1>5. ~overlapped' /\ ~broken' => ShownOrPending'
  BY <1>4 DEF ShownOrPending, WillShow
<1>6. QED
  BY <1>1, <1>2, <1>3, <1>5 DEF ConcernInv

\* Requests arrive.
LEMMA AsksInTurn ==
  ASSUME ConcernInv, OwnersInv', NEW h \in Handlers, NEW r, Hold(h, r), UNCHANGED boardVars,
         ConcernsInTurn(r)
  PROVE  ConcernInv'
<1>1. ConcernsInTurn(r)'
  BY DEF ConcernsInTurn, boardVars, Exists, Entry, MayTouch, MayEnter, IsVisibleTo
<1>2. BoardMoves(h, r) /\ \A s : ~WillShow(request[h], s)
  BY DEF BoardMoves, Hold, AtRest, WillShow
<1>3. ASSUME NEW s \in Staff, NotLeading(s)'
      PROVE  NotLeading(s) /\ screen'[s] = screen[s] /\ Board(s)' = Board(s)
  <2>1. Board(s)' = Board(s)
    BY SameBoard DEF boardVars
  <2>2. QED
    BY <1>3, <2>1 DEF NotLeading, boardVars
<1>4. QED
  BY <1>1, <1>2, <1>3, ConcernKept DEF boardVars

LEMMA ArrivalsInTurn ==
  ASSUME ConcernInv, OwnersInv', NEW h \in Handlers, NEW a \in Staff,
         \/ \E x \in trash : AskRestore(h, a, x)
         \/ \E t \in Tasks, done \in BOOLEAN : AskMove(h, a, t, done)
         \/ \E t \in Tasks, place \in {"trash", "archive"} : AskRemove(h, a, t, place)
         \/ \E p \in Projects, named \in Lists : AskCreate(h, a, p, named)
         \/ \E p \in Projects, named \in Lists, t \in Tasks : AskUpdate(h, a, t, p, named)
  PROVE  ConcernInv'
<1>1. ASSUME NEW x \in trash, AskRestore(h, a, x) PROVE \E r : Hold(h, r) /\ ConcernsInTurn(r)
  <2>1. PICK r : r = [op |-> "join", next |-> "restore", by |-> a, id |-> x.id,
                      in |-> GetProjectIdByName(x.team), team |-> x.team, done |-> x.done,
                      names |-> TRUE, named |-> x.owners, before |-> x.owners,
                      concerns |-> x.owners]
    OBVIOUS
  <2>2. x \in Entries /\ x.id \in Tasks /\ x \in Copies(x.id, trash)
    BY DEF ConcernInv, OwnersInv, BoardInv, TaskTypeOK, Entries, Copies
  <2>3. task[x.id] = NoTask /\ Exists(GetProjectIdByName(x.team))
    BY <1>1, <2>2, FoundByName DEF ConcernInv, OwnersInv, BoardInv, OnePlaceEach, AskRestore
  <2>4. Entry(r) = x
    BY <2>1, <2>2 DEF Entry, Entries
  <2>5. ConcernsInTurn(r)
    BY <2>1, <2>3, <2>4 DEF ConcernsInTurn
  <2>6. QED
    BY <1>1, <2>1, <2>5 DEF AskRestore
<1>2. ASSUME NEW t \in Tasks, NEW done \in BOOLEAN, AskMove(h, a, t, done)
      PROVE  \E r : Hold(h, r) /\ ConcernsInTurn(r)
  <2>1. PICK r : r = [op |-> "move", by |-> a, id |-> t, done |-> done]
    OBVIOUS
  <2>2. ConcernsInTurn(r)
    BY <2>1 DEF ConcernsInTurn
  <2>3. QED
    BY <1>2, <2>1, <2>2 DEF AskMove
<1>3. ASSUME NEW t \in Tasks, NEW place \in {"trash", "archive"}, AskRemove(h, a, t, place)
      PROVE  \E r : Hold(h, r) /\ ConcernsInTurn(r)
  <2>1. PICK r : r = [op |-> place, by |-> a, id |-> t, in |-> Nil,
                      team |-> project[task[t].in].name, done |-> task[t].done,
                      names |-> FALSE, named |-> task[t].owners, before |-> task[t].owners,
                      concerns |-> task[t].owners]
    OBVIOUS
  <2>2. ConcernsInTurn(r)
    BY <1>3, <2>1 DEF ConcernsInTurn, AskRemove
  <2>3. QED
    BY <1>3, <2>1, <2>2 DEF AskRemove
<1>4. ASSUME NEW p \in Projects, NEW named \in Lists, AskCreate(h, a, p, named)
      PROVE  \E r : Hold(h, r) /\ ConcernsInTurn(r)
  <2>1. PICK r : r = [op |-> "join", next |-> "create", by |-> a, id |-> Nil, in |-> p,
                      names |-> TRUE, named |-> named, before |-> {}, concerns |-> named \cap Staff]
    OBVIOUS
  <2>2. ConcernsInTurn(r)
    BY <1>4, <2>1 DEF ConcernsInTurn, AskCreate, MayEnter
  <2>3. QED
    BY <1>4, <2>1, <2>2 DEF AskCreate
<1>5. ASSUME NEW p \in Projects, NEW named \in Lists, NEW t \in Tasks, AskUpdate(h, a, t, p, named)
      PROVE  \E r : Hold(h, r) /\ ConcernsInTurn(r)
  <2>1. PICK names \in BOOLEAN :
          Hold(h, [op |-> "update", by |-> a, id |-> t, in |-> p, names |-> names,
                   named |-> IF names THEN named ELSE task[t].owners,
                   before |-> task[t].owners, concerns |-> named \cup task[t].owners])
    BY <1>5 DEF AskUpdate
  <2>2. PICK r : r = [op |-> "update", by |-> a, id |-> t, in |-> p, names |-> names,
                      named |-> IF names THEN named ELSE task[t].owners,
                      before |-> task[t].owners, concerns |-> named \cup task[t].owners]
    OBVIOUS
  <2>3. /\ r.op = "update" /\ r.id = t /\ r.before = task[t].owners
        /\ r.concerns = named \cup task[t].owners /\ (r.names => r.named = named)
    BY <2>2
  <2>4. task[t] # NoTask
    BY <1>5 DEF AskUpdate
  <2>5. ConcernsInTurn(r)
    BY <2>3, <2>4 DEF ConcernsInTurn
  <2>6. QED
    BY <2>1, <2>2, <2>5
<1>6. UNCHANGED boardVars
  BY DEF AskRestore, AskMove, AskRemove, AskCreate, AskUpdate
<1>7. QED
  BY <1>1, <1>2, <1>3, <1>4, <1>5, <1>6, AsksInTurn

\* Projects: everybody is shown what becomes of them.
LEMMA ForEveryone ==
  ASSUME ConcernInv, OwnersInv', NEW h \in Handlers, NEW op \in {"join", "publish"},
         NEW a \in Staff, NEW p \in Projects, NEW joining \in SUBSET Staff, UNCHANGED broken,
         op = "join" => Exists(p)',
         BoardMoves(h, ToEveryone(op, a, p, joining))
  PROVE  ConcernInv'
<1>1. PICK r : r = ToEveryone(op, a, p, joining)
  OBVIOUS
<1>2. r.op = op /\ r.next = "publish" /\ r.id = Nil /\ r.in = p /\ r.named = joining
      /\ r.concerns = Staff
  BY <1>1 DEF ToEveryone
<1>3. ConcernsInTurn(r)'
  BY <1>2, BoardAssumption DEF ConcernsInTurn
<1>4. \A s \in Staff : WillShow(r, s)
  BY <1>2 DEF WillShow
<1>5. QED
  BY <1>1, <1>3, <1>4, ConcernKept

LEMMA ProjectsInTurn == ASSUME ConcernInv, OwnersInv', ProjectNext PROVE ConcernInv'
<1> USE DEF BoardMoves
<1>1. ASSUME NEW h \in Handlers, NEW a \in Staff, NEW p \in Projects, \E n \in ProjectNames : CreateProject(h, a, p, n)
      PROVE  ConcernInv'
  <2>1. Exists(p)' /\ UNCHANGED broken
    BY <1>1 DEF CreateProject, Exists, NoProject, ProjectRows, ConcernInv, OwnersInv, BoardInv, TaskTypeOK
  <2>2. BoardMoves(h, ToEveryone("join", a, p, {a})) /\ {a} \in SUBSET Staff
    BY <1>1 DEF CreateProject
  <2>3. QED
    BY <2>1, <2>2, ForEveryone
<1>2. ASSUME NEW h \in Handlers, NEW a \in Staff, NEW p \in Projects,
             \/ \E n \in ProjectNames, leader \in Staff \cup {Nil} : UpdateProject(h, a, p, n, leader)
             \/ \E members \in Lists : SetProjectMembers(h, a, p, members)
      PROVE  ConcernInv'
  <2>1. BoardMoves(h, ToEveryone("publish", a, p, {})) /\ UNCHANGED broken /\ {} \in SUBSET Staff
    BY <1>2 DEF UpdateProject, SetProjectMembers
  <2>2. QED
    BY <2>1, ForEveryone
<1>3. ASSUME NEW h \in Handlers, NEW a \in Staff, NEW p \in Projects, AskDeleteProject(h, a, p)
      PROVE  ConcernInv'
  <2>1. PICK r : r = [op |-> "expel", by |-> a, id |-> Nil, in |-> p]
    OBVIOUS
  <2>2. ConcernsInTurn(r)
    BY <1>3, <2>1 DEF ConcernsInTurn, AskDeleteProject
  <2>3. QED
    BY <1>3, <2>1, <2>2, AsksInTurn DEF AskDeleteProject
<1>4. ASSUME NEW h \in Handlers, DeleteMembers(h) PROVE ConcernInv'
  <2>1. PICK r \in DropRequests : r = request[h] /\ r.op = "expel"
    BY <1>4, BoardRequestsByOp DEF DeleteMembers, ConcernInv, OwnersInv, BoardInv
  <2>2. PICK q : q = [r EXCEPT !.op = "drop"]
    OBVIOUS
  <2>3. q.op = "drop" /\ q.in = r.in
    BY <2>1, <2>2 DEF DropRequests
  <2>4. BoardMoves(h, q)
    BY <1>4, <2>1, <2>2 DEF DeleteMembers, AtRest
  <2>5. UNCHANGED <<task, screen, broken>> /\ project' = [project EXCEPT ![r.in].members = {}]
    BY <1>4, <2>1 DEF DeleteMembers
  <2>6. ~overlapped' => \A t \in Tasks : task[t].in # r.in
    <3>1. ~overlapped' => ConcernsInTurn(request[h])
      BY <2>4, BoardAlone DEF ConcernInv
    <3>2. QED
      BY <2>1, <3>1 DEF ConcernsInTurn
  <2>7. ~overlapped' => ConcernsInTurn(q)'
    BY <2>3, <2>5, <2>6 DEF ConcernsInTurn
  <2>8. ASSUME ~overlapped', NEW s \in Staff, NotLeading(s)'
        PROVE  NotLeading(s) /\ Board(s)' = Board(s)
    <3>1. /\ \A d \in Projects : d # r.in => project'[d] = project[d]
          /\ \A d \in Projects : project'[d].leader = project[d].leader
      BY <2>5 DEF ConcernInv, OwnersInv, BoardInv, TaskTypeOK
    <3>2. \A t \in Tasks : task[t] # NoTask => project'[task[t].in] = project[task[t].in]
      BY <2>6, <2>8, <3>1 DEF ConcernInv, OwnersInv, BoardInv, TasksHaveAProject, Exists
    <3>3. Board(s)' = Board(s)
      BY <2>5, <3>2, SameBoard
    <3>4. QED
      BY <2>8, <3>1, <3>3 DEF NotLeading
  <2>9. \A s : ~WillShow(request[h], s)
    BY <2>1 DEF WillShow
  <2>10. QED
    BY <2>4, <2>5, <2>7, <2>8, <2>9, ConcernKept
<1>5. ASSUME NEW h \in Handlers, DeleteProject(h) PROVE ConcernInv'
  <2>1. PICK r \in DropRequests : r = request[h] /\ r.op = "drop"
    BY <1>5, BoardRequestsByOp DEF DeleteProject, ConcernInv, OwnersInv, BoardInv
  <2>2. CASE Continue(h, ToEveryone("publish", r.by, r.in, {}))
    <3>1. BoardMoves(h, ToEveryone("publish", r.by, r.in, {})) /\ UNCHANGED broken
      BY <1>5, <2>1, <2>2 DEF DeleteProject, AtRest
    <3>2. r.by \in Staff /\ r.in \in Projects /\ {} \in SUBSET Staff
      BY DEF DropRequests
    <3>3. QED
      BY <3>1, <3>2, ForEveryone
  <2>3. CASE Answer(h) /\ ~\A t \in Tasks : task[t].in # r.in
    <3>1. BoardMoves(h, NoRequest)
      BY <2>1, <2>3 DEF Answer, AtRest
    <3>2. overlapped'
      <4>1. ~overlapped' => ConcernsInTurn(request[h])
        BY <3>1, BoardAlone DEF ConcernInv
      <4>2. QED
        BY <2>1, <2>3, <4>1 DEF ConcernsInTurn
    <3>3. QED
      BY <3>1, <3>2, ConcernKept
  <2>4. QED
    BY <1>5, <2>1, <2>2, <2>3 DEF DeleteProject
<1>6. QED
  BY <1>1, <1>2, <1>3, <1>4, <1>5 DEF ProjectNext

\* The steps that requests share.
LEMMA JoinInTurn ==
  ASSUME ConcernInv, OwnersInv', NEW h \in Handlers, EnsureProjectMembers(h) PROVE ConcernInv'
<1>1. PICK r \in TellingRequests : r = request[h] /\ r.op = "join"
  BY BoardRequestsByOp DEF EnsureProjectMembers, ConcernInv, OwnersInv, BoardInv, TellingRequests
<1>2. PICK named \in SUBSET Staff : named = r.named \cap Staff
  OBVIOUS
<1>3. ~overlapped => ConcernsInTurn(r)
  BY <1>1 DEF ConcernInv
<1>4. CASE /\ named = {} \/ Exists(r.in)
           /\ project' = IF named = {} THEN project
                         ELSE [project EXCEPT ![r.in].members = @ \cup named]
           /\ Continue(h, [r EXCEPT !.op = r.next])
           /\ UNCHANGED broken
  <2>1. PICK q : q = [r EXCEPT !.op = r.next]
    OBVIOUS
  <2>2. /\ q.op = r.next /\ q.next = r.next /\ q.id = r.id /\ q.in = r.in /\ q.named = r.named
        /\ q.before = r.before /\ q.concerns = r.concerns /\ q.names = r.names
        /\ r.next \in {"create", "publish", "restore"}
        /\ r.next = "restore" => q.done = r.done /\ q.team = r.team
    <3>1. r \in ChangeRequests \cup RestoreRequests
      BY <1>1 DEF TellingRequests, MovedRequests, RemoveRequests
    <3>2. r.next = "restore" => r \in RestoreRequests
      BY <3>1 DEF ChangeRequests
    <3>3. r.next \in {"create", "publish", "restore"}
      BY <3>1 DEF ChangeRequests, RestoreRequests
    <3>4. r.next = "restore" => q.done = r.done /\ q.team = r.team
      BY <2>1, <3>2 DEF RestoreRequests
    <3>5. QED
      BY <1>1, <2>1, <3>3, <3>4, SameButItsStep
  <2>3. BoardMoves(h, q)
    BY <1>1, <1>4, <2>1 DEF BoardMoves, AtRest
  <2>4. ~overlapped' => ~overlapped
    BY <2>3, BoardAlone
  <2>5. UNCHANGED <<task, trash, screen>>
    BY DEF EnsureProjectMembers
  <2>6. /\ \A p \in Projects : /\ project'[p].leader = project[p].leader
                               /\ project'[p].made = project[p].made
                               /\ \A s \in Staff \ named :
                                    s \in project'[p].members <=> s \in project[p].members
        /\ r.in \in Projects => named \subseteq project'[r.in].members
    <3>1. CASE named = {}
      BY <1>4, <3>1
    <3>2. CASE named # {}
      <4>1. PICK p \in Projects : p = r.in
        BY <1>4, <3>2 DEF Exists
      <4>2. PICK row : row = [project[p] EXCEPT !.members = @ \cup named]
        OBVIOUS
      <4>3. /\ row.leader = project[p].leader /\ row.made = project[p].made
            /\ row.members = project[p].members \cup named
        BY <4>2 DEF ConcernInv, OwnersInv, BoardInv, TaskTypeOK, ProjectRows
      <4>4. project'[p] = row /\ \A d \in Projects : d # p => project'[d] = project[d]
        BY <1>4, <3>2, <4>1, <4>2 DEF ConcernInv, OwnersInv, BoardInv, TaskTypeOK
      <4>5. QED
        BY <4>1, <4>3, <4>4
    <3>3. QED
      BY <3>1, <3>2
  <2>7. ASSUME ~overlapped' PROVE ConcernsInTurn(q)'
    <3>1. /\ named \subseteq r.concerns /\ Exists(r.in)
          /\ r.next = "restore" => task[r.id] = NoTask /\ Entry(r) \in trash /\ r.named \subseteq r.concerns
          /\ r.next = "publish" /\ r.id \in Tasks =>
               task[r.id] # NoTask /\ task[r.id].in = r.in /\ task[r.id].owners = r.named
      BY <1>1, <1>2, <1>3, <2>4, <2>7 DEF ConcernsInTurn
    <3>2. Exists(q.in)' /\ r.in \in Projects
      BY <2>2, <2>6, <3>1 DEF Exists
    <3>3. CASE r.next = "create"
      BY <1>2, <2>2, <2>6, <3>1, <3>2, <3>3 DEF ConcernsInTurn
    <3>4. CASE r.next = "restore"
      <4>1. Entry(q) = Entry(r)
        BY <2>2, <3>4 DEF Entry
      <4>2. QED
        BY <1>2, <2>2, <2>5, <2>6, <3>1, <3>2, <3>4, <4>1 DEF ConcernsInTurn, Entry
    <3>5. CASE r.next = "publish"
      <4>1. ASSUME q.id \in Tasks, NEW s \in task[q.id].owners PROVE MayTouch(s, task[q.id])'
        <5>1. PICK t \in Tasks : t = q.id
          BY <4>1
        <5>2. /\ task'[t] = task[t] /\ task[t].in = r.in /\ s \in task[t].owners
              /\ s \in named
          BY <1>2, <2>2, <2>5, <3>1, <3>5, <4>1, <5>1, OwnersAreStaff DEF ConcernInv, OwnersInv
        <5>3. s \in project'[r.in].members
          BY <2>6, <3>2, <5>2
        <5>4. MayTouch(s, task[t])'
          BY <2>2, <3>2, <5>2, <5>3 DEF MayTouch, MayEnter, IsVisibleTo
        <5>5. QED
          BY <5>1, <5>4 DEF MayTouch, MayEnter, IsVisibleTo
      <4>2. QED
        BY <1>2, <2>2, <2>5, <3>1, <3>5, <4>1 DEF ConcernsInTurn
    <3>6. QED
      BY <2>2, <3>3, <3>4, <3>5
  <2>8. ASSUME ~overlapped', NEW s \in Staff, NotLeading(s)', ~WillShow(q, s)
        PROVE  NotLeading(s) /\ ~WillShow(r, s) /\ Board(s)' = Board(s)
    <3>1. s \notin r.concerns /\ s \notin Admins
      BY <2>2, <2>8 DEF WillShow
    <3>2. s \notin named
      BY <1>1, <1>2, <1>3, <2>4, <2>8, <3>1 DEF ConcernsInTurn
    <3>3. NotLeading(s)
      BY <2>6, <2>8 DEF NotLeading
    <3>4. \A t \in Tasks : Sees(s, t)' <=> Sees(s, t)
      BY <2>5, <2>6, <3>2 DEF Sees, Exists
    <3>5. QED
      BY <2>8, <3>1, <3>3, <3>4, MemberSeesTheSame DEF WillShow
  <2>9. QED
    BY <1>1, <1>4, <2>3, <2>5, <2>7, <2>8, ConcernKept
<1>5. CASE ~(named = {} \/ Exists(r.in)) /\ Answer(h)
  <2>1. BoardMoves(h, NoRequest)
    BY <1>1, <1>5 DEF BoardMoves, Answer, AtRest
  <2>2. overlapped'
    BY <1>1, <1>3, <1>5, <2>1, BoardAlone DEF ConcernsInTurn
  <2>3. QED
    BY <2>1, <2>2, ConcernKept
<1>6. QED
  BY <1>1, <1>2, <1>4, <1>5 DEF EnsureProjectMembers

LEMMA PublishInTurn ==
  ASSUME ConcernInv, OwnersInv', NEW h \in Handlers, Publish(h) PROVE ConcernInv'
<1>1. PICK r \in TellingRequests : r = request[h] /\ r.op = "publish"
  BY BoardRequestsByOp DEF Publish, ConcernInv, OwnersInv, BoardInv
<1>2. PICK q : q = [r EXCEPT !.op = "notify"]
  OBVIOUS
<1>3. q.op = "notify"
  BY <1>2, SameButItsStep
<1>4. BoardMoves(h, q) /\ ConcernsInTurn(q)'
  BY <1>1, <1>2, <1>3 DEF Publish, BoardMoves, AtRest, ConcernsInTurn
<1>5. UNCHANGED <<project, task, broken>> /\ Reload(EventRecipients(r.concerns, r.in))
  BY <1>1 DEF Publish
<1>6. \A s \in Staff : Board(s)' = Board(s) /\ (NotLeading(s)' => NotLeading(s))
  BY <1>5, SameBoard DEF NotLeading
<1>7. ASSUME NEW s \in Staff PROVE screen'[s] = Board(s) \/ (~WillShow(r, s) /\ screen'[s] = screen[s])
  <2>1. r.concerns \subseteq EventRecipients(r.concerns, r.in)
    BY DEF EventRecipients
  <2>2. screen'[s] = IF s \in EventRecipients(r.concerns, r.in) \cup Admins THEN Board(s) ELSE screen[s]
    BY <1>5 DEF Reload
  <2>3. QED
    BY <2>1, <2>2 DEF WillShow
<1>8. QED
  BY <1>1, <1>4, <1>5, <1>6, <1>7, ConcernKept

LEMMA NotifyInTurn ==
  ASSUME ConcernInv, OwnersInv', NEW h \in Handlers, NotifyAssignees(h) PROVE ConcernInv'
<1>1. BoardMoves(h, NoRequest) /\ ConcernsInTurn(NoRequest)' /\ \A s : ~WillShow(request[h], s)
  BY RestInTurn DEF NotifyAssignees, BoardMoves, Answer, AtRest, NoRequest, WillShow
<1>2. UNCHANGED <<project, task, screen, broken>>
  BY DEF NotifyAssignees
<1>3. \A s \in Staff : Board(s)' = Board(s) /\ (NotLeading(s)' => NotLeading(s))
  BY <1>2, SameBoard DEF NotLeading
<1>4. QED
  BY <1>1, <1>2, <1>3, ConcernKept

\* A request that changes nothing and ends.
LEMMA EndsInTurn ==
  ASSUME ConcernInv, OwnersInv', NEW h \in Handlers, ~AtRest(h), Answer(h), UNCHANGED <<project, task, screen>>,
         broken => broken',
         ~overlapped' /\ ~broken' => \A s : ~WillShow(request[h], s)
  PROVE  ConcernInv'
<1>1. BoardMoves(h, NoRequest) /\ ConcernsInTurn(NoRequest)'
  BY RestInTurn DEF BoardMoves, Answer, NoRequest
<1>2. \A s \in Staff : Board(s)' = Board(s) /\ (NotLeading(s)' => NotLeading(s))
  BY SameBoard DEF NotLeading
<1>3. QED
  BY <1>1, <1>2, ConcernKept

\* A request that changes one task, which neither those who are not concerned saw
\* before nor see now.
LEMMA WriteInTurn ==
  ASSUME ConcernInv, OwnersInv', NEW h \in Handlers, NEW q, BoardMoves(h, q),
         UNCHANGED <<project, screen, broken>>, NEW t \in Tasks, NEW row,
         task' = [task EXCEPT ![t] = row],
         ~overlapped' => ConcernsInTurn(q)',
         ~overlapped' => \A s \in Staff :
           ~WillShow(q, s) => /\ ~WillShow(request[h], s) /\ s \notin Admins
                              /\ s \notin task[t].owners /\ s \notin row.owners
  PROVE  ConcernInv'
<1>1. ASSUME ~overlapped', NEW s \in Staff, NotLeading(s)', ~WillShow(q, s)
      PROVE  NotLeading(s) /\ ~WillShow(request[h], s) /\ Board(s)' = Board(s)
  <2>1. NotLeading(s)
    BY <1>1 DEF NotLeading
  <2>2. task'[t] = row /\ \A u \in Tasks : u # t => task'[u] = task[u]
    BY DEF ConcernInv, OwnersInv, BoardInv, TaskTypeOK
  <2>3. \A u \in Tasks : Sees(s, u)' <=> Sees(s, u)
    BY <1>1, <2>2 DEF Sees, Exists
  <2>4. QED
    BY <1>1, <2>1, <2>3, MemberSeesTheSame
<1>2. QED
  BY <1>1, ConcernKept

\* The writes of a task.
LEMMA CreateInTurn ==
  ASSUME ConcernInv, OwnersInv', NEW h \in Handlers, CreateTask(h) PROVE ConcernInv'
<1>1. PICK r \in ChangeRequests : r = request[h] /\ r.op = "create"
  BY BoardRequestsByOp DEF CreateTask, ConcernInv, OwnersInv, BoardInv
<1>2. UNCHANGED <<project, screen>>
  BY DEF CreateTask
<1>3. CASE broken' = TRUE /\ Answer(h) /\ UNCHANGED task
  BY <1>1, <1>2, <1>3, EndsInTurn DEF AtRest
<1>4. ASSUME NEW t \in Tasks, Unused(t), r.named \subseteq Staff, Exists(r.in), UNCHANGED broken,
             task' = [task EXCEPT ![t] = [in |-> r.in, owners |-> r.named, done |-> FALSE]],
             Continue(h, [r EXCEPT !.op = "publish", !.id = t])
      PROVE  ConcernInv'
  <2>1. PICK q : q = [r EXCEPT !.op = "publish", !.id = t]
    OBVIOUS
  <2>2. q.op = "publish" /\ q.id = t /\ q.concerns = r.concerns
    BY <2>1 DEF ChangeRequests
  <2>3. PICK row : row = [in |-> r.in, owners |-> r.named, done |-> FALSE]
    OBVIOUS
  <2>4. row.in = r.in /\ row.owners = r.named /\ task[t].owners = {}
    BY <1>4, <2>3 DEF Unused, NoTask
  <2>5. BoardMoves(h, q)
    BY <1>1, <1>4, <2>1 DEF BoardMoves, AtRest
  <2>6. ~overlapped' => /\ r.named \subseteq r.concerns
                        /\ r.named \subseteq project[r.in].members
    <3>1. ~overlapped' => ConcernsInTurn(r)
      BY <1>1, <2>5, BoardAlone DEF ConcernInv
    <3>2. QED
      BY <1>1, <1>4, <3>1 DEF ConcernsInTurn
  <2>7. task'[t] = row
    BY <1>4, <2>3 DEF ConcernInv, OwnersInv, BoardInv, TaskTypeOK
  <2>8. ASSUME ~overlapped', NEW s \in row.owners PROVE MayTouch(s, task[t])'
    BY <1>2, <1>4, <2>4, <2>6, <2>7, <2>8 DEF MayTouch, MayEnter, IsVisibleTo, Exists
  <2>9. ~overlapped' => ConcernsInTurn(q)'
    <3>1. ~overlapped' => \A s \in task'[q.id].owners : MayTouch(s, task[q.id])'
      BY <2>2, <2>7, <2>8 DEF MayTouch, MayEnter, IsVisibleTo
    <3>2. task'[q.id] # NoTask
      BY <1>4, <2>2, <2>4, <2>7, BoardAssumption DEF Exists, NoTask
    <3>3. QED
      BY <2>2, <3>1, <3>2 DEF ConcernsInTurn
  <2>10. ~overlapped' => \A s \in Staff :
           ~WillShow(q, s) => /\ ~WillShow(request[h], s) /\ s \notin Admins
                              /\ s \notin task[t].owners /\ s \notin row.owners
    BY <1>1, <2>2, <2>4, <2>6 DEF WillShow
  <2>11. task' = [task EXCEPT ![t] = row]
    BY <1>4, <2>3
  <2>12. QED
    BY <1>2, <1>4, <2>5, <2>9, <2>10, <2>11, WriteInTurn
<1>5. QED
  BY <1>1, <1>3, <1>4 DEF CreateTask

LEMMA UpdateInTurn ==
  ASSUME ConcernInv, OwnersInv', NEW h \in Handlers, UpdateTask(h) PROVE ConcernInv'
<1>1. PICK r \in UpdateRequests : r = request[h] /\ r.op = "update"
  BY BoardRequestsByOp DEF UpdateTask, ConcernInv, OwnersInv, BoardInv
<1>2. PICK t \in Tasks : t = r.id
  BY DEF UpdateRequests
<1>3. UNCHANGED <<project, screen, broken>> /\ \A s : ~WillShow(request[h], s)
  BY <1>1 DEF UpdateTask, WillShow
<1>4. CASE Answer(h) /\ UNCHANGED task
  BY <1>1, <1>3, <1>4, EndsInTurn DEF AtRest
<1>5. CASE task[t] # NoTask /\ Exists(r.in) /\ (r.names => r.named \subseteq Staff)
  <2>1. PICK q : q = [op |-> IF r.names THEN "join" ELSE "publish",
                      next |-> "publish", by |-> r.by, id |-> r.id, in |-> r.in,
                      names |-> r.names, named |-> r.named, before |-> r.before, concerns |-> r.concerns]
    OBVIOUS
  <2>2. /\ q.op = IF r.names THEN "join" ELSE "publish"
        /\ q.next = "publish" /\ q.id = t /\ q.in = r.in /\ q.named = r.named /\ q.before = r.before
        /\ q.concerns = r.concerns /\ q.names = r.names
    BY <1>2, <2>1
  <2>3. /\ task' = [task EXCEPT ![t].in = r.in, ![t].owners = IF r.names THEN r.named ELSE @]
        /\ BoardMoves(h, q)
    BY <1>1, <1>2, <1>5, <2>1 DEF UpdateTask, BoardMoves, AtRest
  <2>4. PICK x \in Rows : x = task[t]
    BY <1>5, TasksOnTheBoard DEF ConcernInv, OwnersInv
  <2>5. PICK row : row = [x EXCEPT !.in = r.in, !.owners = IF r.names THEN r.named ELSE @]
    OBVIOUS
  <2>6. /\ row.in = r.in /\ row.owners = IF r.names THEN r.named ELSE x.owners
        /\ row \in Rows
    BY <1>1, <1>5, <2>4, <2>5 DEF Rows, Exists
  <2>7. task' = [task EXCEPT ![t] = row] /\ task'[t] = row
    BY <2>3, <2>4, <2>5 DEF ConcernInv, OwnersInv, BoardInv, TaskTypeOK
  <2>8. ~overlapped' => /\ x.owners = r.before /\ r.before \subseteq r.concerns
                        /\ r.names => r.named \subseteq r.concerns
    <3>1. ~overlapped' => ConcernsInTurn(r)
      BY <1>1, <2>3, BoardAlone DEF ConcernInv
    <3>2. QED
      BY <1>1, <1>2, <2>4, <3>1 DEF ConcernsInTurn
  <2>9. ASSUME ~overlapped' PROVE ConcernsInTurn(q)'
    <3>1. CASE r.names
      <4>1. row # NoTask
        BY <2>6, RowsAreTasks
      <4>2. Exists(q.in)'
        BY <1>3, <1>5, <2>2 DEF Exists
      <4>3. task'[q.id] = row /\ row.in = q.in /\ row.owners = q.named
        BY <2>2, <2>6, <2>7, <3>1
      <4>4. q.op = "join" /\ q.next = "publish" /\ q.named \cap Staff \subseteq q.concerns
        BY <2>2, <2>8, <2>9, <3>1
      <4>5. QED
        BY <4>1, <4>2, <4>3, <4>4 DEF ConcernsInTurn
    <3>2. CASE ~r.names
      BY <2>2, <2>6, <2>7, <2>8, <2>9, <3>2 DEF ConcernsInTurn
    <3>3. QED
      BY <3>1, <3>2
  <2>10. ~overlapped' => \A s \in Staff :
           ~WillShow(q, s) => /\ ~WillShow(request[h], s) /\ s \notin Admins
                              /\ s \notin task[t].owners /\ s \notin row.owners
    BY <1>3, <2>2, <2>4, <2>6, <2>8 DEF WillShow
  <2>11. QED
    BY <1>3, <2>3, <2>7, <2>9, <2>10, WriteInTurn
<1>6. QED
  BY <1>1, <1>2, <1>4, <1>5 DEF UpdateTask

LEMMA MoveInTurn ==
  ASSUME ConcernInv, OwnersInv', NEW h \in Handlers, MoveTask(h) PROVE ConcernInv'
<1>1. PICK r \in MoveRequests : r = request[h] /\ r.op = "move"
  BY BoardRequestsByOp DEF MoveTask, ConcernInv, OwnersInv, BoardInv
<1>2. PICK t \in Tasks : t = r.id
  BY DEF MoveRequests
<1>3. UNCHANGED <<project, screen, broken>> /\ \A s : ~WillShow(request[h], s)
  BY <1>1 DEF MoveTask, WillShow
<1>4. CASE Answer(h) /\ UNCHANGED task
  BY <1>1, <1>3, <1>4, EndsInTurn DEF AtRest
<1>5. CASE task[t] # NoTask
  <2>1. PICK x \in Rows : x = task[t]
    BY <1>5, TasksOnTheBoard DEF ConcernInv, OwnersInv
  <2>2. PICK q : q = [op |-> "publish", by |-> r.by, id |-> r.id, in |-> x.in,
                      names |-> FALSE, named |-> x.owners, before |-> x.owners,
                      concerns |-> x.owners]
    OBVIOUS
  <2>3. q.op = "publish" /\ q.id = t /\ q.before = x.owners /\ q.concerns = x.owners
      /\ q.names = FALSE
    BY <1>2, <2>2
  <2>4. task' = [task EXCEPT ![t].done = r.done] /\ BoardMoves(h, q)
    BY <1>1, <1>2, <1>5, <2>1, <2>2 DEF MoveTask, BoardMoves, AtRest
  <2>5. PICK row : row = [x EXCEPT !.done = r.done]
    OBVIOUS
  <2>6. row.owners = x.owners
    BY <2>5 DEF Rows
  <2>7. task' = [task EXCEPT ![t] = row] /\ task'[t] = row
    BY <2>1, <2>4, <2>5 DEF ConcernInv, OwnersInv, BoardInv, TaskTypeOK
  <2>8. ConcernsInTurn(q)'
    BY <2>3, <2>6, <2>7 DEF ConcernsInTurn
  <2>9. ~overlapped' => \A s \in Staff :
          ~WillShow(q, s) => /\ ~WillShow(request[h], s) /\ s \notin Admins
                             /\ s \notin task[t].owners /\ s \notin row.owners
    BY <1>3, <2>1, <2>3, <2>6 DEF WillShow
  <2>10. QED
    BY <1>3, <2>4, <2>7, <2>8, <2>9, WriteInTurn
<1>6. QED
  BY <1>1, <1>2, <1>4, <1>5 DEF MoveTask

LEMMA RemoveInTurn ==
  ASSUME ConcernInv, OwnersInv', NEW h \in Handlers, RemoveTask(h) PROVE ConcernInv'
<1>1. PICK r \in RemoveRequests : r = request[h] /\ r.op \in {"trash", "archive"}
  BY BoardRequestsByOp DEF RemoveTask, ConcernInv, OwnersInv, BoardInv
<1>2. PICK t \in Tasks : t = r.id
  BY DEF RemoveRequests
<1>3. UNCHANGED <<project, screen, broken>> /\ \A s : ~WillShow(request[h], s)
  BY <1>1 DEF RemoveTask, WillShow
<1>4. CASE Answer(h) /\ UNCHANGED task
  BY <1>1, <1>3, <1>4, EndsInTurn DEF AtRest
<1>5. CASE /\ task' = [task EXCEPT ![t] = NoTask]
           /\ Continue(h, [r EXCEPT !.op = "publish", !.in = GetProjectIdByName(r.team)])
  <2>1. PICK q : q = [r EXCEPT !.op = "publish", !.in = GetProjectIdByName(r.team)]
    OBVIOUS
  <2>2. q.op = "publish" /\ q.id = t /\ q.concerns = r.concerns /\ q.names = FALSE
    BY <1>2, <2>1 DEF RemoveRequests
  <2>3. BoardMoves(h, q)
    BY <1>1, <1>5, <2>1 DEF BoardMoves, AtRest
  <2>4. ~overlapped' => task[t].owners \subseteq r.concerns
    <3>1. ~overlapped' => ConcernsInTurn(r)
      BY <1>1, <2>3, BoardAlone DEF ConcernInv
    <3>2. QED
      BY <1>1, <1>2, <3>1 DEF ConcernsInTurn
  <2>5. task'[t] = NoTask /\ NoTask.owners = {}
    BY <1>5 DEF ConcernInv, OwnersInv, BoardInv, TaskTypeOK, NoTask
  <2>6. ConcernsInTurn(q)'
    BY <2>2, <2>5 DEF ConcernsInTurn
  <2>7. ~overlapped' => \A s \in Staff :
          ~WillShow(q, s) => /\ ~WillShow(request[h], s) /\ s \notin Admins
                             /\ s \notin task[t].owners /\ s \notin NoTask.owners
    BY <1>3, <2>2, <2>4, <2>5 DEF WillShow
  <2>8. QED
    BY <1>3, <1>5, <2>3, <2>6, <2>7, WriteInTurn
<1>6. QED
  BY <1>1, <1>2, <1>4, <1>5 DEF RemoveTask

LEMMA RestoreInTurn ==
  ASSUME ConcernInv, OwnersInv', NEW h \in Handlers, RestoreTask(h) PROVE ConcernInv'
<1>1. PICK r \in RestoreRequests : r = request[h] /\ r.op = "restore"
  BY BoardRequestsByOp DEF RestoreTask, ConcernInv, OwnersInv, BoardInv
<1>2. PICK t \in Tasks : t = r.id
  BY DEF RestoreRequests
<1>3. UNCHANGED <<project, screen, broken>> /\ r.named = r.before
  BY <1>1 DEF RestoreTask, ConcernInv, OwnersInv, Carries
<1>4. ~overlapped => /\ task[t] = NoTask /\ Entry(r) \in trash /\ r.named \subseteq r.concerns
                     /\ Exists(r.in) /\ r.named \cap Staff \subseteq project[r.in].members
  BY <1>1, <1>2 DEF ConcernInv, ConcernsInTurn
<1>5. CASE Answer(h) /\ UNCHANGED task /\ ~(task[t] = NoTask /\ Entry(r) \in trash /\ Exists(r.in))
  <2>1. ~AtRest(h) /\ overlapped'
    BY <1>1, <1>4, <1>5 DEF AtRest, Answer, Continue, ConcernInv
  <2>2. QED
    BY <1>3, <1>5, <2>1, EndsInTurn
<1>6. CASE /\ task[t] = NoTask /\ Continue(h, [r EXCEPT !.op = "publish"])
           /\ task' = [task EXCEPT ![t] = [in |-> r.in, owners |-> r.named, done |-> r.done]]
  <2>1. PICK q : q = [r EXCEPT !.op = "publish"]
    OBVIOUS
  <2>2. q.op = "publish" /\ q.id = t /\ q.concerns = r.concerns /\ q.before = r.before
    BY <1>2, <2>1, SameButItsStep DEF TellingRequests
  <2>3. BoardMoves(h, q)
    BY <1>1, <1>6, <2>1 DEF BoardMoves, AtRest
  <2>4. PICK row : row = [in |-> r.in, owners |-> r.named, done |-> r.done]
    OBVIOUS
  <2>5. row.in = r.in /\ row.owners = r.named /\ task'[t] = row /\ task[t].owners = {}
    BY <1>6, <2>4 DEF ConcernInv, OwnersInv, BoardInv, TaskTypeOK, NoTask
  <2>6. ASSUME ~overlapped' PROVE ConcernsInTurn(q)'
    <3>1. Exists(r.in)' /\ r.named \subseteq project'[r.in].members
      BY <1>3, <1>4, <2>3, <2>6, BoardAlone DEF RestoreRequests, Exists
    <3>2. row # NoTask
      BY <1>1, <2>4, <3>1, BoardAssumption DEF NoTask, RestoreRequests
    <3>3. \A s \in row.owners : MayTouch(s, task[t])'
      BY <2>5, <3>1 DEF MayTouch, MayEnter, IsVisibleTo
    <3>4. QED
      BY <2>2, <2>5, <3>2, <3>3 DEF ConcernsInTurn, MayTouch, MayEnter, IsVisibleTo
  <2>7. ~overlapped' => r.named \subseteq r.concerns
    BY <1>4, <2>3, BoardAlone
  <2>8. ~overlapped' => \A s \in Staff :
          ~WillShow(q, s) => /\ ~WillShow(request[h], s) /\ s \notin Admins
                             /\ s \notin task[t].owners /\ s \notin row.owners
    BY <1>1, <2>2, <2>5, <2>7 DEF WillShow
  <2>9. task' = [task EXCEPT ![t] = row]
    BY <1>6, <2>4
  <2>10. QED
    BY <1>3, <2>3, <2>6, <2>8, <2>9, WriteInTurn
<1>7. QED
  BY <1>1, <1>2, <1>5, <1>6 DEF RestoreTask

LEMMA ConcernStart == BoardInit => ConcernInv
<1> SUFFICES ASSUME BoardInit PROVE ConcernInv
  OBVIOUS
<1>1. (\A h \in Handlers : request[h] = NoRequest) /\ overlapped = FALSE
  BY DEF BoardInit, ApiInit
<1>2. BoardOneInFlight /\ ConcernsInTurn(NoRequest)
  BY <1>1 DEF BoardOneInFlight, AtRest, NoRequest, ConcernsInTurn
<1>3. ShownOrPending
  BY DEF BoardInit, ShownOrPending, Board
<1>4. QED
  BY <1>1, <1>2, <1>3, OwnersStart DEF ConcernInv

LEMMA ConcernStep ==
  ConcernInv /\ [TaskNext \/ ProjectNext \/ BoardFailure]_<<boardVars, apiVars>> => ConcernInv'
<1> SUFFICES ASSUME ConcernInv, [TaskNext \/ ProjectNext \/ BoardFailure]_<<boardVars, apiVars>>
             PROVE  ConcernInv'
  OBVIOUS
<1>1. OwnersInv'
  BY OwnersStep DEF ConcernInv
<1>2. CASE UNCHANGED <<boardVars, apiVars>>
  <2>1. UNCHANGED <<project, task, trash, screen, broken, request, overlapped>>
    BY <1>2 DEF boardVars, apiVars
  <2>2. \A s \in Staff : Board(s)' = Board(s)
    BY <2>1, SameBoard
  <2>3. ShownOrPending => ShownOrPending'
    BY <2>1, <2>2 DEF ShownOrPending, NotLeading
  <2>4. \A h \in Handlers : ConcernsInTurn(request[h]) => ConcernsInTurn(request[h])'
    BY <2>1 DEF ConcernsInTurn, Entry, Exists, MayTouch, MayEnter, IsVisibleTo
  <2>5. QED
    BY <1>1, <2>1, <2>3, <2>4 DEF ConcernInv, BoardOneInFlight, AtRest
<1>3. CASE BoardFailure
  <2>1. PICK h \in Handlers : BoardMoves(h, NoRequest)
    BY <1>3 DEF BoardFailure, BreakOff, Answer, BoardMoves
  <2>2. ConcernsInTurn(NoRequest)' /\ broken' = TRUE
    BY <1>3, RestInTurn DEF BoardFailure, NoRequest
  <2>3. QED
    BY <1>1, <2>1, <2>2, ConcernKept
<1>4. CASE ProjectNext
  BY <1>1, <1>4, ProjectsInTurn
<1>5. CASE TaskNext
  <2>1. ASSUME NEW h \in Handlers, TaskStep(h) PROVE ConcernInv'
    BY <1>1, <2>1, JoinInTurn, PublishInTurn, NotifyInTurn, CreateInTurn, UpdateInTurn, MoveInTurn,
       RemoveInTurn, RestoreInTurn DEF TaskStep
  <2>2. QED
    BY <1>1, <1>5, <2>1, ArrivalsInTurn DEF TaskNext
<1>6. QED
  BY <1>2, <1>3, <1>4, <1>5

\* Unless a request failed between two writes, owners are told they own a task,
\* whatever interleaves (getNewAssigneeIds); one request after the other they may
\* open it when it is published (ensureProjectMembers), and everyone who leads no
\* project sees the board as it is once no request is under way
\* (taskEventRecipientStaffIds).
THEOREM WhoIsConcernedLearns == BoardSpec => []WhoIsConcernedKnows
<1>1. ConcernInv => WhoIsConcernedKnows
  <2> SUFFICES ASSUME ConcernInv PROVE WhoIsConcernedKnows
    OBVIOUS
  <2>1. NamedMayOpenIt
    BY DEF ConcernInv, NamedMayOpenIt, ConcernsInTurn
  <2>2. BoardsAreCurrent
    BY DEF ConcernInv, ShownOrPending, BoardsAreCurrent, NotLeading, AtRest, WillShow
  <2>3. QED
    BY <2>1, <2>2, OwnersGet DEF ConcernInv, WhoIsConcernedKnows
<1>2. QED
  BY <1>1, ConcernStart, ConcernStep, PTL DEF BoardSpec

-----------------------------------------------------------------------------
(* The live events *)

USE EventAssumption

Events == [rev : 1..MaxRevision, to : Audiences]

StreamRequests ==
  {NoRequest}
    \cup [op : {"event", "pg_notify"}, event : Events]
    \cup [op : {"listen"}, c : Clients]
    \cup [op : {"subscribe"}, c : Clients, after : 0..MaxRevision, missed : SUBSET Events]

Streams == [open : BOOLEAN, after : 0..MaxRevision, since : 0..MaxRevision]

StreamTypes ==
  /\ revision \in 0..MaxRevision /\ rows \in SUBSET Events /\ IsFiniteSet(rows)
  /\ listener \in {"none", "connecting", "up", "deaf"} /\ channel \in Seq(Events)
  /\ stream \in [Clients -> Streams]
  /\ got \in [Clients -> SUBSET (1..MaxRevision)] /\ last \in [Clients -> 0..MaxRevision]
  /\ cut \subseteq Clients /\ dropped \in BOOLEAN /\ overlapped \in BOOLEAN
  /\ request \in [Handlers -> StreamRequests]

InChannel(e) == \E i \in 1..Len(channel) : channel[i] = e

Revs == {e.rev : e \in rows}

\* What a request holds: a revision that was given to no other event, or rows
\* for its client.
StreamFits(r) ==
  /\ r.op = "event" => r.event.rev <= revision /\ r.event.rev \notin Revs
  /\ r.op = "pg_notify" => r.event \in rows
  /\ r.op = "subscribe" =>
       /\ r.after <= revision
       /\ r.missed \subseteq rows /\ \A e \in r.missed : MayReceive(r.c, e)

RevisionsAreTaken ==
  /\ \A e \in rows : e.rev <= revision
  /\ OneEventPerRevision
  /\ \A g, h \in Handlers :
       request[g].op = "event" /\ request[h].op = "event"
         /\ request[g].event.rev = request[h].event.rev => g = h

SentAreRows ==
  /\ OnlyForItsAudience
  /\ \A c \in Clients : got[c] \subseteq Revs /\ last[c] <= revision
  /\ \A i \in 1..Len(channel) : channel[i] \in rows
  /\ \A c \in Clients : stream[c].after <= stream[c].since /\ stream[c].since <= revision

StreamInv ==
  /\ StreamTypes /\ RevisionsAreTaken /\ SentAreRows
  /\ \A h \in Handlers : StreamFits(request[h])

\* A client is subscribed while the process listens, as long as the connection
\* holds.
ListenerFirst ==
  ~dropped =>
    /\ listener \in {"none", "connecting", "up"}
    /\ listener \in {"none", "connecting"} =>
         /\ channel = <<>>
         /\ \A c \in Clients : ~stream[c].open
         /\ \A h \in Handlers : request[h].op # "subscribe"
    /\ listener = "none" => \A h \in Handlers : request[h].op # "listen"

\* What was begun after a stream was opened has reached it or is on its way.
OnItsWay ==
  ~dropped =>
    \A c \in Clients, e \in rows :
      stream[c].open /\ e.rev > stream[c].since /\ MayReceive(c, e)
        => e.rev \in got[c] \/ e \in Pending \/ InChannel(e)

OpenInv == StreamInv /\ ListenerFirst /\ OnItsWay

-----------------------------------------------------------------------------
LEMMA StreamOps ==
  ASSUME NEW r \in StreamRequests
  PROVE  /\ r.op \in {"none", "event", "pg_notify", "listen", "subscribe"}
         /\ r.op \in {"event", "pg_notify"} => r \in [op : {"event", "pg_notify"}, event : Events]
         /\ r.op = "listen" => r \in [op : {"listen"}, c : Clients]
         /\ r.op = "subscribe" =>
              r \in [op : {"subscribe"}, c : Clients, after : 0..MaxRevision, missed : SUBSET Events]
BY DEF StreamRequests, NoRequest

LEMMA StreamInit == EventInit => OpenInv
<1> SUFFICES ASSUME EventInit PROVE OpenInv
  OBVIOUS
<1>1. /\ revision = 0 /\ rows = {} /\ listener = "none" /\ channel = <<>> /\ dropped = FALSE /\ cut = {}
      /\ overlapped = FALSE
      /\ stream = [c \in Clients |-> NoStream] /\ got = [c \in Clients |-> {}]
      /\ last = [c \in Clients |-> 0] /\ request = [h \in Handlers |-> NoRequest]
  BY DEF EventInit, ApiInit
<1>2. NoStream \in Streams /\ ~NoStream.open /\ NoStream.after = 0 /\ NoStream.since = 0
  BY DEF NoStream, Streams
<1>3. StreamTypes
  <2>1. IsFiniteSet(rows) /\ rows \in SUBSET Events /\ channel \in Seq(Events)
    BY <1>1, FS_EmptySet
  <2>2. request \in [Handlers -> StreamRequests] /\ stream \in [Clients -> Streams]
    BY <1>1, <1>2 DEF StreamRequests
  <2>3. got \in [Clients -> SUBSET (1..MaxRevision)] /\ last \in [Clients -> 0..MaxRevision]
    BY <1>1
  <2>4. revision \in 0..MaxRevision /\ cut \subseteq Clients
    BY <1>1
  <2>5. dropped \in BOOLEAN /\ overlapped \in BOOLEAN /\ listener \in {"none", "connecting", "up", "deaf"}
    BY <1>1
  <2>6. QED
    BY <2>1, <2>2, <2>3, <2>4, <2>5 DEF StreamTypes
<1>4. RevisionsAreTaken
  BY <1>1 DEF RevisionsAreTaken, OneEventPerRevision, NoRequest
<1>5. SentAreRows
  BY <1>1, <1>2 DEF SentAreRows, OnlyForItsAudience
<1>6. \A h \in Handlers : StreamFits(request[h])
  BY <1>1 DEF StreamFits, NoRequest
<1>7. ListenerFirst /\ OnItsWay
  BY <1>1, <1>2 DEF ListenerFirst, OnItsWay, NoRequest
<1>8. QED
  BY <1>3, <1>4, <1>5, <1>6, <1>7 DEF OpenInv, StreamInv

-----------------------------------------------------------------------------
\* The handlers after a step of one.
LEMMA StreamHandlers ==
  ASSUME StreamTypes, NEW h \in Handlers, NEW r \in StreamRequests, Hold(h, r) \/ Continue(h, r)
  PROVE  /\ request' \in [Handlers -> StreamRequests] /\ overlapped' \in BOOLEAN
         /\ request'[h] = r /\ \A g \in Handlers : g # h => request'[g] = request[g]
BY DEF StreamTypes, Hold, Continue, MeetsAnother

LEMMA RowFacts ==
  ASSUME StreamInv, NEW e \in rows
  PROVE  e \in Events /\ e.rev \in 1..MaxRevision /\ e.rev <= revision /\ e.rev \in Revs
BY DEF StreamInv, StreamTypes, RevisionsAreTaken, Events, Revs

\* The streams are sent a row.
LEMMA FanOutSends ==
  ASSUME StreamInv, NEW e \in rows, FanOut(e)
  PROVE  /\ got' \in [Clients -> SUBSET (1..MaxRevision)] /\ last' \in [Clients -> 0..MaxRevision]
         /\ \A c \in Clients : got[c] \subseteq got'[c] /\ got'[c] \subseteq Revs /\ last'[c] <= revision
         /\ \A c \in Clients : Receives(c, e) => e.rev \in got'[c] /\ last'[c] = e.rev
         /\ \A c \in Clients : ~Receives(c, e) => got'[c] = got[c] /\ last'[c] = last[c]
         /\ \A c \in Clients, d \in rows : d.rev \in got'[c] => c \in Managers \cup d.to
<1>1. e \in Events /\ e.rev \in 1..MaxRevision /\ e.rev <= revision /\ e.rev \in Revs
  BY RowFacts
<1>2. /\ got' = [c \in Clients |-> IF Receives(c, e) THEN got[c] \cup {e.rev} ELSE got[c]]
      /\ last' = [c \in Clients |-> IF Receives(c, e) THEN e.rev ELSE last[c]]
  BY DEF FanOut
<1>3. \A c \in Clients : got[c] \subseteq Revs /\ last[c] <= revision
  BY DEF StreamInv, SentAreRows
<1>4. got' \in [Clients -> SUBSET (1..MaxRevision)] /\ last' \in [Clients -> 0..MaxRevision]
  BY <1>1, <1>2 DEF StreamInv, StreamTypes
<1>5. ASSUME NEW c \in Clients, NEW d \in rows, d.rev \in got'[c] PROVE c \in Managers \cup d.to
  <2>1. CASE d.rev \in got[c]
    BY <2>1 DEF StreamInv, SentAreRows, OnlyForItsAudience
  <2>2. CASE d.rev \notin got[c]
    <3>1. Receives(c, e) /\ d.rev = e.rev
      BY <1>2, <1>5, <2>2
    <3>2. d = e
      BY <3>1 DEF StreamInv, RevisionsAreTaken, OneEventPerRevision
    <3>3. QED
      BY <3>1, <3>2 DEF Receives, MayReceive
  <2>3. QED
    BY <2>1, <2>2
<1>6. QED
  BY <1>1, <1>2, <1>3, <1>4, <1>5

\* A step that takes no revision and writes no row keeps the tables' part.
LEMMA SameRows ==
  ASSUME StreamInv, UNCHANGED <<revision, rows>>, StreamTypes', SentAreRows',
         NEW h \in Handlers, NEW r \in StreamRequests,
         request'[h] = r, \A g \in Handlers : g # h => request'[g] = request[g],
         r.op # "event", StreamFits(r)
  PROVE  StreamInv'
<1>1. RevisionsAreTaken'
  BY DEF StreamInv, RevisionsAreTaken, OneEventPerRevision
<1>2. ASSUME NEW g \in Handlers PROVE StreamFits(request[g])'
  <2>1. PICK q : q = request'[g]
    OBVIOUS
  <2>2. StreamFits(q)
    BY <2>1 DEF StreamInv
  <2>3. StreamFits(q)'
    BY <2>2 DEF StreamFits, Revs, MayReceive
  <2>4. QED
    BY <2>1, <2>3
<1>3. QED
  BY <1>1, <1>2 DEF StreamInv

LEMMA SameSent ==
  ASSUME StreamInv, UNCHANGED <<revision, rows, got, last, stream>>,
         \A i \in 1..Len(channel') : channel'[i] \in rows
  PROVE  SentAreRows'
BY DEF StreamInv, SentAreRows, OnlyForItsAudience, Revs

NoStreamRequest == NoRequest \in StreamRequests /\ StreamFits(NoRequest) /\ NoRequest.op = "none"

LEMMA NothingStreams == NoStreamRequest
BY DEF NoStreamRequest, StreamRequests, NoRequest, StreamFits

\* All that was on its way still is.
LEMMA StillOnItsWay ==
  ASSUME OpenInv, dropped' = dropped, rows' = rows,
         \A c \in Clients : got[c] \subseteq got'[c],
         \A c \in Clients : stream'[c] = stream[c] \/ ~stream'[c].open
                              \/ \A e \in rows : ~(e.rev > stream'[c].since),
         ~dropped => \A e \in rows : e \in Pending \/ InChannel(e) =>
           e \in Pending' \/ InChannel(e)'
             \/ \A c \in Clients : stream[c].open /\ e.rev > stream[c].since /\ MayReceive(c, e)
                                     => e.rev \in got'[c]
  PROVE  OnItsWay'
<1> SUFFICES ASSUME ~dropped, NEW c \in Clients, NEW e \in rows,
                    stream'[c].open, e.rev > stream'[c].since, MayReceive(c, e)
             PROVE  e.rev \in got'[c] \/ e \in Pending' \/ InChannel(e)'
  BY DEF OnItsWay, MayReceive
<1>1. stream'[c] = stream[c]
  OBVIOUS
<1>2. e.rev \in got[c] \/ e \in Pending \/ InChannel(e)
  BY <1>1 DEF OpenInv, OnItsWay
<1>3. QED
  BY <1>1, <1>2

LEMMA IsPending ==
  \A e : e \in Pending <=> \E h \in Handlers : request[h].op = "pg_notify" /\ request[h].event = e
BY DEF Pending

LEMMA BumpKeepsStreams ==
  ASSUME OpenInv, NEW h \in Handlers, NEW to \in Audiences, BumpRevision(h, to) PROVE OpenInv'
<1>1. PICK e : e = [rev |-> revision + 1, to |-> to]
  OBVIOUS
<1>2. PICK r : r = [op |-> "event", event |-> e]
  OBVIOUS
<1>3. /\ revision < MaxRevision /\ revision' = revision + 1 /\ Hold(h, r)
      /\ UNCHANGED <<rows, listener, channel, stream, got, last, cut, dropped>>
  BY <1>1, <1>2 DEF BumpRevision
<1>4. revision \in Nat /\ revision' \in 0..MaxRevision
  BY <1>3 DEF OpenInv, StreamInv, StreamTypes
<1>5. e \in Events /\ e.rev = revision + 1 /\ r \in StreamRequests /\ r.op = "event" /\ r.event = e
  BY <1>1, <1>2, <1>3, <1>4 DEF Events, StreamRequests
<1>6. /\ request' \in [Handlers -> StreamRequests] /\ overlapped' \in BOOLEAN
      /\ request'[h] = r /\ \A g \in Handlers : g # h => request'[g] = request[g]
  BY <1>3, <1>5, StreamHandlers DEF OpenInv, StreamInv
<1>7. \A d \in rows : d.rev \in Nat /\ d.rev <= revision
  BY RowFacts DEF OpenInv
<1>8. Revs' = Revs /\ e.rev \notin Revs
  BY <1>3, <1>4, <1>5, <1>7 DEF Revs
<1>9. StreamTypes'
  BY <1>3, <1>4, <1>6 DEF OpenInv, StreamInv, StreamTypes
<1>10. \A g \in Handlers : request[g].op = "event" =>
         request[g].event.rev <= revision /\ request[g].event.rev \in Nat
  BY StreamOps DEF OpenInv, StreamInv, StreamTypes, StreamFits, Events
<1>11. RevisionsAreTaken'
  <2>1. \A d \in rows' : d.rev <= revision'
    BY <1>3, <1>4, <1>7
  <2>2. OneEventPerRevision'
    BY <1>3 DEF OpenInv, StreamInv, RevisionsAreTaken, OneEventPerRevision
  <2>3. ASSUME NEW g \in Handlers, request'[g].op = "event", g # h
        PROVE  request'[g].event.rev # e.rev
    BY <1>4, <1>5, <1>6, <1>10, <2>3
  <2>4. \A g, k \in Handlers :
          request'[g].op = "event" /\ request'[k].op = "event"
            /\ request'[g].event.rev = request'[k].event.rev => g = k
    BY <1>5, <1>6, <2>3 DEF OpenInv, StreamInv, RevisionsAreTaken
  <2>5. QED
    BY <2>1, <2>2, <2>4 DEF RevisionsAreTaken
<1>12. SentAreRows'
  <2>1. \A c \in Clients : last[c] \in Nat /\ stream[c].since \in Nat
    BY DEF OpenInv, StreamInv, StreamTypes, Streams
  <2>2. QED
    BY <1>3, <1>4, <1>8, <2>1 DEF OpenInv, StreamInv, SentAreRows, OnlyForItsAudience
<1>13. ASSUME NEW g \in Handlers PROVE StreamFits(request[g])'
  <2>1. PICK q : q = request'[g]
    OBVIOUS
  <2>2. CASE g = h
    BY <1>3, <1>4, <1>5, <1>6, <1>8, <2>1, <2>2 DEF StreamFits
  <2>3. CASE g # h
    <3>1. q \in StreamRequests /\ StreamFits(q)
      BY <1>6, <2>1, <2>3 DEF OpenInv, StreamInv, StreamTypes
    <3>2. q.op = "event" => q.event.rev <= revision'
      BY <1>3, <1>4, <1>6, <1>10, <2>1, <2>3
    <3>3. q.op = "subscribe" => q.after <= revision'
      BY <1>3, <1>4, <3>1, StreamOps DEF StreamFits
    <3>4. StreamFits(q)'
      BY <1>3, <1>8, <3>1, <3>2, <3>3 DEF StreamFits, MayReceive
    <3>5. QED
      BY <2>1, <3>4
  <2>4. QED
    BY <2>2, <2>3
<1>14. ListenerFirst'
  BY <1>3, <1>5, <1>6 DEF OpenInv, ListenerFirst
<1>15. OnItsWay'
  <2>1. AtRest(h)
    BY <1>3 DEF Hold
  <2>2. \A d \in Pending : d \in Pending'
    BY <1>6, <2>1, IsPending DEF AtRest, Pending
  <2>3. QED
    BY <1>3, <2>2, StillOnItsWay DEF InChannel
<1>16. QED
  BY <1>9, <1>11, <1>12, <1>13, <1>14, <1>15 DEF OpenInv, StreamInv

\* The handler that writes a row notifies of it next.
LEMMA InsertKeepsStreams ==
  ASSUME OpenInv, NEW h \in Handlers, InsertEvent(h) PROVE OpenInv'
<1>1. PICK r : r = request[h]
  OBVIOUS
<1>2. r \in [op : {"event", "pg_notify"}, event : Events] /\ r.op = "event" /\ StreamFits(r)
  BY <1>1, StreamOps DEF InsertEvent, OpenInv, StreamInv, StreamTypes
<1>3. PICK e \in Events : e = r.event
  BY <1>2
<1>4. PICK next : next = [r EXCEPT !.op = "pg_notify"]
  OBVIOUS
<1>5. next \in StreamRequests /\ next.op = "pg_notify" /\ next.event = e
  BY <1>2, <1>3, <1>4 DEF StreamRequests
<1>6. /\ rows' = rows \cup {e} /\ Continue(h, next)
      /\ UNCHANGED <<revision, listener, channel, stream, got, last, cut, dropped>>
  BY <1>1, <1>3, <1>4 DEF InsertEvent
<1>7. /\ request' \in [Handlers -> StreamRequests] /\ overlapped' \in BOOLEAN
      /\ request'[h] = next /\ \A g \in Handlers : g # h => request'[g] = request[g]
  BY <1>5, <1>6, StreamHandlers DEF OpenInv, StreamInv
<1>8. e.rev <= revision /\ e.rev \notin Revs /\ e \notin rows /\ Revs' = Revs \cup {e.rev}
  BY <1>2, <1>3, <1>6 DEF StreamFits, Revs
<1>9. StreamTypes'
  <2>1. IsFiniteSet(rows')
    BY <1>6, FS_AddElement DEF OpenInv, StreamInv, StreamTypes
  <2>2. QED
    BY <1>6, <1>7, <2>1 DEF OpenInv, StreamInv, StreamTypes
<1>10. ASSUME NEW g \in Handlers, g # h, request[g].op = "event" PROVE request[g].event.rev # e.rev
  BY <1>1, <1>2, <1>3, <1>10 DEF OpenInv, StreamInv, RevisionsAreTaken
<1>11. RevisionsAreTaken'
  <2>1. \A d \in rows' : d.rev <= revision'
    BY <1>6, <1>8 DEF OpenInv, StreamInv, RevisionsAreTaken
  <2>2. OneEventPerRevision'
    BY <1>6, <1>8 DEF OpenInv, StreamInv, RevisionsAreTaken, OneEventPerRevision, Revs
  <2>3. \A g, k \in Handlers :
          request'[g].op = "event" /\ request'[k].op = "event"
            /\ request'[g].event.rev = request'[k].event.rev => g = k
    BY <1>5, <1>7 DEF OpenInv, StreamInv, RevisionsAreTaken
  <2>4. QED
    BY <2>1, <2>2, <2>3 DEF RevisionsAreTaken
<1>12. SentAreRows'
  <2>1. \A c \in Clients : got[c] \subseteq Revs
    BY DEF OpenInv, StreamInv, SentAreRows
  <2>2. OnlyForItsAudience'
    BY <1>6, <1>8, <2>1 DEF OpenInv, StreamInv, SentAreRows, OnlyForItsAudience
  <2>3. QED
    BY <1>6, <1>8, <2>1, <2>2 DEF OpenInv, StreamInv, SentAreRows
<1>13. ASSUME NEW g \in Handlers PROVE StreamFits(request[g])'
  <2>1. PICK q : q = request'[g]
    OBVIOUS
  <2>2. CASE g = h
    BY <1>5, <1>6, <1>7, <2>1, <2>2 DEF StreamFits
  <2>3. CASE g # h
    <3>1. StreamFits(q) /\ (q.op = "event" => q.event.rev # e.rev)
      BY <1>7, <1>10, <2>1, <2>3 DEF OpenInv, StreamInv
    <3>2. StreamFits(q)'
      BY <1>6, <1>8, <3>1 DEF StreamFits, MayReceive
    <3>3. QED
      BY <2>1, <3>2
  <2>4. QED
    BY <2>2, <2>3
<1>14. ListenerFirst'
  BY <1>5, <1>6, <1>7 DEF OpenInv, ListenerFirst
<1>15. OnItsWay'
  <2>1. e \in Pending'
    BY <1>5, <1>7 DEF Pending
  <2>2. \A d \in Pending : d \in Pending'
    BY <1>1, <1>2, <1>7 DEF Pending
  <2>3. \A d : InChannel(d) => InChannel(d)'
    BY <1>6 DEF InChannel
  <2>4. QED
    BY <1>6, <2>1, <2>2, <2>3 DEF OpenInv, OnItsWay, MayReceive
<1>16. QED
  BY <1>9, <1>11, <1>12, <1>13, <1>14, <1>15 DEF OpenInv, StreamInv

\* A request that only reads, or that gives up what it holds.
LEMMA SameStreams ==
  ASSUME OpenInv, UNCHANGED <<revision, rows, channel, stream, got, last>>,
         listener' \in {"none", "connecting", "up", "deaf"}, cut' \subseteq Clients, dropped' \in BOOLEAN,
         NEW h \in Handlers, NEW r \in StreamRequests, Hold(h, r) \/ Continue(h, r),
         r.op # "event", StreamFits(r),
         ~dropped' => ~dropped /\ request[h].op # "pg_notify"
  PROVE  StreamInv' /\ OnItsWay'
<1>1. /\ request' \in [Handlers -> StreamRequests] /\ overlapped' \in BOOLEAN
      /\ request'[h] = r /\ \A g \in Handlers : g # h => request'[g] = request[g]
  BY StreamHandlers DEF OpenInv, StreamInv
<1>2. StreamTypes'
  BY <1>1 DEF OpenInv, StreamInv, StreamTypes
<1>3. SentAreRows'
  BY SameSent DEF OpenInv, StreamInv, SentAreRows
<1>4. StreamInv'
  BY <1>1, <1>2, <1>3, SameRows DEF OpenInv
<1>5. CASE ~dropped'
  <2>1. \A e \in Pending : e \in Pending'
    BY <1>1, <1>5 DEF Pending
  <2>2. \A e : InChannel(e) => InChannel(e)'
    BY DEF InChannel
  <2>3. dropped' = dropped
    BY <1>5 DEF OpenInv, StreamInv, StreamTypes
  <2>4. OnItsWay'
    BY <2>1, <2>2, <2>3, StillOnItsWay
  <2>5. QED
    BY <1>4, <2>4
<1>6. CASE dropped'
  BY <1>4, <1>6 DEF OnItsWay
<1>7. QED
  BY <1>5, <1>6

LEMMA ConnectKeepsStreams ==
  ASSUME OpenInv, NEW h \in Handlers, NEW c \in Clients, Connect(h, c) PROVE OpenInv'
<1>1. PICK r : r = [op |-> "listen", c |-> c]
  OBVIOUS
<1>2. r \in StreamRequests /\ r.op = "listen" /\ StreamFits(r)
  BY <1>1 DEF StreamRequests, StreamFits
<1>3. /\ Hold(h, r) /\ request[h].op = "none"
      /\ listener' = IF listener = "none" THEN "connecting" ELSE listener
      /\ UNCHANGED <<revision, rows, channel, stream, got, last, cut, dropped>>
  BY <1>1 DEF Connect, Hold, AtRest
<1>4. StreamInv' /\ OnItsWay'
  BY <1>2, <1>3, SameStreams DEF OpenInv, StreamInv, StreamTypes
<1>5. request'[h] = r /\ \A g \in Handlers : g # h => request'[g] = request[g]
  BY <1>2, <1>3, StreamHandlers DEF OpenInv, StreamInv
<1>6. ListenerFirst'
  BY <1>2, <1>3, <1>5 DEF OpenInv, ListenerFirst
<1>7. QED
  BY <1>4, <1>6 DEF OpenInv

\* A replay is of rows, for its client.
LEMMA GetEventsKeepsStreams ==
  ASSUME OpenInv, NEW h \in Handlers, GetEventsAfterRevision(h) PROVE OpenInv'
<1>1. PICK q : q = request[h]
  OBVIOUS
<1>2. q \in [op : {"listen"}, c : Clients] /\ q.op = "listen"
  BY <1>1, StreamOps DEF GetEventsAfterRevision, OpenInv, StreamInv, StreamTypes
<1>3. PICK c \in Clients : c = q.c
  BY <1>2
<1>4. PICK r : r = [op |-> "subscribe", c |-> c, after |-> last[c],
                    missed |-> {e \in Missed(last[c]) : MayReceive(c, e)}]
  OBVIOUS
<1>5. /\ Continue(h, r) /\ listener # "connecting" /\ cut' \subseteq Clients
      /\ UNCHANGED <<revision, rows, listener, channel, stream, got, last, dropped>>
  BY <1>1, <1>3, <1>4 DEF GetEventsAfterRevision, OpenInv, StreamInv, StreamTypes
<1>6. \A e \in r.missed : e \in rows /\ MayReceive(c, e)
  BY <1>4 DEF Missed, Newer
<1>7. r \in StreamRequests /\ r.op = "subscribe" /\ r.c = c /\ r.after = last[c]
  BY <1>4, <1>6 DEF StreamRequests, OpenInv, StreamInv, StreamTypes
<1>8. StreamFits(r)
  BY <1>6, <1>7 DEF StreamFits, OpenInv, StreamInv, SentAreRows
<1>9. StreamInv' /\ OnItsWay'
  BY <1>1, <1>2, <1>5, <1>7, <1>8, SameStreams DEF OpenInv, StreamInv, StreamTypes
<1>10. request'[h] = r /\ \A g \in Handlers : g # h => request'[g] = request[g]
  BY <1>5, <1>7, StreamHandlers DEF OpenInv, StreamInv
<1>11. ListenerFirst'
  BY <1>1, <1>2, <1>5, <1>7, <1>10 DEF OpenInv, ListenerFirst
<1>12. QED
  BY <1>9, <1>11 DEF OpenInv

\* The client is sent what it missed and its stream is opened; what is written
\* by now was begun by now.
LEMMA SubscribeKeepsStreams ==
  ASSUME OpenInv, NEW h \in Handlers, Subscribe(h) PROVE OpenInv'
<1>1. PICK r : r = request[h]
  OBVIOUS
<1>2. /\ r \in [op : {"subscribe"}, c : Clients, after : 0..MaxRevision, missed : SUBSET Events]
      /\ r.op = "subscribe" /\ StreamFits(r)
  BY <1>1, StreamOps DEF Subscribe, OpenInv, StreamInv, StreamTypes
<1>3. PICK c \in Clients : c = r.c
  BY <1>2
<1>4. PICK new : new = [open |-> TRUE, after |-> r.after, since |-> revision]
  OBVIOUS
<1>5. /\ Send(c, r.missed) /\ stream' = [stream EXCEPT ![c] = new] /\ Continue(h, NoRequest)
      /\ UNCHANGED <<revision, rows, listener, channel, cut, dropped>>
  BY <1>1, <1>3, <1>4 DEF Subscribe, Answer
<1>6. r.missed \subseteq rows /\ (\A e \in r.missed : MayReceive(c, e)) /\ r.after <= revision
  BY <1>2, <1>3 DEF StreamFits
<1>7. new \in Streams /\ new.after <= new.since /\ new.since = revision
  BY <1>2, <1>4, <1>6 DEF Streams, OpenInv, StreamInv, StreamTypes
<1>8. \A e \in rows : e.rev \in 1..MaxRevision /\ e.rev <= revision /\ e.rev \in Revs
  BY RowFacts DEF OpenInv
<1>9. got' = [got EXCEPT ![c] = @ \cup {e.rev : e \in r.missed}]
  BY <1>5 DEF Send
<1>10. /\ got' \in [Clients -> SUBSET (1..MaxRevision)]
       /\ \A d \in Clients : got[d] \subseteq got'[d] /\ got'[d] \subseteq Revs
  BY <1>6, <1>8, <1>9 DEF OpenInv, StreamInv, StreamTypes, SentAreRows
<1>11. last' \in [Clients -> 0..MaxRevision] /\ \A d \in Clients : last'[d] <= revision
  <2>1. CASE r.missed = {}
    BY <1>5, <2>1 DEF Send, OpenInv, StreamInv, StreamTypes, SentAreRows
  <2>2. CASE r.missed # {}
    <3>1. PICK latest \in r.missed : last' = [last EXCEPT ![c] = latest.rev]
      BY <1>5, <2>2 DEF Send
    <3>2. latest.rev \in 0..MaxRevision /\ latest.rev <= revision
      BY <1>6, <1>8
    <3>3. QED
      BY <3>1, <3>2 DEF OpenInv, StreamInv, StreamTypes, SentAreRows
  <2>3. QED
    BY <2>1, <2>2
<1>12. /\ request' \in [Handlers -> StreamRequests] /\ overlapped' \in BOOLEAN
       /\ request'[h] = NoRequest /\ \A g \in Handlers : g # h => request'[g] = request[g]
  BY <1>5, NothingStreams, StreamHandlers DEF OpenInv, StreamInv, NoStreamRequest
<1>13. StreamTypes' /\ stream'[c] = new /\ \A d \in Clients : d # c => stream'[d] = stream[d]
  BY <1>5, <1>7, <1>10, <1>11, <1>12 DEF OpenInv, StreamInv, StreamTypes
<1>14. OnlyForItsAudience'
  <2> SUFFICES ASSUME NEW d \in Clients, NEW e \in rows, e.rev \in got'[d] PROVE d \in Managers \cup e.to
    BY <1>5 DEF OnlyForItsAudience
  <2>1. CASE e.rev \in got[d]
    BY <2>1 DEF OpenInv, StreamInv, SentAreRows, OnlyForItsAudience
  <2>2. CASE e.rev \notin got[d]
    <3>1. d = c /\ \E f \in r.missed : f.rev = e.rev
      BY <1>9, <2>2 DEF OpenInv, StreamInv, StreamTypes
    <3>2. e \in r.missed
      BY <1>6, <3>1 DEF OpenInv, StreamInv, RevisionsAreTaken, OneEventPerRevision
    <3>3. QED
      BY <1>6, <3>1, <3>2 DEF MayReceive
  <2>3. QED
    BY <2>1, <2>2
<1>15. SentAreRows'
  <2>1. \A d \in Clients : stream'[d].after <= stream'[d].since /\ stream'[d].since <= revision
    <3> SUFFICES ASSUME NEW d \in Clients
                 PROVE  stream'[d].after <= stream'[d].since /\ stream'[d].since <= revision
      OBVIOUS
    <3>1. revision <= revision
      BY DEF OpenInv, StreamInv, StreamTypes
    <3>2. CASE d = c
      BY <1>7, <1>13, <3>1, <3>2
    <3>3. CASE d # c
      BY <1>13, <3>3 DEF OpenInv, StreamInv, SentAreRows
    <3>4. QED
      BY <3>2, <3>3
  <2>2. Revs' = Revs
    BY <1>5 DEF Revs
  <2>3. QED
    BY <1>5, <1>10, <1>11, <1>14, <2>1, <2>2 DEF OpenInv, StreamInv, SentAreRows
<1>16. StreamInv'
  BY <1>5, <1>12, <1>13, <1>15, NothingStreams, SameRows DEF OpenInv, NoStreamRequest
<1>17. OnItsWay'
  <2>1. \A e \in rows : ~(e.rev > new.since)
    BY <1>7, <1>8 DEF OpenInv, StreamInv, StreamTypes
  <2>2. \A e \in Pending : e \in Pending'
    BY <1>1, <1>2, <1>12 DEF Pending
  <2>3. \A e : InChannel(e) => InChannel(e)'
    BY <1>5 DEF InChannel
  <2>4. QED
    BY <1>5, <1>10, <1>13, <2>1, <2>2, <2>3, StillOnItsWay
<1>18. ListenerFirst'
  <2>1. ~dropped => listener = "up"
    BY <1>1, <1>2 DEF OpenInv, ListenerFirst
  <2>2. QED
    BY <1>5, <2>1 DEF ListenerFirst
<1>19. QED
  BY <1>16, <1>17, <1>18 DEF OpenInv

\* A step of the connection, or of a stream, that no request takes.
LEMMA NoRequestStreams ==
  ASSUME OpenInv, UNCHANGED <<revision, rows, request, overlapped>>, StreamTypes', SentAreRows'
  PROVE  StreamInv' /\ \A e : e \in Pending <=> e \in Pending'
<1>1. RevisionsAreTaken'
  BY DEF OpenInv, StreamInv, RevisionsAreTaken, OneEventPerRevision
<1>2. ASSUME NEW g \in Handlers PROVE StreamFits(request[g])'
  <2>1. PICK q : q = request[g]
    OBVIOUS
  <2>2. StreamFits(q)
    BY <2>1 DEF OpenInv, StreamInv
  <2>3. StreamFits(q)'
    BY <2>2 DEF StreamFits, Revs, MayReceive
  <2>4. QED
    BY <2>1, <2>3
<1>3. QED
  BY <1>1, <1>2 DEF StreamInv, Pending

LEMMA DisconnectKeepsStreams ==
  ASSUME OpenInv, NEW c \in Clients, Disconnect(c) PROVE OpenInv'
<1>1. /\ stream' = [stream EXCEPT ![c] = NoStream]
      /\ UNCHANGED <<revision, rows, listener, channel, got, last, cut, dropped, request, overlapped>>
  BY DEF Disconnect, apiVars
<1>2. NoStream \in Streams /\ ~NoStream.open /\ NoStream.after = 0 /\ NoStream.since = 0
  BY DEF NoStream, Streams
<1>3. StreamTypes' /\ stream'[c] = NoStream /\ \A d \in Clients : d # c => stream'[d] = stream[d]
  BY <1>1, <1>2 DEF OpenInv, StreamInv, StreamTypes
<1>4. SentAreRows'
  <2>1. revision \in Nat
    BY DEF OpenInv, StreamInv, StreamTypes
  <2>2. ASSUME NEW d \in Clients PROVE stream'[d].after <= stream'[d].since /\ stream'[d].since <= revision
    <3>1. CASE d = c
      BY <1>2, <1>3, <2>1, <3>1
    <3>2. CASE d # c
      BY <1>3, <3>2 DEF OpenInv, StreamInv, SentAreRows
    <3>3. QED
      BY <3>1, <3>2
  <2>3. QED
    BY <1>1, <2>2 DEF OpenInv, StreamInv, SentAreRows, OnlyForItsAudience, Revs
<1>5. StreamInv' /\ \A e : e \in Pending <=> e \in Pending'
  BY <1>1, <1>3, <1>4, NoRequestStreams
<1>6. OnItsWay'
  <2>1. \A e : InChannel(e) => InChannel(e)'
    BY <1>1 DEF InChannel
  <2>2. QED
    BY <1>1, <1>2, <1>3, <1>5, <2>1, StillOnItsWay
<1>7. ListenerFirst'
  BY <1>1, <1>2, <1>3 DEF OpenInv, ListenerFirst
<1>8. QED
  BY <1>5, <1>6, <1>7 DEF OpenInv

LEMMA ListenerKeepsStreams ==
  ASSUME OpenInv, ListenConnected \/ ListenFails \/ ListenEnds \/ ListenReconnect PROVE OpenInv'
<1>1. /\ UNCHANGED <<revision, rows, stream, got, last, cut, request, overlapped>>
      /\ listener' \in {"none", "connecting", "up", "deaf"}
      /\ channel' = channel \/ channel' = <<>>
      /\ dropped' = dropped \/ dropped' = TRUE
  BY DEF ListenConnected, ListenFails, ListenEnds, ListenReconnect, apiVars
<1>2. StreamTypes'
  <2>1. StreamTypes
    BY DEF OpenInv, StreamInv
  <2>2. channel' \in Seq(Events)
    <3>1. <<>> \in Seq(Events) /\ channel \in Seq(Events)
      BY <2>1 DEF StreamTypes
    <3>2. QED
      BY <1>1, <3>1
  <2>3. dropped' \in BOOLEAN
    BY <1>1, <2>1 DEF StreamTypes
  <2>4. QED
    BY <1>1, <2>1, <2>2, <2>3 DEF StreamTypes
<1>3. SentAreRows'
  <2>1. \A i \in 1..Len(channel') : channel'[i] \in rows
    BY <1>1 DEF OpenInv, StreamInv, StreamTypes, SentAreRows
  <2>2. QED
    BY <1>1, <2>1, SameSent DEF OpenInv
<1>4. StreamInv' /\ \A e : e \in Pending <=> e \in Pending'
  BY <1>1, <1>2, <1>3, NoRequestStreams
<1>5. CASE dropped'
  BY <1>4, <1>5 DEF OpenInv, ListenerFirst, OnItsWay
<1>6. CASE ~dropped'
  <2>1. ~dropped /\ ListenConnected /\ channel' = channel
    BY <1>1, <1>6 DEF OpenInv, ListenerFirst, ListenConnected, ListenFails, ListenEnds, ListenReconnect
  <2>2. \A e : InChannel(e) => InChannel(e)'
    BY <2>1 DEF InChannel
  <2>3. dropped' = dropped
    BY <2>1 DEF ListenConnected
  <2>4. OnItsWay'
    BY <1>1, <1>4, <2>2, <2>3, StillOnItsWay
  <2>5. ListenerFirst'
    BY <1>1, <2>1 DEF OpenInv, ListenerFirst, ListenConnected
  <2>6. QED
    BY <1>4, <2>4, <2>5 DEF OpenInv
<1>7. QED
  BY <1>5, <1>6

\* The first of the channel reaches the streams.
LEMMA ReceiveKeepsStreams == ASSUME OpenInv, Receive PROVE OpenInv'
<1>1. /\ listener = "up" /\ channel # <<>> /\ FanOut(Head(channel)) /\ channel' = Tail(channel)
      /\ UNCHANGED <<revision, rows, listener, stream, cut, dropped, request, overlapped>>
  BY DEF Receive, apiVars
<1>2. /\ channel \in Seq(Events) /\ Len(channel) \in Nat /\ Len(channel) > 0
      /\ channel' \in Seq(Events) /\ Len(channel') = Len(channel) - 1
      /\ \A i \in 1..Len(channel') : channel'[i] = channel[i + 1]
      /\ Head(channel) = channel[1]
  <2>1. channel \in Seq(Events)
    BY DEF OpenInv, StreamInv, StreamTypes
  <2>2. QED
    BY <1>1, <2>1
<1>3. PICK e \in rows : e = Head(channel)
  BY <1>2 DEF OpenInv, StreamInv, SentAreRows
<1>4. /\ got' \in [Clients -> SUBSET (1..MaxRevision)] /\ last' \in [Clients -> 0..MaxRevision]
      /\ \A c \in Clients : got[c] \subseteq got'[c] /\ got'[c] \subseteq Revs /\ last'[c] <= revision
      /\ \A c \in Clients : Receives(c, e) => e.rev \in got'[c] /\ last'[c] = e.rev
      /\ \A c \in Clients : ~Receives(c, e) => got'[c] = got[c] /\ last'[c] = last[c]
      /\ \A c \in Clients, d \in rows : d.rev \in got'[c] => c \in Managers \cup d.to
  BY <1>1, <1>3, FanOutSends DEF OpenInv
<1>5. StreamTypes'
  BY <1>1, <1>2, <1>4 DEF OpenInv, StreamInv, StreamTypes
<1>6. SentAreRows'
  <2>1. \A i \in 1..Len(channel') : channel'[i] \in rows
    BY <1>2 DEF OpenInv, StreamInv, SentAreRows
  <2>2. OnlyForItsAudience'
    BY <1>1, <1>4 DEF OnlyForItsAudience
  <2>3. QED
    BY <1>1, <1>4, <2>1, <2>2 DEF OpenInv, StreamInv, SentAreRows, Revs
<1>7. StreamInv' /\ \A d : d \in Pending <=> d \in Pending'
  BY <1>1, <1>5, <1>6, NoRequestStreams
<1>8. ListenerFirst'
  BY <1>1 DEF OpenInv, ListenerFirst
<1>9. \A d : InChannel(d) => InChannel(d)' \/ d = e
  <2> SUFFICES ASSUME NEW i \in 1..Len(channel), channel[i] # e
               PROVE  \E j \in 1..Len(channel') : channel'[j] = channel[i]
    BY DEF InChannel
  <2>1. i # 1 /\ i - 1 \in 1..Len(channel') /\ (i - 1) + 1 = i
    BY <1>2, <1>3
  <2>2. QED
    BY <1>2, <2>1
<1>10. \A c \in Clients : stream[c].open /\ e.rev > stream[c].since /\ MayReceive(c, e) => e.rev \in got'[c]
  <2> SUFFICES ASSUME NEW c \in Clients, stream[c].open, e.rev > stream[c].since, MayReceive(c, e)
               PROVE  Receives(c, e)
    BY <1>4
  <2>1. e.rev \in Nat /\ stream[c].after \in Nat /\ stream[c].since \in Nat
    BY RowFacts DEF OpenInv, StreamInv, StreamTypes, Streams
  <2>2. stream[c].after <= stream[c].since
    BY DEF OpenInv, StreamInv, SentAreRows
  <2>3. QED
    BY <2>1, <2>2 DEF Receives
<1>11. OnItsWay'
  BY <1>1, <1>4, <1>7, <1>9, <1>10, StillOnItsWay
<1>12. QED
  BY <1>7, <1>8, <1>11 DEF OpenInv

\* A notified event waits in the channel, or nobody could be waiting for it.
LEMMA NotifyKeepsStreams ==
  ASSUME OpenInv, NEW h \in Handlers, Notify(h) PROVE OpenInv'
<1>1. PICK r : r = request[h]
  OBVIOUS
<1>2. /\ r \in [op : {"event", "pg_notify"}, event : Events] /\ r.op = "pg_notify" /\ r.event \in rows
  BY <1>1, StreamOps DEF Notify, OpenInv, StreamInv, StreamTypes, StreamFits
<1>3. PICK e \in rows : e = r.event
  BY <1>2
<1>4. /\ channel' = IF listener = "up" THEN Append(channel, e) ELSE channel
      /\ IF listener = "none" THEN FanOut(e) ELSE UNCHANGED <<got, last>>
      /\ Continue(h, NoRequest)
      /\ UNCHANGED <<revision, rows, listener, stream, cut, dropped>>
  BY <1>1, <1>3 DEF Notify, Answer
<1>5. /\ request' \in [Handlers -> StreamRequests] /\ overlapped' \in BOOLEAN
      /\ request'[h] = NoRequest /\ \A g \in Handlers : g # h => request'[g] = request[g]
  BY <1>4, NothingStreams, StreamHandlers DEF OpenInv, StreamInv, NoStreamRequest
<1>6. /\ got' \in [Clients -> SUBSET (1..MaxRevision)] /\ last' \in [Clients -> 0..MaxRevision]
      /\ \A c \in Clients : got[c] \subseteq got'[c] /\ got'[c] \subseteq Revs /\ last'[c] <= revision
      /\ \A c \in Clients, d \in rows : d.rev \in got'[c] => c \in Managers \cup d.to
  <2>1. CASE listener = "none"
    BY <1>4, <2>1, FanOutSends DEF OpenInv
  <2>2. CASE listener # "none"
    BY <1>4, <2>2 DEF OpenInv, StreamInv, StreamTypes, SentAreRows, OnlyForItsAudience
  <2>3. QED
    BY <2>1, <2>2
<1>7. e \in Events /\ channel \in Seq(Events)
  BY RowFacts DEF OpenInv, StreamInv, StreamTypes
<1>8. /\ channel' \in Seq(Events)
      /\ \A i \in 1..Len(channel') : channel'[i] \in rows
      /\ \A d : InChannel(d) => InChannel(d)'
      /\ listener = "up" => InChannel(e)'
  <2>1. CASE listener = "up"
    <3>1. /\ channel' \in Seq(Events) /\ Len(channel') = Len(channel) + 1 /\ Len(channel) \in Nat
          /\ \A i \in 1..Len(channel) : channel'[i] = channel[i]
          /\ channel'[Len(channel')] = e
      BY <1>4, <1>7, <2>1
    <3>2. \A i \in 1..Len(channel') : i = Len(channel') \/ i \in 1..Len(channel)
      BY <3>1
    <3>3. Len(channel') \in 1..Len(channel') /\ \A i \in 1..Len(channel) : i \in 1..Len(channel')
      BY <3>1
    <3>4. \A i \in 1..Len(channel') : channel'[i] \in rows
      BY <3>1, <3>2 DEF OpenInv, StreamInv, SentAreRows
    <3>5. QED
      BY <3>1, <3>3, <3>4 DEF InChannel
  <2>2. CASE listener # "up"
    BY <1>4, <1>7, <2>2 DEF InChannel, OpenInv, StreamInv, SentAreRows
  <2>3. QED
    BY <2>1, <2>2
<1>9. StreamTypes'
  BY <1>4, <1>5, <1>6, <1>8 DEF OpenInv, StreamInv, StreamTypes
<1>10. SentAreRows'
  <2>1. OnlyForItsAudience'
    BY <1>4, <1>6 DEF OnlyForItsAudience
  <2>2. QED
    BY <1>4, <1>6, <1>8, <2>1 DEF OpenInv, StreamInv, SentAreRows, Revs
<1>11. StreamInv'
  BY <1>4, <1>5, <1>9, <1>10, NothingStreams, SameRows DEF OpenInv, NoStreamRequest
<1>12. ListenerFirst'
  BY <1>4, <1>5, NothingStreams DEF OpenInv, ListenerFirst, NoStreamRequest
<1>13. OnItsWay'
  <2>1. \A d \in Pending : d \in Pending' \/ d = e
    BY <1>1, <1>3, <1>5 DEF Pending
  <2>2. ~dropped /\ listener # "up" => \A c \in Clients : ~stream[c].open
    BY DEF OpenInv, ListenerFirst
  <2>3. QED
    BY <1>4, <1>6, <1>8, <2>1, <2>2, StillOnItsWay
<1>14. QED
  BY <1>11, <1>12, <1>13 DEF OpenInv

LEMMA RefusalKeepsStreams ==
  ASSUME OpenInv, NEW h \in Handlers, NotifyRefused(h) PROVE OpenInv'
<1>1. PICK r : r = request[h]
  OBVIOUS
<1>2. /\ r \in [op : {"event", "pg_notify"}, event : Events] /\ r.op = "pg_notify" /\ r.event \in rows
  BY <1>1, StreamOps DEF NotifyRefused, OpenInv, StreamInv, StreamTypes, StreamFits
<1>3. PICK e \in rows : e = r.event
  BY <1>2
<1>4. /\ FanOut(e) /\ Continue(h, NoRequest) /\ dropped' = TRUE
      /\ UNCHANGED <<revision, rows, listener, channel, stream, cut>>
  BY <1>1, <1>3 DEF NotifyRefused, Answer
<1>5. /\ request' \in [Handlers -> StreamRequests] /\ overlapped' \in BOOLEAN
      /\ request'[h] = NoRequest /\ \A g \in Handlers : g # h => request'[g] = request[g]
  BY <1>4, NothingStreams, StreamHandlers DEF OpenInv, StreamInv, NoStreamRequest
<1>6. /\ got' \in [Clients -> SUBSET (1..MaxRevision)] /\ last' \in [Clients -> 0..MaxRevision]
      /\ \A c \in Clients : got[c] \subseteq got'[c] /\ got'[c] \subseteq Revs /\ last'[c] <= revision
      /\ \A c \in Clients, d \in rows : d.rev \in got'[c] => c \in Managers \cup d.to
  BY <1>4, FanOutSends DEF OpenInv
<1>7. StreamTypes'
  BY <1>4, <1>5, <1>6 DEF OpenInv, StreamInv, StreamTypes
<1>8. SentAreRows'
  <2>1. OnlyForItsAudience'
    BY <1>4, <1>6 DEF OnlyForItsAudience
  <2>2. QED
    BY <1>4, <1>6, <2>1 DEF OpenInv, StreamInv, SentAreRows, Revs
<1>9. StreamInv'
  BY <1>4, <1>5, <1>7, <1>8, NothingStreams, SameRows DEF OpenInv, NoStreamRequest
<1>10. QED
  BY <1>4, <1>9 DEF OpenInv, ListenerFirst, OnItsWay

LEMMA BreakOffKeepsStreams ==
  ASSUME OpenInv, NEW h \in Handlers, BreakOff(h), dropped' = TRUE,
         UNCHANGED <<revision, rows, listener, channel, stream, got, last, cut>>
  PROVE  OpenInv'
<1>1. StreamInv' /\ OnItsWay'
  BY NothingStreams, SameStreams DEF BreakOff, Answer, NoStreamRequest, OpenInv, StreamInv, StreamTypes
<1>2. QED
  BY <1>1 DEF OpenInv, ListenerFirst

LEMMA OpenNext ==
  OpenInv /\ [EventNext \/ ListenerFailure]_<<eventVars, apiVars>> => OpenInv'
<1> SUFFICES ASSUME OpenInv, [EventNext \/ ListenerFailure]_<<eventVars, apiVars>> PROVE OpenInv'
  OBVIOUS
<1>1. CASE UNCHANGED <<eventVars, apiVars>>
  <2>1. UNCHANGED <<revision, rows, listener, channel, stream, got, last, cut, dropped, request, overlapped>>
    BY <1>1 DEF eventVars, apiVars
  <2>2. StreamTypes' /\ SentAreRows'
    BY <2>1 DEF OpenInv, StreamInv, StreamTypes, SentAreRows, OnlyForItsAudience, Revs
  <2>3. StreamInv' /\ \A e : e \in Pending <=> e \in Pending'
    BY <2>1, <2>2, NoRequestStreams
  <2>4. ListenerFirst' /\ OnItsWay'
    BY <2>1, <2>3 DEF OpenInv, ListenerFirst, OnItsWay, InChannel, MayReceive
  <2>5. QED
    BY <2>3, <2>4 DEF OpenInv
<1>2. CASE EventNext
  BY <1>2, ReceiveKeepsStreams, ListenerKeepsStreams, DisconnectKeepsStreams, InsertKeepsStreams,
     NotifyKeepsStreams, GetEventsKeepsStreams, SubscribeKeepsStreams, BumpKeepsStreams,
     ConnectKeepsStreams DEF EventNext
<1>3. CASE ListenerFailure
  BY <1>3, ListenerKeepsStreams, RefusalKeepsStreams, BreakOffKeepsStreams DEF ListenerFailure
<1>4. QED
  BY <1>1, <1>2, <1>3

-----------------------------------------------------------------------------
(* With requests one at a time and a connection that holds *)

StreamsOneInFlight == \A g, h \in Handlers : ~AtRest(g) /\ ~AtRest(h) => g = h

\* A client has all that is meant for it up to the last it was sent.
SentUpToLast ==
  \A c \in Clients \ cut, e \in rows :
    MayReceive(c, e) /\ e.rev <= last[c] => e.rev \in got[c]

\* What an open stream has not yet is on its way to it.
RestIsOnItsWay ==
  \A c \in Clients \ cut, e \in rows :
    stream[c].open /\ MayReceive(c, e) => e.rev \in got[c] \/ e \in Pending \/ InChannel(e)

\* The channel holds the revisions in their order, the one in hand after them.
ChannelInOrder ==
  /\ \A i, j \in 1..Len(channel) : i < j => channel[i].rev < channel[j].rev
  /\ \A h \in Handlers : request[h].op \in {"event", "pg_notify"} =>
       \A i \in 1..Len(channel) : channel[i].rev < request[h].event.rev
  /\ \A h \in Handlers : request[h].op = "event" =>
       \A c \in Clients : last[c] < request[h].event.rev

\* A replay that was read is whole until it is sent.
ReplayIsWhole ==
  \A h \in Handlers :
    /\ request[h].op \in {"listen", "subscribe"} => ~stream[request[h].c].open
    /\ request[h].op = "subscribe" =>
         /\ request[h].after = last[request[h].c]
         /\ \A e \in request[h].missed : e.rev > request[h].after
         /\ request[h].c \notin cut =>
              \A e \in rows : MayReceive(request[h].c, e) /\ e.rev > request[h].after
                                => e \in request[h].missed

Resumed == \A c \in Clients : stream[c].open => stream[c].after <= last[c]

ReturnParts ==
  /\ StreamsOneInFlight /\ SentUpToLast /\ RestIsOnItsWay /\ ChannelInOrder /\ ReplayIsWhole /\ Resumed

ReturnInv == OpenInv /\ (~overlapped /\ ~dropped => ReturnParts)

-----------------------------------------------------------------------------
LEMMA ReturnInit == EventInit => ReturnInv
<1> SUFFICES ASSUME EventInit PROVE ReturnInv
  OBVIOUS
<1>1. /\ rows = {} /\ channel = <<>> /\ stream = [c \in Clients |-> NoStream]
      /\ request = [h \in Handlers |-> NoRequest]
  BY DEF EventInit, ApiInit
<1>2. StreamsOneInFlight /\ SentUpToLast /\ RestIsOnItsWay
  BY <1>1 DEF StreamsOneInFlight, SentUpToLast, RestIsOnItsWay, AtRest, NoRequest
<1>3. ChannelInOrder /\ ReplayIsWhole /\ Resumed
  BY <1>1 DEF ChannelInOrder, ReplayIsWhole, Resumed, NoRequest, NoStream
<1>4. QED
  BY <1>2, <1>3, StreamInit DEF ReturnInv, ReturnParts

\* The handlers after a step that leaves one request in flight at most.
LEMMA AloneInFlight ==
  ASSUME ReturnInv, NEW h \in Handlers, NEW r \in StreamRequests,
         Hold(h, r) \/ (~AtRest(h) /\ Continue(h, r)), ~overlapped', ~dropped'  /\ ~dropped
  PROVE  /\ ReturnParts /\ StreamsOneInFlight'
         /\ request'[h] = r /\ \A g \in Handlers : g # h => request'[g] = request[g]
         /\ \A g \in Handlers : g # h => request[g].op = "none"
<1>1. request'[h] = r /\ \A g \in Handlers : g # h => request'[g] = request[g]
  BY StreamHandlers DEF ReturnInv, OpenInv, StreamInv
<1>2. ~overlapped /\ ReturnParts
  <2>1. ~overlapped
    BY DEF Hold, Continue, MeetsAnother
  <2>2. QED
    BY <2>1 DEF ReturnInv
<1>3. \A g \in Handlers : g # h => request[g].op = "none"
  BY <1>2 DEF Hold, Continue, MeetsAnother, ReturnParts, StreamsOneInFlight, AtRest
<1>4. StreamsOneInFlight'
  BY <1>1, <1>3 DEF StreamsOneInFlight, AtRest
<1>5. QED
  BY <1>1, <1>2, <1>3, <1>4

LEMMA BumpReturns ==
  ASSUME ReturnInv, NEW h \in Handlers, NEW to \in Audiences, BumpRevision(h, to),
         ~overlapped', ~dropped'
  PROVE  ReturnParts'
<1>1. PICK e : e = [rev |-> revision + 1, to |-> to]
  OBVIOUS
<1>2. PICK r : r = [op |-> "event", event |-> e]
  OBVIOUS
<1>3. /\ revision < MaxRevision /\ Hold(h, r) /\ AtRest(h)
      /\ UNCHANGED <<rows, listener, channel, stream, got, last, cut, dropped>>
  BY <1>1, <1>2 DEF BumpRevision, Hold
<1>4. revision \in Nat
  BY DEF ReturnInv, OpenInv, StreamInv, StreamTypes
<1>5. e.rev = revision + 1 /\ r \in StreamRequests /\ r.op = "event" /\ r.event = e
  BY <1>1, <1>2, <1>3, <1>4 DEF Events, StreamRequests
<1>6. /\ ReturnParts /\ StreamsOneInFlight'
      /\ request'[h] = r /\ \A g \in Handlers : g # h => request'[g] = request[g]
      /\ \A g \in Handlers : g # h => request[g].op = "none"
  BY <1>3, <1>5, AloneInFlight
<1>7. Pending = {} /\ Pending' = {}
  BY <1>3, <1>5, <1>6 DEF Pending, AtRest
<1>8. SentUpToLast' /\ RestIsOnItsWay' /\ Resumed'
  BY <1>3, <1>6, <1>7 DEF ReturnParts, SentUpToLast, RestIsOnItsWay, Resumed, InChannel, MayReceive
<1>9. \A i \in 1..Len(channel) : channel[i].rev \in Nat /\ channel[i].rev <= revision
  BY RowFacts DEF ReturnInv, OpenInv, StreamInv, SentAreRows
<1>10. ChannelInOrder'
  <2>1. \A c \in Clients : last[c] \in Nat /\ last[c] <= revision
    BY DEF ReturnInv, OpenInv, StreamInv, StreamTypes, SentAreRows
  <2>2. \A c \in Clients : last[c] < e.rev
    BY <1>4, <1>5, <2>1
  <2>3. \A i \in 1..Len(channel) : channel[i].rev < e.rev
    BY <1>4, <1>5, <1>9
  <2>4. QED
    BY <1>3, <1>5, <1>6, <2>2, <2>3 DEF ReturnParts, ChannelInOrder
<1>11. ReplayIsWhole'
  BY <1>5, <1>6 DEF ReplayIsWhole
<1>12. QED
  BY <1>6, <1>8, <1>10, <1>11 DEF ReturnParts

LEMMA InsertReturns ==
  ASSUME ReturnInv, NEW h \in Handlers, InsertEvent(h), ~overlapped', ~dropped'
  PROVE  ReturnParts'
<1>1. PICK r : r = request[h]
  OBVIOUS
<1>2. r \in [op : {"event", "pg_notify"}, event : Events] /\ r.op = "event" /\ StreamFits(r)
  BY <1>1, StreamOps DEF InsertEvent, ReturnInv, OpenInv, StreamInv, StreamTypes
<1>3. PICK e \in Events : e = r.event
  BY <1>2
<1>4. PICK next : next = [r EXCEPT !.op = "pg_notify"]
  OBVIOUS
<1>5. next \in StreamRequests /\ next.op = "pg_notify" /\ next.event = e
  BY <1>2, <1>3, <1>4 DEF StreamRequests
<1>6. /\ rows' = rows \cup {e} /\ Continue(h, next) /\ ~AtRest(h)
      /\ UNCHANGED <<revision, listener, channel, stream, got, last, cut, dropped>>
  BY <1>1, <1>2, <1>3, <1>4 DEF InsertEvent, AtRest
<1>7. /\ ReturnParts /\ StreamsOneInFlight'
      /\ request'[h] = next /\ \A g \in Handlers : g # h => request'[g] = request[g]
      /\ \A g \in Handlers : g # h => request[g].op = "none"
  BY <1>5, <1>6, AloneInFlight
<1>8. e \in Pending' /\ Pending = {}
  BY <1>1, <1>2, <1>5, <1>7 DEF Pending
<1>9. RestIsOnItsWay' /\ Resumed' /\ ChannelInOrder' /\ ReplayIsWhole'
  <2>1. RestIsOnItsWay' /\ Resumed'
    BY <1>6, <1>7, <1>8 DEF ReturnParts, RestIsOnItsWay, Resumed, InChannel, MayReceive
  <2>2. ChannelInOrder'
    BY <1>1, <1>2, <1>3, <1>5, <1>6, <1>7 DEF ReturnParts, ChannelInOrder
  <2>3. ReplayIsWhole'
    BY <1>5, <1>7 DEF ReplayIsWhole
  <2>4. QED
    BY <2>1, <2>2, <2>3
<1>10. SentUpToLast'
  <2>1. ASSUME NEW c \in Clients, e.rev <= last[c] PROVE FALSE
    <3>1. last[c] < e.rev
      BY <1>1, <1>2, <1>3, <1>7 DEF ReturnParts, ChannelInOrder
    <3>2. last[c] \in Nat /\ e.rev \in Nat
      BY DEF ReturnInv, OpenInv, StreamInv, StreamTypes, Events
    <3>3. QED
      BY <2>1, <3>1, <3>2
  <2>2. QED
    BY <1>6, <1>7, <2>1 DEF ReturnParts, SentUpToLast, MayReceive
<1>11. QED
  BY <1>7, <1>9, <1>10 DEF ReturnParts

LEMMA NotifyReturns ==
  ASSUME ReturnInv, NEW h \in Handlers, Notify(h), ~overlapped', ~dropped'
  PROVE  ReturnParts'
<1>1. PICK r : r = request[h]
  OBVIOUS
<1>2. /\ r \in [op : {"event", "pg_notify"}, event : Events] /\ r.op = "pg_notify" /\ r.event \in rows
  BY <1>1, StreamOps DEF Notify, ReturnInv, OpenInv, StreamInv, StreamTypes, StreamFits
<1>3. PICK e \in rows : e = r.event
  BY <1>2
<1>4. /\ channel' = IF listener = "up" THEN Append(channel, e) ELSE channel
      /\ IF listener = "none" THEN FanOut(e) ELSE UNCHANGED <<got, last>>
      /\ Continue(h, NoRequest) /\ ~AtRest(h)
      /\ UNCHANGED <<revision, rows, listener, stream, cut, dropped>>
  BY <1>1, <1>2, <1>3 DEF Notify, Answer, AtRest
<1>5. /\ ReturnParts /\ StreamsOneInFlight'
      /\ request'[h] = NoRequest /\ \A g \in Handlers : g # h => request'[g] = request[g]
      /\ \A g \in Handlers : g # h => request[g].op = "none"
  BY <1>4, NothingStreams, AloneInFlight DEF NoStreamRequest
<1>6. \A g \in Handlers : request'[g].op = "none"
  BY <1>5, NothingStreams DEF NoStreamRequest
<1>7. channel \in Seq(Events) /\ e \in Events
  BY RowFacts DEF ReturnInv, OpenInv, StreamInv, StreamTypes
<1>8. \A i \in 1..Len(channel) : channel[i].rev < e.rev
  BY <1>1, <1>2, <1>3, <1>5 DEF ReturnParts, ChannelInOrder
<1>9. \A d \in Pending : d = e
  BY <1>1, <1>3, <1>5 DEF Pending
<1>10. CASE listener = "up"
  <2>1. UNCHANGED <<got, last>> /\ channel' = Append(channel, e)
    BY <1>4, <1>10
  <2>2. /\ Len(channel') = Len(channel) + 1 /\ Len(channel) \in Nat
        /\ \A i \in 1..Len(channel) : channel'[i] = channel[i]
        /\ channel'[Len(channel) + 1] = e
    BY <1>7, <2>1
  <2>3. \A d : InChannel(d) \/ d = e => InChannel(d)'
    BY <2>2 DEF InChannel
  <2>4. SentUpToLast' /\ RestIsOnItsWay' /\ Resumed'
    BY <1>4, <1>5, <1>9, <2>1, <2>3
       DEF ReturnParts, SentUpToLast, RestIsOnItsWay, Resumed, MayReceive
  <2>5. ChannelInOrder'
    <3>1. ASSUME NEW i \in 1..Len(channel'), NEW j \in 1..Len(channel'), i < j
          PROVE  channel'[i].rev < channel'[j].rev
      <4>1. i \in 1..Len(channel) /\ channel'[i] = channel[i]
        BY <2>2, <3>1
      <4>2. CASE j \in 1..Len(channel)
        BY <1>5, <2>2, <3>1, <4>1, <4>2 DEF ReturnParts, ChannelInOrder
      <4>3. CASE j = Len(channel) + 1
        BY <1>8, <2>2, <4>1, <4>3
      <4>4. QED
        BY <2>2, <4>2, <4>3
    <3>2. QED
      BY <1>6, <3>1 DEF ChannelInOrder
  <2>6. ReplayIsWhole'
    BY <1>6 DEF ReplayIsWhole
  <2>7. QED
    BY <1>5, <2>4, <2>5, <2>6 DEF ReturnParts
<1>11. CASE listener # "up"
  <2>1. \A c \in Clients : ~stream[c].open
    BY <1>4, <1>11 DEF ReturnInv, OpenInv, ListenerFirst
  <2>2. channel' = channel /\ got' = got /\ last' = last
    <3>1. CASE listener = "none"
      <4>1. \A c \in Clients : ~Receives(c, e)
        BY <2>1 DEF Receives
      <4>2. /\ \A c \in Clients : got'[c] = got[c] /\ last'[c] = last[c]
            /\ got' \in [Clients -> SUBSET (1..MaxRevision)] /\ last' \in [Clients -> 0..MaxRevision]
        BY <1>4, <3>1, <4>1, FanOutSends DEF ReturnInv, OpenInv
      <4>3. /\ got \in [Clients -> SUBSET (1..MaxRevision)] /\ last \in [Clients -> 0..MaxRevision]
        BY DEF ReturnInv, OpenInv, StreamInv, StreamTypes
      <4>4. QED
        BY <1>4, <1>11, <4>2, <4>3
    <3>2. CASE listener # "none"
      BY <1>4, <1>11, <3>2
    <3>3. QED
      BY <3>1, <3>2
  <2>3. SentUpToLast' /\ RestIsOnItsWay' /\ Resumed'
    BY <1>4, <1>5, <2>1, <2>2 DEF ReturnParts, SentUpToLast, RestIsOnItsWay, Resumed, MayReceive
  <2>4. ChannelInOrder' /\ ReplayIsWhole'
    BY <1>5, <1>6, <2>2 DEF ReturnParts, ChannelInOrder, ReplayIsWhole
  <2>5. QED
    BY <1>5, <2>3, <2>4 DEF ReturnParts
<1>12. QED
  BY <1>10, <1>11

LEMMA ConnectReturns ==
  ASSUME ReturnInv, NEW h \in Handlers, NEW c \in Clients, Connect(h, c), ~overlapped', ~dropped'
  PROVE  ReturnParts'
<1>1. PICK r : r = [op |-> "listen", c |-> c]
  OBVIOUS
<1>2. r \in StreamRequests /\ r.op = "listen" /\ r.c = c
  BY <1>1 DEF StreamRequests
<1>3. /\ Hold(h, r) /\ AtRest(h) /\ ~stream[c].open
      /\ UNCHANGED <<revision, rows, channel, stream, got, last, cut, dropped>>
  BY <1>1 DEF Connect, Hold
<1>4. /\ ReturnParts /\ StreamsOneInFlight'
      /\ request'[h] = r /\ \A g \in Handlers : g # h => request'[g] = request[g]
      /\ \A g \in Handlers : g # h => request[g].op = "none"
  BY <1>2, <1>3, AloneInFlight
<1>5. Pending = {}
  BY <1>3, <1>4 DEF Pending, AtRest
<1>6. SentUpToLast' /\ RestIsOnItsWay' /\ Resumed'
  BY <1>3, <1>4, <1>5 DEF ReturnParts, SentUpToLast, RestIsOnItsWay, Resumed, MayReceive, InChannel
<1>7. ChannelInOrder' /\ ReplayIsWhole'
  BY <1>2, <1>3, <1>4 DEF ReturnParts, ChannelInOrder, ReplayIsWhole
<1>8. QED
  BY <1>4, <1>6, <1>7 DEF ReturnParts

\* What fits into a replay is replayed.
LEMMA MissedIsAll ==
  ASSUME StreamTypes, NEW after \in 0..MaxRevision, ~(Cardinality(Newer(after)) > ReplayLimit)
  PROVE  Missed(after) = Newer(after)
<1>1. IsFiniteSet(Newer(after)) /\ Cardinality(Newer(after)) \in Nat
  BY FS_Subset, FS_CardinalityType DEF StreamTypes, Newer
<1>2. ASSUME NEW e \in Newer(after)
      PROVE  Cardinality({d \in Newer(after) : d.rev < e.rev}) < ReplayLimit
  <2>1. PICK before \in SUBSET Newer(after) : before = {d \in Newer(after) : d.rev < e.rev}
    OBVIOUS
  <2>2. e.rev \in Nat
    BY DEF StreamTypes, Newer, Events
  <2>3. e \notin before
    BY <2>1, <2>2
  <2>4. Cardinality(before) <= Cardinality(Newer(after)) /\ Cardinality(before) # Cardinality(Newer(after))
    BY <1>1, <2>3, FS_Subset
  <2>5. Cardinality(before) \in Nat
    BY <1>1, FS_Subset, FS_CardinalityType
  <2>6. QED
    BY <1>1, <2>1, <2>4, <2>5
<1>3. QED
  BY <1>2 DEF Missed

LEMMA GetEventsReturns ==
  ASSUME ReturnInv, NEW h \in Handlers, GetEventsAfterRevision(h), ~overlapped', ~dropped'
  PROVE  ReturnParts'
<1>1. PICK q : q = request[h]
  OBVIOUS
<1>2. q \in [op : {"listen"}, c : Clients] /\ q.op = "listen"
  BY <1>1, StreamOps DEF GetEventsAfterRevision, ReturnInv, OpenInv, StreamInv, StreamTypes
<1>3. PICK c \in Clients : c = q.c
  BY <1>2
<1>4. PICK r : r = [op |-> "subscribe", c |-> c, after |-> last[c],
                    missed |-> {e \in Missed(last[c]) : MayReceive(c, e)}]
  OBVIOUS
<1>5. /\ Continue(h, r) /\ ~AtRest(h)
      /\ cut' = IF Cardinality(Newer(last[c])) > ReplayLimit THEN cut \cup {c} ELSE cut
      /\ UNCHANGED <<revision, rows, listener, channel, stream, got, last, dropped>>
  BY <1>1, <1>2, <1>3, <1>4 DEF GetEventsAfterRevision, AtRest
<1>6. r \in StreamRequests /\ r.op = "subscribe" /\ r.c = c /\ r.after = last[c]
  BY <1>4 DEF StreamRequests, ReturnInv, OpenInv, StreamInv, StreamTypes, Missed, Newer
<1>7. /\ ReturnParts /\ StreamsOneInFlight'
      /\ request'[h] = r /\ \A g \in Handlers : g # h => request'[g] = request[g]
      /\ \A g \in Handlers : g # h => request[g].op = "none"
  BY <1>5, <1>6, AloneInFlight
<1>8. Pending = {}
  BY <1>1, <1>2, <1>7 DEF Pending
<1>9. SentUpToLast' /\ RestIsOnItsWay' /\ Resumed'
  BY <1>5, <1>7, <1>8 DEF ReturnParts, SentUpToLast, RestIsOnItsWay, Resumed, MayReceive, InChannel
<1>10. ChannelInOrder'
  BY <1>5, <1>6, <1>7 DEF ReturnParts, ChannelInOrder
<1>11. ~stream[c].open
  BY <1>1, <1>2, <1>3, <1>7 DEF ReturnParts, ReplayIsWhole
<1>12. ASSUME c \notin cut', NEW e \in rows, MayReceive(c, e), e.rev > last[c] PROVE e \in r.missed
  <2>1. Missed(last[c]) = Newer(last[c])
    BY <1>5, <1>12, MissedIsAll DEF ReturnInv, OpenInv, StreamInv, StreamTypes
  <2>2. QED
    BY <1>4, <1>12, <2>1 DEF Newer
<1>13. ReplayIsWhole'
  <2>1. \A e \in r.missed : e.rev > r.after
    BY <1>4 DEF Missed, Newer
  <2>2. QED
    BY <1>5, <1>6, <1>7, <1>11, <1>12, <2>1 DEF ReplayIsWhole, MayReceive
<1>14. QED
  BY <1>7, <1>9, <1>10, <1>13 DEF ReturnParts

LEMMA SubscribeReturns ==
  ASSUME ReturnInv, NEW h \in Handlers, Subscribe(h), ~overlapped', ~dropped'
  PROVE  ReturnParts'
<1>1. PICK r : r = request[h]
  OBVIOUS
<1>2. /\ r \in [op : {"subscribe"}, c : Clients, after : 0..MaxRevision, missed : SUBSET Events]
      /\ r.op = "subscribe" /\ StreamFits(r)
  BY <1>1, StreamOps DEF Subscribe, ReturnInv, OpenInv, StreamInv, StreamTypes
<1>3. PICK c \in Clients : c = r.c
  BY <1>2
<1>4. PICK new : new = [open |-> TRUE, after |-> r.after, since |-> revision]
  OBVIOUS
<1>5. /\ Send(c, r.missed) /\ stream' = [stream EXCEPT ![c] = new] /\ Continue(h, NoRequest) /\ ~AtRest(h)
      /\ UNCHANGED <<revision, rows, listener, channel, cut, dropped>>
  BY <1>1, <1>2, <1>3, <1>4 DEF Subscribe, Answer, AtRest
<1>6. /\ ReturnParts /\ StreamsOneInFlight'
      /\ request'[h] = NoRequest /\ \A g \in Handlers : g # h => request'[g] = request[g]
      /\ \A g \in Handlers : g # h => request[g].op = "none"
  BY <1>5, NothingStreams, AloneInFlight DEF NoStreamRequest
<1>7. \A g \in Handlers : request'[g].op = "none"
  BY <1>6, NothingStreams DEF NoStreamRequest
<1>8. /\ r.missed \subseteq rows /\ r.after = last[c] /\ \A e \in r.missed : e.rev > r.after
      /\ c \notin cut => \A e \in rows : MayReceive(c, e) /\ e.rev > r.after => e \in r.missed
  BY <1>1, <1>2, <1>3, <1>6 DEF StreamFits, ReturnParts, ReplayIsWhole
<1>9. \A e \in rows : e.rev \in Nat
  BY RowFacts DEF ReturnInv, OpenInv
<1>10. \A d \in Clients : last[d] \in Nat
  BY DEF ReturnInv, OpenInv, StreamInv, StreamTypes
<1>11. /\ \A d \in Clients : d # c => got'[d] = got[d]
       /\ got'[c] = got[c] \cup {e.rev : e \in r.missed}
  BY <1>5 DEF Send, ReturnInv, OpenInv, StreamInv, StreamTypes
<1>12. /\ \A d \in Clients : d # c => last'[d] = last[d]
       /\ last'[c] \in Nat /\ (last'[c] = last[c] \/ \E e \in r.missed : last'[c] = e.rev)
  <2>1. CASE r.missed = {}
    BY <1>5, <1>10, <2>1 DEF Send
  <2>2. CASE r.missed # {}
    <3>1. PICK latest \in r.missed : last' = [last EXCEPT ![c] = latest.rev]
      BY <1>5, <2>2 DEF Send
    <3>2. last'[c] = latest.rev /\ \A d \in Clients : d # c => last'[d] = last[d]
      BY <3>1 DEF ReturnInv, OpenInv, StreamInv, StreamTypes
    <3>3. QED
      BY <1>8, <1>9, <3>2
  <2>3. QED
    BY <2>1, <2>2
<1>13. stream'[c] = new /\ \A d \in Clients : d # c => stream'[d] = stream[d]
  BY <1>5 DEF ReturnInv, OpenInv, StreamInv, StreamTypes
<1>14. \A e \in rows : c \notin cut /\ MayReceive(c, e) => e.rev \in got'[c]
  <2> SUFFICES ASSUME NEW e \in rows, c \notin cut, MayReceive(c, e) PROVE e.rev \in got'[c]
    OBVIOUS
  <2>1. CASE e.rev <= last[c]
    BY <1>6, <1>11, <2>1 DEF ReturnParts, SentUpToLast
  <2>2. CASE e.rev > last[c]
    BY <1>8, <1>11, <2>2
  <2>3. QED
    BY <1>9, <1>10, <2>1, <2>2
<1>15. Pending = {}
  BY <1>1, <1>2, <1>6 DEF Pending
<1>16. SentUpToLast'
  <2> SUFFICES ASSUME NEW d \in Clients \ cut, NEW e \in rows, MayReceive(d, e), e.rev <= last'[d]
               PROVE  e.rev \in got'[d]
    BY <1>5 DEF SentUpToLast, MayReceive
  <2>1. CASE d = c
    BY <1>14, <2>1
  <2>2. CASE d # c
    BY <1>6, <1>11, <1>12, <2>2 DEF ReturnParts, SentUpToLast
  <2>3. QED
    BY <2>1, <2>2
<1>17. RestIsOnItsWay'
  <2> SUFFICES ASSUME NEW d \in Clients \ cut, NEW e \in rows, stream'[d].open, MayReceive(d, e)
               PROVE  e.rev \in got'[d] \/ InChannel(e)
    BY <1>5 DEF RestIsOnItsWay, MayReceive, InChannel
  <2>1. CASE d = c
    BY <1>14, <2>1
  <2>2. CASE d # c
    BY <1>6, <1>11, <1>13, <1>15, <2>2 DEF ReturnParts, RestIsOnItsWay
  <2>3. QED
    BY <2>1, <2>2
<1>18. Resumed'
  <2> SUFFICES ASSUME NEW d \in Clients, stream'[d].open PROVE stream'[d].after <= last'[d]
    BY DEF Resumed
  <2>1. CASE d = c
    <3>1. stream'[d].after = last[c]
      BY <1>4, <1>8, <1>13, <2>1
    <3>2. CASE last'[c] = last[c]
      BY <1>10, <2>1, <3>1, <3>2
    <3>3. CASE \E e \in r.missed : last'[c] = e.rev
      BY <1>8, <1>9, <1>10, <2>1, <3>1, <3>3
    <3>4. QED
      BY <1>12, <3>2, <3>3
  <2>2. CASE d # c
    BY <1>6, <1>12, <1>13, <2>2 DEF ReturnParts, Resumed
  <2>3. QED
    BY <2>1, <2>2
<1>19. ChannelInOrder' /\ ReplayIsWhole'
  BY <1>5, <1>6, <1>7 DEF ReturnParts, ChannelInOrder, ReplayIsWhole
<1>20. QED
  BY <1>6, <1>16, <1>17, <1>18, <1>19 DEF ReturnParts

LEMMA DisconnectReturns ==
  ASSUME ReturnInv, NEW c \in Clients, Disconnect(c), ~overlapped', ~dropped'
  PROVE  ReturnParts'
<1>1. /\ stream' = [stream EXCEPT ![c] = NoStream]
      /\ UNCHANGED <<revision, rows, listener, channel, got, last, cut, dropped, request, overlapped>>
  BY DEF Disconnect, apiVars
<1>2. ReturnParts /\ \A d \in Clients : stream'[d].open => stream'[d] = stream[d] /\ stream[d].open
  BY <1>1 DEF ReturnInv, OpenInv, StreamInv, StreamTypes, NoStream
<1>3. Pending' = Pending /\ \A e : InChannel(e) => InChannel(e)'
  BY <1>1 DEF Pending, InChannel
<1>4. SentUpToLast' /\ RestIsOnItsWay' /\ Resumed'
  BY <1>1, <1>2, <1>3 DEF ReturnParts, SentUpToLast, RestIsOnItsWay, Resumed, MayReceive
<1>5. StreamsOneInFlight' /\ ChannelInOrder'
  BY <1>1, <1>2 DEF ReturnParts, StreamsOneInFlight, ChannelInOrder, AtRest
<1>6. ReplayIsWhole'
  <2>1. \A h \in Handlers : request[h].op \in {"listen", "subscribe"} => request[h].c \in Clients
    BY StreamOps DEF ReturnInv, OpenInv, StreamInv, StreamTypes
  <2>2. QED
    BY <1>1, <1>2, <2>1 DEF ReturnParts, ReplayIsWhole, MayReceive
<1>7. QED
  BY <1>2, <1>4, <1>5, <1>6 DEF ReturnParts

LEMMA ListenerReturns ==
  ASSUME ReturnInv, ListenConnected \/ ListenFails \/ ListenEnds \/ ListenReconnect,
         ~overlapped', ~dropped'
  PROVE  ReturnParts'
<1>1. ListenConnected /\ ~dropped
  BY DEF ReturnInv, OpenInv, ListenerFirst, ListenConnected, ListenFails, ListenEnds, ListenReconnect
<1>2. UNCHANGED <<revision, rows, channel, stream, got, last, cut, dropped, request, overlapped>>
  BY <1>1 DEF ListenConnected, apiVars
<1>3. ReturnParts
  BY <1>2 DEF ReturnInv
<1>4. Pending' = Pending /\ \A e : InChannel(e) => InChannel(e)'
  BY <1>2 DEF Pending, InChannel
<1>5. SentUpToLast' /\ RestIsOnItsWay' /\ Resumed'
  BY <1>2, <1>3, <1>4 DEF ReturnParts, SentUpToLast, RestIsOnItsWay, Resumed, MayReceive
<1>6. StreamsOneInFlight' /\ ChannelInOrder' /\ ReplayIsWhole'
  BY <1>2, <1>3 DEF ReturnParts, StreamsOneInFlight, ChannelInOrder, ReplayIsWhole, AtRest, MayReceive
<1>7. QED
  BY <1>5, <1>6 DEF ReturnParts

\* The first of the channel is the earliest a stream has not yet.
LEMMA ReceiveReturns ==
  ASSUME ReturnInv, Receive, ~overlapped', ~dropped'
  PROVE  ReturnParts'
<1>1. /\ listener = "up" /\ channel # <<>> /\ FanOut(Head(channel)) /\ channel' = Tail(channel)
      /\ UNCHANGED <<revision, rows, listener, stream, cut, dropped, request, overlapped>>
  BY DEF Receive, apiVars
<1>2. /\ Len(channel) \in Nat /\ Len(channel) > 0 /\ Len(channel') = Len(channel) - 1
      /\ \A i \in 1..Len(channel') : channel'[i] = channel[i + 1]
      /\ Head(channel) = channel[1]
  <2>1. channel \in Seq(Events)
    BY DEF ReturnInv, OpenInv, StreamInv, StreamTypes
  <2>2. QED
    BY <1>1, <2>1
<1>3. PICK e \in rows : e = Head(channel)
  BY <1>2 DEF ReturnInv, OpenInv, StreamInv, SentAreRows
<1>4. /\ \A c \in Clients : got[c] \subseteq got'[c]
      /\ \A c \in Clients : Receives(c, e) => e.rev \in got'[c] /\ last'[c] = e.rev
      /\ \A c \in Clients : ~Receives(c, e) => got'[c] = got[c] /\ last'[c] = last[c]
  BY <1>1, <1>3, FanOutSends DEF ReturnInv, OpenInv
<1>5. ReturnParts
  BY <1>1 DEF ReturnInv
<1>6. Pending' = Pending
  BY <1>1 DEF Pending
<1>7. \A d \in rows : d.rev \in Nat
  BY RowFacts DEF ReturnInv, OpenInv
<1>8. \A c \in Clients : last[c] \in Nat /\ stream[c].after \in Nat
  BY DEF ReturnInv, OpenInv, StreamInv, StreamTypes, Streams
<1>9. \A d : InChannel(d) => InChannel(d)' \/ d = e
  <2> SUFFICES ASSUME NEW i \in 1..Len(channel), channel[i] # e
               PROVE  \E j \in 1..Len(channel') : channel'[j] = channel[i]
    BY DEF InChannel
  <2>1. i # 1 /\ i - 1 \in 1..Len(channel') /\ (i - 1) + 1 = i
    BY <1>2, <1>3
  <2>2. QED
    BY <1>2, <2>1
\* Nothing that waits is earlier.
<1>10. ASSUME NEW d \in rows, d \in Pending \/ InChannel(d) PROVE d = e \/ e.rev < d.rev
  <2>1. CASE d \in Pending
    <3>1. PICK h \in Handlers : request[h].op = "pg_notify" /\ request[h].event = d
      BY <2>1 DEF Pending
    <3>2. channel[1].rev < d.rev
      BY <1>2, <1>5, <3>1 DEF ReturnParts, ChannelInOrder
    <3>3. QED
      BY <1>2, <1>3, <3>2
  <2>2. CASE InChannel(d)
    <3>1. PICK i \in 1..Len(channel) : channel[i] = d
      BY <2>2 DEF InChannel
    <3>2. CASE i = 1
      BY <1>2, <1>3, <3>1, <3>2
    <3>3. CASE i # 1
      <4>1. 1 < i /\ 1 \in 1..Len(channel)
        BY <1>2, <3>3
      <4>2. channel[1].rev < channel[i].rev
        BY <1>5, <4>1 DEF ReturnParts, ChannelInOrder
      <4>3. QED
        BY <1>2, <1>3, <3>1, <4>2
    <3>4. QED
      BY <3>2, <3>3
  <2>3. QED
    BY <1>10, <2>1, <2>2
<1>11. SentUpToLast'
  <2> SUFFICES ASSUME NEW c \in Clients \ cut, NEW d \in rows, MayReceive(c, d), d.rev <= last'[c]
               PROVE  d.rev \in got'[c]
    BY <1>1 DEF SentUpToLast, MayReceive
  <2>1. CASE Receives(c, e)
    <3>1. d.rev <= e.rev /\ stream[c].open
      BY <1>4, <2>1 DEF Receives
    <3>2. d.rev \in got[c] \/ d \in Pending \/ InChannel(d)
      BY <1>5, <3>1 DEF ReturnParts, RestIsOnItsWay
    <3>3. d.rev \in got[c] \/ d = e
      BY <1>7, <1>10, <3>1, <3>2
    <3>4. QED
      BY <1>4, <2>1, <3>3
  <2>2. CASE ~Receives(c, e)
    BY <1>4, <1>5, <2>2 DEF ReturnParts, SentUpToLast
  <2>3. QED
    BY <2>1, <2>2
<1>12. RestIsOnItsWay'
  <2> SUFFICES ASSUME NEW c \in Clients \ cut, NEW d \in rows, stream[c].open, MayReceive(c, d)
               PROVE  d.rev \in got'[c] \/ d \in Pending \/ InChannel(d)'
    BY <1>1, <1>6 DEF RestIsOnItsWay, MayReceive
  <2>1. d.rev \in got[c] \/ d \in Pending \/ InChannel(d)
    BY <1>5 DEF ReturnParts, RestIsOnItsWay
  <2>2. CASE d = e
    <3>1. CASE e.rev > stream[c].after
      BY <1>4, <2>2, <3>1 DEF Receives
    <3>2. CASE e.rev <= stream[c].after
      <4>1. e.rev <= last[c]
        BY <1>5, <1>7, <1>8, <3>2 DEF ReturnParts, Resumed
      <4>2. e.rev \in got[c]
        BY <1>5, <2>2, <4>1 DEF ReturnParts, SentUpToLast
      <4>3. QED
        BY <1>4, <2>2, <4>2
    <3>3. QED
      BY <1>7, <1>8, <3>1, <3>2
  <2>3. CASE d # e
    BY <1>4, <1>9, <2>1, <2>3
  <2>4. QED
    BY <2>2, <2>3
<1>13. Resumed'
  <2> SUFFICES ASSUME NEW c \in Clients, stream[c].open PROVE stream[c].after <= last'[c]
    BY <1>1 DEF Resumed
  <2>1. CASE Receives(c, e)
    BY <1>4, <1>7, <1>8, <2>1 DEF Receives
  <2>2. CASE ~Receives(c, e)
    BY <1>4, <1>5, <2>2 DEF ReturnParts, Resumed
  <2>3. QED
    BY <2>1, <2>2
<1>14. ChannelInOrder'
  <2>1. \A i \in 1..Len(channel') : i + 1 \in 1..Len(channel)
    BY <1>2
  <2>2. \A i, j \in 1..Len(channel') : i < j => channel'[i].rev < channel'[j].rev
    BY <1>2, <1>5, <2>1 DEF ReturnParts, ChannelInOrder
  <2>3. \A h \in Handlers : request[h].op \in {"event", "pg_notify"} =>
          \A i \in 1..Len(channel') : channel'[i].rev < request[h].event.rev
    BY <1>2, <1>5, <2>1 DEF ReturnParts, ChannelInOrder
  <2>4. \A h \in Handlers : request[h].op = "event" => e.rev < request[h].event.rev
    BY <1>2, <1>3, <1>5 DEF ReturnParts, ChannelInOrder
  <2>5. \A h \in Handlers : request[h].op = "event" =>
          \A c \in Clients : last'[c] < request[h].event.rev
    BY <1>4, <1>5, <2>4 DEF ReturnParts, ChannelInOrder
  <2>6. QED
    BY <1>1, <2>2, <2>3, <2>5 DEF ChannelInOrder
<1>15. ReplayIsWhole'
  <2>1. ASSUME NEW h \in Handlers, request[h].op = "subscribe"
        PROVE  request[h].c \in Clients /\ last'[request[h].c] = last[request[h].c]
    <3>1. request[h].c \in Clients
      BY <2>1, StreamOps DEF ReturnInv, OpenInv, StreamInv, StreamTypes
    <3>2. ~stream[request[h].c].open
      BY <1>5, <2>1 DEF ReturnParts, ReplayIsWhole
    <3>3. QED
      BY <1>4, <3>1, <3>2 DEF Receives
  <2>2. QED
    BY <1>1, <1>5, <2>1 DEF ReturnParts, ReplayIsWhole, MayReceive
<1>16. StreamsOneInFlight'
  BY <1>1, <1>5 DEF ReturnParts, StreamsOneInFlight, AtRest
<1>17. QED
  BY <1>11, <1>12, <1>13, <1>14, <1>15, <1>16 DEF ReturnParts

LEMMA ReturnNext ==
  ReturnInv /\ [EventNext \/ ListenerFailure]_<<eventVars, apiVars>> => ReturnInv'
<1> SUFFICES ASSUME ReturnInv, [EventNext \/ ListenerFailure]_<<eventVars, apiVars>>,
                    ~overlapped', ~dropped'
             PROVE  ReturnParts'
  BY OpenNext DEF ReturnInv
<1>1. CASE UNCHANGED <<eventVars, apiVars>>
  <2>1. UNCHANGED <<revision, rows, listener, channel, stream, got, last, cut, dropped, request, overlapped>>
    BY <1>1 DEF eventVars, apiVars
  <2>2. ReturnParts
    BY <2>1 DEF ReturnInv
  <2>3. Pending' = Pending /\ \A e : InChannel(e) => InChannel(e)'
    BY <2>1 DEF Pending, InChannel
  <2>4. SentUpToLast' /\ RestIsOnItsWay' /\ Resumed'
    BY <2>1, <2>2, <2>3 DEF ReturnParts, SentUpToLast, RestIsOnItsWay, Resumed, MayReceive
  <2>5. StreamsOneInFlight' /\ ChannelInOrder' /\ ReplayIsWhole'
    BY <2>1, <2>2 DEF ReturnParts, StreamsOneInFlight, ChannelInOrder, ReplayIsWhole, AtRest, MayReceive
  <2>6. QED
    BY <2>4, <2>5 DEF ReturnParts
<1>2. CASE EventNext
  BY <1>2, ReceiveReturns, ListenerReturns, DisconnectReturns, InsertReturns, NotifyReturns,
     GetEventsReturns, SubscribeReturns, BumpReturns, ConnectReturns DEF EventNext
<1>3. CASE ListenerFailure
  BY <1>3, ListenerReturns DEF ListenerFailure, NotifyRefused
<1>4. QED
  BY <1>1, <1>2, <1>3

LEMMA ReturnGives == ReturnInv => EventsArrive
<1> SUFFICES ASSUME ReturnInv PROVE EventsArrive
  OBVIOUS
<1>1. EventTypeOK /\ OneEventPerRevision /\ OnlyForItsAudience
  BY DEF ReturnInv, OpenInv, StreamInv, StreamTypes, RevisionsAreTaken, SentAreRows, EventTypeOK, Events
<1>2. channel = <<>> => \A e : ~InChannel(e)
  BY DEF InChannel
<1>3. OpenStreamMissesNothing
  BY <1>2 DEF ReturnInv, OpenInv, OnItsWay, OpenStreamMissesNothing, MayReceive
<1>4. (\A h \in Handlers : AtRest(h)) => Pending = {}
  BY DEF Pending, AtRest
<1>5. ReturningMissesNothing
  BY <1>2, <1>4 DEF ReturnInv, ReturnParts, RestIsOnItsWay, ReturningMissesNothing, MayReceive
<1>6. QED
  BY <1>1, <1>3, <1>5 DEF EventsArrive

\* Every change reaches the streams it is meant for, live or at their return,
\* and no other, whichever of two changes is published first
\* (publishWorkspaceEvent, fanOut, getEvents).
THEOREM EventsDoArrive == EventSpec => []EventsArrive
BY ReturnInit, ReturnNext, ReturnGives, PTL DEF EventSpec
=============================================================================
