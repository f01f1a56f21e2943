--------------------------- MODULE WorkspaceReplace --------------------------
(***************************************************************************)
(* The task tracker's whole-workspace writes, PUT /workspace and import:   *)
(* what the client sends is merged with what the tables held when they     *)
(* were read, as far as the role of the actor allows, and then every table *)
(* is emptied and written from the merged copy.  Members of projects,      *)
(* teams and the calendar go the way of the projects and are left out.     *)
(***************************************************************************)
EXTENDS ApiProcess

CONSTANTS
  Names,     \* of the staff
  Teams,     \* the projects, by name
  TaskIds,
  Incoming,  \* the workspaces that clients send
  Matrices,  \* what an administrator may be allowed
  Absent

VARIABLES
  workspace,  \* roles of the staff, projects, and where each task is, with its project
  matrix      \* the actions allowed to administrators

replaceVars == <<workspace, matrix>>

Roles == {"Super Admin", "Admin", "Junior Staff"}

\* A copy of the workspace, as far as it is told apart.
Workspaces ==
  [role : [Names -> Roles \cup {Absent}], projects : SUBSET Teams,
   tasks : [TaskIds -> Teams \cup {Absent}], trash : [TaskIds -> Teams \cup {Absent}],
   archive : [TaskIds -> Teams \cup {Absent}]]

ASSUME IncomingAssumption == Incoming \subseteq Workspaces

StaffOf(w) == {n \in Names : w.role[n] # Absent}

StaffHasSuperAdmin(w) == \E n \in StaffOf(w) : w.role[n] = "Super Admin"

Can(role, action) ==
  \/ role = "Super Admin"
  \/ action \in matrix
  \/ action = "tasks.archive" /\ {"tasks.delete", "tasks.move"} \cap matrix # {}

\* getLegacyWorkspaceData: entries of projects that are gone are not shown.
Loaded ==
  LET Shown(place) == [t \in TaskIds |-> IF place[t] \in workspace.projects THEN place[t] ELSE Absent]
  IN [workspace EXCEPT !.trash = Shown(@), !.archive = Shown(@)]

-----------------------------------------------------------------------------
\* Fault: the staff that is left may have no Super Admin.
MergeStaffUnchecked(existing, incoming, role, actor) ==
  LET removed == IF Can(role, "staff.delete")
                 THEN StaffOf(existing) \ (StaffOf(incoming) \cup {actor}) ELSE {}
  IN [n \in Names |->
       IF n \in removed THEN Absent
       ELSE IF n \in StaffOf(existing) \cap StaffOf(incoming) /\ Can(role, "staff.assignRole")
            THEN incoming.role[n]
       ELSE existing.role[n]]

\* mergeStaff
MergeStaff(existing, incoming, role, actor) ==
  LET removed == IF Can(role, "staff.delete")
                 THEN StaffOf(existing) \ (StaffOf(incoming) \cup {actor}) ELSE {}
      added == IF Can(role, "staff.create") THEN StaffOf(incoming) \ StaffOf(existing) ELSE {}
      merged == [existing EXCEPT !.role = [n \in Names |->
                  IF n \in removed THEN Absent
                  ELSE IF n \in added THEN incoming.role[n]
                  ELSE IF n \in StaffOf(existing) \cap StaffOf(incoming) /\ Can(role, "staff.assignRole")
                       THEN incoming.role[n]
                  ELSE existing.role[n]]]
  IN IF StaffHasSuperAdmin(merged) THEN merged.role
     ELSE [n \in Names |-> IF existing.role[n] = "Super Admin" THEN existing.role[n] ELSE merged.role[n]]

\* mergeTasks: a new task, a changed one, one that is no longer there.
MergeTasks(existing, incoming, role) ==
  [t \in TaskIds |->
    CASE existing[t] = Absent -> IF Can(role, "tasks.create") THEN incoming[t] ELSE Absent
      [] existing[t] # Absent /\ incoming[t] = Absent ->
           IF Can(role, "tasks.delete") THEN Absent ELSE existing[t]
      [] OTHER -> IF Can(role, "tasks.edit") THEN incoming[t] ELSE existing[t]]

\* mergeById
MergeById(existing, incoming, canAdd, canRemove) ==
  [t \in TaskIds |->
    IF canAdd /\ canRemove THEN incoming[t]
    ELSE IF existing[t] = Absent THEN IF canAdd THEN incoming[t] ELSE Absent
    ELSE IF canRemove /\ incoming[t] = Absent THEN Absent ELSE existing[t]]

ReplacesAll(role) == role = "Super Admin" \/ Can(role, "backup.import")

\* The copy replaces everything, but for its staff if it has no Super Admin,
\* and but for the actor.
Replaced(existing, incoming, actor) ==
  LET staff == IF StaffHasSuperAdmin(incoming) THEN incoming.role ELSE existing.role
  IN [incoming EXCEPT !.role =
       IF staff[actor] = Absent THEN [staff EXCEPT ![actor] = existing.role[actor]] ELSE staff]

\* applyPermittedWorkspaceUpdate
Merged(existing, incoming, role, actor) ==
  IF ReplacesAll(role) THEN Replaced(existing, incoming, actor)
  ELSE [role |-> MergeStaff(existing, incoming, role, actor),
        projects |-> IF Can(role, "projects") THEN incoming.projects ELSE existing.projects,
        tasks |-> MergeTasks(existing.tasks, incoming.tasks, role),
        trash |-> MergeById(existing.trash, incoming.trash,
                            Can(role, "tasks.delete"), Can(role, "trash.restore")),
        archive |-> MergeById(existing.archive, incoming.archive,
                              Can(role, "tasks.archive"), Can(role, "tasks.archive"))]

-----------------------------------------------------------------------------
\* putWorkspace, and importWorkspace for whom "backup.import" is allowed.
PutWorkspace(h, a, incoming) ==
  LET role == workspace.role[a]
  IN /\ a \in StaffOf(workspace)
     /\ role \in {"Super Admin", "Admin"} \/ Can(role, "backup.import")
     /\ Hold(h, [op |-> "sync", by |-> a, as |-> role, data |-> Merged(Loaded, incoming, role, a)])
     /\ UNCHANGED replaceVars

\* syncLegacyWorkspaceData: nobody is added who was not on the staff, and no
\* task without its project.
HaveTheirProject(w) == \A t \in TaskIds : w.tasks[t] # Absent => w.tasks[t] \in w.projects

CanSync(data) == StaffOf(data) \subseteq StaffOf(workspace) /\ HaveTheirProject(data)

SyncWorkspace(h) ==
  LET data == request[h].data
  IN /\ request[h].op = "sync"
     /\ workspace' = IF CanSync(data) THEN data ELSE workspace
     /\ Answer(h)
     /\ UNCHANGED matrix

\* What else is done to the workspace meanwhile: a project without tasks is
\* deleted, a task is made.
DropProject(p) ==
  /\ p \in workspace.projects /\ \A t \in TaskIds : workspace.tasks[t] # p
  /\ AtOnce
  /\ workspace' = [workspace EXCEPT !.projects = @ \ {p}]
  /\ UNCHANGED matrix

NewTask(t, p) ==
  /\ p \in workspace.projects
  /\ Absent = workspace.tasks[t] /\ Absent = workspace.trash[t] /\ Absent = workspace.archive[t]
  /\ AtOnce
  /\ workspace' = [workspace EXCEPT !.tasks[t] = p]
  /\ UNCHANGED matrix

ReplaceNext ==
  \/ \E p \in Teams : DropProject(p) \/ \E t \in TaskIds : NewTask(t, p)
  \/ \E h \in Handlers :
       SyncWorkspace(h) \/ \E a \in Names, incoming \in Incoming : PutWorkspace(h, a, incoming)

ReplaceInit ==
  /\ workspace \in {w \in Incoming : StaffHasSuperAdmin(w) /\ HaveTheirProject(w)}
  /\ matrix \in Matrices
  /\ ApiInit

ReplaceSpec == ReplaceInit /\ [][ReplaceNext]_<<replaceVars, apiVars>>

-----------------------------------------------------------------------------
(* What a whole-workspace write promises.                                  *)

\* The tables hold values the code can give them, and every task keeps a
\* project, though what a client sends and what the tables held are merged
\* table by table.
ReplaceTypeOK == workspace \in Workspaces /\ HaveTheirProject(workspace)

\* applyPermittedWorkspaceUpdate: whatever a client sends, and whoever sends it,
\* somebody remains who may do everything.
SuperAdminRemains == StaffHasSuperAdmin(workspace)

\* Whatever copy of the workspace a client writes back, with whatever rights,
\* the result is one the tables can hold and somebody can administer.
WorkspaceIsWhole == ReplaceTypeOK /\ SuperAdminRemains
=============================================================================
