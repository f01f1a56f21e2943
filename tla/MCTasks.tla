------------------------------- MODULE MCTasks -------------------------------
(***************************************************************************)
(* The task tracker on small instances.  The scenarios share no step: TLC  *)
(* explores them side by side.                                             *)
(***************************************************************************)
EXTENDS TaskBoard, TrackerStaff, WorkspaceEvents, WorkspaceReplace, TLC

CONSTANTS boss, ann, bob, pa, pb, na, nb, t1, stranger, p1, p2

VARIABLE scenario

taskVars == <<boardVars, staffVars, eventVars, replaceVars, apiVars, scenario>>

\* Lists of owners, one with a name nobody on the staff bears.
SmallLists == {{}, {ann}, {ann, bob}, {bob, stranger}}

\* An event for one of them and the administrators, and for these alone.
SmallAudiences == {{ann}, {}}

\* What a client sends: roles of two people, any place of one task.
SmallRoles ==
  {r \in [Names -> Roles \cup {Absent}] : r[boss] # "Junior Staff" /\ r[ann] # "Super Admin"}

SmallWorkspaces ==
  [role : SmallRoles, projects : SUBSET Teams,
   tasks : [TaskIds -> Teams \cup {Absent}], trash : [TaskIds -> Teams \cup {Absent}],
   archive : {[t \in TaskIds |-> Absent]}]

SmallMatrices ==
  {{}, {"tasks.create", "tasks.edit", "tasks.move"}, {"tasks.delete", "projects"},
   {"trash.restore", "projects"}, {"staff.delete", "staff.assignRole"},
   {"staff.create", "backup.import"}}

Symmetry == Permutations(Handlers) \cup Permutations(People)

-----------------------------------------------------------------------------
NoBoard ==
  /\ project = [p \in Projects |-> NoProject] /\ task = [t \in Tasks |-> NoTask]
  /\ trash = {} /\ archive = {} /\ created = {}
  /\ knows = [t \in Tasks |-> {}] /\ screen = [s \in Staff |-> {}] /\ broken = FALSE

NoStaff ==
  /\ directory = [p \in People |-> "Gone"] /\ cached = NotCached
  /\ role = [p \in People |-> "none"] /\ given = [p \in People |-> "none"] /\ enablers = {}
  /\ token = [t \in Tokens |-> "none"] /\ sessions = [t \in Tokens |-> 0]

NoEvents ==
  /\ revision = 0 /\ rows = {} /\ listener = "none" /\ channel = <<>>
  /\ stream = [c \in Clients |-> NoStream]
  /\ got = [c \in Clients |-> {}] /\ last = [c \in Clients |-> 0]
  /\ cut = {} /\ dropped = FALSE

NoWorkspace ==
  /\ workspace = [role |-> [n \in Names |-> "Super Admin"], projects |-> {},
                  tasks |-> [t \in TaskIds |-> Absent], trash |-> [t \in TaskIds |-> Absent],
                  archive |-> [t \in TaskIds |-> Absent]]
  /\ matrix = {}

\* Projects with a member, one of them led.
WithProjects(P) ==
  /\ project = [p \in Projects |->
       IF p \in P
       THEN [made |-> TRUE, name |-> IF p = pa THEN na ELSE nb,
             leader |-> IF p = pb THEN bob ELSE Nil, members |-> {ann}]
       ELSE NoProject]
  /\ task = [t \in Tasks |-> NoTask]
  /\ trash = {} /\ archive = {} /\ created = {}
  /\ knows = [t \in Tasks |-> {}] /\ screen = [s \in Staff |-> {}] /\ broken = FALSE
  /\ ApiInit

TasksInit ==
  \/ /\ \/ scenario = "projects" /\ BoardInit
        \/ scenario = "board" /\ WithProjects(Projects)
        \/ scenario \in {"together", "fails", "renames"} /\ WithProjects({pa})
        \/ scenario = "drops" /\ WithProjects(Projects)
     /\ NoStaff /\ NoEvents /\ NoWorkspace
  \/ /\ scenario \in {"staff", "tokens"}
     /\ IF scenario = "tokens" THEN NoStaff /\ ApiInit ELSE StaffInit
     /\ NoBoard /\ NoEvents /\ NoWorkspace
  \/ scenario \in {"streams", "returns", "losses"} /\ EventInit /\ NoBoard /\ NoStaff /\ NoWorkspace
  \/ scenario = "replaces" /\ ReplaceInit /\ NoBoard /\ NoStaff /\ NoEvents

\* Those who ask, and the owners they name.
AskedBy(A, named) ==
  \A h \in Handlers :
    ~AtRest(h)' =>
      LET r == request'[h]
      IN r.by \in A /\ ("named" \in DOMAIN r => r.named \subseteq named)

\* A project is deleted while tasks are made in it and moved to it.
DropNext ==
  \E h \in Handlers :
    \/ DeleteMembers(h) \/ DeleteProject(h) \/ TaskStep(h)
    \/ \E p \in Projects :
         \/ AskDeleteProject(h, boss, p) \/ AskCreate(h, boss, p, {ann})
         \/ \E t \in Tasks : AskUpdate(h, boss, t, p, {}) \/ AskRemove(h, boss, t, "trash")

\* Tasks go to the trash and come back while projects take each other's names.
RenameNext ==
  \E h \in Handlers :
    \/ TaskStep(h)
    \/ \E p \in Projects :
         \/ AskCreate(h, ann, p, {ann, bob})
         \/ \E n \in ProjectNames :
              CreateProject(h, boss, p, n) \/ UpdateProject(h, boss, p, n, project[p].leader)
    \/ \E a \in {boss, ann} :
         \/ \E t \in Tasks : AskRemove(h, a, t, "trash")
         \/ \E x \in trash : AskRestore(h, a, x)

TasksNext ==
  /\ \/ /\ \/ scenario = "board" /\ TaskNext /\ ~overlapped'
           \/ scenario = "together" /\ TaskNext /\ AskedBy({boss, ann}, {ann})
           \/ scenario = "drops" /\ DropNext
           \/ scenario = "renames" /\ RenameNext
           \/ scenario = "fails" /\ (TaskNext \/ BoardFailure) /\ ~overlapped'
           \/ scenario = "projects" /\ (ProjectNext \/ TaskNext) /\ AskedBy({boss, ann}, Staff)
              /\ ~overlapped' /\ ~project'[pb].made
        /\ UNCHANGED <<staffVars, eventVars, replaceVars>>
     \/ /\ \/ scenario = "staff" /\ StaffNext
           \/ scenario = "tokens" /\ ExchangeNext
        /\ UNCHANGED <<boardVars, eventVars, replaceVars>>
     \/ /\ \/ scenario = "streams" /\ EventNext
           \/ scenario = "returns" /\ EventNext /\ ~overlapped'
           \/ scenario = "losses" /\ (EventNext \/ ListenerFailure)
        /\ scenario # "returns" => revision' < MaxRevision
        /\ UNCHANGED <<boardVars, staffVars, replaceVars>>
     \/ /\ scenario = "replaces" /\ ReplaceNext /\ ~overlapped'
        /\ UNCHANGED <<boardVars, staffVars, eventVars>>
  /\ UNCHANGED scenario

TasksSpec == TasksInit /\ [][TasksNext]_taskVars
=============================================================================
