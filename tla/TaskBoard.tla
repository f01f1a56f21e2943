----------------------------- MODULE TaskBoard ------------------------------
(***************************************************************************)
(* The task tracker's board: tasks with their owners, the projects they    *)
(* belong to, the trash and the archive.  A request checks what its actor  *)
(* may see, then writes, publishes an event to whom the task concerns and  *)
(* notifies the owners it added.  The trash and the archive know a project *)
(* by its name, so that what is restored goes to whichever project bears   *)
(* that name by then.                                                      *)
(***************************************************************************)
EXTENDS ApiProcess

CONSTANTS
  Tasks, Projects, ProjectNames,
  Staff,   \* the members of the workspace
  Admins,  \* those of them who see everything
  Lists,   \* the lists of owners that requests name, with names nobody bears
  Nil

ASSUME BoardAssumption == Nil \notin Tasks \cup Projects \cup ProjectNames \cup Staff

VARIABLES
  project,  \* the rows of tt_projects with their members
  task,     \* the rows of tt_tasks with their owners
  trash,    \* tt_deleted_tasks
  archive,  \* tt_archived_tasks
  created,  \* observation: the tasks there ever were
  knows,    \* observation: who put themselves on a task or was notified of it
  screen,   \* the tasks on the board each member's client last loaded
  broken    \* observation: a request failed, or was refused, after its first write

boardVars == <<project, task, trash, archive, created, knows, screen, broken>>

NoTask == [in |-> Nil, owners |-> {}, done |-> FALSE]
NoProject == [made |-> FALSE, name |-> Nil, leader |-> Nil, members |-> {}]

Exists(p) == p \in Projects /\ project[p].made

\* The name belongs to another project: unique([workspaceId, name]).
Taken(n, p) == \E q \in Projects \ {p} : project[q].made /\ project[q].name = n

GetProjectIdByName(n) ==
  LET found == {p \in Projects : project[p].made /\ project[p].name = n}
  IN IF found = {} THEN Nil ELSE CHOOSE p \in found : TRUE

\* The rows of the trash or of the archive that hold a task.
Copies(t, place) == {x \in place : x.id = t}

Unused(t) == task[t] = NoTask /\ Copies(t, trash \cup archive) = {}

-----------------------------------------------------------------------------
\* Who may open a project, and who sees a task of it.
MayEnter(a, p) ==
  Exists(p) /\ (a \in Admins \/ project[p].leader = a \/ a \in project[p].members)

IsVisibleTo(a, x) ==
  \/ a \in Admins \/ a \in x.owners
  \/ x.owners = {} /\ project[x.in].leader = a

MayTouch(a, x) == MayEnter(a, x.in) /\ IsVisibleTo(a, x)

\* An entry of the trash: an administrator is not held up by its project.
MayRestore(a, x) ==
  a \in Admins \/ MayTouch(a, [in |-> GetProjectIdByName(x.team), owners |-> x.owners])

Board(a) == {t \in Tasks : task[t] # NoTask /\ MayTouch(a, task[t])}

\* To whom an event about a task goes, besides the administrators.
EventRecipients(owners, p) ==
  IF owners # {} THEN owners
  ELSE IF Exists(p) THEN {project[p].leader} \ {Nil} ELSE {}

Reload(audience) ==
  screen' = [s \in Staff |-> IF s \in audience \cup Admins THEN Board(s) ELSE screen[s]]

-----------------------------------------------------------------------------
\* The steps that requests share: the owners named become members of the
\* project, the event goes out, those newly named are notified.
EnsureProjectMembers(h) ==
  LET r == request[h]
      named == r.named \cap Staff
  IN /\ r.op = "join"
     /\ IF named = {} \/ Exists(r.in)
        THEN /\ project' = IF named = {} THEN project
                           ELSE [project EXCEPT ![r.in].members = @ \cup named]
             /\ Continue(h, [r EXCEPT !.op = r.next])
             /\ UNCHANGED broken
        ELSE /\ broken' = (broken \/ r.next = "publish")
             /\ Answer(h) /\ UNCHANGED project
     /\ UNCHANGED <<task, trash, archive, created, knows, screen>>

Publish(h) ==
  LET r == request[h]
  IN /\ r.op = "publish"
     /\ Reload(EventRecipients(r.concerns, r.in))
     /\ Continue(h, [r EXCEPT !.op = "notify"])
     /\ UNCHANGED <<project, task, trash, archive, created, knows, broken>>

\* Fault: whoever owns the task by now is taken for notified.
OnlyNotYetOwners(before, after, actor) ==
  after \ (before \cup {actor} \cup UNION {task[t].owners : t \in Tasks})

GetNewAssigneeIds(before, after, actor) == after \ (before \cup {actor})

NotifyAssignees(h) ==
  LET r == request[h]
      new == GetNewAssigneeIds(r.before, r.named \cap Staff, r.by)
  IN /\ r.op = "notify"
     /\ knows' = IF r.id \in Tasks THEN [knows EXCEPT ![r.id] = @ \cup new] ELSE knows
     /\ Answer(h)
     /\ UNCHANGED <<project, task, trash, archive, created, screen, broken>>

-----------------------------------------------------------------------------
\* createTask: the owners join the project before the task is written.
AskCreate(h, a, p, named) ==
  /\ MayEnter(a, p)
  /\ \E t \in Tasks : Unused(t)  \* bound
  /\ Hold(h, [op |-> "join", next |-> "create", by |-> a, id |-> Nil, in |-> p,
              names |-> TRUE, named |-> named, before |-> {}, concerns |-> named \cap Staff])
  /\ UNCHANGED boardVars

CreateTask(h) ==
  LET r == request[h]
  IN /\ r.op = "create"
     /\ \/ /\ r.named \subseteq Staff /\ Exists(r.in)
           /\ \E t \in Tasks :
                /\ Unused(t)
                /\ task' = [task EXCEPT ![t] = [in |-> r.in, owners |-> r.named, done |-> FALSE]]
                /\ created' = created \cup {t}
                /\ knows' = [knows EXCEPT ![t] = @ \cup (r.named \cap {r.by})]
                /\ Continue(h, [r EXCEPT !.op = "publish", !.id = t])
           /\ UNCHANGED broken
        \/ /\ ~(r.named \subseteq Staff /\ Exists(r.in))
           /\ broken' = TRUE /\ Answer(h) /\ UNCHANGED <<task, created, knows>>
     /\ UNCHANGED <<project, trash, archive, screen>>

\* updateTask: the project is written back as it was read unless another was
\* asked for; the owners are replaced if the request names any.
AskUpdate(h, a, t, p, named) ==
  /\ task[t] # NoTask /\ MayTouch(a, task[t])
  /\ p # task[t].in => MayEnter(a, p)
  /\ \E names \in BOOLEAN :
       /\ ~names => named = {}
       /\ Hold(h, [op |-> "update", by |-> a, id |-> t, in |-> p, names |-> names,
                   named |-> IF names THEN named ELSE task[t].owners,
                   before |-> task[t].owners, concerns |-> named \cup task[t].owners])
  /\ UNCHANGED boardVars

UpdateTask(h) ==
  LET r == request[h]
  IN /\ r.op = "update"
     /\ IF task[r.id] # NoTask /\ Exists(r.in) /\ (r.names => r.named \subseteq Staff)
        THEN /\ task' = [task EXCEPT ![r.id].in = r.in,
                                     ![r.id].owners = IF r.names THEN r.named ELSE @]
             /\ knows' = IF r.names /\ r.by \in r.named
                         THEN [knows EXCEPT ![r.id] = @ \cup {r.by}] ELSE knows
             /\ Continue(h, [op |-> IF r.names THEN "join" ELSE "publish",
                             next |-> "publish", by |-> r.by, id |-> r.id, in |-> r.in,
                             names |-> r.names, named |-> r.named, before |-> r.before,
                             concerns |-> r.concerns])
        ELSE Answer(h) /\ UNCHANGED <<task, knows>>
     /\ UNCHANGED <<project, trash, archive, created, screen, broken>>

\* moveTask: between the columns; the event goes to the owners of now.
AskMove(h, a, t, done) ==
  /\ task[t] # NoTask /\ MayTouch(a, task[t])
  /\ Hold(h, [op |-> "move", by |-> a, id |-> t, done |-> done])
  /\ UNCHANGED boardVars

MoveTask(h) ==
  LET r == request[h]
      x == task[r.id]
  IN /\ r.op = "move"
     /\ IF x # NoTask
        THEN /\ task' = [task EXCEPT ![r.id].done = r.done]
             /\ Continue(h, [op |-> "publish", by |-> r.by, id |-> r.id, in |-> x.in,
                             names |-> FALSE, named |-> x.owners, before |-> x.owners,
                             concerns |-> x.owners])
        ELSE Answer(h) /\ UNCHANGED task
     /\ UNCHANGED <<project, trash, archive, created, knows, screen, broken>>

\* deleteTask and archiveTask: what was read goes to the trash or the archive
\* in the transaction that deletes the task; then the project is looked up by
\* the name that was read.
AskRemove(h, a, t, place) ==
  LET x == task[t]
  IN /\ x # NoTask /\ MayTouch(a, x)
     /\ place = "archive" => x.done
     /\ Hold(h, [op |-> place, by |-> a, id |-> t, in |-> Nil, team |-> project[x.in].name,
                 done |-> x.done, names |-> FALSE, named |-> x.owners, before |-> x.owners,
                 concerns |-> x.owners])
     /\ UNCHANGED boardVars

Entry(r) == [id |-> r.id, team |-> r.team, owners |-> r.named, done |-> r.done]

RemoveTask(h) ==
  LET r == request[h]
  IN /\ r.op \in {"trash", "archive"}
     /\ IF task[r.id] # NoTask
        THEN /\ task' = [task EXCEPT ![r.id] = NoTask]
             /\ trash' = IF r.op = "trash" THEN trash \cup {Entry(r)} ELSE trash
             /\ archive' = IF r.op = "archive" THEN archive \cup {Entry(r)} ELSE archive
             /\ Continue(h, [r EXCEPT !.op = "publish", !.in = GetProjectIdByName(r.team)])
        ELSE Answer(h) /\ UNCHANGED <<task, trash, archive>>
     /\ UNCHANGED <<project, created, knows, screen, broken>>

\* restoreTrashTask: the same task, in the project that bears the name by now.
AskRestore(h, a, x) ==
  LET p == GetProjectIdByName(x.team)
  IN /\ x \in trash /\ MayRestore(a, x) /\ p # Nil
     /\ Hold(h, [op |-> "join", next |-> "restore", by |-> a, id |-> x.id, in |-> p,
                 team |-> x.team, done |-> x.done, names |-> TRUE, named |-> x.owners,
                 before |-> x.owners, concerns |-> x.owners])
     /\ UNCHANGED boardVars

RestoreTask(h) ==
  LET r == request[h]
  IN /\ r.op = "restore"
     /\ IF task[r.id] = NoTask /\ Entry(r) \in trash /\ Exists(r.in)
        THEN /\ task' = [task EXCEPT ![r.id] = [in |-> r.in, owners |-> r.named, done |-> r.done]]
             /\ trash' = trash \ {Entry(r)}
             /\ Continue(h, [r EXCEPT !.op = "publish"])
        ELSE Answer(h) /\ UNCHANGED <<task, trash>>
     /\ UNCHANGED <<project, archive, created, knows, screen, broken>>

-----------------------------------------------------------------------------
\* Projects.  A write that carries nothing over from what was checked is one
\* step with its check.  The event goes to everyone.
ToEveryone(op, a, p, joining) ==
  [op |-> op, next |-> "publish", by |-> a, id |-> Nil, in |-> p, names |-> FALSE,
   named |-> joining, before |-> {}, concerns |-> Staff]

CreateProject(h, a, p, n) ==
  /\ ~Exists(p) /\ ~Taken(n, p)
  /\ project' = [project EXCEPT ![p] = [NoProject EXCEPT !.made = TRUE, !.name = n]]
  /\ Hold(h, ToEveryone("join", a, p, {a}))
  /\ UNCHANGED <<task, trash, archive, created, knows, screen, broken>>

UpdateProject(h, a, p, n, leader) ==
  /\ MayEnter(a, p) /\ ~Taken(n, p)
  /\ project' = [project EXCEPT ![p].name = n, ![p].leader = leader]
  /\ Hold(h, ToEveryone("publish", a, p, {}))
  /\ UNCHANGED <<task, trash, archive, created, knows, screen, broken>>

SetProjectMembers(h, a, p, members) ==
  /\ MayEnter(a, p)
  /\ project' = [project EXCEPT ![p].members = members]
  /\ Hold(h, ToEveryone("publish", a, p, {}))
  /\ UNCHANGED <<task, trash, archive, created, knows, screen, broken>>

\* deleteProject: counted, then the members go, then the project unless a task
\* refers to it by then.
AskDeleteProject(h, a, p) ==
  /\ MayEnter(a, p) /\ \A t \in Tasks : task[t].in # p
  /\ Hold(h, [op |-> "expel", by |-> a, id |-> Nil, in |-> p])
  /\ UNCHANGED boardVars

DeleteMembers(h) ==
  LET r == request[h]
  IN /\ r.op = "expel"
     /\ project' = [project EXCEPT ![r.in].members = {}]
     /\ Continue(h, [r EXCEPT !.op = "drop"])
     /\ UNCHANGED <<task, trash, archive, created, knows, screen, broken>>

\* Fault: what was counted is relied on.
DeleteProjectCounted(h) ==
  LET r == request[h]
  IN /\ r.op = "drop"
     /\ project' = [project EXCEPT ![r.in] = NoProject]
     /\ Continue(h, ToEveryone("publish", r.by, r.in, {}))
     /\ UNCHANGED <<task, trash, archive, created, knows, screen, broken>>

DeleteProject(h) ==
  LET r == request[h]
  IN /\ r.op = "drop"
     /\ IF \A t \in Tasks : task[t].in # r.in
        THEN /\ project' = [project EXCEPT ![r.in] = NoProject]
             /\ Continue(h, ToEveryone("publish", r.by, r.in, {}))
        ELSE Answer(h) /\ UNCHANGED project
     /\ UNCHANGED <<task, trash, archive, created, knows, screen, broken>>

-----------------------------------------------------------------------------
TaskStep(h) ==
  \/ EnsureProjectMembers(h) \/ Publish(h) \/ NotifyAssignees(h)
  \/ CreateTask(h) \/ UpdateTask(h) \/ MoveTask(h) \/ RemoveTask(h) \/ RestoreTask(h)

TaskNext ==
  \E h \in Handlers :
    \/ TaskStep(h)
    \/ \E a \in Staff, x \in trash : AskRestore(h, a, x)
    \/ \E a \in Staff, t \in Tasks :
         \/ \E done \in BOOLEAN : AskMove(h, a, t, done)
         \/ \E place \in {"trash", "archive"} : AskRemove(h, a, t, place)
    \/ \E a \in Staff, p \in Projects, named \in Lists :
         AskCreate(h, a, p, named) \/ \E t \in Tasks : AskUpdate(h, a, t, p, named)

ProjectNext ==
  \E h \in Handlers :
    \/ DeleteMembers(h) \/ DeleteProject(h)
    \/ \E a \in Staff, p \in Projects :
         \/ AskDeleteProject(h, a, p)
         \/ \E n \in ProjectNames :
              \/ CreateProject(h, a, p, n)
              \/ \E leader \in Staff \cup {Nil} : UpdateProject(h, a, p, n, leader)
         \/ \E members \in Lists : members \subseteq Staff /\ SetProjectMembers(h, a, p, members)

BoardFailure ==
  /\ \E h \in Handlers : BreakOff(h)
  /\ broken' = TRUE
  /\ UNCHANGED <<project, task, trash, archive, created, knows, screen>>

BoardInit ==
  /\ project = [p \in Projects |-> NoProject]
  /\ task = [t \in Tasks |-> NoTask]
  /\ trash = {} /\ archive = {} /\ created = {}
  /\ knows = [t \in Tasks |-> {}]
  /\ screen = [s \in Staff |-> {}] /\ broken = FALSE
  /\ ApiInit

BoardSpec == BoardInit /\ [][TaskNext \/ ProjectNext \/ BoardFailure]_<<boardVars, apiVars>>

-----------------------------------------------------------------------------
(* What the task tracker promises about its tasks.                        *)

ProjectRows ==
  [made : BOOLEAN, name : ProjectNames \cup {Nil}, leader : Staff \cup {Nil},
   members : SUBSET Staff]

Rows ==
  [in : Projects, owners : SUBSET Staff, done : BOOLEAN]

Entries == [id : Tasks, team : ProjectNames \cup {Nil}, owners : SUBSET Staff, done : BOOLEAN]

\* The tables hold values the code can give them, and the archive only what
\* was done.
TaskTypeOK ==
  /\ project \in [Projects -> ProjectRows]
  /\ task \in [Tasks -> Rows \cup {NoTask}]
  /\ trash \subseteq Entries
  /\ archive \subseteq {x \in Entries : x.done}
  /\ created \subseteq Tasks
  /\ knows \in [Tasks -> SUBSET Staff] /\ screen \in [Staff -> SUBSET Tasks]

\* A task that was made is on the board, in the trash or in the archive, and in
\* one of them only, however requests to delete, archive and restore it run into
\* each other: what was read before the transaction decides nothing in it.
OnceSomewhere ==
  \A t \in created :
    LET copies == Cardinality(Copies(t, trash)) + Cardinality(Copies(t, archive))
    IN copies + (IF task[t] = NoTask THEN 0 ELSE 1) = 1

\* tt_tasks.project_id: a task belongs to a project that exists, whatever was
\* counted before the project was deleted.
TasksHaveAProject == \A t \in Tasks : task[t] # NoTask => Exists(task[t].in)

\* getNewAssigneeIds: once requests have ended, whoever owns a task on the board
\* put themselves on it or was notified of it, though who owned it before was
\* read before the write, and not again when it came back from the trash.
OwnersKnow ==
  ~broken /\ (\A h \in Handlers : AtRest(h)) => \A t \in Tasks : task[t].owners \subseteq knows[t]

\* ensureProjectMembers: by the time a request that names the owners of a task
\* publishes it, each of them may open it, those who owned it before and those
\* of a task from the trash included, in whatever project it is by then.  (A
\* request that moves a task without naming owners joins nobody to the project,
\* and leaves owners who may not open their task.)
NamedMayOpenIt ==
  \A h \in Handlers :
    LET r == request[h]
    IN ~overlapped /\ r.op = "publish" /\ r.names /\ r.id \in Tasks =>
         task[r.id] # NoTask /\ \A s \in task[r.id].owners : MayTouch(s, task[r.id])

\* taskEventRecipientStaffIds: once a request has ended, everyone who was told
\* of a change sees the board as it is; the events reach all whose board
\* changed, former owners included, but for the leaders of projects, who are not
\* told of a task that loses its last owner or gains its first.
BoardsAreCurrent ==
  ~overlapped /\ ~broken /\ (\A h \in Handlers : AtRest(h)) =>
    \A s \in Staff :
      (\A p \in Projects : project[p].leader # s) => screen[s] = Board(s)

\* No task is lost or doubled between the board, the trash and the archive, and
\* each has its project, although every handler decides on rows it read before
\* its transaction (deleteTask, archiveTask, restoreTrashTask, deleteProject).
TasksAreKept == TaskTypeOK /\ OnceSomewhere /\ TasksHaveAProject

\* Owners are told they own a task; those a request names may open it; and
\* boards are as the tables are.
WhoIsConcernedKnows == OwnersKnow /\ NamedMayOpenIt /\ BoardsAreCurrent
=============================================================================
