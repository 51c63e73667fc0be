-------------------------------- MODULE TeamTasks --------------------------------
(***************************************************************************)
(* The task and team registries (runtime/src/task_registry.rs,             *)
(* team_cron_registry.rs) as the tools use them (tools/src/lib.rs).  Each  *)
(* registry has a lock of its own, and TeamCreate takes one after the      *)
(* other: the team first, then each of its tasks.                          *)
(***************************************************************************)
EXTENDS FiniteSets

CONSTANTS
    TaskIds,  \* ids the task registry still hands out
    TeamIds,  \* ids the team registry still hands out
    NoTeam,   \* absence of a team or a task
    Turns     \* threads that use the tools

VARIABLES
    task,     \* RegistryInner::tasks
    team,     \* TeamInner::teams
    joining   \* the TeamCreate each thread is in: the team, the tasks to assign

teamVars == <<task, team, joining>>

Task == [status : {"created", "stopped"}, team : TeamIds \cup {NoTeam}]
Team == [tasks : SUBSET TaskIds, status : {"created", "deleted"}]

ASSUME TeamAssumption == NoTeam \notin TeamIds \cup Task \cup Team

\* A TeamCreate under way has its team and what is left of the team's tasks.
TeamTypeOK ==
    /\ task \in [TaskIds -> Task \cup {NoTeam}]
    /\ team \in [TeamIds -> Team \cup {NoTeam}]
    /\ joining \in [Turns -> [team : TeamIds \cup {NoTeam}, todo : SUBSET TaskIds]]

Joined == [team |-> NoTeam, todo |-> {}]

TeamInit ==
    /\ task = [t \in TaskIds |-> NoTeam]
    /\ team = [g \in TeamIds |-> NoTeam]
    /\ joining = [u \in Turns |-> Joined]

Free(u) == joining[u] = Joined

\* TaskCreate and RunTaskPacket.
CreateTask(t) ==
    /\ task[t] = NoTeam
    /\ task' = [task EXCEPT ![t] = [status |-> "created", team |-> NoTeam]]
    /\ UNCHANGED <<team, joining>>

\* TaskStop: a task that is stopped is not stopped again.
StopTask(t) ==
    /\ task[t] # NoTeam /\ task[t].status = "created"
    /\ task' = [task EXCEPT ![t].status = "stopped"]
    /\ UNCHANGED <<team, joining>>

\* TeamCreate, of any ids, of tasks that there are or not.
CreateTeam(u, g, ids) ==
    /\ Free(u) /\ team[g] = NoTeam
    /\ team' = [team EXCEPT ![g] = [tasks |-> ids, status |-> "created"]]
    /\ joining' = [joining EXCEPT ![u] = IF ids = {} THEN Joined ELSE [team |-> g, todo |-> ids]]
    /\ UNCHANGED task

\* assign_team, whatever became of the team; an unknown task is skipped.
AssignTeam(u, t) ==
    /\ t \in joining[u].todo
    /\ task' = IF task[t] = NoTeam THEN task
               ELSE [task EXCEPT ![t].team = joining[u].team]
    /\ joining' = [joining EXCEPT ![u] = IF joining[u].todo = {t} THEN Joined
                                         ELSE [joining[u] EXCEPT !.todo = @ \ {t}]]
    /\ UNCHANGED team

\* Broken variant: a deleted team is taken out of the registry.
DeleteTeamForGood(g) ==
    /\ team[g] # NoTeam
    /\ team' = [team EXCEPT ![g] = NoTeam]
    /\ UNCHANGED <<task, joining>>

\* TeamDelete marks the team, again and again if asked to.
DeleteTeam(g) ==
    /\ team[g] # NoTeam
    /\ team' = [team EXCEPT ![g].status = "deleted"]
    /\ UNCHANGED <<task, joining>>

TeamNext ==
    \/ \E t \in TaskIds : CreateTask(t) \/ StopTask(t)
    \/ \E u \in Turns, g \in TeamIds, ids \in SUBSET TaskIds : CreateTeam(u, g, ids)
    \/ \E u \in Turns, t \in TaskIds : AssignTeam(u, t)
    \/ \E g \in TeamIds : DeleteTeam(g)

TeamSpec == TeamInit /\ [][TeamNext]_teamVars

\* The team a task was assigned to is there, deleted or not, and has it among
\* its tasks, however the creations and deletions of teams overlap
\* (run_team_create, run_team_delete).
TeamOfTaskListsIt ==
    \A t \in TaskIds : task[t] # NoTeam /\ task[t].team # NoTeam =>
        /\ team[task[t].team] # NoTeam
        /\ t \in team[task[t].team].tasks
=============================================================================
