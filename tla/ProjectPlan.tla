---------------------------- MODULE ProjectPlan ----------------------------
(***************************************************************************)
(* The stages and tasks of one project, as the services of the backend     *)
(* write them (stage_service, task_service, agent_proposal_service,        *)
(* replan_service, project_state_service).                                 *)
(*                                                                         *)
(* A plan is a record: the stages and the tasks in the order of their      *)
(* rows, the current stage and the project's status.  Names, dates and     *)
(* texts are left out, and a task is done or not done: nothing in these    *)
(* services tells the other task statuses apart.                           *)
(*                                                                         *)
(* The operators take the plan in the database and, where the handler      *)
(* works from rows it has read before it takes the write lock, the plan    *)
(* `seen' then: SQLAlchemy writes a column only when the new value differs *)
(* from the one it has loaded.                                             *)
(***************************************************************************)
EXTENDS Integers, Sequences, FiniteSets

CONSTANTS None,      \* no current stage
          PlanSize   \* the number of stages of a stage-plan proposal

ASSUME PlanSizeAssumption == PlanSize \in Nat \ {0}
ASSUME NoneAssumption == None \notin Nat

StageStatus   == {"pending", "active", "at_risk", "completed"}
ProjectStatus == {"draft", "active", "at_risk", "completed"}

Stages == [order : Nat, status : StageStatus]
Tasks  == [stage : Nat, done : BOOLEAN]
Plans  == [stages : Seq(Stages), tasks : Seq(Tasks), current : Nat \cup {None},
           status : ProjectStatus]

EmptyPlan == [stages |-> <<>>, tasks |-> <<>>, current |-> None, status |-> "draft"]

IsLive(stage)    == stage.status \in {"active", "at_risk"}
LiveStages(plan) == {i \in DOMAIN plan.stages : IsLive(plan.stages[i])}
TasksOf(tasks, i) == {t \in DOMAIN tasks : tasks[t].stage = i}

-----------------------------------------------------------------------------
(* Confirmed proposals *)

\* The stages of a plan, the first of them active.
NewStages == [i \in 1..PlanSize |->
                 [order |-> i, status |-> IF i = 1 THEN "active" ELSE "pending"]]

\* Faulty variant: the active stage of the former plan stays active.
SupersedePending(seen) ==
    {i \in DOMAIN seen.stages : seen.stages[i].status = "pending"}

\* The stages a new plan supersedes: the query asks for pending and active
\* ones, so a stage that is at risk stays as it is.
Superseded(seen) ==
    {i \in DOMAIN seen.stages : seen.stages[i].status \in {"pending", "active"}}

\* Faulty variant: counted after the new stages were inserted.
AfterNew(plan) == Len(plan.stages) + PlanSize + 1

\* The row of the first new stage.
FirstNew(plan) == Len(plan.stages) + 1

\* _persist_stage_plan.
PersistStagePlan(plan, seen) ==
    [plan EXCEPT
       !.stages = [i \in DOMAIN @ |->
                     IF i \in Superseded(seen) THEN [@[i] EXCEPT !.status = "completed"]
                                               ELSE @[i]] \o NewStages,
       !.current = FirstNew(plan),
       !.status = IF seen.status = "active" THEN @ ELSE "active"]

\* _persist_task_breakdown: one task for the stage the payload names.
PersistTaskBreakdown(plan, i) ==
    [plan EXCEPT !.tasks = Append(@, [stage |-> i, done |-> FALSE])]

\* replan_service.confirm_replan: the task's status only; no stage advances.
ConfirmReplan(plan, seen, change) ==
    [plan EXCEPT !.tasks[change.row].done =
        IF seen.tasks[change.row].done = change.done THEN @ ELSE change.done]

-----------------------------------------------------------------------------
(* Progress *)

\* The first of the pending stages by order_index (rows with equal keys come
\* in the order they were inserted), or None.
NextPending(plan) ==
    LET pending == {i \in DOMAIN plan.stages : plan.stages[i].status = "pending"}
        before(i, j) == \/ plan.stages[i].order < plan.stages[j].order
                        \/ plan.stages[i].order = plan.stages[j].order /\ i <= j
    IN  IF pending = {} THEN None
        ELSE CHOOSE i \in pending : \A j \in pending : before(i, j)

\* Faulty variant: the last stage's completion leaves the project where it is.
CompleteOnly(plan, seen, i) == [plan EXCEPT !.stages[i].status = "completed"]

\* try_advance_stage once it has found stage i live with all its tasks done:
\* complete it, and when it is the current one go on to the next.
CompleteStage(plan, seen, i) ==
    LET done == [plan EXCEPT !.stages[i].status = "completed"]
        next == NextPending(done)
    IN  CASE seen.current # i -> done
          [] seen.current = i /\ next # None ->
                [done EXCEPT !.stages[next].status = "active", !.current = next]
          [] seen.current = i /\ next = None ->
                [done EXCEPT !.current = None,
                             !.status = IF seen.status = "completed" THEN @ ELSE "completed"]

\* A live stage with tasks, all of them done.
Stalled(stages, tasks) ==
    {i \in DOMAIN stages :
        /\ IsLive(stages[i])
        /\ TasksOf(tasks, i) # {}
        /\ \A t \in TasksOf(tasks, i) : tasks[t].done}

\* create_status_update: the task's status, and the advance of its stage when
\* that makes the last task done.
StatusUpdate(plan, t, done) ==
    LET updated == [plan EXCEPT !.tasks[t].done = done]
        i == plan.tasks[t].stage
    IN  IF done /\ i \in Stalled(updated.stages, updated.tasks)
        THEN CompleteStage(updated, updated, i)
        ELSE updated

\* The tasks as a session that has read `seen' reads them again: a task it has
\* loaded keeps the status it had then.
Reread(tasks, seen) ==
    [t \in DOMAIN tasks |->
        IF t \in DOMAIN seen.tasks /\ seen.tasks[t].stage \in LiveStages(seen)
        THEN seen.tasks[t] ELSE tasks[t]]

\* One pass of the repair completes the first stalled stage.  It takes and
\* leaves the plan in the database and the one the session knows.
RepairPass(before, stalled) ==
    LET i     == CHOOSE j \in stalled : \A k \in stalled : j <= k
        after == CompleteStage(before.plan, before.seen, i)
        moved == before.seen.current = i
    IN  IF stalled = {} THEN before
        ELSE [plan |-> after,
              seen |-> [before.seen EXCEPT
                          !.current = IF moved THEN after.current ELSE @,
                          !.status  = IF moved /\ after.current = None
                                      THEN "completed" ELSE @]]

\* _repair_stage_progress: complete a stalled stage, look again, until there
\* is none.  The first look is at `seen', the later ones are under the lock.
Repair(plan, seen) ==
    LET tasks == Reread(plan.tasks, seen)
        pass[n \in 0..Len(plan.stages)] ==
          IF n = 0 THEN [plan |-> plan, seen |-> seen]
          ELSE RepairPass(pass[n - 1],
                          IF n = 1 THEN Stalled(seen.stages, seen.tasks)
                                   ELSE Stalled(pass[n - 1].plan.stages, tasks))
    IN  pass[Len(plan.stages)].plan

-----------------------------------------------------------------------------
(* Rows written by hand through the REST routes *)

\* create_stage: pending, and order_index 0 unless one is given.
CreateStage(plan) == [plan EXCEPT !.stages = Append(@, [order |-> 0, status |-> "pending"])]

\* update_stage with a status.
UpdateStage(plan, i, status) == [plan EXCEPT !.stages[i].status = status]

\* create_task.
CreateTask(plan, i) == PersistTaskBreakdown(plan, i)

\* update_task with a status: the stage does not advance.
UpdateTask(plan, t, done) == [plan EXCEPT !.tasks[t].done = done]

\* update_project with a status.
UpdateProject(plan, status) == [plan EXCEPT !.status = status]
=============================================================================
