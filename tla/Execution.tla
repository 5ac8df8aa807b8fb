----------------------------- MODULE Execution ------------------------------
(***************************************************************************)
(* The execution service (services/execution/enclave/src/service.rs): the   *)
(* loop of start(), which pulls a staged task, reports it Running, runs it  *)
(* and reports the result.  exec[e] is where executor e is in that loop.    *)
(* While it waits for the scheduler, the scheduler's steps are in           *)
(* Scheduler; the step that ends the call is also a step of the executor.   *)
(***************************************************************************)
EXTENDS Scheduler

VARIABLE exec

Sleeping == [pc |-> "sleep"]

ExecutorStates ==
    {Sleeping}
    \cup [pc : {"update_status", "running"}, staged : StagedTask]
    \cup [pc : {"report"}, staged : StagedTask, result : TaskResult]

ExecutionTypeOK == exec \in [Executors -> ExecutorStates]

ExecutionInit == exec = [e \in Executors |-> Sleeping]

go_to(e, state) == exec' = [exec EXCEPT ![e] = state]

task_of(e) == exec[e].staged.task_id

report(e, result) ==
    go_to(e, [pc |-> "report", staged |-> exec[e].staged, result |-> result])

-----------------------------------------------------------------------------
(* An error, an empty queue included, only makes the loop sleep again. *)
PullTask(e) ==
    /\ exec[e] = Sleeping
    /\ pull_task
    /\ go_to(e, [pc |-> "update_status", staged |-> Head(queue)])

UpdateTaskStatus(e) ==
    /\ exec[e].pc = "update_status"
    /\ \/ update_task_status(e, task_of(e)) /\ UNCHANGED exec
       \/ update_task_status_put(e)
            /\ go_to(e, [exec[e] EXCEPT !.pc = "running"])
       \/ update_task_status_refused(e, task_of(e)) /\ report(e, "NotStarted")

(* Faulty variant: a failure of the run is not reported. *)
InvokeFunction_silent(e) ==
    /\ exec[e].pc = "running"
    /\ report(e, "Ok") \/ go_to(e, Sleeping)
    /\ UNCHANGED <<storage, sched>>

(* Files, function and upload: any of them may fail, after any of its
   effects. *)
InvokeFunction(e) ==
    /\ exec[e].pc = "running"
    /\ \E result \in {"Ok", "Failed"} : report(e, result)
    /\ UNCHANGED <<storage, sched>>

(* An error is logged and the result dropped. *)
UpdateTaskResult(e) ==
    /\ exec[e].pc = "report"
    /\ \/ update_task_result(e, task_of(e), exec[e].result,
                             Keys(exec[e].staged.output_data))
            /\ UNCHANGED exec
       \/ update_task_result_output(e) /\ UNCHANGED exec
       \/ update_task_result_put(e) /\ go_to(e, Sleeping)
       \/ update_task_result_output_refused(e) /\ go_to(e, Sleeping)
       \/ update_task_result_refused(e, task_of(e)) /\ go_to(e, Sleeping)

(* The scheduler answers a call with a storage error. *)
SchedulerError(e) ==
    \/ /\ exec[e].pc = "update_status"
       /\ storage_error(e)
       /\ report(e, "NotStarted")
    \/ /\ exec[e].pc = "report"
       /\ storage_error(e)
       /\ go_to(e, Sleeping)

(* The execution service stops and is started again: what it pulled is
   lost.  A call in progress runs to its end in the scheduler, so it is
   enough to let the executor stop between calls. *)
Crash(e) ==
    /\ exec[e] # Sleeping
    /\ sched[e] = Idle
    /\ go_to(e, Sleeping)
    /\ UNCHANGED <<storage, sched>>

ExecutorStep(e) ==
    \/ PullTask(e)
    \/ UpdateTaskStatus(e)
    \/ InvokeFunction(e)
    \/ UpdateTaskResult(e)
=============================================================================
