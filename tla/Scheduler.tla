----------------------------- MODULE Scheduler ------------------------------
(***************************************************************************)
(* The scheduler service (services/scheduler/enclave/src/service.rs).  Each *)
(* executor has a connection of its own; sched[e] is what the handler       *)
(* serving executor e holds between two storage calls.  A handler that      *)
(* fails answers with an error: the *_refused and storage_error actions,    *)
(* whose effect on the caller is in Execution.                              *)
(***************************************************************************)
EXTENDS Storage

CONSTANT Executors   \* instances of the execution service

VARIABLE sched

SchedulerStates ==
    {Idle}
    \cup [pc : {"put_status"}, task_id : TaskIds, ts : TaskStates]
    \cup [pc : {"put_result"}, task_id : TaskIds, ts : TaskStates,
          result : TaskResult, tags : SUBSET OutNames]

SchedulerTypeOK == sched \in [Executors -> SchedulerStates]

SchedulerInit == sched = [e \in Executors |-> Idle]

answer(e) == sched' = [sched EXCEPT ![e] = Idle]

-----------------------------------------------------------------------------
pull_task ==
    /\ dequeue
    /\ UNCHANGED <<tasks, inputs, outputs, functions, sched>>

(* update_task_status: read the task, restore it to Task<Run> ... *)
update_task_status(e, t) ==
    /\ sched[e] = Idle
    /\ tasks[t] # Nil /\ into_Run(tasks[t])
    /\ sched' = [sched EXCEPT ![e] =
                   [pc |-> "put_status", task_id |-> t, ts |-> tasks[t]]]
    /\ UNCHANGED storage

update_task_status_refused(e, t) ==
    /\ sched[e] = Idle
    /\ ~ (tasks[t] # Nil /\ into_Run(tasks[t]))
    /\ UNCHANGED <<storage, sched>>

(* ... and store it as Running. *)
update_task_status_put(e) ==
    /\ sched[e].pc = "put_status"
    /\ put_task(sched[e].task_id, from_Run(sched[e].ts))
    /\ answer(e)
    /\ UNCHANGED <<inputs, outputs, functions, queue>>

(* update_task_result: read the task, restore it to Task<Finish> ... *)
update_task_result(e, t, result, tags) ==
    /\ sched[e] = Idle
    /\ tasks[t] # Nil /\ into_Finish(tasks[t])
    /\ sched' = [sched EXCEPT ![e] =
                   [pc |-> "put_result", task_id |-> t, ts |-> tasks[t],
                    result |-> result,
                    tags |-> IF result = "Ok" THEN tags ELSE {}]]
    /\ UNCHANGED storage

update_task_result_refused(e, t) ==
    /\ sched[e] = Idle
    /\ ~ (tasks[t] # Nil /\ into_Finish(tasks[t]))
    /\ UNCHANGED <<storage, sched>>

(* ... store each tagged output file, from the copy inside the task ... *)
update_task_result_output(e) ==
    /\ sched[e].pc = "put_result"
    /\ \E n \in sched[e].tags :
         /\ can_update_output_cmac(sched[e].ts, n)
         /\ LET ts == update_output_cmac(sched[e].ts, n, <<sched[e].task_id, n>>)
            IN  /\ put_output(ts.assigned_outputs[n])
                /\ sched' = [sched EXCEPT ![e].ts = ts, ![e].tags = @ \ {n}]
    /\ UNCHANGED <<tasks, inputs, functions, queue>>

update_task_result_output_refused(e) ==
    /\ sched[e].pc = "put_result"
    /\ \E n \in sched[e].tags : ~ can_update_output_cmac(sched[e].ts, n)
    /\ answer(e)
    /\ UNCHANGED storage

(* Faulty variant: the task is stored before its outputs are. *)
update_task_result_put_first(e) ==
    /\ sched[e].pc = "put_result"
    /\ put_task(sched[e].task_id,
                from_Finish(update_result(sched[e].ts, sched[e].result)))
    /\ answer(e)
    /\ UNCHANGED <<inputs, outputs, functions, queue>>

(* ... and store it as Finished. *)
update_task_result_put(e) ==
    /\ sched[e].pc = "put_result"
    /\ sched[e].tags = {}
    /\ put_task(sched[e].task_id,
                from_Finish(update_result(sched[e].ts, sched[e].result)))
    /\ answer(e)
    /\ UNCHANGED <<inputs, outputs, functions, queue>>

(* A storage call of the handler serving e fails. *)
storage_error(e) ==
    /\ answer(e)
    /\ UNCHANGED storage
=============================================================================
