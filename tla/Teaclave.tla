------------------------------ MODULE Teaclave ------------------------------
(***************************************************************************)
(* The services that carry a task from its creation to its result:          *)
(* management and scheduler over one storage service, and the executors.    *)
(* Requests come from users through frontend services; a frontend holds its *)
(* client of the management service for the whole of a request              *)
(* (services/frontend/enclave/src/service.rs), so each connection has at    *)
(* most one request in progress.                                            *)
(***************************************************************************)
EXTENDS Management, Execution, FiniteSets

CONSTANTS
    MaxErrors,  \* bound on handlers that end with a storage error
    MaxCrashes  \* bound on restarts of the execution service

ASSUME FaultsAssumption == MaxErrors \in Nat /\ MaxCrashes \in Nat

VARIABLES errors, crashes

vars == <<storage, conn, sched, exec, errors, crashes>>

TypeOK ==
    /\ StorageTypeOK
    /\ ManagementTypeOK
    /\ SchedulerTypeOK
    /\ ExecutionTypeOK
    /\ errors \in 0..MaxErrors
    /\ crashes \in 0..MaxCrashes

Init ==
    /\ StorageInit
    /\ ManagementInit
    /\ SchedulerInit
    /\ ExecutionInit
    /\ errors = 0
    /\ crashes = 0

ManagementNext ==
    /\ \E c \in Connections : handle_request(c) \/ continue_handler(c)
    /\ UNCHANGED <<sched, exec, errors, crashes>>

ExecutionNext ==
    /\ \E e \in Executors : ExecutorStep(e)
    /\ UNCHANGED <<conn, errors, crashes>>

ManagementError ==
    /\ errors < MaxErrors
    /\ errors' = errors + 1
    /\ \E c \in Connections : handler_error(c)
    /\ UNCHANGED <<sched, exec, crashes>>

ExecutionError ==
    /\ errors < MaxErrors
    /\ errors' = errors + 1
    /\ \E e \in Executors : SchedulerError(e)
    /\ UNCHANGED <<conn, crashes>>

ExecutionCrash ==
    /\ crashes < MaxCrashes
    /\ crashes' = crashes + 1
    /\ \E e \in Executors : Crash(e)
    /\ UNCHANGED <<conn, errors>>

Next ==
    \/ ManagementNext
    \/ ExecutionNext
    \/ ManagementError
    \/ ExecutionError
    \/ ExecutionCrash

Spec == Init /\ [][Next]_vars

(* A worker thread that serves a request goes on serving it, and the loop of
   an executor goes on; nobody has to send a request. *)
Fairness ==
    /\ \A c \in Connections :
         WF_vars(continue_handler(c) /\ UNCHANGED <<sched, exec, errors, crashes>>)
    /\ \A e \in Executors :
         WF_vars(ExecutorStep(e) /\ UNCHANGED <<conn, errors, crashes>>)

FairSpec == Spec /\ Fairness

-----------------------------------------------------------------------------
(* Consent *)

Cleared == {"Approved", "Staged", "Running", "Finished"}

Stakeholders(ts) ==
    {ts.creator}
    \cup (UNION {ts.assigned_inputs[n].owner : n \in Keys(ts.assigned_inputs)})
    \cup (UNION {ts.assigned_outputs[n].owner : n \in Keys(ts.assigned_outputs)})
    \cup (IF functions[ts.function_id].public THEN {}
          ELSE {functions[ts.function_id].owner})

Consented(ts) ==
    /\ all_data_assigned(ts)
    /\ \A u \in Stakeholders(ts) :
         u \in ts.approved_users \/ ts.participants = {u}

(* Whatever the interleaving of handlers and whatever fails between two
   storage calls, a task stored as Approved or later has a file in each of
   its slots, and every owner of such a file, the creator and the owner of a
   private function have approved it (approve_task, everyone_approved), or
   the task has no other participant. *)
ConsentInv == \A t \in Keys(tasks) :
    tasks[t].status \in Cleared => Consented(tasks[t])

(* The strengthening of ConsentInv that is inductive.  It holds of every
   copy of a TaskState, those that handlers hold included: participants are
   a superset of all who have a stake, a file is in a slot only if its
   owners are those declared for the slot, and a status tells what has been
   assigned and approved in that same copy. *)

Ready(ts) == all_data_assigned(ts) /\ everyone_approved(ts)

Coherent(fns, ts) ==
    /\ fns[ts.function_id] # Nil
    /\ fns[ts.function_id].public
         \/ fns[ts.function_id].owner \in ts.participants
    /\ ts.creator \in ts.participants
    /\ \A n \in Keys(ts.inputs_ownership) :
         ts.inputs_ownership[n] \subseteq ts.participants
    /\ \A n \in Keys(ts.outputs_ownership) :
         ts.outputs_ownership[n] \subseteq ts.participants
    /\ \A n \in Keys(ts.assigned_inputs) :
         /\ ts.inputs_ownership[n] # Nil
         /\ ts.assigned_inputs[n].owner = ts.inputs_ownership[n]
    /\ \A n \in Keys(ts.assigned_outputs) :
         /\ ts.outputs_ownership[n] # Nil
         /\ ts.assigned_outputs[n].owner = ts.outputs_ownership[n]
    /\ ts.status = "DataAssigned" => all_data_assigned(ts)
    /\ ts.status \in Cleared => Ready(ts)

TasksCoherent == \A t \in Keys(tasks) : Coherent(functions, tasks[t])

HandlerCoherent(fns, h) ==
    /\ h.pc \in {"assign", "put_task", "read_function", "enqueue"} =>
         Coherent(fns, h.ts)
    /\ h.pc = "assign" => h.ts.status = "Created"
    /\ h.pc = "enqueue" => Ready(h.ts)

HandlersCoherent == \A c \in Connections : HandlerCoherent(functions, conn[c])

SchedulerCoherent == \A e \in Executors :
    sched[e] # Idle => /\ Coherent(functions, sched[e].ts)
                       /\ sched[e].ts.status \in {"Staged", "Running"}

(* Every copy of a task, in the database or held by a handler between its
   storage calls, is coherent; so it does not matter which copy is written
   last. *)
CopiesCoherent == TasksCoherent /\ HandlersCoherent /\ SchedulerCoherent

(* A task stored as Finished with success has tagged outputs, in the task
   and in the stored output files that register_input_from_output reads:
   update_task_result stores the outputs first. *)
FinishedOutputsTagged == \A t \in Keys(tasks) :
    tasks[t].status = "Finished" /\ tasks[t].result = "Ok" =>
        \A n \in Keys(tasks[t].outputs_ownership) :
            /\ tasks[t].assigned_outputs[n].cmac = <<t, n>>
            /\ outputs[tasks[t].assigned_outputs[n].uuid].cmac # Nil

-----------------------------------------------------------------------------
(* The staged tasks in the system: queued, or pulled by an executor. *)

QueuedTasks == {queue[i] : i \in 1..Len(queue)}

PulledBy(t) == {e \in Executors : exec[e] # Sleeping /\ task_of(e) = t}

StagedTasks ==
    QueuedTasks \cup {exec[e].staged : e \in {x \in Executors : exec[x] # Sleeping}}

(* What is queued or runs is what the participants approved: a staged task
   refers to the files in the stored task, and these have the consent of
   their owners.  Nothing of the stored task may change between invoke_task
   and the end of the run. *)
StagedAsApproved == \A s \in StagedTasks :
    /\ tasks[s.task_id] # Nil
    /\ s = stage_for_running(s.task_id, tasks[s.task_id])
    /\ Consented(tasks[s.task_id])

(* A task is staged at most once: it is never in the queue twice, in the
   queue and with an executor, or with two executors. *)
StagedOnce == \A t \in TaskIds :
    Cardinality({i \in 1..Len(queue) : queue[i].task_id = t})
      + Cardinality(PulledBy(t)) <= 1


(* Once a participant has approved a task, the files it refers to are fixed,
   and no approval is lost. *)
ApprovalBinding == [][\A t \in Keys(tasks) :
    tasks[t].approved_users # {} =>
        /\ stage_for_running(t, tasks'[t]) = stage_for_running(t, tasks[t])
        /\ tasks[t].approved_users \subseteq tasks'[t].approved_users]_vars

-----------------------------------------------------------------------------
(* The life of a task, as the stored TaskState shows it. *)
LifeOf(t) ==
    LET ts == tasks[t]
    IN  IF ts = Nil THEN Nil
        ELSE [participants |-> ts.participants,
              approved     |-> ts.approved_users,
              in_slots     |-> Keys(ts.inputs_ownership),
              out_slots    |-> Keys(ts.outputs_ownership),
              inputs       |-> stage_for_running(t, ts).input_data,
              outputs      |-> stage_for_running(t, ts).output_data,
              status       |-> ts.status]

Lifecycle == INSTANCE TaskLifecycle WITH life <- [t \in TaskIds |-> LifeOf(t)]

(* Every write of a TaskState, computed from an earlier read, amounts to one
   atomic transition of the life cycle on the state it overwrites. *)
ImplementsLifecycle == Lifecycle!Spec

-----------------------------------------------------------------------------
HasStatus(t, status) == tasks[t] # Nil /\ tasks[t].status = status

(* Every staged task that was queued is pulled by an executor. *)
QueueDrains == \A t \in TaskIds :
    (\E s \in QueuedTasks : s.task_id = t) ~> (\A s \in QueuedTasks : s.task_id # t)

(* A task that an executor has set Running ends with a result, when none of
   its output files already had a tag at the time it was assigned. *)
RunningFinishes == \A t \in TaskIds :
    /\ HasStatus(t, "Running")
    /\ \A n \in Keys(tasks[t].assigned_outputs) :
         tasks[t].assigned_outputs[n].cmac = Nil
    ~> HasStatus(t, "Finished")

-----------------------------------------------------------------------------
(* What comments and documents of the repository say of the program, and the
   program does not do; see the README. *)

(* services/README.md: the scheduler schedules staged tasks ready for
   execution to an execution node, and the execution service completes them. *)
StagedFinishes == \A t \in TaskIds :
    HasStatus(t, "Staged") ~> HasStatus(t, "Finished")

(* assign_data, access control 3): "output_file.owner contains user_id &&
   output_file.cmac.is_none()". *)
AssignedOutputsUntagged == \A t \in Keys(tasks) :
    tasks[t].status \in {"Created", "DataAssigned"} =>
        \A n \in Keys(tasks[t].assigned_outputs) :
            tasks[t].assigned_outputs[n].cmac = Nil

(* TeaclaveOutputFile::assign_cmac: "Cannot overwrite output file cmac". *)
CmacWrittenOnce == [][\A f \in Keys(outputs) :
    outputs[f].cmac # Nil => outputs'[f].cmac = outputs[f].cmac]_vars

(* assign_data, access control 2): "task.status == Created". *)
AssignOnlyCreated == [][\A t \in Keys(tasks) :
    stage_for_running(t, tasks'[t]) # stage_for_running(t, tasks[t])
        => tasks[t].status = "Created"]_vars
=============================================================================
