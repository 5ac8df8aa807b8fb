------------------------------ MODULE Storage -------------------------------
(***************************************************************************)
(* The storage service as its clients see it: one value per key, grouped by *)
(* the key prefix (task, input, output, function), and the queue of staged  *)
(* tasks.  One thread owns the database and serves one request at a time    *)
(* (proxy.rs, service.rs), so every get, put, enqueue and dequeue is one    *)
(* atomic step.  How the queue is kept in the database is in DBQueue.       *)
(***************************************************************************)
EXTENDS Task, Sequences, Naturals

CONSTANT MaxQueue   \* bound on the length of the queue of staged tasks

VARIABLES
    tasks,      \* "task-<uuid>"      -> TaskState
    inputs,     \* "input-<uuid>"     -> TeaclaveInputFile
    outputs,    \* "output-<uuid>"    -> TeaclaveOutputFile
    functions,  \* "function-<uuid>"  -> Function
    queue       \* the queue StagedTask::get_queue_key()

files == <<inputs, outputs>>
storage == <<tasks, inputs, outputs, functions, queue>>

(* A client of the storage service that serves no request. *)
Idle == [pc |-> "idle"]

StorageTypeOK ==
    /\ tasks \in [TaskIds -> TaskStates \cup {Nil}]
    /\ inputs \in [FileIds -> TeaclaveInputFile \cup {Nil}]
    /\ outputs \in [FileIds -> TeaclaveOutputFile \cup {Nil}]
    /\ functions \in [FunctionIds -> Function \cup {Nil}]
    /\ queue \in Seq(StagedTask)

StorageInit ==
    /\ tasks = [t \in TaskIds |-> Nil]
    /\ inputs = [f \in FileIds |-> Nil]
    /\ outputs = [f \in FileIds |-> Nil]
    /\ functions = [f \in FunctionIds |-> Nil]
    /\ queue = <<>>

put_task(t, ts) == tasks' = [tasks EXCEPT ![t] = ts]

put_input(file) == inputs' = [inputs EXCEPT ![file.uuid] = file]

put_output(file) == outputs' = [outputs EXCEPT ![file.uuid] = file]

put_function(f, function) == functions' = [functions EXCEPT ![f] = function]

enqueue(staged) ==
    /\ Len(queue) < MaxQueue
    /\ queue' = Append(queue, staged)

(* Faulty variant: the first element is read and stays in the queue. *)
dequeue_peek ==
    /\ queue # <<>>
    /\ UNCHANGED queue

(* An empty queue answers None: no step of the callers that need a value. *)
dequeue ==
    /\ queue # <<>>
    /\ queue' = Tail(queue)
=============================================================================
