--------------------------- MODULE TeaclaveProofs ---------------------------
(***************************************************************************)
(* Type correctness and consent, for any users, files, tasks, functions,    *)
(* frontends, executors, requests and failures.                             *)
(***************************************************************************)
EXTENDS Teaclave, SequenceTheorems, TLAPS

-----------------------------------------------------------------------------
(* What the operators of Task return *)

LEMMA CreateType ==
    ASSUME NEW u \in Users, NEW f \in FunctionIds, NEW function \in Function,
           NEW in_own \in InputOwners, NEW out_own \in OutputOwners
    PROVE  create_new(u, f, function, in_own, out_own) \in TaskStates
<1>1. all_owners(in_own) \subseteq Users /\ all_owners(out_own) \subseteq Users
  BY DEF all_owners, Keys, InputOwners, OutputOwners, OwnerList
<1>2. [n \in InNames |-> Nil] \in [InNames -> TeaclaveInputFile \cup {Nil}]
  OBVIOUS
<1>3. [n \in OutNames |-> Nil] \in [OutNames -> TeaclaveOutputFile \cup {Nil}]
  OBVIOUS
<1>4. function.owner \in Users
  BY DEF Function
<1> QED BY <1>1, <1>2, <1>3, <1>4
        DEF create_new, TaskStates, TaskResult, TaskStatus, UserList, OwnerList

(* assign_input keeps a task well-typed. *)
LEMMA AssignInputType ==
    ASSUME NEW ts \in TaskStates, NEW n \in InNames, NEW file \in TeaclaveInputFile
    PROVE  assign_input(ts, n, file) \in TaskStates
BY DEF assign_input, TaskStates

(* assign_output keeps a task well-typed. *)
LEMMA AssignOutputType ==
    ASSUME NEW ts \in TaskStates, NEW n \in OutNames, NEW file \in TeaclaveOutputFile
    PROVE  assign_output(ts, n, file) \in TaskStates
BY DEF assign_output, TaskStates

(* approve keeps a task well-typed. *)
LEMMA ApproveType ==
    ASSUME NEW ts \in TaskStates, NEW u \in Users
    PROVE  approve(ts, u) \in TaskStates
BY DEF approve, TaskStates, UserList, OwnerList

(* Writing a task back in a later state keeps it well-typed. *)
LEMMA FromType ==
    ASSUME NEW ts \in TaskStates
    PROVE  /\ from_Assign(ts) \in TaskStates
           /\ from_Approve(ts) \in TaskStates
           /\ from_Stage(ts) \in TaskStates
           /\ from_Run(ts) \in TaskStates
           /\ from_Finish(ts) \in TaskStates
BY DEF from_Assign, from_Approve, from_Stage, from_Run, from_Finish,
       TaskStates, TaskStatus

(* update_result keeps a task well-typed. *)
LEMMA ResultType ==
    ASSUME NEW ts \in TaskStates, NEW r \in TaskResult
    PROVE  update_result(ts, r) \in TaskStates
BY DEF update_result, TaskStates

(* update_output_cmac keeps a task well-typed. *)
LEMMA CmacType ==
    ASSUME NEW ts \in TaskStates, NEW n \in OutNames, NEW tag \in FileAuthTag,
           can_update_output_cmac(ts, n)
    PROVE  /\ update_output_cmac(ts, n, tag) \in TaskStates
           /\ update_output_cmac(ts, n, tag).assigned_outputs[n] \in TeaclaveOutputFile
<1>1. ts.assigned_outputs \in [OutNames -> TeaclaveOutputFile \cup {Nil}]
  BY DEF TaskStates
<1>2. ts.assigned_outputs[n] \in TeaclaveOutputFile
  BY <1>1 DEF can_update_output_cmac
<1>3. [ts.assigned_outputs[n] EXCEPT !.cmac = tag] \in TeaclaveOutputFile
  BY <1>2 DEF TeaclaveOutputFile
<1>4. [ts.assigned_outputs EXCEPT ![n] = [@ EXCEPT !.cmac = tag]]
        \in [OutNames -> TeaclaveOutputFile \cup {Nil}]
  BY <1>1, <1>3
<1>5. update_output_cmac(ts, n, tag)
        = [ts EXCEPT !.assigned_outputs =
             [ts.assigned_outputs EXCEPT ![n] = [@ EXCEPT !.cmac = tag]]]
  BY DEF update_output_cmac
<1>6. update_output_cmac(ts, n, tag).assigned_outputs[n]
        = [ts.assigned_outputs[n] EXCEPT !.cmac = tag]
  BY <1>1, <1>5 DEF TaskStates
<1> QED BY <1>3, <1>4, <1>5, <1>6 DEF TaskStates

(* The message stage_for_running builds is a StagedTask. *)
LEMMA StageType ==
    ASSUME NEW t \in TaskIds, NEW ts \in TaskStates
    PROVE  stage_for_running(t, ts) \in StagedTask
<1>1. \A n \in InNames : ts.assigned_inputs[n] # Nil
                           => ts.assigned_inputs[n].uuid \in FileIds
  BY DEF TaskStates, TeaclaveInputFile
<1>2. \A n \in OutNames : ts.assigned_outputs[n] # Nil
                            => ts.assigned_outputs[n].uuid \in FileIds
  BY DEF TaskStates, TeaclaveOutputFile
<1> QED BY <1>1, <1>2 DEF stage_for_running, StagedTask, FileRefs

(* What a storage key holds, when it holds something. *)
LEMMA KeysType ==
    ASSUME StorageTypeOK
    PROVE  /\ \A t \in Keys(tasks) : t \in TaskIds /\ tasks[t] \in TaskStates
           /\ \A f \in Keys(inputs) : f \in FileIds /\ inputs[f] \in TeaclaveInputFile
           /\ \A f \in Keys(outputs) : f \in FileIds /\ outputs[f] \in TeaclaveOutputFile
           /\ \A f \in Keys(functions) : f \in FunctionIds /\ functions[f] \in Function
BY DEF StorageTypeOK, Keys

-----------------------------------------------------------------------------
(* Type correctness *)

(* Changing the state of one handler. *)
LEMMA NextCallType ==
    ASSUME ManagementTypeOK, NEW c \in Connections,
           NEW h \in HandlerStates, next_call(c, h)
    PROVE  ManagementTypeOK'
BY DEF ManagementTypeOK, next_call

(* Answering a request leaves its handler idle. *)
LEMMA RespondType ==
    ASSUME ManagementTypeOK, NEW c \in Connections, respond(c)
    PROVE  ManagementTypeOK'
<1>1. Idle \in HandlerStates
  BY DEF HandlerStates
<1> QED BY <1>1, NextCallType DEF respond

(* The first step of every frontend request keeps types. *)
LEMMA RequestType ==
    ASSUME StorageTypeOK, ManagementTypeOK, NEW c \in Connections,
           handle_request(c)
    PROVE  StorageTypeOK' /\ ManagementTypeOK'
<1> USE DEF OwnerList
<1>1. CASE register_input_file(c)
  BY <1>1 DEF register_input_file, put_input, fresh_file_ids, StorageTypeOK,
              ManagementTypeOK, TeaclaveInputFile
<1>2. CASE update_input_file(c)
  <2>1. PICK old \in Keys(inputs), f \in fresh_file_ids :
          next_call(c, [pc |-> "put_input",
                        file |-> [uuid |-> f, owner |-> inputs[old].owner]])
    BY <1>2 DEF update_input_file
  <2>2. [uuid |-> f, owner |-> inputs[old].owner] \in TeaclaveInputFile
    BY KeysType DEF fresh_file_ids, TeaclaveInputFile
  <2>3. ManagementTypeOK'
    BY <2>1, <2>2, NextCallType DEF HandlerStates
  <2> QED BY <1>2, <2>3 DEF update_input_file, StorageTypeOK, storage
<1>3. CASE register_output_file(c)
  BY <1>3 DEF register_output_file, put_output, fresh_file_ids, StorageTypeOK,
              ManagementTypeOK, TeaclaveOutputFile
<1>4. CASE update_output_file(c)
  <2>1. PICK old \in Keys(outputs), f \in fresh_file_ids :
          next_call(c, [pc |-> "put_output",
                        file |-> [uuid |-> f, owner |-> outputs[old].owner,
                                  cmac |-> Nil]])
    BY <1>4 DEF update_output_file
  <2>2. [uuid |-> f, owner |-> outputs[old].owner, cmac |-> Nil]
          \in TeaclaveOutputFile
    BY KeysType DEF fresh_file_ids, TeaclaveOutputFile
  <2>3. ManagementTypeOK'
    BY <2>1, <2>2, NextCallType DEF HandlerStates
  <2> QED BY <1>4, <2>3 DEF update_output_file, StorageTypeOK, storage
<1>5. CASE register_fusion_output(c)
  BY <1>5 DEF register_fusion_output, put_output, fresh_file_ids, StorageTypeOK,
              ManagementTypeOK, TeaclaveOutputFile
<1>6. CASE register_input_from_output(c)
  <2>1. PICK f \in Keys(outputs) :
          next_call(c, [pc |-> "put_input",
                        file |-> [uuid |-> f, owner |-> outputs[f].owner]])
    BY <1>6 DEF register_input_from_output
  <2>2. [uuid |-> f, owner |-> outputs[f].owner] \in TeaclaveInputFile
    BY KeysType DEF TeaclaveInputFile, TeaclaveOutputFile
  <2>3. ManagementTypeOK'
    BY <2>1, <2>2, NextCallType DEF HandlerStates
  <2> QED BY <1>6, <2>3 DEF register_input_from_output, StorageTypeOK, storage
<1>7. CASE register_function(c)
  BY <1>7, RequestsAssumption
  DEF register_function, put_function, StorageTypeOK, ManagementTypeOK
<1>8. CASE create_task(c)
  <2>1. PICK u \in Users, f \in Keys(functions), t \in fresh_task_ids,
             in_own \in InputOwnerReqs, out_own \in OutputOwnerReqs :
          next_call(c, [pc |-> "put_task", task_id |-> t,
                        ts |-> create_new(u, f, functions[f], in_own, out_own)])
    BY <1>8 DEF create_task
  <2>2. create_new(u, f, functions[f], in_own, out_own) \in TaskStates
    BY KeysType, CreateType, RequestsAssumption
  <2>3. t \in TaskIds
    BY DEF fresh_task_ids
  <2>4. ManagementTypeOK'
    BY <2>1, <2>2, <2>3, NextCallType DEF HandlerStates
  <2> QED BY <1>8, <2>4 DEF create_task, StorageTypeOK, storage
<1>9. CASE assign_data(c)
  <2>1. PICK u \in Users, t \in Keys(tasks),
             ins \in FileRefs(InNames), outs \in FileRefs(OutNames) :
          next_call(c, [pc |-> "assign", task_id |-> t, ts |-> tasks[t],
                        user |-> u, inputs |-> ins, outputs |-> outs])
    BY <1>9 DEF assign_data
  <2>2. ManagementTypeOK'
    BY <2>1, KeysType, NextCallType DEF HandlerStates
  <2> QED BY <1>9, <2>2 DEF assign_data, StorageTypeOK, storage
<1>10. CASE approve_task(c)
  <2>1. PICK u \in Users, t \in Keys(tasks) :
          next_call(c, [pc |-> "put_task", task_id |-> t,
                        ts |-> from_Approve(approve(tasks[t], u))])
    BY <1>10 DEF approve_task
  <2>2. t \in TaskIds /\ from_Approve(approve(tasks[t], u)) \in TaskStates
    BY KeysType, ApproveType, FromType
  <2>3. ManagementTypeOK'
    BY <2>1, <2>2, NextCallType DEF HandlerStates
  <2> QED BY <1>10, <2>3 DEF approve_task, StorageTypeOK, storage
<1>11. CASE invoke_task(c)
  <2>1. PICK t \in Keys(tasks) :
          next_call(c, [pc |-> "read_function", task_id |-> t, ts |-> tasks[t]])
    BY <1>11 DEF invoke_task
  <2>2. ManagementTypeOK'
    BY <2>1, KeysType, NextCallType DEF HandlerStates
  <2> QED BY <1>11, <2>2 DEF invoke_task, StorageTypeOK, storage
<1> QED BY <1>1, <1>2, <1>3, <1>4, <1>5, <1>6, <1>7, <1>8, <1>9, <1>10, <1>11
        DEF handle_request

(* What a handler holds at each of its storage calls. *)
LEMMA HandlerFields ==
    ASSUME ManagementTypeOK, NEW c \in Connections
    PROVE  /\ conn[c].pc = "put_input" => conn[c].file \in TeaclaveInputFile
           /\ conn[c].pc = "put_output" => conn[c].file \in TeaclaveOutputFile
           /\ conn[c].pc = "assign" =>
                /\ conn[c] \in [pc : {"assign"}, task_id : TaskIds, ts : TaskStates,
                                user : Users, inputs : FileRefs(InNames),
                                outputs : FileRefs(OutNames)]
           /\ conn[c].pc \in {"put_task", "read_function", "enqueue"} =>
                conn[c] \in [pc : {"put_task", "read_function", "enqueue"},
                             task_id : TaskIds, ts : TaskStates]
BY DEF ManagementTypeOK, HandlerStates, Idle

(* Every later step of a frontend request keeps types. *)
LEMMA HandlerType ==
    ASSUME StorageTypeOK, ManagementTypeOK, NEW c \in Connections,
           continue_handler(c)
    PROVE  StorageTypeOK' /\ ManagementTypeOK'
<1>1. CASE assign_data_input(c)
  <2> DEFINE h == conn[c]
  <2>1. h \in [pc : {"assign"}, task_id : TaskIds, ts : TaskStates, user : Users,
               inputs : FileRefs(InNames), outputs : FileRefs(OutNames)]
    BY <1>1, HandlerFields DEF assign_data_input
  <2>2. PICK n \in Keys(h.inputs) :
          IF inputs[h.inputs[n]] # Nil
               /\ can_assign_input(h.ts, h.user, n, inputs[h.inputs[n]])
          THEN next_call(c, [[h EXCEPT !.inputs[n] = Nil]
                               EXCEPT !.ts = assign_input(@, n, inputs[h.inputs[n]])])
          ELSE respond(c)
    BY <1>1 DEF assign_data_input
  <2> HIDE DEF h
  <2>3. n \in InNames /\ h.inputs[n] \in FileIds
    BY <2>1 DEF Keys, FileRefs
  <2>4. ManagementTypeOK'
    <3>1. CASE inputs[h.inputs[n]] # Nil
                 /\ can_assign_input(h.ts, h.user, n, inputs[h.inputs[n]])
      <4>1. assign_input(h.ts, n, inputs[h.inputs[n]]) \in TaskStates
        BY <2>1, <2>3, <3>1, AssignInputType DEF StorageTypeOK
      <4>2. [h.inputs EXCEPT ![n] = Nil] \in FileRefs(InNames)
        BY <2>1 DEF FileRefs
      <4>3. [[h EXCEPT !.inputs[n] = Nil]
               EXCEPT !.ts = assign_input(@, n, inputs[h.inputs[n]])] \in HandlerStates
        BY <2>1, <4>1, <4>2 DEF HandlerStates
      <4> QED BY <2>2, <3>1, <4>3, NextCallType
    <3> QED BY <2>2, <3>1, RespondType
  <2> QED BY <1>1, <2>4 DEF assign_data_input, StorageTypeOK, storage
<1>2. CASE assign_data_output(c)
  <2> DEFINE h == conn[c]
  <2>1. h \in [pc : {"assign"}, task_id : TaskIds, ts : TaskStates, user : Users,
               inputs : FileRefs(InNames), outputs : FileRefs(OutNames)]
    BY <1>2, HandlerFields DEF assign_data_output
  <2>2. PICK n \in Keys(h.outputs) :
          IF outputs[h.outputs[n]] # Nil
               /\ can_assign_output(h.ts, h.user, n, outputs[h.outputs[n]])
          THEN next_call(c, [[h EXCEPT !.outputs[n] = Nil]
                               EXCEPT !.ts = assign_output(@, n, outputs[h.outputs[n]])])
          ELSE respond(c)
    BY <1>2 DEF assign_data_output
  <2> HIDE DEF h
  <2>3. n \in OutNames /\ h.outputs[n] \in FileIds
    BY <2>1 DEF Keys, FileRefs
  <2>4. ManagementTypeOK'
    <3>1. CASE outputs[h.outputs[n]] # Nil
                 /\ can_assign_output(h.ts, h.user, n, outputs[h.outputs[n]])
      <4>1. assign_output(h.ts, n, outputs[h.outputs[n]]) \in TaskStates
        BY <2>1, <2>3, <3>1, AssignOutputType DEF StorageTypeOK
      <4>2. [h.outputs EXCEPT ![n] = Nil] \in FileRefs(OutNames)
        BY <2>1 DEF FileRefs
      <4>3. [[h EXCEPT !.outputs[n] = Nil]
               EXCEPT !.ts = assign_output(@, n, outputs[h.outputs[n]])] \in HandlerStates
        BY <2>1, <4>1, <4>2 DEF HandlerStates
      <4> QED BY <2>2, <3>1, <4>3, NextCallType
    <3> QED BY <2>2, <3>1, RespondType
  <2> QED BY <1>2, <2>4 DEF assign_data_output, StorageTypeOK, storage
<1>3. CASE assign_data_put(c)
  <2>1. conn[c].task_id \in TaskIds /\ from_Assign(conn[c].ts) \in TaskStates
    BY <1>3, HandlerFields, FromType DEF assign_data_put
  <2> QED BY <1>3, <2>1, RespondType DEF assign_data_put, put_task, StorageTypeOK
<1>4. CASE invoke_task_function(c)
  <2>1. conn[c].task_id \in TaskIds /\ conn[c].ts \in TaskStates
          /\ [conn[c] EXCEPT !.pc = "enqueue"] \in HandlerStates
    BY <1>4, HandlerFields DEF invoke_task_function, HandlerStates
  <2>2. ManagementTypeOK'
    BY <1>4, <2>1, NextCallType, RespondType DEF invoke_task_function
  <2> QED BY <1>4, <2>2 DEF invoke_task_function, StorageTypeOK, storage
<1>5. CASE invoke_task_enqueue(c)
  <2>1. conn[c].task_id \in TaskIds /\ conn[c].ts \in TaskStates
    BY <1>5, HandlerFields DEF invoke_task_enqueue
  <2>2. stage_for_running(conn[c].task_id, conn[c].ts) \in StagedTask
    BY <2>1, StageType
  <2>3. queue' \in Seq(StagedTask)
    BY <1>5, <2>2 DEF invoke_task_enqueue, enqueue, StorageTypeOK
  <2>4. [conn[c] EXCEPT !.pc = "put_task", !.ts = from_Stage(@)] \in HandlerStates
    BY <1>5, <2>1, FromType, HandlerFields DEF invoke_task_enqueue, HandlerStates
  <2>5. ManagementTypeOK'
    BY <1>5, <2>4, NextCallType DEF invoke_task_enqueue
  <2> QED BY <1>5, <2>3, <2>5 DEF invoke_task_enqueue, StorageTypeOK
<1>6. CASE write_input_to_db(c)
  <2>1. conn[c].file \in TeaclaveInputFile
    BY <1>6, HandlerFields DEF write_input_to_db
  <2> QED BY <1>6, <2>1, RespondType
          DEF write_input_to_db, put_input, StorageTypeOK, TeaclaveInputFile
<1>7. CASE write_output_to_db(c)
  <2>1. conn[c].file \in TeaclaveOutputFile
    BY <1>7, HandlerFields DEF write_output_to_db
  <2> QED BY <1>7, <2>1, RespondType
          DEF write_output_to_db, put_output, StorageTypeOK, TeaclaveOutputFile
<1>8. CASE write_task_to_db(c)
  <2>1. conn[c].task_id \in TaskIds /\ conn[c].ts \in TaskStates
    BY <1>8, HandlerFields DEF write_task_to_db
  <2> QED BY <1>8, <2>1, RespondType DEF write_task_to_db, put_task, StorageTypeOK
<1> QED BY <1>1, <1>2, <1>3, <1>4, <1>5, <1>6, <1>7, <1>8 DEF continue_handler

(* What an executor and the scheduler's handler for it hold. *)
LEMMA ExecutorFields ==
    ASSUME SchedulerTypeOK, ExecutionTypeOK, NEW e \in Executors
    PROVE  /\ exec[e] # Sleeping =>
                exec[e].staged \in StagedTask /\ exec[e].staged.task_id \in TaskIds
           /\ exec[e].pc \in {"update_status", "running"} =>
                exec[e] \in [pc : {"update_status", "running"}, staged : StagedTask]
           /\ exec[e].pc = "report" => exec[e].result \in TaskResult
           /\ sched[e].pc = "put_status" =>
                sched[e].task_id \in TaskIds /\ sched[e].ts \in TaskStates
           /\ sched[e].pc = "put_result" =>
                sched[e] \in [pc : {"put_result"}, task_id : TaskIds, ts : TaskStates,
                              result : TaskResult, tags : SUBSET OutNames]
BY DEF SchedulerTypeOK, ExecutionTypeOK, SchedulerStates, ExecutorStates,
       Idle, Sleeping, StagedTask

(* An executor that is not asleep works on a task of the system. *)
LEMMA TaskOfType ==
    ASSUME SchedulerTypeOK, ExecutionTypeOK, NEW e \in Executors, exec[e].pc # "sleep"
    PROVE  exec[e] # Sleeping /\ task_of(e) \in TaskIds
<1>1. exec[e] # Sleeping
  BY DEF Sleeping
<1> QED BY <1>1, ExecutorFields DEF task_of

(* What the scheduler's handler holds between reading and writing a task. *)
LEMMA PutStatusFields ==
    ASSUME SchedulerTypeOK, ExecutionTypeOK, NEW e \in Executors,
           sched[e].pc = "put_status"
    PROVE  sched[e] # Idle /\ sched[e].task_id \in TaskIds /\ sched[e].ts \in TaskStates
<1>1. sched[e] # Idle
  BY DEF Idle
<1> QED BY <1>1, ExecutorFields

(* The same for the handler that stores a result. *)
LEMMA PutResultFields ==
    ASSUME SchedulerTypeOK, ExecutionTypeOK, NEW e \in Executors,
           sched[e].pc = "put_result"
    PROVE  /\ sched[e] # Idle /\ sched[e].task_id \in TaskIds
           /\ sched[e].ts \in TaskStates /\ sched[e].result \in TaskResult
<1>1. sched[e] # Idle
  BY DEF Idle
<1> QED BY <1>1, ExecutorFields

(* Answering an executor leaves the scheduler's handler idle. *)
LEMMA AnswerType ==
    ASSUME SchedulerTypeOK, NEW e \in Executors, answer(e)
    PROVE  SchedulerTypeOK'
BY DEF SchedulerTypeOK, answer, SchedulerStates

(* Moving an executor to a legal state keeps types. *)
LEMMA GoToType ==
    ASSUME ExecutionTypeOK, NEW e \in Executors,
           NEW s \in ExecutorStates, go_to(e, s)
    PROVE  ExecutionTypeOK'
BY DEF ExecutionTypeOK, go_to

(* An executor that is at work may report any result. *)
LEMMA ReportType ==
    ASSUME SchedulerTypeOK, ExecutionTypeOK, NEW e \in Executors,
           NEW r \in TaskResult, exec[e] # Sleeping, report(e, r)
    PROVE  ExecutionTypeOK'
<1>1. [pc |-> "report", staged |-> exec[e].staged, result |-> r] \in ExecutorStates
  BY ExecutorFields DEF ExecutorStates
<1> QED BY <1>1, GoToType DEF report

(* An executor may go back to sleep. *)
LEMMA SleepType ==
    ASSUME ExecutionTypeOK, NEW e \in Executors, go_to(e, Sleeping)
    PROVE  ExecutionTypeOK'
BY GoToType DEF ExecutorStates

(* Every step of an executor, the scheduler's answer included, keeps types. *)
LEMMA ExecutorType ==
    ASSUME StorageTypeOK, SchedulerTypeOK, ExecutionTypeOK,
           NEW e \in Executors, ExecutorStep(e)
    PROVE  StorageTypeOK' /\ SchedulerTypeOK' /\ ExecutionTypeOK'
<1> USE DEF Sleeping
<1>1. CASE PullTask(e)
  <2>1. Head(queue) \in StagedTask /\ queue' \in Seq(StagedTask)
    <3>1. queue # <<>> /\ queue' = Tail(queue)
      BY <1>1 DEF PullTask, pull_task, dequeue
    <3>2. queue \in Seq(StagedTask)
      BY DEF StorageTypeOK
    <3> QED BY <3>1, <3>2
  <2>2. [pc |-> "update_status", staged |-> Head(queue)] \in ExecutorStates
    BY <2>1 DEF ExecutorStates
  <2>3. ExecutionTypeOK'
    BY <1>1, <2>2, GoToType DEF PullTask
  <2> QED BY <1>1, <2>1, <2>3
          DEF PullTask, pull_task, StorageTypeOK, SchedulerTypeOK
<1>2. CASE UpdateTaskStatus(e)
  <2>0. exec[e] \in [pc : {"update_status", "running"}, staged : StagedTask]
          /\ task_of(e) \in TaskIds
    BY <1>2, ExecutorFields DEF UpdateTaskStatus, task_of
  <2>1. CASE update_task_status(e, task_of(e)) /\ UNCHANGED exec
    <3>1. tasks[task_of(e)] \in TaskStates
      BY <2>0, <2>1 DEF update_task_status, StorageTypeOK
    <3> QED BY <2>0, <2>1, <3>1
            DEF update_task_status, StorageTypeOK, storage, SchedulerTypeOK,
                SchedulerStates, ExecutionTypeOK
  <2>2. CASE update_task_status_put(e)
               /\ go_to(e, [exec[e] EXCEPT !.pc = "running"])
    <3>1. sched[e].task_id \in TaskIds /\ from_Run(sched[e].ts) \in TaskStates
      BY <2>2, ExecutorFields, FromType DEF update_task_status_put
    <3>2. ExecutionTypeOK'
      BY <2>0, <2>2, GoToType DEF ExecutorStates
    <3> QED BY <2>2, <3>1, <3>2, AnswerType
            DEF update_task_status_put, put_task, StorageTypeOK
  <2>3. CASE update_task_status_refused(e, task_of(e)) /\ report(e, "NotStarted")
    <3>1. exec[e] # Sleeping
      BY <1>2 DEF UpdateTaskStatus
    <3>2. ExecutionTypeOK'
      BY <2>3, <3>1, ReportType DEF TaskResult, TaskFailure
    <3> QED BY <2>3, <3>2
            DEF update_task_status_refused, StorageTypeOK, storage, SchedulerTypeOK
  <2> QED BY <1>2, <2>1, <2>2, <2>3 DEF UpdateTaskStatus
<1>3. CASE InvokeFunction(e)
  <2>1. exec[e] # Sleeping
    BY <1>3 DEF InvokeFunction
  <2>2. ExecutionTypeOK'
    BY <1>3, <2>1, ReportType DEF InvokeFunction, TaskResult, TaskFailure
  <2> QED BY <1>3, <2>2 DEF InvokeFunction, StorageTypeOK, storage, SchedulerTypeOK
<1>4. CASE UpdateTaskResult(e)
  <2>0. exec[e] # Sleeping /\ exec[e].staged \in StagedTask
          /\ task_of(e) \in TaskIds /\ exec[e].result \in TaskResult
    <3>1. exec[e].pc = "report"
      BY <1>4 DEF UpdateTaskResult
    <3>2. exec[e] # Sleeping /\ task_of(e) \in TaskIds
      BY <3>1, TaskOfType
    <3> QED BY <3>1, <3>2, ExecutorFields
  <2> DEFINE tags == Keys(exec[e].staged.output_data)
  <2>1. CASE update_task_result(e, task_of(e), exec[e].result, tags)
               /\ UNCHANGED exec
    <3>1. tasks[task_of(e)] \in TaskStates
      BY <2>0, <2>1 DEF update_task_result, StorageTypeOK
    <3>2. tags \in SUBSET OutNames
      BY <2>0 DEF Keys, StagedTask, FileRefs
    <3> HIDE DEF tags
    <3>3. [pc |-> "put_result", task_id |-> task_of(e), ts |-> tasks[task_of(e)],
           result |-> exec[e].result,
           tags |-> IF exec[e].result = "Ok" THEN tags ELSE {}] \in SchedulerStates
      BY <2>0, <3>1, <3>2 DEF SchedulerStates
    <3> QED BY <2>1, <3>3
            DEF update_task_result, StorageTypeOK, storage, SchedulerTypeOK,
                ExecutionTypeOK
  <2>2. CASE update_task_result_output(e) /\ UNCHANGED exec
    <3>1. sched[e] \in [pc : {"put_result"}, task_id : TaskIds, ts : TaskStates,
                        result : TaskResult, tags : SUBSET OutNames]
      BY <2>2, ExecutorFields DEF update_task_result_output
    <3>2. PICK n \in sched[e].tags :
            /\ can_update_output_cmac(sched[e].ts, n)
            /\ LET ts == update_output_cmac(sched[e].ts, n, <<sched[e].task_id, n>>)
               IN  /\ put_output(ts.assigned_outputs[n])
                   /\ sched' = [sched EXCEPT ![e].ts = ts, ![e].tags = @ \ {n}]
      BY <2>2 DEF update_task_result_output
    <3> DEFINE ts == update_output_cmac(sched[e].ts, n, <<sched[e].task_id, n>>)
    <3>3. ts \in TaskStates /\ ts.assigned_outputs[n] \in TeaclaveOutputFile
      BY <3>1, <3>2, CmacType DEF FileAuthTag
    <3>4. put_output(ts.assigned_outputs[n])
            /\ sched' = [sched EXCEPT ![e].ts = ts, ![e].tags = @ \ {n}]
      BY <3>2
    <3> HIDE DEF ts
    <3>5. SchedulerTypeOK'
      BY <3>1, <3>3, <3>4 DEF SchedulerTypeOK, SchedulerStates
    <3>6. outputs' \in [FileIds -> TeaclaveOutputFile \cup {Nil}]
      BY <3>3, <3>4 DEF put_output, StorageTypeOK
    <3> QED BY <2>2, <3>5, <3>6
            DEF update_task_result_output, StorageTypeOK, ExecutionTypeOK
  <2>3. CASE update_task_result_put(e) /\ go_to(e, Sleeping)
    <3>1. sched[e] \in [pc : {"put_result"}, task_id : TaskIds, ts : TaskStates,
                        result : TaskResult, tags : SUBSET OutNames]
      BY <2>3, ExecutorFields DEF update_task_result_put
    <3>2. from_Finish(update_result(sched[e].ts, sched[e].result)) \in TaskStates
      BY <3>1, ResultType, FromType
    <3> QED BY <2>3, <3>1, <3>2, AnswerType, SleepType
            DEF update_task_result_put, put_task, StorageTypeOK
  <2>4. CASE update_task_result_output_refused(e) /\ go_to(e, Sleeping)
    BY <2>4, AnswerType, SleepType
    DEF update_task_result_output_refused, StorageTypeOK, storage
  <2>5. CASE update_task_result_refused(e, task_of(e)) /\ go_to(e, Sleeping)
    BY <2>5, SleepType
    DEF update_task_result_refused, StorageTypeOK, storage, SchedulerTypeOK
  <2> QED BY <1>4, <2>1, <2>2, <2>3, <2>4, <2>5 DEF UpdateTaskResult
<1> QED BY <1>1, <1>2, <1>3, <1>4 DEF ExecutorStep

(* The initial state is well-typed. *)
LEMMA InitType == Init => TypeOK
<1> SUFFICES ASSUME Init PROVE TypeOK
  OBVIOUS
<1>1. StorageTypeOK
  BY DEF Init, StorageInit, StorageTypeOK
<1>2. ManagementTypeOK
  BY DEF Init, ManagementInit, ManagementTypeOK, HandlerStates
<1>3. SchedulerTypeOK
  BY DEF Init, SchedulerInit, SchedulerTypeOK, SchedulerStates
<1>4. ExecutionTypeOK
  BY DEF Init, ExecutionInit, ExecutionTypeOK, ExecutorStates
<1>5. errors \in 0..MaxErrors /\ crashes \in 0..MaxCrashes
  BY FaultsAssumption DEF Init
<1> QED BY <1>1, <1>2, <1>3, <1>4, <1>5 DEF TypeOK

(* Every step of the system keeps types. *)
LEMMA StepType == TypeOK /\ [Next]_vars => TypeOK'
<1> SUFFICES ASSUME TypeOK, [Next]_vars PROVE TypeOK'
  OBVIOUS
<1>1. CASE ManagementNext
  <2>1. StorageTypeOK' /\ ManagementTypeOK'
    BY <1>1, RequestType, HandlerType DEF ManagementNext, TypeOK
  <2> QED BY <1>1, <2>1 DEF ManagementNext, TypeOK, SchedulerTypeOK, ExecutionTypeOK
<1>2. CASE ExecutionNext
  <2>1. StorageTypeOK' /\ SchedulerTypeOK' /\ ExecutionTypeOK'
    BY <1>2, ExecutorType DEF ExecutionNext, TypeOK
  <2> QED BY <1>2, <2>1 DEF ExecutionNext, TypeOK, ManagementTypeOK
<1>3. CASE ManagementError
  <2>1. ManagementTypeOK'
    BY <1>3, RespondType DEF ManagementError, handler_error, TypeOK
  <2> QED BY <1>3, <2>1, FaultsAssumption
          DEF ManagementError, handler_error, TypeOK, SchedulerTypeOK,
              ExecutionTypeOK, StorageTypeOK, storage
<1>4. CASE ExecutionError
  <2>1. PICK e \in Executors : SchedulerError(e)
    BY <1>4 DEF ExecutionError
  <2>2. storage_error(e) /\ exec[e] # Sleeping
    <3>1. storage_error(e) /\ exec[e].pc \in {"update_status", "report"}
      BY <2>1 DEF SchedulerError
    <3>2. exec[e].pc # "sleep"
      BY <3>1
    <3> QED BY <3>1, <3>2, TaskOfType DEF TypeOK
  <2>3. SchedulerTypeOK' /\ StorageTypeOK'
    <3>1. answer(e) /\ UNCHANGED storage
      BY <2>2 DEF storage_error
    <3>2. SchedulerTypeOK'
      BY <3>1, AnswerType DEF TypeOK
    <3>3. StorageTypeOK'
      BY <3>1 DEF TypeOK, StorageTypeOK, storage
    <3> QED BY <3>2, <3>3
  <2>4. ExecutionTypeOK'
    BY <2>1, <2>2, ReportType, SleepType
    DEF SchedulerError, TypeOK, TaskResult, TaskFailure
  <2> QED BY <1>4, <2>3, <2>4, FaultsAssumption
          DEF ExecutionError, TypeOK, ManagementTypeOK
<1>5. CASE ExecutionCrash
  <2>1. ExecutionTypeOK'
    BY <1>5, SleepType DEF ExecutionCrash, Crash, TypeOK
  <2> QED BY <1>5, <2>1, FaultsAssumption
          DEF ExecutionCrash, Crash, TypeOK, StorageTypeOK, storage,
              SchedulerTypeOK, ManagementTypeOK
<1>6. CASE UNCHANGED vars
  BY <1>6 DEF vars, storage, TypeOK, StorageTypeOK, ManagementTypeOK,
              SchedulerTypeOK, ExecutionTypeOK
<1> QED BY <1>1, <1>2, <1>3, <1>4, <1>5, <1>6 DEF Next

(* Every stored item, every handler and every executor always has the state
   its declaration gives it. *)
THEOREM TypeCorrect == Spec => []TypeOK
BY InitType, StepType, PTL DEF Spec

-----------------------------------------------------------------------------
(* What the operators of Task preserve *)

(* all_data_assigned and everyone_approved look at these fields only. *)
LEMMA ReadyFields ==
    ASSUME NEW a, NEW b,
           a.participants = b.participants, a.approved_users = b.approved_users,
           a.inputs_ownership = b.inputs_ownership,
           a.outputs_ownership = b.outputs_ownership,
           a.assigned_inputs = b.assigned_inputs,
           a.assigned_outputs = b.assigned_outputs
    PROVE  /\ all_data_assigned(a) = all_data_assigned(b)
           /\ everyone_approved(a) = everyone_approved(b)
BY DEF all_data_assigned, everyone_approved

(* Functions are registered under new ids only. *)
LEMMA CoherentGrow ==
    ASSUME NEW fns, NEW fns2, NEW ts \in TaskStates, Coherent(fns, ts),
           \A f \in FunctionIds : fns[f] # Nil => fns2[f] = fns[f]
    PROVE  Coherent(fns2, ts)
BY DEF Coherent, TaskStates

(* A task that create_task builds is coherent. *)
LEMMA CoherentCreate ==
    ASSUME NEW fns, NEW u \in Users, NEW f \in FunctionIds, fns[f] # Nil,
           fns[f] \in Function,
           NEW in_own \in InputOwners, NEW out_own \in OutputOwners
    PROVE  Coherent(fns, create_new(u, f, fns[f], in_own, out_own))
<1> DEFINE ts == create_new(u, f, fns[f], in_own, out_own)
<1>1. /\ ts.function_id = f /\ ts.creator = u /\ ts.status = "Created"
      /\ ts.inputs_ownership = in_own /\ ts.outputs_ownership = out_own
      /\ ts.assigned_inputs = [n \in InNames |-> Nil]
      /\ ts.assigned_outputs = [n \in OutNames |-> Nil]
      /\ ts.participants = all_owners(in_own) \cup all_owners(out_own) \cup {u}
                             \cup (IF fns[f].public THEN {} ELSE {fns[f].owner})
  BY DEF create_new
<1> HIDE DEF ts
<1>2. /\ \A n \in Keys(in_own) : in_own[n] \subseteq all_owners(in_own)
      /\ \A n \in Keys(out_own) : out_own[n] \subseteq all_owners(out_own)
  BY DEF all_owners
<1>3. Keys(ts.assigned_inputs) = {} /\ Keys(ts.assigned_outputs) = {}
  BY <1>1 DEF Keys
<1>4. fns[f].public \/ fns[f].owner \in ts.participants
  BY <1>1
<1>5. ts.status # "DataAssigned" /\ ts.status \notin Cleared
  BY <1>1 DEF Cleared
<1>6. /\ \A n \in Keys(ts.inputs_ownership) : ts.inputs_ownership[n] \subseteq ts.participants
      /\ \A n \in Keys(ts.outputs_ownership) : ts.outputs_ownership[n] \subseteq ts.participants
      /\ ts.creator \in ts.participants
  BY <1>1, <1>2
<1> QED BY <1>1, <1>3, <1>4, <1>5, <1>6 DEF Coherent, ts

(* Assigning an input that passed can_assign_input keeps a created task coherent. *)
LEMMA CoherentAssignInput ==
    ASSUME NEW fns, NEW ts \in TaskStates, Coherent(fns, ts), ts.status = "Created",
           NEW u, NEW n \in InNames, NEW file \in TeaclaveInputFile,
           can_assign_input(ts, u, n, file)
    PROVE  /\ Coherent(fns, assign_input(ts, n, file))
           /\ assign_input(ts, n, file).status = "Created"
<1> DEFINE a == assign_input(ts, n, file)
<1>1. /\ a.function_id = ts.function_id /\ a.creator = ts.creator
      /\ a.status = "Created" /\ a.participants = ts.participants
      /\ a.inputs_ownership = ts.inputs_ownership
      /\ a.outputs_ownership = ts.outputs_ownership
      /\ a.assigned_outputs = ts.assigned_outputs
      /\ DOMAIN a.assigned_inputs = DOMAIN ts.assigned_inputs
      /\ \A m \in InNames :
           a.assigned_inputs[m] = IF m = n THEN file ELSE ts.assigned_inputs[m]
      /\ DOMAIN ts.assigned_inputs = InNames
  BY DEF assign_input, TaskStates
<1> HIDE DEF a
<1>2. \A m \in Keys(a.assigned_inputs) :
        /\ a.inputs_ownership[m] # Nil
        /\ a.assigned_inputs[m].owner = a.inputs_ownership[m]
  <2> SUFFICES ASSUME NEW m \in InNames, a.assigned_inputs[m] # Nil
               PROVE  /\ a.inputs_ownership[m] # Nil
                      /\ a.assigned_inputs[m].owner = a.inputs_ownership[m]
    BY <1>1 DEF Keys
  <2>1. CASE m = n
    BY <1>1, <2>1 DEF can_assign_input, Keys
  <2>2. CASE m # n
    <3>1. m \in Keys(ts.assigned_inputs) /\ a.assigned_inputs[m] = ts.assigned_inputs[m]
      BY <1>1, <2>2 DEF Keys
    <3> QED BY <1>1, <3>1 DEF Coherent
  <2> QED BY <2>1, <2>2
<1>3. a.status # "DataAssigned" /\ a.status \notin Cleared
  BY <1>1 DEF Cleared
<1>4. /\ fns[a.function_id] # Nil
      /\ fns[a.function_id].public \/ fns[a.function_id].owner \in a.participants
      /\ a.creator \in a.participants
  BY <1>1 DEF Coherent
<1>5. /\ \A m \in Keys(a.inputs_ownership) : a.inputs_ownership[m] \subseteq a.participants
      /\ \A m \in Keys(a.outputs_ownership) : a.outputs_ownership[m] \subseteq a.participants
  BY <1>1 DEF Coherent
<1>6. \A m \in Keys(a.assigned_outputs) :
        /\ a.outputs_ownership[m] # Nil
        /\ a.assigned_outputs[m].owner = a.outputs_ownership[m]
  BY <1>1 DEF Coherent
<1>7. Coherent(fns, a)
  BY <1>2, <1>3, <1>4, <1>5, <1>6 DEF Coherent
<1> QED BY <1>1, <1>7 DEF a

(* Assigning an output that passed can_assign_output keeps a created task coherent. *)
LEMMA CoherentAssignOutput ==
    ASSUME NEW fns, NEW ts \in TaskStates, Coherent(fns, ts), ts.status = "Created",
           NEW u, NEW n \in OutNames, NEW file \in TeaclaveOutputFile,
           can_assign_output(ts, u, n, file)
    PROVE  /\ Coherent(fns, assign_output(ts, n, file))
           /\ assign_output(ts, n, file).status = "Created"
<1> DEFINE a == assign_output(ts, n, file)
<1>1. /\ a.function_id = ts.function_id /\ a.creator = ts.creator
      /\ a.status = "Created" /\ a.participants = ts.participants
      /\ a.inputs_ownership = ts.inputs_ownership
      /\ a.outputs_ownership = ts.outputs_ownership
      /\ a.assigned_inputs = ts.assigned_inputs
      /\ DOMAIN a.assigned_outputs = DOMAIN ts.assigned_outputs
      /\ \A m \in OutNames :
           a.assigned_outputs[m] = IF m = n THEN file ELSE ts.assigned_outputs[m]
      /\ DOMAIN ts.assigned_outputs = OutNames
  BY DEF assign_output, TaskStates
<1> HIDE DEF a
<1>2. \A m \in Keys(a.assigned_outputs) :
        /\ a.outputs_ownership[m] # Nil
        /\ a.assigned_outputs[m].owner = a.outputs_ownership[m]
  <2> SUFFICES ASSUME NEW m \in OutNames, a.assigned_outputs[m] # Nil
               PROVE  /\ a.outputs_ownership[m] # Nil
                      /\ a.assigned_outputs[m].owner = a.outputs_ownership[m]
    BY <1>1 DEF Keys
  <2>1. CASE m = n
    BY <1>1, <2>1 DEF can_assign_output, Keys
  <2>2. CASE m # n
    <3>1. m \in Keys(ts.assigned_outputs) /\ a.assigned_outputs[m] = ts.assigned_outputs[m]
      BY <1>1, <2>2 DEF Keys
    <3> QED BY <1>1, <3>1 DEF Coherent
  <2> QED BY <2>1, <2>2
<1>3. a.status # "DataAssigned" /\ a.status \notin Cleared
  BY <1>1 DEF Cleared
<1>4. /\ fns[a.function_id] # Nil
      /\ fns[a.function_id].public \/ fns[a.function_id].owner \in a.participants
      /\ a.creator \in a.participants
  BY <1>1 DEF Coherent
<1>5. /\ \A m \in Keys(a.inputs_ownership) : a.inputs_ownership[m] \subseteq a.participants
      /\ \A m \in Keys(a.outputs_ownership) : a.outputs_ownership[m] \subseteq a.participants
  BY <1>1 DEF Coherent
<1>6. \A m \in Keys(a.assigned_inputs) :
        /\ a.inputs_ownership[m] # Nil
        /\ a.assigned_inputs[m].owner = a.inputs_ownership[m]
  BY <1>1 DEF Coherent
<1>7. Coherent(fns, a)
  BY <1>2, <1>3, <1>4, <1>5, <1>6 DEF Coherent
<1> QED BY <1>1, <1>7 DEF a

(* A change of approvals, result or status: only the last two conditions of
   Coherent are to be shown. *)
LEMMA CoherentSameData ==
    ASSUME NEW fns, NEW a, NEW b, Coherent(fns, b),
           a.function_id = b.function_id, a.creator = b.creator,
           a.participants = b.participants,
           a.inputs_ownership = b.inputs_ownership,
           a.outputs_ownership = b.outputs_ownership,
           a.assigned_inputs = b.assigned_inputs,
           a.assigned_outputs = b.assigned_outputs,
           a.status = "DataAssigned" => all_data_assigned(a),
           a.status \in Cleared => Ready(a)
    PROVE  Coherent(fns, a)
BY DEF Coherent

(* The task assign_data writes back is coherent. *)
LEMMA CoherentFromAssign ==
    ASSUME NEW fns, NEW ts \in TaskStates, Coherent(fns, ts)
    PROVE  Coherent(fns, from_Assign(ts))
<1> DEFINE a == from_Assign(ts)
<1>1. /\ a.function_id = ts.function_id /\ a.creator = ts.creator
      /\ a.participants = ts.participants /\ a.approved_users = ts.approved_users
      /\ a.inputs_ownership = ts.inputs_ownership
      /\ a.outputs_ownership = ts.outputs_ownership
      /\ a.assigned_inputs = ts.assigned_inputs
      /\ a.assigned_outputs = ts.assigned_outputs
      /\ a.status = IF all_data_assigned(ts) THEN "DataAssigned" ELSE "Created"
  BY DEF from_Assign, TaskStates
<1> HIDE DEF a
<1>2. all_data_assigned(a) = all_data_assigned(ts)
  BY <1>1, ReadyFields
<1>3. a.status \notin Cleared /\ (a.status = "DataAssigned" => all_data_assigned(a))
  BY <1>1, <1>2 DEF Cleared
<1> QED BY <1>1, <1>3, CoherentSameData DEF a

(* A task restored to Task<Approve> has all its data. *)
LEMMA IntoApprove ==
    ASSUME NEW fns, NEW ts, Coherent(fns, ts), into_Approve(ts)
    PROVE  all_data_assigned(ts)
BY DEF into_Approve, Coherent

(* A task restored to Task<Stage> has all its data and all approvals. *)
LEMMA IntoStage ==
    ASSUME NEW fns, NEW ts, Coherent(fns, ts), into_Stage(ts)
    PROVE  Ready(ts)
BY IntoApprove DEF into_Stage, Coherent, Cleared, Ready

(* The task approve_task writes back is coherent. *)
LEMMA CoherentApprove ==
    ASSUME NEW fns, NEW ts \in TaskStates, Coherent(fns, ts), into_Approve(ts),
           NEW u \in Users
    PROVE  Coherent(fns, from_Approve(approve(ts, u)))
<1> DEFINE b == approve(ts, u)
           a == from_Approve(b)
<1>1. /\ b \in TaskStates
      /\ b.inputs_ownership = ts.inputs_ownership
      /\ b.outputs_ownership = ts.outputs_ownership
      /\ b.assigned_inputs = ts.assigned_inputs
      /\ b.assigned_outputs = ts.assigned_outputs
      /\ b.function_id = ts.function_id /\ b.creator = ts.creator
      /\ b.participants = ts.participants
  BY ApproveType DEF approve, TaskStates
<1> HIDE DEF b
<1>2. /\ a.function_id = b.function_id /\ a.creator = b.creator
      /\ a.participants = b.participants /\ a.approved_users = b.approved_users
      /\ a.inputs_ownership = b.inputs_ownership
      /\ a.outputs_ownership = b.outputs_ownership
      /\ a.assigned_inputs = b.assigned_inputs
      /\ a.assigned_outputs = b.assigned_outputs
      /\ a.status = IF everyone_approved(b) THEN "Approved" ELSE "DataAssigned"
  BY <1>1 DEF from_Approve, TaskStates
<1> HIDE DEF a
<1>3. all_data_assigned(ts)
  BY IntoApprove
<1>4. all_data_assigned(b)
  BY <1>1, <1>3 DEF all_data_assigned
<1>5. all_data_assigned(a) /\ everyone_approved(a) = everyone_approved(b)
  BY <1>2, <1>4, ReadyFields
<1>6. a.status \in Cleared => Ready(a)
  BY <1>2, <1>5 DEF Ready, Cleared
<1>7. Coherent(fns, a)
  BY <1>1, <1>2, <1>5, <1>6, CoherentSameData
<1> QED BY <1>7 DEF a, b

(* Staging, starting and finishing keep a coherent task that is ready
   coherent. *)
LEMMA CoherentStatus ==
    ASSUME NEW fns, NEW ts \in TaskStates, Coherent(fns, ts), Ready(ts),
           NEW s \in TaskStatus
    PROVE  Coherent(fns, [ts EXCEPT !.status = s])
<1> DEFINE a == [ts EXCEPT !.status = s]
<1>1. /\ a.function_id = ts.function_id /\ a.creator = ts.creator
      /\ a.participants = ts.participants /\ a.approved_users = ts.approved_users
      /\ a.inputs_ownership = ts.inputs_ownership
      /\ a.outputs_ownership = ts.outputs_ownership
      /\ a.assigned_inputs = ts.assigned_inputs
      /\ a.assigned_outputs = ts.assigned_outputs
  BY DEF TaskStates
<1> HIDE DEF a
<1>2. Ready(a)
  BY <1>1, ReadyFields DEF Ready
<1>3. Coherent(fns, a)
  BY <1>1, <1>2, CoherentSameData DEF Ready
<1> QED BY <1>3 DEF a

(* Recording a result keeps a ready task coherent. *)
LEMMA CoherentResult ==
    ASSUME NEW fns, NEW ts \in TaskStates, Coherent(fns, ts), Ready(ts),
           NEW r \in TaskResult
    PROVE  Coherent(fns, update_result(ts, r)) /\ Ready(update_result(ts, r))
<1> DEFINE a == update_result(ts, r)
<1>1. /\ a.function_id = ts.function_id /\ a.creator = ts.creator
      /\ a.participants = ts.participants /\ a.approved_users = ts.approved_users
      /\ a.inputs_ownership = ts.inputs_ownership
      /\ a.outputs_ownership = ts.outputs_ownership
      /\ a.assigned_inputs = ts.assigned_inputs
      /\ a.assigned_outputs = ts.assigned_outputs
  BY DEF update_result, TaskStates
<1> HIDE DEF a
<1>2. Ready(a)
  BY <1>1, ReadyFields DEF Ready
<1>3. Coherent(fns, a)
  BY <1>1, <1>2, CoherentSameData DEF Ready
<1> QED BY <1>2, <1>3 DEF a

(* Tagging an output keeps a task coherent. *)
LEMMA CoherentCmac ==
    ASSUME NEW fns, NEW ts \in TaskStates, Coherent(fns, ts), NEW n \in OutNames,
           NEW tag \in FileAuthTag, can_update_output_cmac(ts, n)
    PROVE  /\ Coherent(fns, update_output_cmac(ts, n, tag))
           /\ update_output_cmac(ts, n, tag).status = ts.status
<1> DEFINE a == update_output_cmac(ts, n, tag)
<1>1. /\ a.function_id = ts.function_id /\ a.creator = ts.creator
      /\ a.participants = ts.participants /\ a.approved_users = ts.approved_users
      /\ a.inputs_ownership = ts.inputs_ownership
      /\ a.outputs_ownership = ts.outputs_ownership
      /\ a.assigned_inputs = ts.assigned_inputs
      /\ a.status = ts.status
      /\ a.assigned_outputs =
           [ts.assigned_outputs EXCEPT ![n] = [ts.assigned_outputs[n] EXCEPT !.cmac = tag]]
  BY DEF update_output_cmac, TaskStates
<1>2. /\ ts.assigned_outputs \in [OutNames -> TeaclaveOutputFile \cup {Nil}]
      /\ ts.assigned_outputs[n] # Nil
  BY DEF TaskStates, can_update_output_cmac
<1>3. ts.assigned_outputs[n] \in TeaclaveOutputFile
  BY <1>2
<1> HIDE DEF a
<1>4. /\ DOMAIN a.assigned_outputs = OutNames
      /\ DOMAIN ts.assigned_outputs = OutNames
      /\ a.assigned_outputs[n].owner = ts.assigned_outputs[n].owner
      /\ \A m \in OutNames \ {n} : a.assigned_outputs[m] = ts.assigned_outputs[m]
  BY <1>1, <1>2, <1>3 DEF TeaclaveOutputFile
<1>5. a.assigned_outputs[n] # Nil
  BY CmacType, NilAssumption DEF a
<1>6. Keys(a.assigned_outputs) = Keys(ts.assigned_outputs)
  BY <1>2, <1>4, <1>5 DEF Keys
<1>7. all_data_assigned(a) = all_data_assigned(ts)
        /\ everyone_approved(a) = everyone_approved(ts)
  BY <1>1, <1>6 DEF all_data_assigned, everyone_approved
<1>8. \A m \in Keys(a.assigned_outputs) :
        /\ a.outputs_ownership[m] # Nil
        /\ a.assigned_outputs[m].owner = a.outputs_ownership[m]
  BY <1>1, <1>4, <1>6 DEF Coherent, Keys
<1> QED BY <1>1, <1>7, <1>8 DEF Coherent, Ready, a

-----------------------------------------------------------------------------
(* Consent *)

Inv == TypeOK /\ CopiesCoherent

(* Changing one handler to a coherent state keeps all handlers coherent. *)
LEMMA HandlersNext ==
    ASSUME ManagementTypeOK, HandlersCoherent, NEW c \in Connections,
           NEW h, next_call(c, h), UNCHANGED functions,
           HandlerCoherent(functions, h)
    PROVE  HandlersCoherent'
<1>1. \A d \in Connections : conn'[d] = IF d = c THEN h ELSE conn[d]
  BY DEF ManagementTypeOK, next_call
<1> QED BY <1>1 DEF HandlersCoherent

(* Answering a request keeps all handlers coherent. *)
LEMMA HandlersRespond ==
    ASSUME ManagementTypeOK, HandlersCoherent, NEW c \in Connections,
           respond(c), UNCHANGED functions
    PROVE  HandlersCoherent'
<1>1. HandlerCoherent(functions, Idle)
  BY DEF HandlerCoherent, Idle
<1> QED BY <1>1, HandlersNext DEF respond

(* Storing a coherent task keeps all stored tasks coherent. *)
LEMMA TasksPut ==
    ASSUME StorageTypeOK, TasksCoherent, UNCHANGED functions,
           NEW t \in TaskIds, NEW ts, Coherent(functions, ts), put_task(t, ts)
    PROVE  TasksCoherent'
<1>1. DOMAIN tasks' = TaskIds
        /\ \A x \in TaskIds : tasks'[x] = IF x = t THEN ts ELSE tasks[x]
  BY DEF StorageTypeOK, put_task
<1>2. DOMAIN tasks = TaskIds
  BY DEF StorageTypeOK
<1> QED BY <1>1, <1>2 DEF TasksCoherent, Keys

(* Stored tasks stay coherent when neither they nor the functions change. *)
LEMMA TasksKeep ==
    ASSUME TasksCoherent, UNCHANGED <<tasks, functions>>
    PROVE  TasksCoherent'
BY DEF TasksCoherent, Keys

(* Handlers stay coherent when neither they nor the functions change. *)
LEMMA HandlersKeep ==
    ASSUME HandlersCoherent, UNCHANGED <<conn, functions>>
    PROVE  HandlersCoherent'
BY DEF HandlersCoherent

(* The scheduler's copies stay coherent when neither they nor the functions change. *)
LEMMA SchedulerKeep ==
    ASSUME SchedulerCoherent, UNCHANGED <<sched, functions>>
    PROVE  SchedulerCoherent'
BY DEF SchedulerCoherent

(* The task states that handlers hold have their type. *)
LEMMA CopiesType ==
    ASSUME TypeOK
    PROVE  /\ \A c \in Connections :
                conn[c].pc \in {"assign", "put_task", "read_function", "enqueue"} =>
                  conn[c].ts \in TaskStates /\ conn[c].task_id \in TaskIds
           /\ \A e \in Executors :
                sched[e] # Idle =>
                  sched[e].ts \in TaskStates /\ sched[e].task_id \in TaskIds
BY HandlerFields
DEF TypeOK, SchedulerTypeOK, SchedulerStates

(* A function registered under a new id leaves every copy coherent. *)
LEMMA FunctionCoherent ==
    ASSUME Inv, NEW c \in Connections, register_function(c), UNCHANGED sched
    PROVE  CopiesCoherent'
<1>1. \A f \in FunctionIds : functions[f] # Nil => functions'[f] = functions[f]
  BY DEF register_function, put_function, Inv, TypeOK, StorageTypeOK, Keys
<1>2. TasksCoherent'
  <2>1. \A t \in Keys(tasks) : tasks[t] \in TaskStates
    BY KeysType DEF Inv, TypeOK
  <2>2. \A t \in Keys(tasks) : Coherent(functions', tasks[t])
    BY <1>1, <2>1, CoherentGrow DEF Inv, CopiesCoherent, TasksCoherent
  <2> QED BY <2>2 DEF TasksCoherent, register_function
<1>3. HandlersCoherent'
  <2>1. \A d \in Connections : HandlerCoherent(functions', conn[d])
    <3> SUFFICES ASSUME NEW d \in Connections
                 PROVE  HandlerCoherent(functions', conn[d])
      OBVIOUS
    <3>1. HandlerCoherent(functions, conn[d])
      BY DEF Inv, CopiesCoherent, HandlersCoherent
    <3>2. ASSUME conn[d].pc \in {"assign", "put_task", "read_function", "enqueue"}
          PROVE  Coherent(functions', conn[d].ts)
      <4>1. conn[d].ts \in TaskStates
        BY <3>2, CopiesType DEF Inv
      <4>2. Coherent(functions, conn[d].ts)
        BY <3>1, <3>2 DEF HandlerCoherent
      <4> QED BY <1>1, <4>1, <4>2, CoherentGrow
    <3> QED BY <3>1, <3>2 DEF HandlerCoherent
  <2> QED BY <2>1 DEF HandlersCoherent, register_function
<1>4. SchedulerCoherent'
  <2>1. \A e \in Executors : sched[e] # Idle => Coherent(functions', sched[e].ts)
    BY <1>1, CopiesType, CoherentGrow DEF Inv, CopiesCoherent, SchedulerCoherent
  <2> QED BY <2>1 DEF Inv, CopiesCoherent, SchedulerCoherent
<1> QED BY <1>2, <1>3, <1>4 DEF CopiesCoherent

(* The first step of every frontend request keeps every copy coherent. *)
LEMMA RequestCoherent ==
    ASSUME Inv, NEW c \in Connections, handle_request(c), UNCHANGED sched
    PROVE  CopiesCoherent'
<1> USE DEF Inv, CopiesCoherent, TypeOK
<1>0. TasksCoherent /\ HandlersCoherent /\ SchedulerCoherent
  OBVIOUS
<1>1. CASE register_input_file(c) \/ register_output_file(c)
             \/ register_fusion_output(c)
  <2>1. UNCHANGED <<tasks, functions, conn>>
    BY <1>1 DEF register_input_file, register_output_file, register_fusion_output
  <2> QED BY <2>1, TasksKeep, HandlersKeep, SchedulerKeep
<1>2. CASE register_function(c)
  BY <1>2, FunctionCoherent
<1>3. ASSUME UNCHANGED storage, HandlersCoherent' PROVE CopiesCoherent'
  BY <1>3, TasksKeep, SchedulerKeep DEF storage
<1>4. CASE update_input_file(c) \/ update_output_file(c)
             \/ register_input_from_output(c)
  <2>1. PICK h : next_call(c, h) /\ h.pc \in {"put_input", "put_output"}
    <3> DEFINE in(f, o) == [pc |-> "put_input", file |-> [uuid |-> f, owner |-> o]]
               out(f, o) == [pc |-> "put_output",
                             file |-> [uuid |-> f, owner |-> o, cmac |-> Nil]]
    <3>1. \A f, o : in(f, o).pc = "put_input" /\ out(f, o).pc = "put_output"
      OBVIOUS
    <3>2. \E f, o : next_call(c, in(f, o)) \/ next_call(c, out(f, o))
      BY <1>4, Zenon
      DEF update_input_file, update_output_file, register_input_from_output
    <3> HIDE DEF in, out
    <3> QED BY <3>1, <3>2
  <2>2. HandlerCoherent(functions, h)
    BY <2>1 DEF HandlerCoherent
  <2>3. UNCHANGED storage /\ UNCHANGED functions
    BY <1>4 DEF update_input_file, update_output_file,
                register_input_from_output, storage
  <2> QED BY <1>3, <2>1, <2>2, <2>3, HandlersNext
<1>5. CASE create_task(c)
  <2>1. PICK u \in Users, f \in Keys(functions), t \in fresh_task_ids,
             in_own \in InputOwnerReqs, out_own \in OutputOwnerReqs :
          next_call(c, [pc |-> "put_task", task_id |-> t,
                        ts |-> create_new(u, f, functions[f], in_own, out_own)])
    BY <1>5 DEF create_task
  <2>2. Coherent(functions, create_new(u, f, functions[f], in_own, out_own))
    <3>1. f \in FunctionIds /\ functions[f] \in Function
      BY KeysType
    <3>2. functions[f] # Nil
      BY DEF Keys
    <3> QED BY <3>1, <3>2, CoherentCreate, RequestsAssumption
  <2>3. HandlersCoherent'
    BY <1>5, <2>1, <2>2, HandlersNext DEF create_task, storage, HandlerCoherent
  <2> QED BY <1>3, <1>5, <2>3 DEF create_task
<1>6. CASE assign_data(c)
  <2>1. PICK u \in Users, t \in Keys(tasks),
             ins \in FileRefs(InNames), outs \in FileRefs(OutNames) :
          /\ into_Assign(tasks[t])
          /\ next_call(c, [pc |-> "assign", task_id |-> t, ts |-> tasks[t],
                           user |-> u, inputs |-> ins, outputs |-> outs])
    BY <1>6 DEF assign_data
  <2>2. HandlersCoherent'
    BY <1>6, <2>1, HandlersNext
    DEF assign_data, storage, HandlerCoherent, TasksCoherent, into_Assign
  <2> QED BY <1>3, <1>6, <2>2 DEF assign_data
<1>7. CASE approve_task(c)
  <2>1. PICK u \in Users, t \in Keys(tasks) :
          /\ into_Approve(tasks[t])
          /\ next_call(c, [pc |-> "put_task", task_id |-> t,
                           ts |-> from_Approve(approve(tasks[t], u))])
    BY <1>7 DEF approve_task
  <2>2. Coherent(functions, from_Approve(approve(tasks[t], u)))
    BY <2>1, KeysType, CoherentApprove DEF TasksCoherent
  <2>3. HandlersCoherent'
    BY <1>7, <2>1, <2>2, HandlersNext DEF approve_task, storage, HandlerCoherent
  <2> QED BY <1>3, <1>7, <2>3 DEF approve_task
<1>8. CASE invoke_task(c)
  <2>1. PICK t \in Keys(tasks) :
          next_call(c, [pc |-> "read_function", task_id |-> t, ts |-> tasks[t]])
    BY <1>8 DEF invoke_task
  <2>2. HandlersCoherent'
    BY <1>8, <2>1, HandlersNext
    DEF invoke_task, storage, HandlerCoherent, TasksCoherent
  <2> QED BY <1>3, <1>8, <2>2 DEF invoke_task
<1> QED BY <1>1, <1>2, <1>4, <1>5, <1>6, <1>7, <1>8 DEF handle_request

(* Every later step of a frontend request keeps every copy coherent. *)
LEMMA HandlerStepCoherent ==
    ASSUME Inv, NEW c \in Connections, continue_handler(c), UNCHANGED sched
    PROVE  CopiesCoherent'
<1> USE DEF Inv, CopiesCoherent, TypeOK
<1>0. TasksCoherent /\ HandlersCoherent /\ SchedulerCoherent
        /\ HandlerCoherent(functions, conn[c])
  BY DEF HandlersCoherent
<1>1. ASSUME UNCHANGED storage, HandlersCoherent' PROVE CopiesCoherent'
  BY <1>1, TasksKeep, SchedulerKeep DEF storage
<1>2. ASSUME UNCHANGED functions, NEW t \in TaskIds, NEW ts,
             Coherent(functions, ts), put_task(t, ts), respond(c)
      PROVE  CopiesCoherent'
  <2>1. TasksCoherent'
    BY <1>2, TasksPut
  <2>2. HandlersCoherent'
    BY <1>2, HandlersRespond
  <2>3. SchedulerCoherent'
    BY <1>2, SchedulerKeep
  <2> QED BY <2>1, <2>2, <2>3
<1>3. CASE assign_data_input(c)
  <2> DEFINE h == conn[c]
  <2>1. h \in [pc : {"assign"}, task_id : TaskIds, ts : TaskStates, user : Users,
               inputs : FileRefs(InNames), outputs : FileRefs(OutNames)]
    BY <1>3, HandlerFields DEF assign_data_input
  <2>2. PICK n \in Keys(h.inputs) :
          IF inputs[h.inputs[n]] # Nil
               /\ can_assign_input(h.ts, h.user, n, inputs[h.inputs[n]])
          THEN next_call(c, [[h EXCEPT !.inputs[n] = Nil]
                               EXCEPT !.ts = assign_input(@, n, inputs[h.inputs[n]])])
          ELSE respond(c)
    BY <1>3 DEF assign_data_input
  <2>3. Coherent(functions, h.ts) /\ h.ts.status = "Created"
    BY <1>0, <2>1 DEF HandlerCoherent
  <2>4. UNCHANGED functions
    BY <1>3 DEF assign_data_input, storage
  <2> HIDE DEF h
  <2>5. n \in InNames /\ h.inputs[n] \in FileIds
    BY <2>1 DEF Keys, FileRefs
  <2>6. CASE inputs[h.inputs[n]] # Nil
               /\ can_assign_input(h.ts, h.user, n, inputs[h.inputs[n]])
    <3> DEFINE ts == assign_input(h.ts, n, inputs[h.inputs[n]])
               g == [[h EXCEPT !.inputs[n] = Nil] EXCEPT !.ts = ts]
    <3>1. inputs[h.inputs[n]] \in TeaclaveInputFile
      BY <2>5, <2>6 DEF StorageTypeOK
    <3>2. Coherent(functions, ts) /\ ts.status = "Created"
      <4> DEFINE file == inputs[h.inputs[n]]
      <4>1. h.ts \in TaskStates
        BY <2>1
      <4>2. file \in TeaclaveInputFile /\ can_assign_input(h.ts, h.user, n, file)
        BY <2>6, <3>1
      <4>3. n \in InNames
        BY <2>5
      <4> HIDE DEF file
      <4>4. /\ Coherent(functions, assign_input(h.ts, n, file))
            /\ assign_input(h.ts, n, file).status = "Created"
        BY <2>3, <4>1, <4>2, <4>3, CoherentAssignInput
      <4> QED BY <4>4 DEF file
    <3>3. next_call(c, g)
      BY <2>1, <2>2, <2>6
    <3> HIDE DEF ts
    <3>4. g.pc = "assign" /\ g.ts = ts
      BY <2>1
    <3> HIDE DEF g
    <3>5. HandlerCoherent(functions, g)
      BY <3>2, <3>4 DEF HandlerCoherent
    <3>6. HandlersCoherent'
      BY <2>4, <3>3, <3>5, HandlersNext
    <3> QED BY <1>1, <1>3, <3>6 DEF assign_data_input
  <2>7. CASE ~ (inputs[h.inputs[n]] # Nil
                  /\ can_assign_input(h.ts, h.user, n, inputs[h.inputs[n]]))
    BY <1>1, <1>3, <2>2, <2>4, <2>7, HandlersRespond DEF assign_data_input
  <2> QED BY <2>6, <2>7
<1>4. CASE assign_data_output(c)
  <2> DEFINE h == conn[c]
  <2>1. h \in [pc : {"assign"}, task_id : TaskIds, ts : TaskStates, user : Users,
               inputs : FileRefs(InNames), outputs : FileRefs(OutNames)]
    BY <1>4, HandlerFields DEF assign_data_output
  <2>2. PICK n \in Keys(h.outputs) :
          IF outputs[h.outputs[n]] # Nil
               /\ can_assign_output(h.ts, h.user, n, outputs[h.outputs[n]])
          THEN next_call(c, [[h EXCEPT !.outputs[n] = Nil]
                               EXCEPT !.ts = assign_output(@, n, outputs[h.outputs[n]])])
          ELSE respond(c)
    BY <1>4 DEF assign_data_output
  <2>3. Coherent(functions, h.ts) /\ h.ts.status = "Created"
    BY <1>0, <2>1 DEF HandlerCoherent
  <2>4. UNCHANGED functions
    BY <1>4 DEF assign_data_output, storage
  <2> HIDE DEF h
  <2>5. n \in OutNames /\ h.outputs[n] \in FileIds
    BY <2>1 DEF Keys, FileRefs
  <2>6. CASE outputs[h.outputs[n]] # Nil
               /\ can_assign_output(h.ts, h.user, n, outputs[h.outputs[n]])
    <3> DEFINE ts == assign_output(h.ts, n, outputs[h.outputs[n]])
               g == [[h EXCEPT !.outputs[n] = Nil] EXCEPT !.ts = ts]
    <3>1. outputs[h.outputs[n]] \in TeaclaveOutputFile
      BY <2>5, <2>6 DEF StorageTypeOK
    <3>2. Coherent(functions, ts) /\ ts.status = "Created"
      <4> DEFINE file == outputs[h.outputs[n]]
      <4>1. h.ts \in TaskStates
        BY <2>1
      <4>2. file \in TeaclaveOutputFile /\ can_assign_output(h.ts, h.user, n, file)
        BY <2>6, <3>1
      <4>3. n \in OutNames
        BY <2>5
      <4> HIDE DEF file
      <4>4. /\ Coherent(functions, assign_output(h.ts, n, file))
            /\ assign_output(h.ts, n, file).status = "Created"
        BY <2>3, <4>1, <4>2, <4>3, CoherentAssignOutput
      <4> QED BY <4>4 DEF file
    <3>3. next_call(c, g)
      BY <2>1, <2>2, <2>6
    <3> HIDE DEF ts
    <3>4. g.pc = "assign" /\ g.ts = ts
      BY <2>1
    <3> HIDE DEF g
    <3>5. HandlerCoherent(functions, g)
      BY <3>2, <3>4 DEF HandlerCoherent
    <3>6. HandlersCoherent'
      BY <2>4, <3>3, <3>5, HandlersNext
    <3> QED BY <1>1, <1>4, <3>6 DEF assign_data_output
  <2>7. CASE ~ (outputs[h.outputs[n]] # Nil
                  /\ can_assign_output(h.ts, h.user, n, outputs[h.outputs[n]]))
    BY <1>1, <1>4, <2>2, <2>4, <2>7, HandlersRespond DEF assign_data_output
  <2> QED BY <2>6, <2>7
<1>5. CASE assign_data_put(c)
  <2>1. conn[c].task_id \in TaskIds /\ Coherent(functions, from_Assign(conn[c].ts))
    BY <1>0, <1>5, HandlerFields, CoherentFromAssign
    DEF assign_data_put, HandlerCoherent
  <2> QED BY <1>2, <1>5, <2>1 DEF assign_data_put
<1>6. CASE invoke_task_function(c)
  <2>1. UNCHANGED storage /\ UNCHANGED functions
    BY <1>6 DEF invoke_task_function, storage
  <2>2. CASE respond(c)
    BY <1>1, <2>1, <2>2, HandlersRespond
  <2>3. CASE into_Stage(conn[c].ts)
               /\ next_call(c, [conn[c] EXCEPT !.pc = "enqueue"])
    <3>1. conn[c] \in [pc : {"put_task", "read_function", "enqueue"},
                       task_id : TaskIds, ts : TaskStates]
      BY <1>6, HandlerFields DEF invoke_task_function
    <3> DEFINE g == [conn[c] EXCEPT !.pc = "enqueue"]
    <3>2. g.pc = "enqueue" /\ g.ts = conn[c].ts
      BY <3>1
    <3>3. next_call(c, g)
      BY <2>3
    <3> HIDE DEF g
    <3>4. Coherent(functions, conn[c].ts) /\ Ready(conn[c].ts)
      BY <1>0, <1>6, <2>3, IntoStage DEF invoke_task_function, HandlerCoherent
    <3>5. HandlerCoherent(functions, g)
      BY <3>2, <3>4 DEF HandlerCoherent
    <3> QED BY <1>1, <2>1, <3>3, <3>5, HandlersNext
  <2> QED BY <1>6, <2>2, <2>3 DEF invoke_task_function
<1>7. CASE invoke_task_enqueue(c)
  <2>1. UNCHANGED <<tasks, functions>>
    BY <1>7 DEF invoke_task_enqueue
  <2>2. conn[c] \in [pc : {"put_task", "read_function", "enqueue"},
                     task_id : TaskIds, ts : TaskStates]
    BY <1>7, HandlerFields DEF invoke_task_enqueue
  <2> DEFINE g == [conn[c] EXCEPT !.pc = "put_task", !.ts = from_Stage(@)]
  <2>3. g.pc = "put_task" /\ g.ts = from_Stage(conn[c].ts)
    BY <2>2
  <2>4. next_call(c, g)
    BY <1>7 DEF invoke_task_enqueue
  <2> HIDE DEF g
  <2>5. Coherent(functions, from_Stage(conn[c].ts))
    BY <1>0, <1>7, <2>2, CoherentStatus
    DEF invoke_task_enqueue, HandlerCoherent, from_Stage, TaskStatus
  <2>6. HandlerCoherent(functions, g)
    BY <2>3, <2>5 DEF HandlerCoherent
  <2> QED BY <2>1, <2>4, <2>6, HandlersNext, TasksKeep, SchedulerKeep
<1>8. CASE write_input_to_db(c) \/ write_output_to_db(c)
  <2>1. UNCHANGED <<tasks, functions>> /\ respond(c)
    BY <1>8 DEF write_input_to_db, write_output_to_db
  <2> QED BY <2>1, TasksKeep, SchedulerKeep, HandlersRespond
<1>9. CASE write_task_to_db(c)
  <2>1. conn[c].task_id \in TaskIds /\ Coherent(functions, conn[c].ts)
    BY <1>0, <1>9, HandlerFields DEF write_task_to_db, HandlerCoherent
  <2> QED BY <1>2, <1>9, <2>1 DEF write_task_to_db
<1> QED BY <1>3, <1>4, <1>5, <1>6, <1>7, <1>8, <1>9 DEF continue_handler

(* Answering an executor keeps the scheduler's copies coherent. *)
LEMMA SchedulerAnswer ==
    ASSUME SchedulerTypeOK, SchedulerCoherent, NEW e \in Executors,
           answer(e), UNCHANGED functions
    PROVE  SchedulerCoherent'
<1>1. \A d \in Executors : sched'[d] = IF d = e THEN Idle ELSE sched[d]
  BY DEF SchedulerTypeOK, answer
<1> QED BY <1>1 DEF SchedulerCoherent

(* The task the scheduler's handler has read is staged or running, so it is
   ready. *)
LEMMA SchedulerReady ==
    ASSUME SchedulerCoherent, NEW e \in Executors, sched[e] # Idle
    PROVE  Coherent(functions, sched[e].ts) /\ Ready(sched[e].ts)
<1>1. Coherent(functions, sched[e].ts) /\ sched[e].ts.status \in {"Staged", "Running"}
  BY DEF SchedulerCoherent
<1>2. sched[e].ts.status \in Cleared
  BY <1>1 DEF Cleared
<1> QED BY <1>1, <1>2 DEF Coherent

(* Every step of an executor keeps every copy coherent. *)
LEMMA ExecutorCoherent ==
    ASSUME Inv, NEW e \in Executors, ExecutorStep(e), UNCHANGED conn
    PROVE  CopiesCoherent'
<1> USE DEF Inv, CopiesCoherent, TypeOK
<1>0. TasksCoherent /\ HandlersCoherent /\ SchedulerCoherent
  OBVIOUS
<1>1. ASSUME UNCHANGED <<tasks, functions>>, SchedulerCoherent'
      PROVE  CopiesCoherent'
  BY <1>1, TasksKeep, HandlersKeep
<1>2. ASSUME UNCHANGED functions, NEW t \in TaskIds, NEW ts,
             Coherent(functions, ts), put_task(t, ts), answer(e)
      PROVE  CopiesCoherent'
  <2>1. TasksCoherent'
    BY <1>2, TasksPut
  <2>2. SchedulerCoherent'
    BY <1>2, SchedulerAnswer
  <2>3. HandlersCoherent'
    BY <1>2, HandlersKeep
  <2> QED BY <2>1, <2>2, <2>3
<1>3. CASE PullTask(e) \/ InvokeFunction(e)
  <2>1. UNCHANGED <<tasks, functions, sched>>
    BY <1>3 DEF PullTask, pull_task, InvokeFunction, storage
  <2> QED BY <1>1, <2>1, SchedulerKeep
(* What the scheduler reads and restores is coherent, and has the status it
   was restored from. *)
<1>4. ASSUME NEW t \in TaskIds, NEW h, tasks[t] # Nil, h.ts = tasks[t],
             tasks[t].status \in {"Staged", "Running"},
             sched' = [sched EXCEPT ![e] = h], UNCHANGED <<tasks, functions>>
      PROVE  CopiesCoherent'
  <2>1. Coherent(functions, tasks[t])
    BY <1>0, <1>4 DEF TasksCoherent, Keys, StorageTypeOK
  <2>2. \A d \in Executors : sched'[d] = IF d = e THEN h ELSE sched[d]
    BY <1>4 DEF SchedulerTypeOK
  <2>3. SchedulerCoherent'
    BY <1>0, <1>4, <2>1, <2>2 DEF SchedulerCoherent
  <2> QED BY <1>1, <1>4, <2>3
<1>5. CASE UpdateTaskStatus(e)
  <2>0. task_of(e) \in TaskIds
    BY <1>5, TaskOfType DEF UpdateTaskStatus
  <2>1. CASE update_task_status(e, task_of(e))
    <3> DEFINE h == [pc |-> "put_status", task_id |-> task_of(e),
                     ts |-> tasks[task_of(e)]]
    <3>1. h.ts = tasks[task_of(e)] /\ sched' = [sched EXCEPT ![e] = h]
      BY <2>1 DEF update_task_status
    <3> HIDE DEF h
    <3> QED BY <1>4, <2>0, <2>1, <3>1 DEF update_task_status, into_Run, storage
  <2>2. CASE update_task_status_put(e)
    <3>1. sched[e] # Idle /\ sched[e].task_id \in TaskIds /\ sched[e].ts \in TaskStates
      BY <2>2, PutStatusFields DEF update_task_status_put
    <3>2. Coherent(functions, sched[e].ts) /\ Ready(sched[e].ts)
      BY <3>1, SchedulerReady
    <3>3. Coherent(functions, from_Run(sched[e].ts))
      BY <3>1, <3>2, CoherentStatus DEF from_Run, TaskStatus
    <3> QED BY <1>2, <2>2, <3>1, <3>3 DEF update_task_status_put
  <2>3. CASE update_task_status_refused(e, task_of(e))
    BY <1>1, <2>3, SchedulerKeep DEF update_task_status_refused, storage
  <2> QED BY <1>5, <2>1, <2>2, <2>3 DEF UpdateTaskStatus
<1>6. CASE UpdateTaskResult(e)
  <2>0. task_of(e) \in TaskIds
    BY <1>6, TaskOfType DEF UpdateTaskResult
  <2> DEFINE tags == Keys(exec[e].staged.output_data)
  <2>1. CASE update_task_result(e, task_of(e), exec[e].result, tags)
    <3> DEFINE h == [pc |-> "put_result", task_id |-> task_of(e),
                     ts |-> tasks[task_of(e)], result |-> exec[e].result,
                     tags |-> IF exec[e].result = "Ok" THEN tags ELSE {}]
    <3>1. h.ts = tasks[task_of(e)] /\ sched' = [sched EXCEPT ![e] = h]
      BY <2>1 DEF update_task_result
    <3> HIDE DEF h
    <3> QED BY <1>4, <2>0, <2>1, <3>1 DEF update_task_result, into_Finish, storage
  <2>2. CASE update_task_result_output(e)
    <3>1. sched[e] \in [pc : {"put_result"}, task_id : TaskIds, ts : TaskStates,
                        result : TaskResult, tags : SUBSET OutNames]
      BY <2>2, ExecutorFields DEF update_task_result_output
    <3>2. PICK n \in sched[e].tags :
            /\ can_update_output_cmac(sched[e].ts, n)
            /\ LET ts == update_output_cmac(sched[e].ts, n, <<sched[e].task_id, n>>)
               IN  /\ put_output(ts.assigned_outputs[n])
                   /\ sched' = [sched EXCEPT ![e].ts = ts, ![e].tags = @ \ {n}]
      BY <2>2 DEF update_task_result_output
    <3> DEFINE ts == update_output_cmac(sched[e].ts, n, <<sched[e].task_id, n>>)
    <3>3. sched' = [sched EXCEPT ![e].ts = ts, ![e].tags = @ \ {n}]
      BY <3>2
    <3>4. Coherent(functions, sched[e].ts) /\ sched[e].ts.status \in {"Staged", "Running"}
      <4>1. sched[e] # Idle
        BY <3>1, PutResultFields
      <4> QED BY <1>0, <4>1 DEF SchedulerCoherent
    <3>5. Coherent(functions, ts) /\ ts.status \in {"Staged", "Running"}
      BY <3>1, <3>2, <3>4, CoherentCmac DEF FileAuthTag
    <3> HIDE DEF ts
    <3>6. sched'[e].ts = ts /\ \A d \in Executors \ {e} : sched'[d] = sched[d]
      BY <3>1, <3>3 DEF SchedulerTypeOK
    <3>7. UNCHANGED <<tasks, functions>>
      BY <2>2 DEF update_task_result_output
    <3>8. SchedulerCoherent'
      BY <1>0, <3>5, <3>6, <3>7 DEF SchedulerCoherent
    <3> QED BY <1>1, <3>7, <3>8
  <2>3. CASE update_task_result_put(e)
    <3> DEFINE ts == sched[e].ts
    <3>1. sched[e] # Idle /\ sched[e].task_id \in TaskIds /\ ts \in TaskStates
            /\ sched[e].result \in TaskResult
      BY <2>3, PutResultFields DEF update_task_result_put
    <3>2. Coherent(functions, ts) /\ Ready(ts)
      BY <3>1, SchedulerReady
    <3> HIDE DEF ts
    <3>3. /\ update_result(ts, sched[e].result) \in TaskStates
          /\ Coherent(functions, update_result(ts, sched[e].result))
          /\ Ready(update_result(ts, sched[e].result))
      BY <3>1, <3>2, ResultType, CoherentResult
    <3>4. Coherent(functions, from_Finish(update_result(ts, sched[e].result)))
      BY <3>3, CoherentStatus DEF from_Finish, TaskStatus
    <3> QED BY <1>2, <2>3, <3>1, <3>4 DEF update_task_result_put, ts
  <2>4. CASE update_task_result_output_refused(e)
    BY <1>1, <2>4, SchedulerAnswer DEF update_task_result_output_refused, storage
  <2>5. CASE update_task_result_refused(e, task_of(e))
    BY <1>1, <2>5, SchedulerKeep DEF update_task_result_refused, storage
  <2> QED BY <1>6, <2>1, <2>2, <2>3, <2>4, <2>5 DEF UpdateTaskResult
<1> QED BY <1>3, <1>5, <1>6 DEF ExecutorStep

(* The inductive invariant holds initially. *)
LEMMA InitInv == Init => Inv
<1> SUFFICES ASSUME Init PROVE CopiesCoherent
  BY InitType DEF Inv
<1>1. TasksCoherent
  BY DEF Init, StorageInit, TasksCoherent, Keys
<1>2. HandlersCoherent
  BY DEF Init, ManagementInit, HandlersCoherent, HandlerCoherent, Idle
<1>3. SchedulerCoherent
  BY DEF Init, SchedulerInit, SchedulerCoherent
<1> QED BY <1>1, <1>2, <1>3 DEF CopiesCoherent

(* Every step preserves the inductive invariant. *)
LEMMA StepInv == Inv /\ [Next]_vars => Inv'
<1> SUFFICES ASSUME Inv, [Next]_vars PROVE CopiesCoherent'
  BY StepType DEF Inv
<1>1. CASE ManagementNext
  BY <1>1, RequestCoherent, HandlerStepCoherent DEF ManagementNext
<1>2. CASE ExecutionNext
  BY <1>2, ExecutorCoherent DEF ExecutionNext
<1>3. CASE ManagementError
  BY <1>3, HandlersRespond, TasksKeep, SchedulerKeep
  DEF ManagementError, handler_error, storage, Inv, TypeOK, CopiesCoherent
<1>4. CASE ExecutionError
  <2>1. PICK e \in Executors : storage_error(e)
    BY <1>4 DEF ExecutionError, SchedulerError
  <2> QED BY <1>4, <2>1, SchedulerAnswer, TasksKeep, HandlersKeep
          DEF ExecutionError, storage_error, storage, Inv, TypeOK, CopiesCoherent
<1>5. CASE ExecutionCrash
  BY <1>5, TasksKeep, HandlersKeep, SchedulerKeep
  DEF ExecutionCrash, Crash, storage, Inv, CopiesCoherent
<1>6. CASE UNCHANGED vars
  BY <1>6, TasksKeep, HandlersKeep, SchedulerKeep
  DEF vars, storage, Inv, CopiesCoherent
<1> QED BY <1>1, <1>2, <1>3, <1>4, <1>5, <1>6 DEF Next

(* Every copy of a task, in the database or held by a handler of the
   management or the scheduler service, is coherent. *)
THEOREM CopiesCorrect == Spec => []CopiesCoherent
<1>1. Inv => CopiesCoherent
  BY DEF Inv
<1> QED BY InitInv, StepInv, <1>1, PTL DEF Spec

(* In a coherent task every stakeholder is a participant. *)
LEMMA StakeholdersParticipate ==
    ASSUME NEW ts \in TaskStates, Coherent(functions, ts)
    PROVE  Stakeholders(ts) \subseteq ts.participants
<1>1. \A n \in Keys(ts.assigned_inputs) :
        n \in Keys(ts.inputs_ownership)
          /\ ts.assigned_inputs[n].owner \subseteq ts.participants
  BY DEF Coherent, Keys, TaskStates, InputOwners
<1>2. \A n \in Keys(ts.assigned_outputs) :
        n \in Keys(ts.outputs_ownership)
          /\ ts.assigned_outputs[n].owner \subseteq ts.participants
  BY DEF Coherent, Keys, TaskStates, OutputOwners
<1>3. functions[ts.function_id].public
        \/ functions[ts.function_id].owner \in ts.participants
  BY DEF Coherent
<1>4. ts.creator \in ts.participants
  BY DEF Coherent
<1> QED BY <1>1, <1>2, <1>3, <1>4 DEF Stakeholders

(* No task is stored as Approved, Staged, Running or Finished without the
   approval of everybody who has a stake in it, for any number of frontends
   and executors and whatever storage call fails. *)
THEOREM ConsentCorrect == Spec => []ConsentInv
<1>1. Inv => ConsentInv
  <2> SUFFICES ASSUME Inv, NEW t \in Keys(tasks), tasks[t].status \in Cleared
               PROVE  Consented(tasks[t])
    BY DEF ConsentInv
  <2>1. tasks[t] \in TaskStates
    BY KeysType DEF Inv, TypeOK
  <2>2. Coherent(functions, tasks[t])
    BY DEF Inv, CopiesCoherent, TasksCoherent
  <2>3. Ready(tasks[t]) /\ Stakeholders(tasks[t]) \subseteq tasks[t].participants
    BY <2>1, <2>2, StakeholdersParticipate DEF Coherent
  <2> QED BY <2>3 DEF Consented, Ready, everyone_approved
<1> QED BY InitInv, StepInv, <1>1, PTL DEF Spec
=============================================================================
