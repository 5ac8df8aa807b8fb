----------------------------- MODULE Management -----------------------------
(***************************************************************************)
(* The management service (services/management/enclave/src/service.rs).     *)
(* Each connection of Connections is served by a worker thread of its own;  *)
(* a handler makes one storage call after another, and other handlers run   *)
(* between its calls, because the mutex on the storage client is held for   *)
(* one call only.  conn[c] is what the handler on connection c holds        *)
(* between two storage calls: a step of a handler is one storage call and   *)
(* the local computation around it.                                         *)
(*                                                                          *)
(* A request that a handler refuses changes nothing and is no step when the *)
(* refusal comes with the first storage call; later it is a step back to    *)
(* Idle.  The handlers that only read (get_function, get_task,              *)
(* get_input_file, get_output_file) change no state and are no actions.     *)
(***************************************************************************)
EXTENDS Storage

CONSTANTS
    Connections,    \* connections of frontend services
    FunctionSpecs,  \* the functions that users register
    InputOwnerReqs, \* the inputs_ownership maps of create_task requests
    OutputOwnerReqs \* the outputs_ownership maps of create_task requests

ASSUME RequestsAssumption ==
    /\ FunctionSpecs \subseteq Function
    /\ InputOwnerReqs \subseteq InputOwners
    /\ OutputOwnerReqs \subseteq OutputOwners

VARIABLE conn

(* Local state of a handler between two storage calls, by the call that
   comes next. *)
HandlerStates ==
    {Idle}
    \cup [pc : {"put_input"}, file : TeaclaveInputFile]
    \cup [pc : {"put_output"}, file : TeaclaveOutputFile]
    \cup [pc : {"assign"}, task_id : TaskIds, ts : TaskStates, user : Users,
          inputs : FileRefs(InNames), outputs : FileRefs(OutNames)]
    \cup [pc : {"put_task", "read_function", "enqueue"},
          task_id : TaskIds, ts : TaskStates]

ManagementTypeOK == conn \in [Connections -> HandlerStates]

ManagementInit == conn = [c \in Connections |-> Idle]

next_call(c, handler) == conn' = [conn EXCEPT ![c] = handler]

respond(c) == next_call(c, Idle)

(* Uuid::new_v4() never returns an id twice: no stored item has the id, and
   no handler is about to store one that has. *)
fresh_file_ids ==
    {f \in FileIds :
       /\ inputs[f] = Nil /\ outputs[f] = Nil
       /\ \A c \in Connections :
            conn[c].pc \in {"put_input", "put_output"} => conn[c].file.uuid # f}

fresh_task_ids ==
    {t \in TaskIds :
       /\ tasks[t] = Nil
       /\ \A c \in Connections : conn[c].pc = "put_task" => conn[c].task_id # t}

-----------------------------------------------------------------------------
(* Files and functions *)

register_input_file(c) ==
    /\ conn[c] = Idle
    /\ \E u \in Users, f \in fresh_file_ids :
         put_input([uuid |-> f, owner |-> {u}])
    /\ UNCHANGED <<tasks, outputs, functions, queue, conn>>

(* The updated file is a new one, with a new uuid and the old owner. *)
update_input_file(c) ==
    /\ conn[c] = Idle
    /\ \E u \in Users, old \in Keys(inputs), f \in fresh_file_ids :
         /\ inputs[old].owner = {u}
         /\ next_call(c, [pc |-> "put_input",
                          file |-> [uuid |-> f, owner |-> inputs[old].owner]])
    /\ UNCHANGED storage

register_output_file(c) ==
    /\ conn[c] = Idle
    /\ \E u \in Users, f \in fresh_file_ids :
         put_output([uuid |-> f, owner |-> {u}, cmac |-> Nil])
    /\ UNCHANGED <<tasks, inputs, functions, queue, conn>>

update_output_file(c) ==
    /\ conn[c] = Idle
    /\ \E u \in Users, old \in Keys(outputs), f \in fresh_file_ids :
         /\ outputs[old].owner = {u}
         /\ next_call(c, [pc |-> "put_output",
                          file |-> [uuid |-> f, owner |-> outputs[old].owner, cmac |-> Nil]])
    /\ UNCHANGED storage

register_fusion_output(c) ==
    /\ conn[c] = Idle
    /\ \E u \in Users, owners \in OwnerList, f \in fresh_file_ids :
         /\ u \in owners /\ owners # {u}
         /\ put_output([uuid |-> f, owner |-> owners, cmac |-> Nil])
    /\ UNCHANGED <<tasks, inputs, functions, queue, conn>>

(* The input keeps the uuid of the output, under the input prefix. *)
register_input_from_output(c) ==
    /\ conn[c] = Idle
    /\ \E u \in Users, f \in Keys(outputs) :
         /\ u \in outputs[f].owner
         /\ outputs[f].cmac # Nil
         /\ next_call(c, [pc |-> "put_input",
                          file |-> [uuid |-> f, owner |-> outputs[f].owner]])
    /\ UNCHANGED storage

register_function(c) ==
    /\ conn[c] = Idle
    /\ \E function \in FunctionSpecs, f \in FunctionIds \ Keys(functions) :
         put_function(f, function)
    /\ UNCHANGED <<tasks, inputs, outputs, queue, conn>>

-----------------------------------------------------------------------------
(* Tasks *)

create_task(c) ==
    /\ conn[c] = Idle
    /\ \E u \in Users, f \in Keys(functions), t \in fresh_task_ids,
          in_own \in InputOwnerReqs, out_own \in OutputOwnerReqs :
         /\ create_compatible(functions[f], in_own, out_own)
         /\ next_call(c, [pc |-> "put_task", task_id |-> t,
                          ts |-> create_new(u, f, functions[f], in_own, out_own)])
    /\ UNCHANGED storage

assign_data(c) ==
    /\ conn[c] = Idle
    /\ \E u \in Users, t \in Keys(tasks),
          ins \in FileRefs(InNames), outs \in FileRefs(OutNames) :
         /\ has_participant(tasks[t], u)
         /\ into_Assign(tasks[t])
         /\ next_call(c, [pc |-> "assign", task_id |-> t, ts |-> tasks[t],
                          user |-> u, inputs |-> ins, outputs |-> outs])
    /\ UNCHANGED storage

(* One read_from_db of the loop over the requested inputs, in any order, and
   the assignment of the file read. *)
assign_data_input(c) ==
    /\ conn[c].pc = "assign"
    /\ \E n \in Keys(conn[c].inputs) :
         LET file == inputs[conn[c].inputs[n]]
             done == [conn[c] EXCEPT !.inputs[n] = Nil]
         IN  IF file # Nil /\ can_assign_input(conn[c].ts, conn[c].user, n, file)
             THEN next_call(c, [done EXCEPT !.ts = assign_input(@, n, file)])
             ELSE respond(c)
    /\ UNCHANGED storage

(* The loop over the requested outputs starts when the inputs are done. *)
assign_data_output(c) ==
    /\ conn[c].pc = "assign"
    /\ Keys(conn[c].inputs) = {}
    /\ \E n \in Keys(conn[c].outputs) :
         LET file == outputs[conn[c].outputs[n]]
             done == [conn[c] EXCEPT !.outputs[n] = Nil]
         IN  IF file # Nil /\ can_assign_output(conn[c].ts, conn[c].user, n, file)
             THEN next_call(c, [done EXCEPT !.ts = assign_output(@, n, file)])
             ELSE respond(c)
    /\ UNCHANGED storage

assign_data_put(c) ==
    /\ conn[c].pc = "assign"
    /\ Keys(conn[c].inputs) = {} /\ Keys(conn[c].outputs) = {}
    /\ put_task(conn[c].task_id, from_Assign(conn[c].ts))
    /\ respond(c)
    /\ UNCHANGED <<inputs, outputs, functions, queue>>

approve_task(c) ==
    /\ conn[c] = Idle
    /\ \E u \in Users, t \in Keys(tasks) :
         /\ into_Approve(tasks[t])
         /\ has_participant(tasks[t], u)
         /\ next_call(c, [pc |-> "put_task", task_id |-> t,
                          ts |-> from_Approve(approve(tasks[t], u))])
    /\ UNCHANGED storage

invoke_task(c) ==
    /\ conn[c] = Idle
    /\ \E u \in Users, t \in Keys(tasks) :
         /\ has_creator(tasks[t], u)
         /\ next_call(c, [pc |-> "read_function", task_id |-> t,
                          ts |-> tasks[t]])
    /\ UNCHANGED storage

invoke_task_function(c) ==
    /\ conn[c].pc = "read_function"
    /\ IF functions[conn[c].ts.function_id] # Nil /\ into_Stage(conn[c].ts)
       THEN next_call(c, [conn[c] EXCEPT !.pc = "enqueue"])
       ELSE respond(c)
    /\ UNCHANGED storage

(* The staged task enters the queue before the task is stored as Staged. *)
invoke_task_enqueue(c) ==
    /\ conn[c].pc = "enqueue"
    /\ enqueue(stage_for_running(conn[c].task_id, conn[c].ts))
    /\ next_call(c, [conn[c] EXCEPT !.pc = "put_task", !.ts = from_Stage(@)])
    /\ UNCHANGED <<tasks, inputs, outputs, functions>>

(* The write_to_db that ends a handler, of the item it prepared. *)

write_input_to_db(c) ==
    /\ conn[c].pc = "put_input"
    /\ put_input(conn[c].file)
    /\ respond(c)
    /\ UNCHANGED <<tasks, outputs, functions, queue>>

write_output_to_db(c) ==
    /\ conn[c].pc = "put_output"
    /\ put_output(conn[c].file)
    /\ respond(c)
    /\ UNCHANGED <<tasks, inputs, functions, queue>>

write_task_to_db(c) ==
    /\ conn[c].pc = "put_task"
    /\ put_task(conn[c].task_id, conn[c].ts)
    /\ respond(c)
    /\ UNCHANGED <<inputs, outputs, functions, queue>>

-----------------------------------------------------------------------------
(* A storage call of a running handler fails, or the thread serving the
   connection ends: the handler returns and what it holds is lost. *)
handler_error(c) ==
    /\ conn[c] # Idle
    /\ respond(c)
    /\ UNCHANGED storage

(* Steps that a running handler takes by itself. *)
continue_handler(c) ==
    \/ assign_data_input(c)
    \/ assign_data_output(c)
    \/ assign_data_put(c)
    \/ invoke_task_function(c)
    \/ invoke_task_enqueue(c)
    \/ write_input_to_db(c)
    \/ write_output_to_db(c)
    \/ write_task_to_db(c)

(* A request arrives on an idle connection. *)
handle_request(c) ==
    \/ register_input_file(c)
    \/ update_input_file(c)
    \/ register_output_file(c)
    \/ update_output_file(c)
    \/ register_fusion_output(c)
    \/ register_input_from_output(c)
    \/ register_function(c)
    \/ create_task(c)
    \/ assign_data(c)
    \/ approve_task(c)
    \/ invoke_task(c)
=============================================================================
