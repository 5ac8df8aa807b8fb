-------------------------------- MODULE Task --------------------------------
(***************************************************************************)
(* The multi-party task of types/src/task_state.rs: the stored TaskState,   *)
(* the typestate Task<S> it is restored to before each operation, and the   *)
(* conversion back that advances the status.  A module of operators only:   *)
(* the services that read, change and store a TaskState are in Management   *)
(* and Scheduler.                                                           *)
(*                                                                          *)
(* A hash map from file names is a total function with Nil for a name that  *)
(* is not a key.  Data the properties do not tell apart (urls, keys, the    *)
(* values of function arguments, the payload) is left out.                  *)
(***************************************************************************)
CONSTANTS
    Users,        \* user ids
    TaskIds,      \* uuids of tasks
    FileIds,      \* uuids of input and output files
    FunctionIds,  \* uuids of functions
    InNames,      \* names of input slots
    OutNames,     \* names of output slots
    Nil           \* Option::None, a key that is absent

-----------------------------------------------------------------------------
(* Types *)

OwnerList == SUBSET Users

UserList == OwnerList

TaskStatus ==
    {"Created", "DataAssigned", "Approved", "Staged", "Running", "Finished"}

(* The reason of a TaskFailure: the executor could not even move the task to
   Running, or files, function or upload failed after it had. *)
TaskFailure == {"NotStarted", "Failed"}

TaskResult == {"NotReady", "Ok"} \cup TaskFailure

(* The tag a run computes for one output: it identifies the content, so the
   task and the output slot that produced it. *)
FileAuthTag == TaskIds \X OutNames

TeaclaveInputFile == [uuid : FileIds, owner : OwnerList]

TeaclaveOutputFile ==
    [uuid : FileIds, owner : OwnerList, cmac : FileAuthTag \cup {Nil}]

ASSUME NilAssumption == Nil \notin TeaclaveOutputFile

Function ==
    [owner : Users, public : BOOLEAN,
     inputs : SUBSET InNames, outputs : SUBSET OutNames]

InputOwners == [InNames -> OwnerList \cup {Nil}]

OutputOwners == [OutNames -> OwnerList \cup {Nil}]

TaskStates ==
    [creator           : Users,
     function_id       : FunctionIds,
     inputs_ownership  : InputOwners,
     outputs_ownership : OutputOwners,
     participants      : UserList,
     approved_users    : UserList,
     assigned_inputs   : [InNames -> TeaclaveInputFile \cup {Nil}],
     assigned_outputs  : [OutNames -> TeaclaveOutputFile \cup {Nil}],
     result            : TaskResult,
     status            : TaskStatus]

FileRefs(Names) == [Names -> FileIds \cup {Nil}]

StagedTask ==
    [task_id     : TaskIds,
     input_data  : FileRefs(InNames),
     output_data : FileRefs(OutNames)]

(* The keys of a hash map. *)
Keys(m) == {n \in DOMAIN m : m[n] # Nil}

-----------------------------------------------------------------------------
(* Predicates on a stored TaskState *)

has_participant(ts, u) == u \in ts.participants

has_creator(ts, u) == ts.creator = u

(* Faulty variant: one approval is enough. *)
everyone_approved_any(ts) == ts.approved_users # {}

(* A task of a single participant counts as approved. *)
everyone_approved(ts) ==
    \/ \E u \in Users : ts.participants = {u}
    \/ ts.participants = ts.approved_users

all_data_assigned(ts) ==
    /\ Keys(ts.inputs_ownership) = Keys(ts.assigned_inputs)
    /\ Keys(ts.outputs_ownership) = Keys(ts.assigned_outputs)

-----------------------------------------------------------------------------
(* Task<Create> *)

all_owners(own) == UNION {own[n] : n \in Keys(own)}

(* The compatibility checks of Task::<Create>::new; the third one, on the
   names of the function arguments, refuses the request in the same way. *)
create_compatible(function, in_own, out_own) ==
    /\ function.inputs = Keys(in_own)
    /\ function.outputs = Keys(out_own)

create_new(requester, f, function, in_own, out_own) ==
    [creator           |-> requester,
     function_id       |-> f,
     inputs_ownership  |-> in_own,
     outputs_ownership |-> out_own,
     participants      |-> all_owners(in_own) \cup all_owners(out_own)
                             \cup {requester}
                             \cup (IF function.public THEN {}
                                   ELSE {function.owner}),
     approved_users    |-> {},
     assigned_inputs   |-> [n \in InNames |-> Nil],
     assigned_outputs  |-> [n \in OutNames |-> Nil],
     result            |-> "NotReady",
     status            |-> "Created"]

-----------------------------------------------------------------------------
(* Restoring a TaskState to Task<S>: each predicate says when try_from
   succeeds. *)

into_Assign(ts) == ts.status = "Created"

into_Approve(ts) ==
    \/ into_Assign(ts) /\ all_data_assigned(ts)
    \/ ts.status = "DataAssigned"

(* Faulty variants: a staged task can be staged again; approvals are not
   looked at. *)
into_Stage_again(ts) ==
    \/ into_Approve(ts) /\ everyone_approved(ts)
    \/ ts.status \in {"Approved", "Staged"}

into_Stage_unapproved(ts) == into_Approve(ts) \/ ts.status = "Approved"

into_Stage(ts) ==
    \/ into_Approve(ts) /\ everyone_approved(ts)
    \/ ts.status = "Approved"

into_Run(ts) == ts.status = "Staged"


into_Finish(ts) == ts.status = "Running"

-----------------------------------------------------------------------------
(* Task<Assign> *)

(* Faulty variant: the owners declared for the slot are not compared. *)
can_assign_input_any(ts, requester, n, file) ==
    /\ requester \in file.owner
    /\ n \in Keys(ts.inputs_ownership)
    /\ ts.assigned_inputs[n] = Nil

can_assign_input(ts, requester, n, file) ==
    /\ requester \in file.owner
    /\ n \in Keys(ts.inputs_ownership)
    /\ ts.inputs_ownership[n] = file.owner
    /\ ts.assigned_inputs[n] = Nil

can_assign_output(ts, requester, n, file) ==
    /\ requester \in file.owner
    /\ n \in Keys(ts.outputs_ownership)
    /\ ts.outputs_ownership[n] = file.owner
    /\ ts.assigned_outputs[n] = Nil

(* Faulty variant: the slot gets the id of the file, not the file. *)
assign_input_id(ts, n, file) == [ts EXCEPT !.assigned_inputs[n] = file.uuid]

assign_input(ts, n, file) == [ts EXCEPT !.assigned_inputs[n] = file]

assign_output(ts, n, file) == [ts EXCEPT !.assigned_outputs[n] = file]

(* Task<Approve> *)

(* Faulty variant: an approval replaces the earlier ones. *)
approve_only(ts, requester) == [ts EXCEPT !.approved_users = {requester}]

approve(ts, requester) == [ts EXCEPT !.approved_users = @ \cup {requester}]

(* Task<Stage> *)

stage_for_running(t, ts) ==
    [task_id     |-> t,
     input_data  |-> [n \in InNames |->
                        IF ts.assigned_inputs[n] = Nil THEN Nil
                        ELSE ts.assigned_inputs[n].uuid],
     output_data |-> [n \in OutNames |->
                        IF ts.assigned_outputs[n] = Nil THEN Nil
                        ELSE ts.assigned_outputs[n].uuid]]

(* Task<Finish>: an output that already has a tag cannot get another one. *)

can_update_output_cmac(ts, n) ==
    /\ ts.assigned_outputs[n] # Nil
    /\ ts.assigned_outputs[n].cmac = Nil

update_output_cmac(ts, n, tag) ==
    [ts EXCEPT !.assigned_outputs[n].cmac = tag]

update_result(ts, r) == [ts EXCEPT !.result = r]

-----------------------------------------------------------------------------
(* Back to a TaskState: one transition is taken when the task is ready for
   it, and the status is the one of the state reached. *)

from_Assign(ts) ==
    [ts EXCEPT !.status = IF all_data_assigned(ts) THEN "DataAssigned"
                          ELSE "Created"]

(* Faulty variant: the first approval completes the task. *)
from_Approve_always(ts) == [ts EXCEPT !.status = "Approved"]

from_Approve(ts) ==
    [ts EXCEPT !.status = IF everyone_approved(ts) THEN "Approved"
                          ELSE "DataAssigned"]

from_Stage(ts) == [ts EXCEPT !.status = "Staged"]

from_Run(ts) == [ts EXCEPT !.status = "Running"]

from_Finish(ts) == [ts EXCEPT !.status = "Finished"]
=============================================================================
