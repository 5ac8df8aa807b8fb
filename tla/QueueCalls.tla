----------------------------- MODULE QueueCalls -----------------------------
(***************************************************************************)
(* Requests to the queue of the storage service and their responses         *)
(* (EnqueueRequest, DequeueRequest and what they answer).                   *)
(***************************************************************************)
CONSTANTS
    Clients,  \* threads of the storage service that serve a connection
    Values,   \* what is queued
    Nil       \* no value

NoCall == [op |-> "none"]

Requests == [op : {"enqueue"}, value : Values] \cup [op : {"dequeue"}]

(* "ok" carries the dequeued value; Nil after an enqueue, and for
   TeaclaveStorageError::None of a dequeue.  "error" is a LevelDb error. *)
Responses == [op : {"ok"}, value : Values \cup {Nil}] \cup [op : {"error"}]

Ok(value) == [op |-> "ok", value |-> value]

Error == [op |-> "error"]
=============================================================================
