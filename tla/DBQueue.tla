------------------------------ MODULE DBQueue -------------------------------
(***************************************************************************)
(* The queue of the storage service (services/storage/enclave/src):         *)
(* DBQueue keeps the elements of a queue, the index of the first one and    *)
(* the index after the last one under keys of the database.  A worker       *)
(* thread sends each call through a channel to the one thread that owns the *)
(* database (proxy.rs) and waits for its response.                          *)
(*                                                                          *)
(* A put or a delete may fail and then changes nothing; a call is several   *)
(* of them, so it may stop half way.  Indices are u32, of Width values.     *)
(***************************************************************************)
EXTENDS QueueCalls, Sequences, Integers

CONSTANTS
    Width,    \* 2^32
    MaxTail   \* bound on the number of elements that are ever enqueued

ASSUME IndexAssumption ==
    /\ Width \in Nat /\ MaxTail \in Nat
    /\ MaxTail < Width
    /\ Nil \notin Values /\ Nil \notin Int

VARIABLES
    elements,  \* "queue-<key>-<index>" -> value
    head,      \* "queue-<key>-head"    -> index of the first element
    tail,      \* "queue-<key>-tail"    -> index after the last element
    channel,   \* the clients whose request is in the channel, in order
    calls      \* calls[p]: the request or the response of client p

vars == <<elements, head, tail, channel, calls>>

u32 == 0..(Width - 1)

TypeOK ==
    /\ elements \in [u32 -> Values \cup {Nil}]
    /\ head \in u32 \cup {Nil}
    /\ tail \in u32 \cup {Nil}
    /\ channel \in Seq(Clients)
    /\ calls \in [Clients -> {NoCall} \cup Requests \cup Responses]

Init ==
    /\ elements = [i \in u32 |-> Nil]
    /\ head = Nil
    /\ tail = Nil
    /\ channel = <<>>
    /\ calls = [p \in Clients |-> NoCall]

(* A key that is absent reads as index 0. *)
get_head == IF head = Nil THEN 0 ELSE head
get_tail == IF tail = Nil THEN 0 ELSE tail

-----------------------------------------------------------------------------
(* ProxyService::handle_request: send the request, wait for the response. *)

(* Faulty variant: the last request is served first. *)
Call_first(p) ==
    /\ calls[p] = NoCall
    /\ \E request \in Requests : calls' = [calls EXCEPT ![p] = request]
    /\ channel' = <<p>> \o channel
    /\ UNCHANGED <<elements, head, tail>>

Call(p) ==
    /\ calls[p] = NoCall
    /\ \E request \in Requests : calls' = [calls EXCEPT ![p] = request]
    /\ channel' = Append(channel, p)
    /\ UNCHANGED <<elements, head, tail>>

Return(p) ==
    /\ calls[p] \in Responses
    /\ calls' = [calls EXCEPT ![p] = NoCall]
    /\ UNCHANGED <<elements, head, tail, channel>>

-----------------------------------------------------------------------------
(* The database thread serves the first request of the channel. *)

respond(p, response) ==
    /\ channel' = Tail(channel)
    /\ calls' = [calls EXCEPT ![p] = response]

enqueue(p) ==
    /\ get_tail < MaxTail
    /\ elements' = [elements EXCEPT ![get_tail] = calls[p].value]
    /\ tail' = (get_tail + 1) % Width
    /\ respond(p, Ok(Nil))
    /\ UNCHANGED head

(* Faulty variants: the tail is put before the element; a failed put is not
   reported. *)
enqueue_error_tail_first(p) ==
    /\ tail' \in {tail, (get_tail + 1) % Width}
    /\ respond(p, Error)
    /\ UNCHANGED <<elements, head>>

enqueue_error_ignored(p) ==
    /\ elements' \in {elements, [elements EXCEPT ![get_tail] = calls[p].value]}
    /\ respond(p, Ok(Nil))
    /\ UNCHANGED <<head, tail>>

(* The put of the element fails, or the put of the tail after it. *)
enqueue_error(p) ==
    /\ elements' \in {elements, [elements EXCEPT ![get_tail] = calls[p].value]}
    /\ respond(p, Error)
    /\ UNCHANGED <<head, tail>>

dequeue_none(p) ==
    /\ get_head >= get_tail \/ elements[get_head] = Nil
    /\ respond(p, Ok(Nil))
    /\ UNCHANGED <<elements, head, tail>>

(* Faulty variant: the head moves the wrong way. *)
dequeue_down(p) ==
    /\ get_head < get_tail /\ elements[get_head] # Nil
    /\ head' = get_head - 1
    /\ elements' \in {elements, [elements EXCEPT ![get_head] = Nil]}
    /\ respond(p, Ok(elements[get_head]))
    /\ UNCHANGED tail

(* An error of the delete of the element is ignored. *)
dequeue(p) ==
    /\ get_head < get_tail /\ elements[get_head] # Nil
    /\ head' = (get_head + 1) % Width
    /\ elements' \in {elements, [elements EXCEPT ![get_head] = Nil]}
    /\ respond(p, Ok(elements[get_head]))
    /\ UNCHANGED tail

(* The put of the head fails. *)
dequeue_error(p) ==
    /\ get_head < get_tail /\ elements[get_head] # Nil
    /\ respond(p, Error)
    /\ UNCHANGED <<elements, head, tail>>

dispatch ==
    /\ channel # <<>>
    /\ LET p == Head(channel)
       IN  \/ calls[p].op = "enqueue" /\ (enqueue(p) \/ enqueue_error(p))
           \/ calls[p].op = "dequeue"
                /\ (dequeue_none(p) \/ dequeue(p) \/ dequeue_error(p))

Next == dispatch \/ \E p \in Clients : Call(p) \/ Return(p)

Spec == Init /\ [][Next]_vars

(* The database thread never stops serving its channel. *)
FairSpec == Spec /\ WF_vars(dispatch)

-----------------------------------------------------------------------------
(* The element keys between head and tail, and only these, are the queue. *)
Contents == [i \in 1..(get_tail - get_head) |-> elements[get_head + i - 1]]

Fifo == INSTANCE FifoQueue WITH contents <- Contents

(* The keys implement a first-in first-out queue with atomic calls: nothing
   is lost, duplicated or reordered, and a call that fails between two puts
   (DBQueue::enqueue, DBQueue::dequeue) leaves the queue as it was. *)
ImplementsFifo == Fifo!Spec

(* head never passes tail and each index between them holds an element: so
   "head >= tail" means empty, and the lookup of the first element of a
   queue that is not empty never answers None. *)
IndexInv ==
    /\ get_head <= get_tail
    /\ \A i \in get_head..(get_tail - 1) : elements[i] \in Values

(* Every call gets a response, whatever the other clients do. *)
EveryCallAnswered == \A p \in Clients :
    calls[p] \in Requests ~> calls[p] \in Responses
=============================================================================
