----------------------------- MODULE FifoQueue ------------------------------
(***************************************************************************)
(* What the queue of the storage service promises the services that call    *)
(* it: a first-in first-out queue, on which each call takes effect at one   *)
(* moment between its request and its response.  A call that answers with   *)
(* an error has no effect.                                                  *)
(***************************************************************************)
EXTENDS QueueCalls, Sequences

VARIABLES
    contents, \* the elements of the queue, the oldest first
    calls     \* calls[p]: the call that client p is in

Init ==
    /\ contents = <<>>
    /\ calls = [p \in Clients |-> NoCall]

Call(p) ==
    /\ calls[p] = NoCall
    /\ \E request \in Requests : calls' = [calls EXCEPT ![p] = request]
    /\ UNCHANGED contents

Return(p) ==
    /\ calls[p] \in Responses
    /\ calls' = [calls EXCEPT ![p] = NoCall]
    /\ UNCHANGED contents

Respond(p, response) == calls' = [calls EXCEPT ![p] = response]

Enqueue(p) ==
    /\ calls[p].op = "enqueue"
    /\ contents' = Append(contents, calls[p].value)
    /\ Respond(p, Ok(Nil))

Dequeue(p) ==
    /\ calls[p].op = "dequeue"
    /\ contents # <<>>
    /\ contents' = Tail(contents)
    /\ Respond(p, Ok(Head(contents)))

DequeueNone(p) ==
    /\ calls[p].op = "dequeue"
    /\ contents = <<>>
    /\ Respond(p, Ok(Nil))
    /\ UNCHANGED contents

Fail(p) ==
    /\ calls[p] \in Requests
    /\ Respond(p, Error)
    /\ UNCHANGED contents

Next == \E p \in Clients :
    \/ Call(p) \/ Return(p)
    \/ Enqueue(p) \/ Dequeue(p) \/ DequeueNone(p) \/ Fail(p)

Spec == Init /\ [][Next]_<<contents, calls>>
=============================================================================
