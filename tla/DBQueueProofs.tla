---------------------------- MODULE DBQueueProofs ---------------------------
(***************************************************************************)
(* DBQueue implements FifoQueue, for any clients, values and width, as long *)
(* as fewer elements than the width of an index are ever enqueued.          *)
(***************************************************************************)
EXTENDS DBQueue, SequenceTheorems, TLAPS

(* The inductive invariant: the indices are ordered and below the bound, so
   neither of them wraps around. *)
IInv ==
    /\ TypeOK
    /\ IndexInv
    /\ get_tail <= MaxTail

USE DEF u32

(* Reading an absent index as 0 gives an index. *)
LEMMA IndexType ==
    ASSUME TypeOK
    PROVE  get_head \in u32 /\ get_tail \in u32
BY IndexAssumption DEF TypeOK, get_head, get_tail

(* The inductive invariant holds of the empty queue. *)
LEMMA InitIInv == Init => IInv
BY IndexAssumption DEF Init, IInv, TypeOK, IndexInv, get_head, get_tail

(* Adding one to an index below the bound does not wrap. *)
LEMMA NoWrap ==
    ASSUME NEW i \in u32, i < MaxTail
    PROVE  (i + 1) % Width = i + 1 /\ i + 1 \in u32
<1>1. i + 1 \in 0..(Width - 1)
  BY IndexAssumption
<1>2. \A k \in 0..(Width - 1) : k % Width = k
  BY IndexAssumption
<1> QED BY <1>1, <1>2

(* Every step of an enqueue or a dequeue preserves the inductive invariant. *)
LEMMA StepIInv == IInv /\ [Next]_vars => IInv'
<1> SUFFICES ASSUME IInv, [Next]_vars PROVE IInv'
  OBVIOUS
<1>0. get_head \in u32 /\ get_tail \in u32
  BY IndexType DEF IInv
<1>1. ASSUME NEW p \in Clients, Call(p) PROVE IInv'
  BY <1>1 DEF Call, IInv, TypeOK, IndexInv, get_head, get_tail
<1>2. ASSUME NEW p \in Clients, Return(p) PROVE IInv'
  BY <1>2 DEF Return, IInv, TypeOK, IndexInv, get_head, get_tail
<1>3. ASSUME dispatch PROVE IInv'
  <2> DEFINE p == Head(channel)
  <2>1. p \in Clients /\ Tail(channel) \in Seq(Clients)
    BY <1>3 DEF dispatch, IInv, TypeOK
  <2> HIDE DEF p
  <2>2. ASSUME calls[p].op = "enqueue"
        PROVE  calls[p].value \in Values
    BY <2>1, <2>2 DEF IInv, TypeOK, NoCall, Requests, Responses
  <2>3. CASE calls[p].op = "enqueue" /\ enqueue(p)
    <3>1. tail' = get_tail + 1 /\ get_tail + 1 \in u32 /\ get_tail < MaxTail
      BY <1>0, <2>3, NoWrap DEF enqueue
    <3>2. get_tail' = get_tail + 1 /\ get_head' = get_head
      BY <2>3, <3>1, IndexAssumption DEF enqueue, get_tail, get_head
    <3>3. TypeOK'
      BY <2>1, <2>2, <2>3, <3>1, <1>0
      DEF enqueue, respond, IInv, TypeOK, Ok, Responses
    <3>4. ASSUME NEW i \in get_head..get_tail PROVE elements'[i] \in Values
      BY <2>2, <2>3, <1>0, IndexAssumption DEF enqueue, IInv, TypeOK, IndexInv
    <3>5. IndexInv'
      BY <3>2, <3>4, <1>0 DEF IInv, IndexInv
    <3> QED BY <3>1, <3>2, <3>3, <3>5, <1>0, IndexAssumption DEF IInv
  <2>4. CASE calls[p].op = "enqueue" /\ enqueue_error(p)
    <3>1. get_tail' = get_tail /\ get_head' = get_head
      BY <2>4 DEF enqueue_error, get_tail, get_head
    <3>2. TypeOK'
      BY <2>1, <2>2, <2>4, <1>0
      DEF enqueue_error, respond, IInv, TypeOK, Error, Responses
    <3>3. ASSUME NEW i \in get_head..(get_tail - 1) PROVE elements'[i] \in Values
      BY <2>4, <1>0, IndexAssumption DEF enqueue_error, IInv, TypeOK, IndexInv
    <3>4. IndexInv'
      BY <3>1, <3>3 DEF IInv, IndexInv
    <3> QED BY <3>1, <3>2, <3>4 DEF IInv
  <2>5. CASE calls[p].op = "dequeue" /\ dequeue_none(p)
    BY <2>1, <2>5
    DEF dequeue_none, respond, IInv, TypeOK, IndexInv, Ok, Responses,
        get_tail, get_head
  <2>6. CASE calls[p].op = "dequeue" /\ dequeue(p)
    <3>1. head' = get_head + 1 /\ get_head + 1 \in u32 /\ get_head < get_tail
      BY <1>0, <2>6, NoWrap, IndexAssumption DEF dequeue, IInv
    <3>2. get_head' = get_head + 1 /\ get_tail' = get_tail
      BY <2>6, <3>1, IndexAssumption DEF dequeue, get_tail, get_head
    <3>3. TypeOK'
      BY <2>1, <2>6, <3>1, <1>0
      DEF dequeue, respond, IInv, TypeOK, Ok, Responses
    <3>4. ASSUME NEW i \in (get_head + 1)..(get_tail - 1)
          PROVE  elements'[i] \in Values
      BY <2>6, <1>0, IndexAssumption DEF dequeue, IInv, TypeOK, IndexInv
    <3>5. IndexInv'
      BY <3>1, <3>2, <3>4, <1>0 DEF IndexInv
    <3> QED BY <3>2, <3>3, <3>5 DEF IInv
  <2>7. CASE calls[p].op = "dequeue" /\ dequeue_error(p)
    BY <2>1, <2>7
    DEF dequeue_error, respond, IInv, TypeOK, IndexInv, Error, Responses,
        get_tail, get_head
  <2> QED BY <1>3, <2>3, <2>4, <2>5, <2>6, <2>7 DEF dispatch, p
<1>4. CASE UNCHANGED vars
  BY <1>4 DEF vars, IInv, TypeOK, IndexInv, get_head, get_tail
<1> QED BY <1>1, <1>2, <1>3, <1>4 DEF Next

(* The keys and the pending calls always have their types. *)
THEOREM TypeCorrect == Spec => []TypeOK
<1>1. IInv => TypeOK
  BY DEF IInv
<1> QED BY InitIInv, StepIInv, <1>1, PTL DEF Spec

(* head never passes tail and every index between them holds an element
   (DBQueue::enqueue puts the element before the tail). *)
THEOREM IndexCorrect == Spec => []IndexInv
<1>1. IInv => IndexInv
  BY DEF IInv
<1> QED BY InitIInv, StepIInv, <1>1, PTL DEF Spec

(* The inductive invariant holds in every reachable state. *)
LEMMA InvariantIInv == Spec => []IInv
BY InitIInv, StepIInv, PTL DEF Spec

-----------------------------------------------------------------------------
(* Refinement *)

LEMMA InitRefines == Init => Fifo!Init
<1> SUFFICES ASSUME Init PROVE Fifo!Init
  OBVIOUS
<1>1. Contents = <<>>
  BY DEF Init, Contents, get_head, get_tail
<1> QED BY <1>1 DEF Init, Fifo!Init, Fifo!NoCall, NoCall

(* The contents are a sequence of values, as long as the distance between
   the indices. *)
LEMMA ContentsType ==
    ASSUME IInv
    PROVE  /\ Contents \in Seq(Values)
           /\ Len(Contents) = get_tail - get_head
           /\ \A i \in 1..(get_tail - get_head) :
                Contents[i] = elements[get_head + i - 1]
<1>1. get_head \in u32 /\ get_tail \in u32 /\ get_tail - get_head \in Nat
  BY IndexType, IndexAssumption DEF IInv, IndexInv
<1>2. \A i \in 1..(get_tail - get_head) : elements[get_head + i - 1] \in Values
  BY <1>1 DEF IInv, IndexInv
<1> QED BY <1>1, <1>2 DEF Contents

(* A step that leaves the indices and the elements between them as they are
   leaves the contents. *)
LEMMA ContentsUnchanged ==
    ASSUME IInv, get_head' = get_head, get_tail' = get_tail,
           \A i \in get_head..(get_tail - 1) : elements'[i] = elements[i]
    PROVE  Contents' = Contents
<1>1. get_head \in u32 /\ get_tail \in u32
  BY IndexType DEF IInv
<1> QED BY <1>1, IndexAssumption DEF Contents

(* Storing the element and moving the tail appends to the abstract queue. *)
LEMMA EnqueueAppends ==
    ASSUME IInv, NEW p \in Clients, calls[p].op = "enqueue", enqueue(p)
    PROVE  Contents' = Append(Contents, calls[p].value)
<1>1. get_head \in u32 /\ get_tail \in u32 /\ get_tail - get_head \in Nat
  BY IndexType, IndexAssumption DEF IInv, IndexInv
<1>2. tail' = get_tail + 1
  BY <1>1, NoWrap DEF enqueue
<1>3. get_tail' = get_tail + 1 /\ get_head' = get_head
  BY <1>1, <1>2, IndexAssumption DEF enqueue, get_tail, get_head
<1>4. Contents' = [i \in 1..(get_tail - get_head + 1) |-> elements'[get_head + i - 1]]
  BY <1>1, <1>3 DEF Contents
<1>5. \A i \in 1..(get_tail - get_head) :
        elements'[get_head + i - 1] = elements[get_head + i - 1]
  BY <1>1, IndexAssumption DEF enqueue, IInv, TypeOK
<1>6. elements'[get_tail] = calls[p].value
  BY <1>1 DEF enqueue, IInv, TypeOK
<1>7. Append(Contents, calls[p].value)
        = [i \in 1..(get_tail - get_head + 1) |->
             IF i = get_tail - get_head + 1 THEN calls[p].value ELSE Contents[i]]
  BY <1>1, ContentsType
<1>8. ASSUME NEW i \in 1..(get_tail - get_head + 1)
      PROVE  elements'[get_head + i - 1]
               = IF i = get_tail - get_head + 1 THEN calls[p].value ELSE Contents[i]
  <2>1. CASE i = get_tail - get_head + 1
    BY <1>1, <1>6, <2>1
  <2>2. CASE i # get_tail - get_head + 1
    <3>1. i \in 1..(get_tail - get_head)
      BY <1>1, <2>2
    <3> QED BY <1>5, <2>2, <3>1, ContentsType
  <2> QED BY <2>1, <2>2
<1> QED BY <1>4, <1>7, <1>8, Zenon

(* Moving the head takes the first element off the abstract queue. *)
LEMMA DequeueRemoves ==
    ASSUME IInv, NEW p \in Clients, dequeue(p)
    PROVE  /\ Contents # <<>>
           /\ Contents' = Tail(Contents)
           /\ elements[get_head] = Head(Contents)
<1>1. get_head \in u32 /\ get_tail \in u32 /\ get_head < get_tail
        /\ get_tail - get_head \in Nat
  BY IndexType, IndexAssumption DEF IInv, dequeue
<1>2. head' = get_head + 1
  BY <1>1, NoWrap, IndexAssumption DEF dequeue, IInv
<1>3. get_head' = get_head + 1 /\ get_tail' = get_tail
  BY <1>1, <1>2, IndexAssumption DEF dequeue, get_tail, get_head
<1>4. Contents' = [i \in 1..(get_tail - get_head - 1) |-> elements'[get_head + i]]
  BY <1>1, <1>3 DEF Contents
<1>5. \A i \in 1..(get_tail - get_head - 1) :
        elements'[get_head + i] = elements[get_head + i]
  BY <1>1, IndexAssumption DEF dequeue, IInv, TypeOK
<1>6. ASSUME NEW i \in 1..(get_tail - get_head - 1)
      PROVE  elements'[get_head + i] \in Values /\ elements'[get_head + i] = Contents[i + 1]
  <2>1. /\ i + 1 \in 1..(get_tail - get_head)
        /\ get_head + (i + 1) - 1 = get_head + i
        /\ get_head + i \in get_head..(get_tail - 1)
    BY <1>1
  <2>2. Contents[i + 1] = elements[get_head + i]
    BY <2>1, ContentsType
  <2>3. elements[get_head + i] \in Values
    BY <2>1 DEF IInv, IndexInv
  <2> QED BY <1>5, <2>2, <2>3
<1>7. /\ Contents' \in Seq(Values)
      /\ Len(Contents') = get_tail - get_head - 1
      /\ \A i \in 1..Len(Contents') : Contents'[i] = Contents[i + 1]
  <2> DEFINE n == get_tail - get_head - 1
             Rest(i) == elements'[get_head + i]
  <2>1. n \in Nat /\ Contents' = [i \in 1..n |-> Rest(i)]
    BY <1>1, <1>4
  <2>2. \A i \in 1..n : Rest(i) \in Values /\ Rest(i) = Contents[i + 1]
    BY <1>6
  <2> HIDE DEF n, Rest
  <2>3. /\ Contents' \in Seq(Values) /\ Len(Contents') = n
        /\ \A i \in 1..n : Contents'[i] = Contents[i + 1]
    BY <2>1, <2>2
  <2> QED BY <2>3 DEF n
<1>8. Contents \in Seq(Values) /\ Contents # <<>> /\ Len(Contents) = get_tail - get_head
  BY <1>1, ContentsType
<1>9. /\ Tail(Contents) \in Seq(Values)
      /\ Len(Tail(Contents)) = get_tail - get_head - 1
      /\ \A i \in 1..Len(Tail(Contents)) : Tail(Contents)[i] = Contents[i + 1]
  BY <1>8, HeadTailProperties
<1>10. Contents' = Tail(Contents)
  BY <1>7, <1>9, SeqEqual
<1> QED BY <1>1, <1>8, <1>10, ContentsType

(* Every step of the database queue is a step of the abstract queue or a stutter. *)
LEMMA StepRefines ==
    IInv /\ [Next]_vars => [Fifo!Next]_<<Contents, calls>>
<1> SUFFICES ASSUME IInv, [Next]_vars
             PROVE  [Fifo!Next]_<<Contents, calls>>
  OBVIOUS
<1>0. get_head \in u32 /\ get_tail \in u32
  BY IndexType DEF IInv
<1> USE DEF Fifo!NoCall, NoCall, Fifo!Requests, Requests,
            Fifo!Responses, Responses
<1>1. ASSUME NEW p \in Clients, Call(p) PROVE Fifo!Call(p)
  <2>1. Contents' = Contents
    BY <1>1, ContentsUnchanged DEF Call, get_head, get_tail
  <2> QED BY <1>1, <2>1 DEF Call, Fifo!Call
<1>2. ASSUME NEW p \in Clients, Return(p) PROVE Fifo!Return(p)
  <2>1. Contents' = Contents
    BY <1>2, ContentsUnchanged DEF Return, get_head, get_tail
  <2> QED BY <1>2, <2>1 DEF Return, Fifo!Return
<1>3. ASSUME dispatch PROVE Fifo!Next
  <2> DEFINE p == Head(channel)
  <2>1. p \in Clients
    BY <1>3 DEF dispatch, IInv, TypeOK
  <2> HIDE DEF p
  <2>2. calls[p].op \in {"enqueue", "dequeue"} => calls[p] \in Requests
    BY <2>1 DEF IInv, TypeOK
  <2>3. CASE calls[p].op = "enqueue" /\ enqueue(p)
    <3>1. Fifo!Enqueue(p)
      BY <2>1, <2>3, EnqueueAppends
      DEF enqueue, respond, Ok, Fifo!Enqueue, Fifo!Respond, Fifo!Ok
    <3> QED BY <2>1, <3>1 DEF Fifo!Next
  <2>4. CASE calls[p].op = "enqueue" /\ enqueue_error(p)
    <3>1. Contents' = Contents
      <4>1. get_head' = get_head /\ get_tail' = get_tail
        BY <2>4 DEF enqueue_error, get_head, get_tail
      <4>2. \A i \in get_head..(get_tail - 1) : elements'[i] = elements[i]
        BY <2>4, <1>0, IndexAssumption DEF enqueue_error, IInv, TypeOK
      <4> QED BY <4>1, <4>2, ContentsUnchanged
    <3>2. Fifo!Fail(p)
      BY <2>2, <2>4, <3>1
      DEF enqueue_error, respond, Error, Fifo!Fail, Fifo!Respond, Fifo!Error
    <3> QED BY <2>1, <3>2 DEF Fifo!Next
  <2>5. CASE calls[p].op = "dequeue" /\ dequeue_none(p)
    <3>1. Contents' = Contents
      BY <2>5, ContentsUnchanged DEF dequeue_none, get_head, get_tail
    <3>2. get_head = get_tail
      BY <2>5, <1>0, IndexAssumption DEF dequeue_none, IInv, IndexInv
    <3>3. Contents = <<>>
      BY <3>2, <1>0, ContentsType
    <3>4. Fifo!DequeueNone(p)
      BY <2>5, <3>1, <3>3
      DEF dequeue_none, respond, Ok, Fifo!DequeueNone, Fifo!Respond, Fifo!Ok
    <3> QED BY <2>1, <3>4 DEF Fifo!Next
  <2>6. CASE calls[p].op = "dequeue" /\ dequeue(p)
    <3>1. Fifo!Dequeue(p)
      BY <2>1, <2>6, DequeueRemoves
      DEF dequeue, respond, Ok, Fifo!Dequeue, Fifo!Respond, Fifo!Ok
    <3> QED BY <2>1, <3>1 DEF Fifo!Next
  <2>7. CASE calls[p].op = "dequeue" /\ dequeue_error(p)
    <3>1. Contents' = Contents
      BY <2>7, ContentsUnchanged DEF dequeue_error, get_head, get_tail
    <3>2. Fifo!Fail(p)
      BY <2>2, <2>7, <3>1
      DEF dequeue_error, respond, Error, Fifo!Fail, Fifo!Respond, Fifo!Error
    <3> QED BY <2>1, <3>2 DEF Fifo!Next
  <2> QED BY <1>3, <2>3, <2>4, <2>5, <2>6, <2>7 DEF dispatch, p
<1>4. CASE UNCHANGED vars
  BY <1>4, ContentsUnchanged DEF vars, get_head, get_tail
<1> QED BY <1>1, <1>2, <1>3, <1>4 DEF Next, Fifo!Next

(* The database keys behave as a first-in first-out queue with atomic calls,
   whatever put or delete fails (DBQueue::enqueue, DBQueue::dequeue). *)
THEOREM Refinement == Spec => ImplementsFifo
BY InitRefines, StepRefines, InvariantIInv, PTL
DEF Spec, ImplementsFifo, Fifo!Spec
=============================================================================
