--------------------------- MODULE TaskLifecycle ----------------------------
(***************************************************************************)
(* What the services promise about a task, with every request atomic: the   *)
(* participants fill the slots of the task with files, all approve what     *)
(* they then see, the creator has it staged, one executor runs it and       *)
(* stores its result.  Teaclave, in which every one of these operations is  *)
(* a read and a later write of the stored TaskState, implements it when     *)
(* there is one frontend and no storage call fails.                         *)
(***************************************************************************)
CONSTANTS Users, TaskIds, FileIds, InNames, OutNames, Nil

VARIABLE life   \* per task: Nil until it is created, then a record of Lives

Statuses ==
    {"Created", "DataAssigned", "Approved", "Staged", "Running", "Finished"}

Slots(Names) == [Names -> FileIds \cup {Nil}]

Lives ==
    [participants : SUBSET Users,
     approved     : SUBSET Users,
     in_slots     : SUBSET InNames,
     out_slots    : SUBSET OutNames,
     inputs       : Slots(InNames),
     outputs      : Slots(OutNames),
     status       : Statuses]

Filled(slots) == {n \in DOMAIN slots : slots[n] # Nil}

Complete(l) == Filled(l.inputs) = l.in_slots /\ Filled(l.outputs) = l.out_slots

Agreed(l) ==
    l.participants = l.approved \/ \E u \in Users : l.participants = {u}

(* The slots new extend the slots old. *)
Extends(old, new) == \A n \in Filled(old) : new[n] = old[n]

Init == life = [t \in TaskIds |-> Nil]

Become(t, l) == life' = [life EXCEPT ![t] = l]

Create(t) ==
    /\ life[t] = Nil
    /\ \E participants \in SUBSET Users \ {{}},
          ins \in SUBSET InNames, outs \in SUBSET OutNames :
         Become(t, [participants |-> participants,
                    approved     |-> {},
                    in_slots     |-> ins,
                    out_slots    |-> outs,
                    inputs       |-> [n \in InNames |-> Nil],
                    outputs      |-> [n \in OutNames |-> Nil],
                    status       |-> "Created"])

Assign(t) ==
    /\ life[t] # Nil /\ life[t].status = "Created"
    /\ \E ins \in Slots(InNames), outs \in Slots(OutNames) :
         LET l == [life[t] EXCEPT !.inputs = ins, !.outputs = outs]
         IN  /\ Extends(life[t].inputs, ins) /\ Extends(life[t].outputs, outs)
             /\ Become(t, [l EXCEPT !.status = IF Complete(l) THEN "DataAssigned"
                                               ELSE "Created"])

Approve(t) ==
    /\ life[t] # Nil /\ life[t].status \in {"Created", "DataAssigned"}
    /\ Complete(life[t])
    /\ \E u \in life[t].participants :
         LET l == [life[t] EXCEPT !.approved = @ \cup {u}]
         IN  Become(t, [l EXCEPT !.status = IF Agreed(l) THEN "Approved"
                                            ELSE "DataAssigned"])

Stage(t) ==
    /\ life[t] # Nil /\ life[t].status \in {"Created", "DataAssigned", "Approved"}
    /\ Complete(life[t]) /\ Agreed(life[t])
    /\ Become(t, [life[t] EXCEPT !.status = "Staged"])

Run(t) ==
    /\ life[t] # Nil /\ life[t].status = "Staged"
    /\ Become(t, [life[t] EXCEPT !.status = "Running"])

Finish(t) ==
    /\ life[t] # Nil /\ life[t].status = "Running"
    /\ Become(t, [life[t] EXCEPT !.status = "Finished"])

Next == \E t \in TaskIds :
    Create(t) \/ Assign(t) \/ Approve(t) \/ Stage(t) \/ Run(t) \/ Finish(t)

Spec == Init /\ [][Next]_life
=============================================================================
