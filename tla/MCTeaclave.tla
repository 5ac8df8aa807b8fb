----------------------------- MODULE MCTeaclave -----------------------------
(***************************************************************************)
(* Small instances of Teaclave.                                             *)
(***************************************************************************)
EXTENDS Teaclave, TLC

CONSTANTS u1, u2

Shape(public, ins, outs) ==
    [owner |-> u1, public |-> public, inputs |-> ins, outputs |-> outs]

MCPublic == {Shape(TRUE, InNames, OutNames)}
MCPrivate == {Shape(FALSE, InNames, OutNames)}
MCOutOnly == {Shape(TRUE, {}, OutNames)}

MCNoInputs == {[n \in InNames |-> Nil]}

(* Each slot owned by one user, or by both. *)
MCInOwners == [InNames -> {{u1}, {u2}}] \cup MCNoInputs
MCOutOwners == [OutNames -> {{u2}, {u1, u2}}]
MCInOwner == [InNames -> {{u1}}]
MCOutOwner == [OutNames -> {{u2}}]
MCOneOwner == [OutNames -> {{u1}}]

Sym == Permutations(FileIds) \cup Permutations(TaskIds)
         \cup Permutations(Executors) \cup Permutations(Connections)
=============================================================================
