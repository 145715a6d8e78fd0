----------------------------- MODULE ObjectHeap -----------------------------
(***************************************************************************)
(* What the VM and its programs are promised of an allocator: a chunk      *)
(* stays where it is, keeps its contents and its identity as long as       *)
(* anything refers to it, whatever is allocated meanwhile, and a chunk     *)
(* that is handed out is nobody else's; or the process stops.  With memory *)
(* without end this is simple_allocator.c.                                 *)
(***************************************************************************)
EXTENDS ListMachine

CONSTANT Id

(* allocate_chunk *)
Allocate == \E i \in Id \ DOMAIN heap : Fills(i)

Init == MachineInit

Next == Work \/ Allocate \/ OutOfMemory

Spec == Init /\ [][Next]_machineVars
=============================================================================
