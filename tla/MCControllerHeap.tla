-------------------------- MODULE MCControllerHeap --------------------------
(* Four interrupts, as many as there are devices, two of them of equal     *)
(* priority.  Six slots give a heap of three levels with a node that has a *)
(* left child only, and a full heap.                                       *)
EXTENDS ControllerHeap, TLC

MCPrio == (0 :> 1) @@ (1 :> 2) @@ (2 :> 2) @@ (3 :> 3)

=============================================================================
