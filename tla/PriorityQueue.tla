--------------------------- MODULE PriorityQueue ---------------------------
(***************************************************************************)
(* What the binary heap of datastructures.c promises to its only client,   *)
(* the interrupt controller: a bounded bag of interrupt numbers from which *)
(* an interrupt of the highest priority is taken.  Interrupts of the same  *)
(* priority come out in no particular order.  IsrHeap is the array         *)
(* implementation and is checked to implement QueueSpec.                   *)
(***************************************************************************)
EXTENDS Integers, FiniteSets

CONSTANTS
    Isrs,         \* the interrupt numbers a device can raise
    isr_to_prio,  \* the priority that IVTEDP gave to each of them
    HEAP_SIZE     \* the capacity of isr_heap (UINT8_MAX in the code)

ASSUME QueueAssumption ==
    /\ IsFiniteSet(Isrs)
    /\ isr_to_prio \in [Isrs -> Nat]
    /\ HEAP_SIZE \in Nat \ {0}

VARIABLES
    pending,      \* how many times each interrupt is waiting
    heap_size     \* how many interrupts are waiting, the counter the code keeps

QueueVars == <<pending, heap_size>>

\* Types of the bag and of its size counter.
QueueTypeOK ==
    /\ pending \in [Isrs -> Nat]
    /\ heap_size \in 0 .. HEAP_SIZE

QueueInit ==
    /\ pending = [i \in Isrs |-> 0]
    /\ heap_size = 0

HighestPending(isr) ==
    /\ pending[isr] > 0
    /\ \A other \in Isrs : pending[other] > 0 => isr_to_prio[other] <= isr_to_prio[isr]

\* Faulty variant: the test heap_size < HEAP_SIZE is left out.
EnqueueUnchecked(isr) ==
    /\ pending' = [pending EXCEPT ![isr] = @ + 1]
    /\ heap_size' = heap_size + 1

Enqueue(isr) ==
    /\ heap_size < HEAP_SIZE
    /\ pending' = [pending EXCEPT ![isr] = @ + 1]
    /\ heap_size' = heap_size + 1

Dequeue(isr) ==
    /\ heap_size > 0
    /\ HighestPending(isr)
    /\ pending' = [pending EXCEPT ![isr] = @ - 1]
    /\ heap_size' = heap_size - 1

QueueNext == \E isr \in Isrs : Enqueue(isr) \/ Dequeue(isr)

QueueSpec == QueueInit /\ [][QueueNext]_QueueVars
=============================================================================
