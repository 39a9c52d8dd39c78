------------------------------ MODULE IsrHeap ------------------------------
(***************************************************************************)
(* The array heap of datastructures.c, one action per iteration of the     *)
(* sift loops, with the two ways interrupt_controller.c uses it: append    *)
(* and heapify_up, and pop_highest_prio.  Indices are uint8_t; HEAP_SIZE   *)
(* is UINT8_MAX, so that arithmetic is modulo HEAP_SIZE + 1.               *)
(***************************************************************************)
EXTENDS Integers, FiniteSets

CONSTANTS Isrs, isr_to_prio, HEAP_SIZE

\* isr_heap is a static array: interrupt number 0 fills every slot at first.
ASSUME HeapAssumption ==
    /\ IsFiniteSet(Isrs)
    /\ 0 \in Isrs
    /\ isr_to_prio \in [Isrs -> Nat]
    /\ HEAP_SIZE \in Nat \ {0}

VARIABLES
    isr_heap,   \* the array, slots beyond heap_size hold what was left there
    heap_size,
    loop,       \* "ready", or the sift loop that is running: "up" or "down"
    idx         \* the loop variable of that loop

vars == <<isr_heap, heap_size, loop, idx>>

U8(n) == n % (HEAP_SIZE + 1)
Slots == 0 .. HEAP_SIZE - 1
Parent(i) == (i - 1) \div 2
Prio(slot) == isr_to_prio[isr_heap[slot]]

\* The slots that hold a waiting interrupt: while it sifts up, the new
\* element is stored but not yet counted in heap_size.
Occupied == 0 .. (IF loop = "up" THEN heap_size ELSE heap_size - 1)

Swapped(i, j) == [isr_heap EXCEPT ![i] = isr_heap[j], ![j] = isr_heap[i]]

TypeOK ==
    /\ isr_heap \in [Slots -> Isrs]
    /\ heap_size \in 0 .. HEAP_SIZE
    /\ loop \in {"ready", "up", "down"}
    /\ idx \in Slots
    /\ loop = "up" => heap_size < HEAP_SIZE /\ idx <= heap_size

Init ==
    /\ isr_heap = [s \in Slots |-> 0]
    /\ heap_size = 0
    /\ loop = "ready"
    /\ idx = 0

\* Faulty variant: the test heap_size < HEAP_SIZE is left out.
InsertUnchecked(isr) ==
    /\ loop = "ready"
    /\ isr_heap' = [isr_heap EXCEPT ![heap_size] = isr]
    /\ loop' = "up"
    /\ idx' = heap_size
    /\ UNCHANGED heap_size

\* isr_heap[heap_size] = isr; heapify_up(heap_size, ...)
Insert(isr) ==
    /\ loop = "ready"
    /\ heap_size < HEAP_SIZE
    /\ isr_heap' = [isr_heap EXCEPT ![heap_size] = isr]
    /\ loop' = "up"
    /\ idx' = heap_size
    /\ UNCHANGED heap_size

AboveParent == idx > 0 /\ Prio(idx) > Prio(Parent(idx))

UpSwap ==
    /\ loop = "up"
    /\ AboveParent
    /\ isr_heap' = Swapped(idx, Parent(idx))
    /\ idx' = Parent(idx)
    /\ UNCHANGED <<heap_size, loop>>

\* heapify_up returns; heap_size++
UpDone ==
    /\ loop = "up"
    /\ ~AboveParent
    /\ heap_size' = U8(heap_size + 1)
    /\ loop' = "ready"
    /\ idx' = 0
    /\ UNCHANGED isr_heap

\* Faulty variant: heap[0] = heap[heap_size--].
PopPostDecrement ==
    /\ loop = "ready"
    /\ heap_size > 0
    /\ heap_size' = heap_size - 1
    /\ isr_heap' = [isr_heap EXCEPT ![0] = isr_heap[heap_size]]
    /\ loop' = "down"
    /\ idx' = 0

\* heap[0] = heap[--heap_size]; heapify_down(0, ...)
Pop ==
    /\ loop = "ready"
    /\ heap_size > 0
    /\ heap_size' = heap_size - 1
    /\ isr_heap' = [isr_heap EXCEPT ![0] = isr_heap[heap_size - 1]]
    /\ loop' = "down"
    /\ idx' = 0

Left == U8(2 * idx + 1)
Right == U8(2 * idx + 2)

Larger(slot, than) ==
    IF slot < heap_size /\ Prio(slot) > Prio(than) THEN slot ELSE than

\* Faulty variant: the second test is an "else" of the first.
LargestOfRightFirst == IF Larger(Left, idx) = Left THEN Left ELSE Larger(Right, idx)

Largest == Larger(Right, Larger(Left, idx))

BelowChild == 2 * idx + 1 < heap_size /\ Largest # idx

DownSwap ==
    /\ loop = "down"
    /\ BelowChild
    /\ isr_heap' = Swapped(idx, Largest)
    /\ idx' = Largest
    /\ UNCHANGED <<heap_size, loop>>

DownDone ==
    /\ loop = "down"
    /\ ~BelowChild
    /\ loop' = "ready"
    /\ idx' = 0
    /\ UNCHANGED <<isr_heap, heap_size>>

Next ==
    \/ \E isr \in Isrs : Insert(isr)
    \/ UpSwap \/ UpDone
    \/ Pop \/ DownSwap \/ DownDone

Spec == Init /\ [][Next]_vars

----------------------------------------------------------------------------
Ordered(parent, child) == Prio(parent) >= Prio(child)

(* The heap order with the one exception each sift loop repairs.  Between  *)
(* calls every parent outranks its children, so heap[0] is an interrupt of *)
(* the highest priority.  While heapify_up runs only the element at idx    *)
(* may outrank its parent; while heapify_down runs only the element at idx *)
(* may be outranked by its children; and in both the children of idx are   *)
(* still no higher than the parent of idx.                                 *)
HeapOrder ==
    \A i \in Occupied \ {0} :
        /\ \/ Ordered(Parent(i), i)
           \/ loop = "up" /\ i = idx
           \/ loop = "down" /\ Parent(i) = idx
        /\ Parent(i) = idx /\ idx > 0 => Ordered(Parent(idx), i)

pendingCount == [i \in Isrs |-> Cardinality({s \in Occupied : isr_heap[s] = i})]

Queue == INSTANCE PriorityQueue WITH
    pending <- pendingCount,
    heap_size <- Cardinality(Occupied)

(* The array implements the queue: an insertion adds exactly its           *)
(* interrupt, a pop removes exactly one interrupt of the highest waiting   *)
(* priority, and the sift loops neither lose nor duplicate an interrupt.   *)
ImplementsQueue == Queue!QueueSpec
=============================================================================
