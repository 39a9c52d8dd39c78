--------------------------- MODULE ControllerHeap ---------------------------
(***************************************************************************)
(* interrupt_controller.c on top of datastructures.c: the controller of    *)
(* InterruptController with the array of IsrHeap in place of its bag.  An  *)
(* insertion and a removal take as many steps as their sift loops, and     *)
(* handle_next_hardware_interrupt takes an interrupt out before it knows   *)
(* whether it can be started, and puts it back where it cannot.            *)
(***************************************************************************)
EXTENDS IsrHeap, Sequences, SequencesExt

CONSTANT MAX_STACK_SIZE

VARIABLES
    isr_priority_stack,
    taken,   \* the interrupt that was popped and is offered, at most one
    found    \* the priority stack as the RTI that offers it found it

control == <<isr_priority_stack, taken, found>>
controllerVars == <<vars, control>>

\* The stack before RTI's pop, as long as RTI has not decided.
stackOutside == IF taken = {} THEN isr_priority_stack ELSE found

pendingOutside ==
    [isr \in Isrs |-> pendingCount[isr] + IF isr \in taken THEN 1 ELSE 0]

INSTANCE InterruptController WITH
    isr_priority_stack <- stackOutside,
    pending <- pendingOutside,
    heap_size <- Cardinality(Occupied) + Cardinality(taken)

ControllerHeapInit ==
    /\ Init
    /\ isr_priority_stack = <<>>
    /\ taken = {}
    /\ found = <<>>

----------------------------------------------------------------------------
\* No function of the controller or of the heap is running.
Idle == loop = "ready" /\ taken = {}

\* handle_interrupt for a device: granted, queued, or dropped.
RequestGranted(isr) ==
    /\ Idle
    /\ Outranks(isr, isr_priority_stack)
    /\ isr_priority_stack' = Pushed(isr, isr_priority_stack)
    /\ UNCHANGED <<vars, taken, found>>

RequestQueued(isr) ==
    /\ Idle
    /\ ~Outranks(isr, isr_priority_stack)
    /\ Insert(isr)
    /\ UNCHANGED control

RequestDropped(isr) ==
    /\ Idle
    /\ ~Outranks(isr, isr_priority_stack)
    /\ heap_size = HEAP_SIZE
    /\ UNCHANGED controllerVars

\* An iteration, or the end, of heapify_up or heapify_down.
Sift ==
    /\ UpSwap \/ UpDone \/ DownSwap \/ DownDone
    /\ UNCHANGED control

\* RTI with nothing in the queue.
RtiQueueEmpty ==
    /\ Idle
    /\ heap_size = 0
    /\ isr_priority_stack' = Popped
    /\ UNCHANGED <<vars, taken, found>>

\* RTI: stack_top--, then pop_highest_prio.
RtiTakes ==
    /\ Idle
    /\ heap_size > 0
    /\ Pop
    /\ taken' = {isr_heap[0]}
    /\ found' = isr_priority_stack
    /\ isr_priority_stack' = Popped

Offered(isr) == loop = "ready" /\ isr \in taken

\* handle_interrupt for the interrupt that was taken: it starts,
OfferGranted(isr) ==
    /\ Offered(isr)
    /\ Outranks(isr, isr_priority_stack)
    /\ isr_priority_stack' = Pushed(isr, isr_priority_stack)
    /\ taken' = {}
    /\ found' = <<>>
    /\ UNCHANGED vars

\* Faulty variant: it is forgotten, as a dropped request is.
OfferForgotten(isr) ==
    /\ Offered(isr)
    /\ ~Outranks(isr, isr_priority_stack)
    /\ taken' = {}
    /\ found' = <<>>
    /\ UNCHANGED <<vars, isr_priority_stack>>

\* or goes back into the queue, which has room for it.
OfferPutBack(isr) ==
    /\ Offered(isr)
    /\ ~Outranks(isr, isr_priority_stack)
    /\ Insert(isr)
    /\ taken' = {}
    /\ found' = <<>>
    /\ UNCHANGED isr_priority_stack

ControllerHeapNext ==
    \/ \E isr \in Isrs :
          \/ RequestGranted(isr) \/ RequestQueued(isr) \/ RequestDropped(isr)
          \/ OfferGranted(isr) \/ OfferPutBack(isr)
    \/ Sift \/ RtiQueueEmpty \/ RtiTakes

ControllerHeapSpec == ControllerHeapInit /\ [][ControllerHeapNext]_controllerVars

----------------------------------------------------------------------------
(* The controller on the array is the controller on the bag: taking an     *)
(* interrupt out, sifting, testing it and putting it back looks like one   *)
(* RTI that either starts a most urgent waiting interrupt or leaves the    *)
(* queue alone, and no request is lost on the way.                         *)
ImplementsController == ControllerSpec
=============================================================================
