------------------------ MODULE InterruptController ------------------------
(***************************************************************************)
(* interrupt_controller.c together with the part of RTI in interpr.c that  *)
(* touches it.  A device's request is granted when its interrupt outranks  *)
(* the one in service, otherwise it waits in the queue; when a service     *)
(* routine returns, the highest waiting interrupt is offered again.        *)
(***************************************************************************)
EXTENDS PriorityQueue, Sequences, SequencesExt

CONSTANT MAX_STACK_SIZE  \* the capacity of isr_priority_stack

\* Every interrupt belongs to one device (IVTEDP gives each a number of its
\* own) and there are at most NUM_DEVICES = 4 devices for 255 stack slots.
ASSUME ControllerAssumption ==
    /\ MAX_STACK_SIZE \in Nat
    /\ Cardinality(Isrs) <= MAX_STACK_SIZE

VARIABLE isr_priority_stack  \* its length is stack_top + 1

ControllerVars == <<isr_priority_stack, pending, heap_size>>

Priorities == {isr_to_prio[isr] : isr \in Isrs}

\* Types of the controller's state.
ControllerTypeOK ==
    /\ QueueTypeOK
    /\ isr_priority_stack \in Seq(Priorities)

ControllerInit ==
    /\ QueueInit
    /\ isr_priority_stack = <<>>

----------------------------------------------------------------------------
\* Faulty variant: an interrupt of the same priority is let through.
OutranksOrEqual(isr, stack) ==
    stack # <<>> => isr_to_prio[isr] >= Last(stack) /\ Len(stack) < MAX_STACK_SIZE

\* The condition of handle_interrupt, on the stack it finds.
Outranks(isr, stack) ==
    stack # <<>> => isr_to_prio[isr] > Last(stack) /\ Len(stack) < MAX_STACK_SIZE

Pushed(isr, stack) == Append(stack, isr_to_prio[isr])

\* handle_hardware_interrupt returns true: the routine starts at once.
Grant(isr) ==
    /\ Outranks(isr, isr_priority_stack)
    /\ isr_priority_stack' = Pushed(isr, isr_priority_stack)
    /\ UNCHANGED QueueVars

\* It returns false and the request waits.
Defer(isr) ==
    /\ ~Outranks(isr, isr_priority_stack)
    /\ Enqueue(isr)
    /\ UNCHANGED isr_priority_stack

\* It returns false and the request is lost, because the heap is full.
Drop(isr) ==
    /\ ~Outranks(isr, isr_priority_stack)
    /\ heap_size = HEAP_SIZE
    /\ UNCHANGED ControllerVars

\* Faulty variant: RTI sets stack_top to -1.
PoppedEntirely == <<>>

\* RTI: "if (stack_top > -1) ... stack_top--".
Popped == IF isr_priority_stack = <<>> THEN <<>> ELSE Front(isr_priority_stack)

\* Faulty variant: RTI does not look at the waiting interrupts.
ResumeBlindly ==
    /\ isr_priority_stack' = Popped
    /\ UNCHANGED QueueVars

\* RTI goes back to what was interrupted: nothing waits, or the interrupt
\* that handle_next_hardware_interrupt took was put back at once.
Resume ==
    /\ \A isr \in Isrs : pending[isr] > 0 /\ HighestPending(isr) => ~Outranks(isr, Popped)
    /\ isr_priority_stack' = Popped
    /\ UNCHANGED QueueVars

\* RTI starts the highest waiting interrupt instead.
Dispatch(isr) ==
    /\ Outranks(isr, Popped)
    /\ Dequeue(isr)
    /\ isr_priority_stack' = Pushed(isr, Popped)

ControllerNext ==
    \/ \E isr \in Isrs : Grant(isr) \/ Defer(isr) \/ Drop(isr) \/ Dispatch(isr)
    \/ Resume

ControllerSpec == ControllerInit /\ [][ControllerNext]_ControllerVars

----------------------------------------------------------------------------
Rising(stack) == \A i, j \in 1 .. Len(stack) : i < j => stack[i] < stack[j]

(* Only an interrupt that outranks the one in service interrupts it, so    *)
(* priorities rise strictly from the bottom of the stack to its top.       *)
StackStrictlyRising == Rising(isr_priority_stack)

(* The nesting depth is at most the number of interrupts, so the int8_t    *)
(* stack_top never reaches 127 and the capacity test never decides.        *)
NestingBounded == Len(isr_priority_stack) <= Cardinality(Isrs)

(* No interrupt waits for one of lower priority, and none is stranded: a   *)
(* waiting interrupt has a routine in service that is at least as urgent,  *)
(* and whose RTI, the only place that looks at the queue, will offer it.   *)
NoPriorityInversion ==
    \A isr \in Isrs :
        pending[isr] > 0 =>
            /\ isr_priority_stack # <<>>
            /\ isr_to_prio[isr] <= Last(isr_priority_stack)
=============================================================================
