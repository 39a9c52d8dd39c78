--------------------- MODULE InterruptController_proofs ---------------------
(***************************************************************************)
(* Proofs about the interrupt controller, for every set of interrupts,     *)
(* every assignment of priorities and every capacity of the queue.         *)
(***************************************************************************)
EXTENDS InterruptController, LeastElement, SequenceTheorems, TLAPS

(* A sequence that is not empty without its last element.                  *)
LEMMA FrontOfSequence ==
    ASSUME NEW S, NEW s \in Seq(S), s # <<>>
    PROVE  /\ Front(s) \in Seq(S)
           /\ Len(Front(s)) = Len(s) - 1
           /\ \A i \in 1 .. Len(s) - 1 : Front(s)[i] = s[i]
           /\ Len(s) \in Nat \ {0}
           /\ Last(s) \in S
           /\ Last(s) = s[Len(s)]
<1>. DEFINE n == Len(s) - 1
<1>1. n \in Nat /\ Len(s) \in Nat \ {0}
  OBVIOUS
<1>2. \A i \in 1 .. n : s[i] \in S
  BY <1>1, ElementOfSeq
<1>3. Front(s) = SubSeq(s, 1, n)
  BY DEF Front
<1>4. Last(s) = s[Len(s)] /\ Last(s) \in S
  BY <1>1, ElementOfSeq DEF Last
<1>5. /\ SubSeq(s, 1, n) \in Seq(S)
      /\ Len(SubSeq(s, 1, n)) = IF 1 <= n THEN n - 1 + 1 ELSE 0
      /\ \A i \in 1 .. n - 1 + 1 : SubSeq(s, 1, n)[i] = s[1 + i - 1]
  <2>. HIDE DEF n
  <2>. QED  BY <1>1, <1>2, SubSeqProperties
<1>. HIDE DEF n
<1>6. Front(s) \in Seq(S) /\ Len(Front(s)) = n
  BY <1>1, <1>3, <1>5
<1>7. ASSUME NEW i \in 1 .. n PROVE Front(s)[i] = s[i]
  <2>1. i \in 1 .. n - 1 + 1 /\ 1 + i - 1 = i
    BY <1>1
  <2>. QED  BY <1>3, <1>5, <2>1
<1>. QED  BY <1>1, <1>4, <1>6, <1>7 DEF n

(* Putting another element in the place of the last one.                   *)
LEMMA ReplacingLast ==
    ASSUME NEW S, NEW s \in Seq(S), s # <<>>, NEW top \in S
    PROVE  /\ Append(Front(s), top) \in Seq(S)
           /\ Len(Append(Front(s), top)) = Len(s)
           /\ \A i \in 1 .. Len(s) - 1 : Append(Front(s), top)[i] = s[i]
           /\ Append(Front(s), top)[Len(s)] = top
<1>1. /\ Front(s) \in Seq(S)
      /\ Len(Front(s)) = Len(s) - 1
      /\ \A i \in 1 .. Len(s) - 1 : Front(s)[i] = s[i]
      /\ Len(s) \in Nat \ {0}
  BY FrontOfSequence
<1>. QED  BY <1>1, AppendProperties

(* Taking the top off the priority stack keeps its type and, position by   *)
(* position, what lies below the top: this is "stack_top--" in RTI.        *)
LEMMA PoppedStack ==
    ASSUME NEW S, isr_priority_stack \in Seq(S)
    PROVE  /\ Popped \in Seq(S)
           /\ Popped = <<>> <=> Len(isr_priority_stack) <= 1
           /\ Len(Popped) <= Len(isr_priority_stack)
           /\ \A i \in 1 .. Len(Popped) : Popped[i] = isr_priority_stack[i]
<1>1. CASE isr_priority_stack = <<>>
  BY <1>1 DEF Popped
<1>2. CASE isr_priority_stack # <<>>
  <2>1. Popped = Front(isr_priority_stack)
    BY <1>2 DEF Popped
  <2>2. /\ Popped \in Seq(S)
        /\ Len(Popped) = Len(isr_priority_stack) - 1
        /\ \A i \in 1 .. Len(isr_priority_stack) - 1 : Popped[i] = isr_priority_stack[i]
        /\ Len(isr_priority_stack) \in Nat \ {0}
    BY <1>2, <2>1, FrontOfSequence
  <2>. QED  BY <2>2
<1>. QED  BY <1>1, <1>2

(* Every state has the types the declarations of the code give it, and the *)
(* queue's counter stays within the array.                                 *)
THEOREM ControllerTypeCorrect == ControllerSpec => []ControllerTypeOK
<1>. USE QueueAssumption DEF QueueVars, ControllerVars
<1>1. ControllerInit => ControllerTypeOK
  BY DEF ControllerInit, QueueInit, ControllerTypeOK, QueueTypeOK
<1>2. ControllerTypeOK /\ [ControllerNext]_ControllerVars => ControllerTypeOK'
  <2>. SUFFICES ASSUME ControllerTypeOK, [ControllerNext]_ControllerVars
                PROVE  ControllerTypeOK'
    OBVIOUS
  <2>. USE DEF ControllerTypeOK, QueueTypeOK
  <2>0. \A isr \in Isrs : isr_to_prio[isr] \in Priorities
    BY DEF Priorities
  <2>1. Popped \in Seq(Priorities)
    BY PoppedStack
  <2>2. ASSUME NEW isr \in Isrs, Grant(isr) PROVE ControllerTypeOK'
    BY <2>0, <2>2 DEF Grant, Pushed
  <2>3. ASSUME NEW isr \in Isrs, Defer(isr) PROVE ControllerTypeOK'
    BY <2>3 DEF Defer, Enqueue
  <2>4. ASSUME NEW isr \in Isrs, Drop(isr) PROVE ControllerTypeOK'
    BY <2>4 DEF Drop
  <2>5. ASSUME NEW isr \in Isrs, Dispatch(isr) PROVE ControllerTypeOK'
    <3>1. isr_priority_stack' \in Seq(Priorities)
      BY <2>0, <2>1, <2>5 DEF Dispatch, Pushed
    <3>2. QueueTypeOK'
      BY <2>5 DEF Dispatch, Dequeue, HighestPending
    <3>. QED  BY <3>1, <3>2
  <2>6. CASE Resume
    BY <2>1, <2>6 DEF Resume
  <2>7. CASE UNCHANGED ControllerVars
    BY <2>7
  <2>. QED  BY <2>2, <2>3, <2>4, <2>5, <2>6, <2>7 DEF ControllerNext
<1>. QED  BY <1>1, <1>2, PTL DEF ControllerSpec

----------------------------------------------------------------------------
(* A stack whose priorities rise strictly holds each priority once, so it  *)
(* is no deeper than there are interrupts.                                 *)
LEMMA RisingIsShort ==
    ASSUME NEW stack \in Seq(Priorities), Rising(stack)
    PROVE  Len(stack) <= Cardinality(Isrs)
<1>. DEFINE owner == [i \in 1 .. Len(stack) |-> CHOOSE isr \in Isrs : isr_to_prio[isr] = stack[i]]
<1>1. Len(stack) \in Nat
  OBVIOUS
<1>2. \A i \in 1 .. Len(stack) : owner[i] \in Isrs /\ isr_to_prio[owner[i]] = stack[i]
  <2>. TAKE i \in 1 .. Len(stack)
  <2>1. stack[i] \in Priorities
    BY ElementOfSeq
  <2>2. \E isr \in Isrs : isr_to_prio[isr] = stack[i]
    BY <2>1 DEF Priorities
  <2>. QED  BY <2>2
<1>3. ASSUME NEW i \in 1 .. Len(stack), NEW j \in 1 .. Len(stack), owner[i] = owner[j]
      PROVE  i = j
  <2>1. stack[i] = stack[j]
    BY <1>2, <1>3
  <2>2. stack[i] \in Nat
    BY <1>2, QueueAssumption
  <2>3. ~(stack[i] < stack[j]) /\ ~(stack[j] < stack[i])
    BY <2>1, <2>2
  <2>. QED  BY <1>1, <2>3 DEF Rising
<1>. HIDE DEF owner
<1>4. owner \in Injection(1 .. Len(stack), Isrs)
  <2>1. owner \in [1 .. Len(stack) -> Isrs]
    BY <1>2 DEF owner
  <2>2. IsInjective(owner)
    BY <1>3, <2>1 DEF IsInjective
  <2>. QED  BY <2>1, <2>2 DEF Injection
<1>5. Cardinality(1 .. Len(stack)) <= Cardinality(Isrs)
  BY <1>4, FS_Injection, QueueAssumption
<1>. QED  BY <1>1, <1>5, FS_Interval

(* What is pushed on a rising stack above its top leaves it rising.        *)
LEMMA PushKeepsRising ==
    ASSUME NEW stack \in Seq(Priorities), Rising(stack), NEW isr \in Isrs,
           stack # <<>> => isr_to_prio[isr] > Last(stack)
    PROVE  /\ Pushed(isr, stack) \in Seq(Priorities)
           /\ Rising(Pushed(isr, stack))
           /\ Pushed(isr, stack) # <<>>
           /\ Last(Pushed(isr, stack)) = isr_to_prio[isr]
<1>. DEFINE p == isr_to_prio[isr]
            pushed == Pushed(isr, stack)
<1>1. p \in Priorities /\ Priorities \subseteq Nat
  BY QueueAssumption DEF Priorities
<1>2. /\ pushed \in Seq(Priorities)
      /\ pushed # <<>>
      /\ Len(pushed) = Len(stack) + 1
      /\ \A i \in 1 .. Len(stack) : pushed[i] = stack[i]
      /\ pushed[Len(stack) + 1] = p
  BY <1>1, AppendProperties DEF Pushed
<1>3. \A i \in 1 .. Len(stack) : stack[i] < p
  <2>. SUFFICES ASSUME NEW i \in 1 .. Len(stack) PROVE stack[i] < p
    OBVIOUS
  <2>1. stack # <<>> /\ Len(stack) \in Nat \ {0}
    OBVIOUS
  <2>2. stack[Len(stack)] < p
    BY <2>1 DEF Last
  <2>3. \A j \in 1 .. Len(stack) : stack[j] \in Nat
    BY <1>1, ElementOfSeq
  <2>4. p \in Nat
    BY <1>1
  <2>. HIDE DEF p
  <2>5. CASE i = Len(stack)
    BY <2>2, <2>5
  <2>6. CASE i # Len(stack)
    <3>1. i < Len(stack) /\ Len(stack) \in 1 .. Len(stack)
      BY <2>1, <2>6
    <3>2. stack[i] < stack[Len(stack)]
      BY <3>1 DEF Rising
    <3>. QED  BY <2>2, <2>3, <2>4, <3>1, <3>2
  <2>. QED  BY <2>5, <2>6
<1>4. Rising(pushed)
  <2>. SUFFICES ASSUME NEW i \in 1 .. Len(pushed), NEW j \in 1 .. Len(pushed), i < j
                PROVE  pushed[i] < pushed[j]
    BY DEF Rising
  <2>. HIDE DEF pushed, p
  <2>1. CASE j = Len(stack) + 1
    BY <1>2, <1>3, <2>1
  <2>2. CASE j # Len(stack) + 1
    BY <1>2, <2>2 DEF Rising
  <2>. QED  BY <2>1, <2>2
<1>. QED  BY <1>2, <1>4 DEF Last

(* The capacity test of handle_interrupt never decides: on a rising stack  *)
(* an interrupt is granted exactly when its priority is above the top.     *)
THEOREM CapacityNeverDecides ==
    ASSUME NEW stack \in Seq(Priorities), Rising(stack), NEW isr \in Isrs
    PROVE  Outranks(isr, stack) <=> (stack # <<>> => isr_to_prio[isr] > Last(stack))
<1>1. ASSUME stack # <<>>, isr_to_prio[isr] > Last(stack)
      PROVE  Len(stack) < MAX_STACK_SIZE
  <2>1. Pushed(isr, stack) \in Seq(Priorities) /\ Rising(Pushed(isr, stack))
    BY <1>1, PushKeepsRising
  <2>2. Len(Pushed(isr, stack)) = Len(stack) + 1 /\ Len(stack) \in Nat
    BY DEF Pushed
  <2>3. Len(Pushed(isr, stack)) <= Cardinality(Isrs)
    BY <2>1, RisingIsShort
  <2>4. Cardinality(Isrs) \in Nat
    BY QueueAssumption, FS_CardinalityType
  <2>. QED  BY <2>2, <2>3, <2>4, ControllerAssumption
<1>. QED  BY <1>1 DEF Outranks

----------------------------------------------------------------------------
\* The strengthening: NoPriorityInversion is not inductive by itself.  That a
\* deferred request is no more urgent than the top of the stack, and not one
\* refused for want of room, follows from the rising stack.
ControllerInv ==
    /\ ControllerTypeOK
    /\ StackStrictlyRising
    /\ NoPriorityInversion

\* Popping keeps a rising stack rising.
LEMMA PoppedRises ==
    ASSUME ControllerTypeOK, StackStrictlyRising
    PROVE  Popped \in Seq(Priorities) /\ Rising(Popped)
<1>1. isr_priority_stack \in Seq(Priorities)
  BY DEF ControllerTypeOK
<1>2. /\ Popped \in Seq(Priorities)
      /\ Len(Popped) <= Len(isr_priority_stack)
      /\ \A i \in 1 .. Len(Popped) : Popped[i] = isr_priority_stack[i]
  BY <1>1, PoppedStack
<1>3. Rising(Popped)
  <2>. SUFFICES ASSUME NEW i \in 1 .. Len(Popped), NEW j \in 1 .. Len(Popped), i < j
                PROVE  Popped[i] < Popped[j]
    BY DEF Rising
  <2>1. i \in 1 .. Len(isr_priority_stack) /\ j \in 1 .. Len(isr_priority_stack)
    BY <1>1, <1>2
  <2>. QED  BY <1>2, <2>1 DEF StackStrictlyRising, Rising
<1>. QED  BY <1>2, <1>3

(* When something waits, some waiting interrupt has the highest priority:  *)
(* the one pop_highest_prio returns.                                       *)
LEMMA HighestExists ==
    ASSUME QueueTypeOK, NEW some \in Isrs, pending[some] > 0
    PROVE  \E isr \in Isrs : HighestPending(isr)
<1>. DEFINE W == {isr \in Isrs : pending[isr] > 0}
            f == [isr \in W |-> isr_to_prio[isr]]
<1>1. IsFiniteSet(W) /\ W # {}
  BY QueueAssumption, FS_Subset
<1>2. f \in [W -> Nat]
  BY QueueAssumption
<1>3. PICK isr \in W : \A y \in W : f[y] <= f[isr]
  <2>. HIDE DEF W, f
  <2>. QED  BY <1>1, <1>2, LargestValue
<1>. QED  BY <1>3 DEF HighestPending

(* Each operation of the controller preserves the invariant.               *)
LEMMA ControllerInvInductive ==
    ControllerInv /\ ControllerTypeOK' /\ [ControllerNext]_ControllerVars => ControllerInv'
<1>. SUFFICES ASSUME ControllerInv, ControllerTypeOK', [ControllerNext]_ControllerVars
              PROVE  StackStrictlyRising' /\ NoPriorityInversion'
  BY DEF ControllerInv
<1>. USE DEF ControllerInv
<1>0. /\ isr_priority_stack \in Seq(Priorities)
      /\ Popped \in Seq(Priorities) /\ Rising(Popped)
      /\ Rising(isr_priority_stack)
      /\ isr_to_prio \in [Isrs -> Nat]
      /\ pending \in [Isrs -> Nat]
      /\ Priorities \subseteq Nat
  BY PoppedRises, QueueAssumption DEF ControllerTypeOK, QueueTypeOK, StackStrictlyRising, Priorities
<1>00. \A s \in Seq(Priorities) : s # <<>> => Last(s) \in Nat
  <2>. SUFFICES ASSUME NEW s \in Seq(Priorities), s # <<>> PROVE Last(s) \in Nat
    OBVIOUS
  <2>1. Len(s) \in 1 .. Len(s)
    OBVIOUS
  <2>. QED  BY <1>0, <2>1, ElementOfSeq DEF Last
<1>1. ASSUME NEW isr \in Isrs, Grant(isr)
      PROVE  StackStrictlyRising' /\ NoPriorityInversion'
  <2>1. isr_priority_stack # <<>> => isr_to_prio[isr] > Last(isr_priority_stack)
    BY <1>0, <1>1, CapacityNeverDecides DEF Grant
  <2>2. /\ Rising(isr_priority_stack')
        /\ isr_priority_stack' # <<>>
        /\ Last(isr_priority_stack') = isr_to_prio[isr]
    BY <1>0, <1>1, <2>1, PushKeepsRising DEF Grant
  <2>3. ASSUME NEW other \in Isrs, pending[other] > 0
        PROVE  isr_to_prio[other] <= isr_to_prio[isr]
    <3>1. isr_priority_stack # <<>> /\ isr_to_prio[other] <= Last(isr_priority_stack)
      BY <2>3 DEF NoPriorityInversion
    <3>2. Last(isr_priority_stack) \in Nat
      BY <1>0, <1>00, <3>1
    <3>. QED  BY <1>0, <2>1, <3>1, <3>2
  <2>4. pending' = pending
    BY <1>1 DEF Grant, QueueVars
  <2>. QED  BY <2>2, <2>3, <2>4 DEF StackStrictlyRising, NoPriorityInversion
<1>2. ASSUME NEW isr \in Isrs, Defer(isr)
      PROVE  StackStrictlyRising' /\ NoPriorityInversion'
  <2>1. ~Outranks(isr, isr_priority_stack) /\ isr_priority_stack' = isr_priority_stack
    BY <1>2 DEF Defer
  <2>2. isr_priority_stack # <<>> /\ ~(isr_to_prio[isr] > Last(isr_priority_stack))
    BY <1>0, <2>1, CapacityNeverDecides
  <2>3. Last(isr_priority_stack) \in Nat /\ isr_to_prio[isr] <= Last(isr_priority_stack)
    BY <1>0, <1>00, <2>2
  <2>4. \A other \in Isrs : other # isr => pending'[other] = pending[other]
    BY <1>0, <1>2 DEF Defer, Enqueue
  <2>. QED  BY <1>0, <2>1, <2>2, <2>3, <2>4 DEF StackStrictlyRising, NoPriorityInversion
<1>3. ASSUME NEW isr \in Isrs, Drop(isr)
      PROVE  StackStrictlyRising' /\ NoPriorityInversion'
  BY <1>3 DEF Drop, ControllerVars, StackStrictlyRising, NoPriorityInversion
<1>4. ASSUME NEW isr \in Isrs, Dispatch(isr)
      PROVE  StackStrictlyRising' /\ NoPriorityInversion'
  <2>1. Popped # <<>> => isr_to_prio[isr] > Last(Popped)
    BY <1>0, <1>4, CapacityNeverDecides DEF Dispatch
  <2>2. /\ Rising(isr_priority_stack')
        /\ isr_priority_stack' # <<>>
        /\ Last(isr_priority_stack') = isr_to_prio[isr]
    BY <1>0, <1>4, <2>1, PushKeepsRising DEF Dispatch
  <2>3. \A other \in Isrs : pending[other] > 0 => isr_to_prio[other] <= isr_to_prio[isr]
    BY <1>4 DEF Dispatch, Dequeue, HighestPending
  <2>4. \A other \in Isrs : pending'[other] > 0 => pending[other] > 0
    BY <1>0, <1>4 DEF Dispatch, Dequeue
  <2>. QED  BY <2>2, <2>3, <2>4 DEF StackStrictlyRising, NoPriorityInversion
<1>5. CASE Resume
  <2>1. isr_priority_stack' = Popped /\ pending' = pending
    BY <1>5 DEF Resume, QueueVars
  <2>2. ASSUME NEW other \in Isrs, pending[other] > 0
        PROVE  Popped # <<>> /\ isr_to_prio[other] <= Last(Popped)
    <3>1. PICK isr \in Isrs : HighestPending(isr)
      BY <2>2, HighestExists DEF ControllerTypeOK
    <3>2. ~Outranks(isr, Popped)
      BY <1>5, <3>1 DEF Resume, HighestPending
    <3>3. Popped # <<>> /\ ~(isr_to_prio[isr] > Last(Popped))
      BY <1>0, <3>2, CapacityNeverDecides
    <3>4. isr_to_prio[other] <= isr_to_prio[isr]
      BY <2>2, <3>1 DEF HighestPending
    <3>5. Last(Popped) \in Nat
      BY <1>0, <1>00, <3>3
    <3>. QED  BY <1>0, <3>3, <3>4, <3>5
  <2>. QED  BY <1>0, <2>1, <2>2 DEF StackStrictlyRising, NoPriorityInversion
<1>6. CASE UNCHANGED ControllerVars
  BY <1>6 DEF ControllerVars, QueueVars, StackStrictlyRising, NoPriorityInversion
<1>. QED  BY <1>1, <1>2, <1>3, <1>4, <1>5, <1>6 DEF ControllerNext

(* The inductive invariant holds in every state of the controller.         *)
THEOREM ControllerSafe == ControllerSpec => []ControllerInv
<1>1. ControllerInit => StackStrictlyRising /\ NoPriorityInversion
  BY QueueAssumption DEF ControllerInit, QueueInit, StackStrictlyRising, Rising, NoPriorityInversion
<1>. QED
  BY <1>1, ControllerTypeCorrect, ControllerInvInductive, PTL DEF ControllerSpec, ControllerInv

(* Nested interrupts strictly rise in priority.                            *)
THEOREM NestingRises == ControllerSpec => []StackStrictlyRising
BY ControllerSafe, PTL DEF ControllerInv

(* The nesting depth never exceeds the number of interrupts, so neither    *)
(* int8_t stack_top nor isr_priority_stack can overflow.                   *)
THEOREM NestingIsBounded == ControllerSpec => []NestingBounded
<1>1. ControllerInv => NestingBounded
  BY RisingIsShort DEF ControllerInv, ControllerTypeOK, StackStrictlyRising, NestingBounded
<1>. QED  BY <1>1, ControllerSafe, PTL

(* A waiting interrupt is never more urgent than the one in service, and   *)
(* never waits with nothing in service.                                    *)
THEOREM NothingMoreUrgentWaits == ControllerSpec => []NoPriorityInversion
BY ControllerSafe, PTL DEF ControllerInv

----------------------------------------------------------------------------
(* heap_size, seen as the number of tokens of what waits: an empty bag has  *)
(* the counter 0, which is how the idle emulator's queue is known to be     *)
(* empty.  IsFiniteSet is needed for the cardinality theorems to apply.     *)

\* One token for every waiting interrupt.
Waiting == UNION {{isr} \X (1 .. pending[isr]) : isr \in Isrs}

SizeInv ==
    /\ IsFiniteSet(Waiting)
    /\ heap_size = Cardinality(Waiting)

\* Enqueue adds one token, Dequeue removes one.
LEMMA EnqueueAddsToken ==
    ASSUME QueueTypeOK, NEW isr \in Isrs, Enqueue(isr)
    PROVE  /\ Waiting' = Waiting \cup {<<isr, pending[isr] + 1>>}
           /\ <<isr, pending[isr] + 1>> \notin Waiting
<1>. USE DEF QueueTypeOK
<1>1. /\ pending \in [Isrs -> Nat]
      /\ pending' = [pending EXCEPT ![isr] = pending[isr] + 1]
  BY DEF Enqueue
<1>2. 1 .. pending'[isr] = (1 .. pending[isr]) \cup {pending[isr] + 1}
  BY <1>1
<1>3. \A other \in Isrs \ {isr} : pending'[other] = pending[other]
  BY <1>1
<1>4. <<isr, pending[isr] + 1>> \notin Waiting
  BY <1>1 DEF Waiting
<1>5. Waiting' = Waiting \cup {<<isr, pending[isr] + 1>>}
  BY <1>2, <1>3 DEF Waiting
<1>. QED  BY <1>4, <1>5

(* A dequeue takes the newest one of its routine away. *)
LEMMA DequeueRemovesToken ==
    ASSUME QueueTypeOK, NEW isr \in Isrs, Dequeue(isr)
    PROVE  /\ Waiting' = Waiting \ {<<isr, pending[isr]>>}
           /\ <<isr, pending[isr]>> \in Waiting
<1>. USE DEF QueueTypeOK
<1>1. /\ pending \in [Isrs -> Nat]
      /\ pending[isr] > 0
      /\ pending' = [pending EXCEPT ![isr] = pending[isr] - 1]
  BY DEF Dequeue, HighestPending
<1>2. 1 .. pending'[isr] = (1 .. pending[isr]) \ {pending[isr]}
  BY <1>1
<1>3. \A other \in Isrs \ {isr} : pending'[other] = pending[other]
  BY <1>1
<1>4. <<isr, pending[isr]>> \in Waiting
  BY <1>1 DEF Waiting
<1>5. Waiting' = Waiting \ {<<isr, pending[isr]>>}
  BY <1>2, <1>3 DEF Waiting
<1>. QED  BY <1>4, <1>5

(* So the size of the heap is the number of what waits. *)
LEMMA WaitingCounted == ControllerSpec => []SizeInv
<1>1. ControllerInit => SizeInv
  <2>. SUFFICES ASSUME ControllerInit PROVE SizeInv
    OBVIOUS
  <2>1. Waiting = {}
    BY DEF ControllerInit, QueueInit, Waiting
  <2>. QED  BY <2>1, FS_EmptySet DEF ControllerInit, QueueInit, SizeInv
<1>2. ControllerTypeOK /\ SizeInv /\ [ControllerNext]_ControllerVars => SizeInv'
  <2>. SUFFICES ASSUME ControllerTypeOK, SizeInv, [ControllerNext]_ControllerVars
                PROVE  SizeInv'
    OBVIOUS
  <2>. USE DEF ControllerTypeOK, SizeInv
  <2>0. QueueTypeOK
    OBVIOUS
  <2>1. CASE UNCHANGED QueueVars
    <3>1. Waiting' = Waiting /\ heap_size' = heap_size
      BY <2>1 DEF QueueVars, Waiting
    <3>. QED  BY <3>1
  <2>2. ASSUME NEW isr \in Isrs, Enqueue(isr) PROVE SizeInv'
    <3>1. heap_size' = heap_size + 1
      BY <2>2 DEF Enqueue
    <3>2. /\ Waiting' = Waiting \cup {<<isr, pending[isr] + 1>>}
          /\ <<isr, pending[isr] + 1>> \notin Waiting
      BY <2>0, <2>2, EnqueueAddsToken
    <3>. QED  BY <3>1, <3>2, FS_AddElement
  <2>3. ASSUME NEW isr \in Isrs, Dequeue(isr) PROVE SizeInv'
    <3>1. heap_size' = heap_size - 1
      BY <2>3 DEF Dequeue
    <3>2. /\ Waiting' = Waiting \ {<<isr, pending[isr]>>}
          /\ <<isr, pending[isr]>> \in Waiting
      BY <2>0, <2>3, DequeueRemovesToken
    <3>. QED  BY <3>1, <3>2, FS_RemoveElement
  <2>. QED
    BY <2>1, <2>2, <2>3
       DEF ControllerNext, ControllerVars, QueueVars, Grant, Defer, Drop, Resume, Dispatch
<1>. QED  BY <1>1, <1>2, ControllerTypeCorrect, PTL DEF ControllerSpec
=============================================================================
