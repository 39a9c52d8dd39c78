--------------------------- MODULE Emulator_proofs ---------------------------
(***************************************************************************)
(* Proofs about the main loop with its interrupts, for every program, every *)
(* user, every timer interval, every number of words and every depth of    *)
(* nesting.                                                                *)
(***************************************************************************)
EXTENDS Emulator, InterruptController_proofs

\* timer_interrupt_check runs on behalf of a registered routine only.
TimerHasRoutine == interrupt_timer_active => isr_of_timer_interrupt \in Isrs

TypeInv == TypeOK /\ TimerHasRoutine

(* The successor and the predecessor of an address are addresses. *)
LEMMA AddressArithmetic ==
    ASSUME NEW a \in Addresses
    PROVE  /\ Succ(a) \in Addresses
           /\ Pred(a) \in Addresses
           /\ Succ(Pred(a)) = a
BY EmulatorAssumption DEF Addresses, Succ, Pred

(* What the emulator is started with has its type. *)
LEMMA Parameters ==
    /\ isr_of_timer_interrupt \in Isrs \cup {NoIsr}
    /\ isr_of_keypress_interrupt \in Isrs \cup {NoIsr}
    /\ 0 \in Addresses
    /\ 0 # NoIsr
    /\ 0 \in Counts
    /\ \A cnt \in Counts :
          Succ(cnt) # interrupt_timer_interval => Succ(cnt) \in Counts
<1>1. interrupt_timer_interval \in 0 .. Words - 1 /\ Words \in Nat \ {0}
  BY EmulatorAssumption
<1>2. /\ isr_of_timer_interrupt \in Isrs \cup {NoIsr}
      /\ isr_of_keypress_interrupt \in Isrs \cup {NoIsr}
  BY EmulatorAssumption
<1>. QED  BY <1>1, <1>2 DEF Addresses, Counts, Succ, NoIsr

(* Every routine has an entry, and none is the number that stands for none. *)
LEMMA RoutinesHaveAddresses ==
    ASSUME NEW isr \in Isrs \cup SoftIsrs
    PROVE  /\ ivt[isr] \in Addresses
           /\ isr # NoIsr
<1>1. ivt \in [Isrs \cup SoftIsrs -> 0 .. Words - 1] /\ Isrs \cup SoftIsrs \subseteq 0 .. NoIsr - 1
  BY EmulatorAssumption
<1>. QED  BY <1>1 DEF Addresses, NoIsr

(* The words on the stack in memory form a sequence. *)
LEMMA FramesTyped ==
    ASSUME TypeInv
    PROVE  frames \in Seq(Frame) /\ Len(frames) \in Nat /\ PC \in Addresses
<1>1. frames \in Seq(Frame) /\ PC \in Addresses
  BY DEF TypeInv, TypeOK
<1>. QED  BY <1>1

\* setup_interrupt puts one more word on the stack.
LEMMA PushingFrame ==
    ASSUME frames \in Seq(Frame), NEW kind \in {"int"} \cup Signals, NEW isr \in Isrs \cup SoftIsrs,
           NEW word \in Addresses, NEW resume \in Addresses
    PROVE  /\ Pushing(kind, isr, word, resume) \in Seq(Frame)
           /\ Len(Pushing(kind, isr, word, resume)) = Len(frames) + 1
           /\ \A i \in 1 .. Len(frames) : Pushing(kind, isr, word, resume)[i] = frames[i]
           /\ Pushing(kind, isr, word, resume)[Len(frames) + 1] =
                  [kind |-> kind, isr |-> isr, word |-> word, resume |-> resume]
<1>1. [kind |-> kind, isr |-> isr, word |-> word, resume |-> resume] \in Frame
  BY DEF Frame
<1>. QED  BY <1>1 DEF Pushing

(* RTI into a waiting routine leaves the words below the top alone and     *)
(* keeps the top word, now on behalf of that routine.                      *)
LEMMA DispatchedFrame ==
    ASSUME frames \in Seq(Frame), NEW isr \in Isrs, NEW stepInto \in BOOLEAN,
           RtiDispatch(isr, stepInto)
    PROVE  /\ frames' \in Seq(Frame)
           /\ Len(frames') = Len(frames)
           /\ \A i \in 1 .. Len(frames) - 1 : frames'[i] = frames[i]
           /\ frames'[Len(frames)] = [kind |-> SignalOf(isr), isr |-> isr,
                                      word |-> Last(frames).word,
                                      resume |-> Last(frames).resume]
           /\ Last(frames) \in Frame
           /\ Last(frames) = frames[Len(frames)]
           /\ Len(frames) \in Nat \ {0}
<1>. DEFINE top == [kind |-> SignalOf(isr), isr |-> isr,
                    word |-> Last(frames).word, resume |-> Last(frames).resume]
<1>1. frames # <<>> /\ frames' = Append(Front(frames), top)
  BY DEF RtiDispatch, Return
<1>2. /\ Last(frames) \in Frame
      /\ Last(frames) = frames[Len(frames)]
      /\ Len(frames) \in Nat \ {0}
  BY <1>1, FrontOfSequence
<1>3. top \in Frame
  BY <1>2 DEF Frame, SignalOf, Signals
<1>. HIDE DEF top
<1>4. /\ Append(Front(frames), top) \in Seq(Frame)
      /\ Len(Append(Front(frames), top)) = Len(frames)
      /\ \A i \in 1 .. Len(frames) - 1 : Append(Front(frames), top)[i] = frames[i]
      /\ Append(Front(frames), top)[Len(frames)] = top
  BY <1>1, <1>3, ReplacingLast
<1>5. /\ frames' \in Seq(Frame)
      /\ Len(frames') = Len(frames)
      /\ \A i \in 1 .. Len(frames) - 1 : frames'[i] = frames[i]
      /\ frames'[Len(frames)] = top
  BY <1>1, <1>4, Zenon
<1>. QED  BY <1>2, <1>5 DEF top

----------------------------------------------------------------------------
(* Every state has the types the code's declarations give it; timer_cnt    *)
(* never passes the interval it is compared with, unless that is 0 and the *)
(* counter meets it only by wrapping around.                               *)
LEMMA TypeInvInductive == TypeInv /\ [Next]_vars => TypeInv'
<1>. SUFFICES ASSUME TypeInv, [Next]_vars PROVE TypeInv'
  OBVIOUS
<1>0d. <<>> \in Seq(Frame)
  OBVIOUS
<1>. USE DEF TypeInv, TypeOK, TimerHasRoutine
<1>0. /\ isr_of_timer_interrupt \in Isrs \cup {NoIsr}
      /\ isr_of_keypress_interrupt \in Isrs \cup {NoIsr}
      /\ 0 \in Addresses
      /\ 0 # NoIsr
  BY Parameters
<1>0a. current_isr # NoIsr
  BY <1>0, RoutinesHaveAddresses
<1>0b. Succ(PC) \in Addresses /\ Pred(PC) \in Addresses
  BY AddressArithmetic
<1>0c. ASSUME Return
       PROVE  /\ interrupt_timer_active' => isr_of_timer_interrupt \in Isrs
              /\ interrupt_timer_active' \in BOOLEAN
              /\ isr_finished' \in BOOLEAN
              /\ ReturnFlags.isr_active \in BOOLEAN
              /\ ReturnFlags.step_into_activated \in BOOLEAN
  BY <1>0, <1>0a, <1>0c DEF Return, ReturnFlags
<1>1. CASE ExecPlain
  BY <1>1, <1>0b DEF ExecPlain, timer, flags, isrFlags
<1>2. CASE ExecHalt
  BY <1>2 DEF ExecHalt, timer, flags, isrFlags, cpu
<1>3. CASE ExecBreakpoint
  BY <1>3, <1>0b DEF ExecBreakpoint, timer, isrFlags
<1>4. CASE RtiResume
  <2>1. /\ Front(frames) \in Seq(Frame)
        /\ Last(frames) \in Frame
    BY <1>4, FrontOfSequence DEF RtiResume, Return
  <2>2. Succ(Last(frames).word) \in Addresses
    BY <2>1, AddressArithmetic DEF Frame
  <2>. QED  BY <1>0c, <1>4, <2>1, <2>2 DEF RtiResume, Return
<1>5. ASSUME NEW target \in Addresses, ExecJump(target) PROVE TypeInv'
  BY <1>5 DEF ExecJump, timer, flags, isrFlags
<1>6. ASSUME NEW i \in SoftIsrs, ExecInt(i) PROVE TypeInv'
  <2>1. frames' \in Seq(Frame)
    BY <1>0b, <1>6, PushingFrame DEF ExecInt
  <2>. QED  BY <1>6, <2>1, RoutinesHaveAddresses DEF ExecInt, timer
<1>7. ASSUME NEW isr \in Isrs, NEW stepInto \in BOOLEAN, RtiDispatch(isr, stepInto) PROVE TypeInv'
  <2>1. frames' \in Seq(Frame)
    BY <1>7, DispatchedFrame
  <2>. QED  BY <1>0c, <1>7, <2>1, RoutinesHaveAddresses DEF RtiDispatch, Return
<1>8. CASE TimerOff
  BY <1>8 DEF TimerOff, timer, flags, isrFlags, cpu
<1>9. CASE TimerTick
  <2>1. timer_cnt' \in Counts
    BY <1>9, Parameters DEF TimerTick
  <2>. QED  BY <1>9, <2>1 DEF TimerTick, flags, isrFlags, cpu
<1>10. CASE TimerRefused
  <2>1. timer_cnt' \in Counts
    BY Parameters, <1>10 DEF TimerRefused, TimerDue
  <2>. QED  BY <1>10, <2>1 DEF TimerRefused, TimerDue, flags, isrFlags, cpu
<1>11. ASSUME NEW stepInto \in BOOLEAN, TimerGranted(stepInto) PROVE TypeInv'
  <2>1. isr_of_timer_interrupt \in Isrs
    BY <1>11 DEF TimerGranted, TimerDue, TimerRuns
  <2>2. frames' \in Seq(Frame)
    BY <1>0b, <1>11, <2>1, PushingFrame DEF TimerGranted, Signals
  <2>3. /\ isr_active' \in BOOLEAN
        /\ step_into_activated' \in BOOLEAN
        /\ restore' \in [isr_active : BOOLEAN, step_into_activated : BOOLEAN,
                         isr_finished : BOOLEAN]
    BY <1>11 DEF TimerGranted, SaveState
  <2>4. timer_cnt' \in Counts
    BY Parameters, <1>11 DEF TimerGranted, TimerDue
  <2>. QED  BY <1>11, <2>1, <2>2, <2>3, <2>4, RoutinesHaveAddresses DEF TimerGranted, TimerDue
<1>12. CASE KeyNext
  BY <1>12 DEF KeyNext, timer, flags, isrFlags, cpu
<1>13. CASE KeyContinue
  BY <1>13 DEF KeyContinue, timer, isrFlags, cpu
<1>14. CASE KeyRestart
  <2>1. timer_cnt' \in Counts
    BY Parameters, <1>14 DEF KeyRestart
  <2>2. frames' \in Seq(Frame)
    <3>1. frames' = <<>>
      BY <1>14 DEF KeyRestart
    <3>. QED  BY <1>0d, <3>1, Zenon
  <2>. QED  BY <1>0, <1>14, <2>1, <2>2 DEF KeyRestart, flags, isrFlags
<1>15. CASE KeyStepInto
  BY <1>15 DEF KeyStepInto, timer, cpu
<1>16. CASE KeyFinalize
  BY <1>16 DEF KeyFinalize, timer, cpu
<1>17. ASSUME NEW stepInto \in BOOLEAN, TriggerGranted(stepInto) PROVE TypeInv'
  <2>1. isr_of_keypress_interrupt \in Isrs
    BY <1>0, <1>17 DEF TriggerGranted, KeyTrigger
  <2>2. frames' \in Seq(Frame)
    BY <1>0b, <1>17, <2>1, PushingFrame DEF TriggerGranted, Signals
  <2>3. at' \in {"top", "fetch"}
    BY <1>17 DEF TriggerGranted
  <2>. QED  BY <1>17, <2>1, <2>2, <2>3, RoutinesHaveAddresses DEF TriggerGranted, SaveState, timer
<1>18. CASE TriggerRefused
  BY <1>18 DEF TriggerRefused, timer, flags, isrFlags, cpu
<1>19. CASE KeyQuit
  BY <1>19 DEF KeyQuit, timer, flags, isrFlags, cpu
<1>20. CASE UNCHANGED vars
  BY <1>20 DEF vars, timer, flags, isrFlags, cpu
<1>. QED
  BY <1>1, <1>2, <1>3, <1>4, <1>5, <1>6, <1>7, <1>8, <1>9, <1>10, <1>11, <1>12, <1>13, <1>14,
     <1>15, <1>16, <1>17, <1>18, <1>19, <1>20
     DEF Next, Execute, Devices, Debug, Halted

(* The emulator is well typed, and its timer runs on behalf of a routine. *)
THEOREM TypeInvariant == Spec => []TypeInv
<1>1. Init => TypeInv
  <2>. SUFFICES ASSUME Init PROVE TypeInv
    OBVIOUS
  <2>1. timer_cnt \in Counts
    BY Parameters DEF Init
  <2>2. /\ interrupt_timer_active \in BOOLEAN
        /\ TimerHasRoutine
    BY Parameters DEF Init, TimerHasRoutine
  <2>3. frames \in Seq(Frame)
    BY DEF Init
  <2>. QED  BY Parameters, <2>1, <2>2, <2>3 DEF Init, TypeInv, TypeOK
<1>. QED  BY <1>1, TypeInvInductive, PTL DEF Spec

(* Each state of the emulator has its type: interrupts nested, the debugger at
   work, devices pending. *)
THEOREM EmulatorTypeCorrect == Spec => []TypeOK
BY TypeInvariant, PTL DEF TypeInv

----------------------------------------------------------------------------
(* The interrupt controller inside the emulator is the one of              *)
(* InterruptController, so what is proved of that one holds here.          *)
LEMMA StepObeysController == TypeInv /\ [Next]_vars => [ControllerNext]_ControllerVars
<1>. SUFFICES ASSUME TypeInv, [Next]_vars PROVE [ControllerNext]_ControllerVars
  OBVIOUS
<1>. USE DEF ControllerNext, QueueVars
<1>1. CASE Execute
  <2>1. ASSUME NEW isr \in Isrs, NEW stepInto \in BOOLEAN, RtiDispatch(isr, stepInto)
        PROVE  ControllerNext
    BY <2>1 DEF RtiDispatch
  <2>2. CASE RtiResume
    BY <2>2 DEF RtiResume
  <2>3. CASE ExecPlain \/ ExecHalt \/ ExecBreakpoint
    BY <2>3 DEF ExecPlain, ExecHalt, ExecBreakpoint
  <2>4. ASSUME NEW target \in Addresses, ExecJump(target) PROVE UNCHANGED ControllerVars
    BY <2>4 DEF ExecJump
  <2>5. ASSUME NEW i \in SoftIsrs, ExecInt(i) PROVE UNCHANGED ControllerVars
    BY <2>5 DEF ExecInt
  <2>. QED  BY <1>1, <2>1, <2>2, <2>3, <2>4, <2>5 DEF Execute
<1>2. CASE Devices
  <2>1. TimerRuns => isr_of_timer_interrupt \in Isrs
    BY DEF TimerRuns, TypeInv, TimerHasRoutine
  <2>2. ASSUME NEW stepInto \in BOOLEAN, TimerGranted(stepInto) PROVE ControllerNext
    BY <2>1, <2>2 DEF TimerGranted, TimerDue
  <2>3. CASE TimerRefused
    BY <2>1, <2>3 DEF TimerRefused, TimerDue
  <2>4. CASE TimerOff \/ TimerTick
    BY <2>4 DEF TimerOff, TimerTick
  <2>. QED  BY <1>2, <2>2, <2>3, <2>4 DEF Devices
<1>3. CASE Debug
  <2>1. KeyTrigger => isr_of_keypress_interrupt \in Isrs
    BY Parameters DEF KeyTrigger
  <2>2. ASSUME NEW stepInto \in BOOLEAN, TriggerGranted(stepInto) PROVE ControllerNext
    BY <2>1, <2>2 DEF TriggerGranted
  <2>3. CASE TriggerRefused
    BY <2>1, <2>3 DEF TriggerRefused
  <2>4. CASE KeyNext \/ KeyContinue \/ KeyRestart \/ KeyStepInto \/ KeyFinalize \/ KeyQuit
    BY <2>4 DEF KeyNext, KeyContinue, KeyRestart, KeyStepInto, KeyFinalize, KeyQuit
  <2>. QED  BY <1>3, <2>2, <2>3, <2>4 DEF Debug
<1>4. CASE UNCHANGED vars
  BY <1>4 DEF vars
<1>. QED  BY <1>1, <1>2, <1>3, <1>4 DEF Next, Halted

(* Whatever the program, the devices and the user do, the interrupt        *)
(* controller takes its own steps only.                                    *)
THEOREM EmulatorObeysController == Spec => ObeysController
<1>1. Init => ControllerInit
  BY DEF Init
<1>. QED
  BY <1>1, TypeInvariant, StepObeysController, PTL DEF Spec, ControllerSpec, ObeysController

(* In the whole emulator, too, nothing more urgent waits than what is in   *)
(* service, the nesting rises in priority, and the counter RTI looks at is *)
(* the number of what waits.                                               *)
THEOREM EmulatorControllerSafe == Spec => [](ControllerInv /\ SizeInv)
BY EmulatorObeysController, ControllerSafe, WaitingCounted, PTL DEF ObeysController

----------------------------------------------------------------------------
(* What a step does to the stack in memory and to what belongs to it.      *)
OnStack == <<frames, isr_priority_stack, current_isr, interrupt_timer_active,
             keypress_interrupt_active, isr_active>>

(* Only three kinds of steps change the stack in memory. *)
LEMMA StackSteps ==
    ASSUME [Next]_vars
    PROVE  \/ UNCHANGED OnStack /\ (isr_active \/ UNCHANGED isr_finished)
           \/ \E i \in SoftIsrs : ExecInt(i)
           \/ RtiResume
           \/ \E isr \in Isrs, stepInto \in BOOLEAN : RtiDispatch(isr, stepInto)
           \/ \E stepInto \in BOOLEAN : TimerGranted(stepInto) \/ TriggerGranted(stepInto)
           \/ KeyRestart
<1>. USE DEF OnStack, ControllerVars, cpu, timer, flags, isrFlags
<1>1. CASE ExecPlain \/ ExecHalt \/ ExecBreakpoint
  BY <1>1 DEF ExecPlain, ExecHalt, ExecBreakpoint
<1>2. ASSUME NEW target \in Addresses, ExecJump(target) PROVE UNCHANGED <<OnStack, isr_finished>>
  BY <1>2 DEF ExecJump
<1>3. CASE TimerOff \/ TimerTick \/ TimerRefused
  BY <1>3 DEF TimerOff, TimerTick, TimerRefused, Defer, Drop
<1>4. CASE KeyNext \/ KeyContinue \/ KeyStepInto \/ KeyFinalize \/ KeyQuit
  BY <1>4 DEF KeyNext, KeyContinue, KeyStepInto, KeyFinalize, KeyQuit
<1>5. CASE TriggerRefused
  BY <1>5 DEF TriggerRefused, Defer, Drop
<1>6. CASE UNCHANGED vars
  BY <1>6 DEF vars
<1>. QED
  BY <1>1, <1>2, <1>3, <1>4, <1>5, <1>6 DEF Next, Execute, Devices, Debug, Halted

(* The convention of the words on the stack: RTI, which adds 1, finds the  *)
(* instruction before the one to go on with.                               *)
WordsPrecede == \A i \in 1 .. Len(frames) : Succ(frames[i].word) = frames[i].resume

(* Every step keeps it. *)
LEMMA WordsPrecedeInductive == TypeInv /\ WordsPrecede /\ [Next]_vars => WordsPrecede'
<1>. SUFFICES ASSUME TypeInv, WordsPrecede, [Next]_vars PROVE WordsPrecede'
  OBVIOUS
<1>0. frames \in Seq(Frame) /\ Len(frames) \in Nat /\ PC \in Addresses
  BY FramesTyped
<1>0a. /\ Pred(PC) \in Addresses
       /\ Succ(PC) \in Addresses
       /\ Succ(Pred(PC)) = PC
  BY <1>0, AddressArithmetic
<1>0b. ASSUME NEW kind \in {"int"} \cup Signals, NEW isr \in Isrs \cup SoftIsrs,
              NEW word \in Addresses, frames' = Pushing(kind, isr, word, Succ(word))
       PROVE  WordsPrecede'
  <2>1. Succ(word) \in Addresses
    BY AddressArithmetic
  <2>2. /\ Len(frames') = Len(frames) + 1
        /\ \A i \in 1 .. Len(frames) : frames'[i] = frames[i]
        /\ frames'[Len(frames) + 1] =
               [kind |-> kind, isr |-> isr, word |-> word, resume |-> Succ(word)]
    BY <1>0, <1>0b, <2>1, PushingFrame
  <2>3. /\ frames'[Len(frames) + 1].word = word
        /\ frames'[Len(frames) + 1].resume = Succ(word)
    BY <2>2
  <2>. QED  BY <1>0, <2>2, <2>3 DEF WordsPrecede
<1>1. CASE UNCHANGED OnStack
  BY <1>1 DEF OnStack, WordsPrecede
<1>2. ASSUME NEW i \in SoftIsrs, ExecInt(i) PROVE WordsPrecede'
  <2>1. frames' = Pushing("int", i, PC, Succ(PC))
    BY <1>2 DEF ExecInt
  <2>. QED  BY <1>0, <1>0b, <2>1
<1>3. CASE RtiResume
  <2>1. /\ Len(frames') = Len(frames) - 1
        /\ Len(frames) \in Nat \ {0}
        /\ \A i \in 1 .. Len(frames) - 1 : frames'[i] = frames[i]
    BY <1>0, <1>3, FrontOfSequence DEF RtiResume, Return
  <2>. QED  BY <1>0, <2>1 DEF WordsPrecede
<1>4. ASSUME NEW isr \in Isrs, NEW stepInto \in BOOLEAN, RtiDispatch(isr, stepInto)
      PROVE  WordsPrecede'
  <2>1. /\ Len(frames') = Len(frames)
        /\ Len(frames) \in Nat \ {0}
        /\ \A i \in 1 .. Len(frames) - 1 : frames'[i] = frames[i]
        /\ frames'[Len(frames)] = [kind |-> SignalOf(isr), isr |-> isr,
                                   word |-> Last(frames).word, resume |-> Last(frames).resume]
        /\ Last(frames) = frames[Len(frames)]
    BY <1>0, <1>4, DispatchedFrame
  <2>2. /\ frames'[Len(frames)].word = frames[Len(frames)].word
        /\ frames'[Len(frames)].resume = frames[Len(frames)].resume
    BY <2>1
  <2>. QED  BY <1>0, <2>1, <2>2 DEF WordsPrecede
<1>5. ASSUME NEW stepInto \in BOOLEAN, TimerGranted(stepInto) \/ TriggerGranted(stepInto)
      PROVE  WordsPrecede'
  <2>1. PICK kind \in Signals, isr \in Isrs : frames' = Pushing(kind, isr, Pred(PC), PC)
    <3>1. TimerGranted(stepInto) => isr_of_timer_interrupt \in Isrs
      BY DEF TimerGranted, TimerDue, TimerRuns, TypeInv, TimerHasRoutine
    <3>2. TriggerGranted(stepInto) => isr_of_keypress_interrupt \in Isrs
      BY Parameters DEF TriggerGranted, KeyTrigger
    <3>3. CASE TimerGranted(stepInto)
      BY <3>1, <3>3 DEF TimerGranted, Signals
    <3>4. CASE TriggerGranted(stepInto)
      BY <3>2, <3>4 DEF TriggerGranted, Signals
    <3>. QED  BY <1>5, <3>3, <3>4
  <2>. QED  BY <1>0a, <1>0b, <2>1
<1>6. CASE KeyRestart
  BY <1>6 DEF KeyRestart, WordsPrecede
<1>. QED  BY <1>1, <1>2, <1>3, <1>4, <1>5, <1>6, StackSteps

(* RTI goes on exactly where the interrupted code stopped, however INTs,   *)
(* timer and keypress interrupts and waiting interrupts are nested.        *)
THEOREM EmulatorResumes == Spec => ResumesWhereInterrupted
<1>1. Init => WordsPrecede
  BY DEF Init, WordsPrecede
<1>2. TypeInv /\ WordsPrecede /\ [Next]_vars
      => [at' = "devices" /\ Len(frames') < Len(frames) => PC' = Last(frames).resume]_vars
  <2>. SUFFICES ASSUME TypeInv, WordsPrecede, [Next]_vars,
                       at' = "devices", Len(frames') < Len(frames)
                PROVE  PC' = Last(frames).resume
    OBVIOUS
  <2>0. frames \in Seq(Frame) /\ Len(frames) \in Nat
    BY FramesTyped
  <2>1. CASE UNCHANGED OnStack
    BY <2>0, <2>1 DEF OnStack
  <2>2. ASSUME NEW i \in SoftIsrs, ExecInt(i) PROVE FALSE
    <3>1. Succ(PC) \in Addresses /\ PC \in Addresses
      BY AddressArithmetic DEF TypeInv, TypeOK
    <3>2. frames' = Pushing("int", i, PC, Succ(PC))
      BY <2>2 DEF ExecInt
    <3>3. Len(frames') = Len(frames) + 1
      BY <2>0, <3>1, <3>2, PushingFrame
    <3>. QED  BY <2>0, <3>3
  <2>3. CASE RtiResume
    <3>1. Last(frames) = frames[Len(frames)] /\ Len(frames) \in Nat \ {0}
      BY <2>0, <2>3, FrontOfSequence DEF RtiResume, Return
    <3>2. Succ(Last(frames).word) = Last(frames).resume
      BY <3>1 DEF WordsPrecede
    <3>. QED  BY <2>3, <3>2 DEF RtiResume
  <2>4. ASSUME NEW isr \in Isrs, NEW stepInto \in BOOLEAN, RtiDispatch(isr, stepInto) PROVE FALSE
    <3>1. Len(frames') = Len(frames)
      BY <2>0, <2>4, DispatchedFrame
    <3>. QED  BY <2>0, <3>1
  <2>5. ASSUME NEW stepInto \in BOOLEAN, TimerGranted(stepInto) \/ TriggerGranted(stepInto)
        PROVE  FALSE
    BY <2>5 DEF TimerGranted, TriggerGranted, TimerDue
  <2>6. CASE KeyRestart
    BY <2>6 DEF KeyRestart, Command
  <2>. QED  BY <2>1, <2>2, <2>3, <2>4, <2>5, <2>6, StackSteps
<1>. QED
  BY <1>1, <1>2, TypeInvariant, WordsPrecedeInductive, PTL DEF Spec, ResumesWhereInterrupted
=============================================================================
