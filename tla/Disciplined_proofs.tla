------------------------- MODULE Disciplined_proofs -------------------------
(***************************************************************************)
(* Proofs about the emulator as it is meant to be used: the program uses   *)
(* no INT while a hardware interrupt is in service, and the user restarts  *)
(* only while no service routine is active.                                *)
(***************************************************************************)
EXTENDS Emulator_proofs

\* The priority stack is empty exactly while no hardware routine is on the
\* stack, when every word there was pushed by an INT.
LEMMA NoHardware ==
    ASSUME TypeInv, ControllerTypeOK, StackMirrorsFrames
    PROVE  /\ HardwareFrames = {} => isr_priority_stack = <<>>
           /\ isr_priority_stack = <<>> => \A i \in 1 .. Len(frames) : frames[i].kind = "int"
<1>1. frames \in Seq(Frame) /\ Len(frames) \in Nat
  BY FramesTyped
<1>2. isr_priority_stack \in Seq(Priorities) /\ Len(isr_priority_stack) \in Nat
  BY DEF ControllerTypeOK
<1>3. Depth = Len(frames) - Len(isr_priority_stack) /\ Depth >= 0
  BY DEF Depth, StackMirrorsFrames
<1>4. ASSUME HardwareFrames = {}, isr_priority_stack # <<>> PROVE FALSE
  <2>1. Len(isr_priority_stack) > 0
    BY <1>2, <1>4
  <2>2. Len(frames) \in 1 .. Len(frames) /\ ~(Len(frames) <= Depth)
    BY <1>1, <1>2, <1>3, <2>1
  <2>3. frames[Len(frames)].kind \in Signals
    BY <2>2 DEF StackMirrorsFrames
  <2>. QED  BY <1>4, <2>2, <2>3 DEF HardwareFrames
<1>5. ASSUME isr_priority_stack = <<>>, NEW i \in 1 .. Len(frames) PROVE frames[i].kind = "int"
  <2>1. i <= Depth
    BY <1>1, <1>3, <1>5
  <2>. QED  BY <2>1 DEF StackMirrorsFrames
<1>. QED  BY <1>4, <1>5

(* A routine that is entered puts its priority on the stack along with its frame. *)
LEMMA MirrorPush ==
    ASSUME TypeInv, ControllerTypeOK, StackMirrorsFrames,
           NEW kind \in Signals, NEW isr \in Isrs, NEW word \in Addresses, NEW resume \in Addresses,
           frames' = Pushing(kind, isr, word, resume),
           isr_priority_stack' = Pushed(isr, isr_priority_stack)
    PROVE  StackMirrorsFrames'
<1>1. frames \in Seq(Frame) /\ Len(frames) \in Nat
  BY FramesTyped
<1>2. isr_priority_stack \in Seq(Priorities) /\ Len(isr_priority_stack) \in Nat
  BY DEF ControllerTypeOK
<1>3. Depth = Len(frames) - Len(isr_priority_stack) /\ Depth >= 0
  BY DEF Depth, StackMirrorsFrames
<1>4. /\ Len(frames') = Len(frames) + 1
      /\ \A i \in 1 .. Len(frames) : frames'[i] = frames[i]
      /\ frames'[Len(frames) + 1] = [kind |-> kind, isr |-> isr, word |-> word, resume |-> resume]
  BY <1>1, PushingFrame
<1>5. frames'[Len(frames) + 1].kind = kind /\ frames'[Len(frames) + 1].isr = isr
  BY <1>4
<1>6. /\ Len(isr_priority_stack') = Len(isr_priority_stack) + 1
      /\ \A i \in 1 .. Len(isr_priority_stack) : isr_priority_stack'[i] = isr_priority_stack[i]
      /\ isr_priority_stack'[Len(isr_priority_stack) + 1] = isr_to_prio[isr]
  <2>1. isr_to_prio[isr] \in Priorities
    BY DEF Priorities
  <2>. QED  BY <1>2, <2>1, AppendProperties DEF Pushed
<1>7. Depth' = Depth
  BY <1>1, <1>2, <1>4, <1>6 DEF Depth
<1>8. ASSUME NEW i \in 1 .. Len(frames')
      PROVE  IF i <= Depth
             THEN frames'[i].kind = "int"
             ELSE /\ frames'[i].kind \in Signals
                  /\ isr_to_prio[frames'[i].isr] = isr_priority_stack'[i - Depth]
  <2>1. CASE i \in 1 .. Len(frames)
    <3>1. frames'[i] = frames[i]
      BY <1>4, <2>1
    <3>2. CASE i <= Depth
      BY <2>1, <3>1, <3>2 DEF StackMirrorsFrames
    <3>3. CASE ~(i <= Depth)
      <4>1. i - Depth \in 1 .. Len(isr_priority_stack)
        BY <1>1, <1>2, <1>3, <2>1, <3>3
      <4>2. isr_priority_stack'[i - Depth] = isr_priority_stack[i - Depth]
        BY <1>6, <4>1
      <4>. QED  BY <2>1, <3>1, <3>3, <4>2 DEF StackMirrorsFrames
    <3>. QED  BY <3>2, <3>3
  <2>2. CASE i = Len(frames) + 1
    <3>1. ~(i <= Depth) /\ i - Depth = Len(isr_priority_stack) + 1
      BY <1>1, <1>2, <1>3, <2>2
    <3>. QED  BY <1>5, <1>6, <2>2, <3>1
  <2>. QED  BY <1>1, <1>4, <2>1, <2>2
<1>. QED  BY <1>3, <1>4, <1>7, <1>8 DEF StackMirrorsFrames

(* RTI to what was interrupted takes both away. *)
LEMMA MirrorPop ==
    ASSUME TypeInv, ControllerTypeOK, StackMirrorsFrames, RtiResume
    PROVE  StackMirrorsFrames'
<1>1. frames \in Seq(Frame) /\ Len(frames) \in Nat
  BY FramesTyped
<1>2. isr_priority_stack \in Seq(Priorities) /\ Len(isr_priority_stack) \in Nat
  BY DEF ControllerTypeOK
<1>3. Depth = Len(frames) - Len(isr_priority_stack) /\ Depth >= 0
  BY DEF Depth, StackMirrorsFrames
<1>4. /\ Len(frames') = Len(frames) - 1
      /\ \A i \in 1 .. Len(frames) - 1 : frames'[i] = frames[i]
      /\ Len(frames) \in Nat \ {0}
  BY <1>1, FrontOfSequence DEF RtiResume, Return
<1>5. isr_priority_stack' = Popped
  BY DEF RtiResume, Resume
<1>6. CASE isr_priority_stack = <<>>
  <2>1. isr_priority_stack' = <<>>
    BY <1>5, <1>6 DEF Popped
  <2>2. Depth' = Depth - 1 /\ Depth = Len(frames)
    BY <1>1, <1>3, <1>4, <1>6, <2>1 DEF Depth
  <2>3. ASSUME NEW i \in 1 .. Len(frames') PROVE i <= Depth' /\ frames'[i].kind = "int"
    <3>1. i \in 1 .. Len(frames) /\ i \in 1 .. Len(frames) - 1 /\ i <= Depth'
      BY <1>1, <1>4, <2>2
    <3>. QED  BY <1>4, <1>6, <3>1, NoHardware
  <2>. QED  BY <1>4, <2>2, <2>3 DEF StackMirrorsFrames
<1>7. CASE isr_priority_stack # <<>>
  <2>1. isr_priority_stack' = Front(isr_priority_stack)
    BY <1>5, <1>7 DEF Popped
  <2>2. /\ Len(isr_priority_stack') = Len(isr_priority_stack) - 1
        /\ \A i \in 1 .. Len(isr_priority_stack) - 1 :
              isr_priority_stack'[i] = isr_priority_stack[i]
        /\ Len(isr_priority_stack) \in Nat \ {0}
    BY <1>2, <1>7, <2>1, FrontOfSequence
  <2>3. Depth' = Depth
    BY <1>1, <1>2, <1>4, <2>2 DEF Depth
  <2>4. ASSUME NEW i \in 1 .. Len(frames')
        PROVE  IF i <= Depth
               THEN frames'[i].kind = "int"
               ELSE /\ frames'[i].kind \in Signals
                    /\ isr_to_prio[frames'[i].isr] = isr_priority_stack'[i - Depth]
    <3>1. i \in 1 .. Len(frames) /\ i \in 1 .. Len(frames) - 1
      BY <1>1, <1>4
    <3>2. frames'[i] = frames[i]
      BY <1>4, <3>1
    <3>3. CASE i <= Depth
      BY <3>1, <3>2, <3>3 DEF StackMirrorsFrames
    <3>4. CASE ~(i <= Depth)
      <4>1. i - Depth \in 1 .. Len(isr_priority_stack) - 1
        BY <1>1, <1>2, <1>3, <3>1, <3>4
      <4>2. isr_priority_stack'[i - Depth] = isr_priority_stack[i - Depth]
        BY <2>2, <4>1
      <4>. QED  BY <3>1, <3>2, <3>4, <4>2 DEF StackMirrorsFrames
    <3>. QED  BY <3>3, <3>4
  <2>. QED  BY <1>3, <1>4, <2>3, <2>4 DEF StackMirrorsFrames
<1>. QED  BY <1>6, <1>7

(* RTI to a waiting routine replaces the priority, and the frame stays. *)
LEMMA MirrorReplace ==
    ASSUME TypeInv, ControllerTypeOK, StackMirrorsFrames, NoPriorityInversion,
           NEW isr \in Isrs, NEW stepInto \in BOOLEAN, RtiDispatch(isr, stepInto)
    PROVE  StackMirrorsFrames' /\ isr_priority_stack # <<>>
<1>1. frames \in Seq(Frame) /\ Len(frames) \in Nat
  BY FramesTyped
<1>2. isr_priority_stack \in Seq(Priorities) /\ Len(isr_priority_stack) \in Nat
  BY DEF ControllerTypeOK
<1>3. Depth = Len(frames) - Len(isr_priority_stack) /\ Depth >= 0
  BY DEF Depth, StackMirrorsFrames
<1>4. isr_priority_stack # <<>>
  BY DEF NoPriorityInversion, RtiDispatch, Dispatch, Dequeue, HighestPending
<1>5. /\ Len(frames') = Len(frames)
      /\ \A i \in 1 .. Len(frames) - 1 : frames'[i] = frames[i]
      /\ frames'[Len(frames)] = [kind |-> SignalOf(isr), isr |-> isr,
                                 word |-> Last(frames).word, resume |-> Last(frames).resume]
      /\ Len(frames) \in Nat \ {0}
  BY <1>1, DispatchedFrame
<1>6. frames'[Len(frames)].kind \in Signals /\ frames'[Len(frames)].isr = isr
  BY <1>5 DEF SignalOf, Signals
<1>7. /\ Len(isr_priority_stack') = Len(isr_priority_stack)
      /\ \A i \in 1 .. Len(isr_priority_stack) - 1 :
            isr_priority_stack'[i] = isr_priority_stack[i]
      /\ isr_priority_stack'[Len(isr_priority_stack)] = isr_to_prio[isr]
  <2>1. isr_to_prio[isr] \in Priorities
    BY DEF Priorities
  <2>2. isr_priority_stack' = Append(Front(isr_priority_stack), isr_to_prio[isr])
    BY <1>4 DEF RtiDispatch, Dispatch, Pushed, Popped
  <2>. QED  BY <1>2, <1>4, <2>1, <2>2, ReplacingLast
<1>8. Depth' = Depth
  BY <1>5, <1>7 DEF Depth
<1>9. ASSUME NEW i \in 1 .. Len(frames')
      PROVE  IF i <= Depth
             THEN frames'[i].kind = "int"
             ELSE /\ frames'[i].kind \in Signals
                  /\ isr_to_prio[frames'[i].isr] = isr_priority_stack'[i - Depth]
  <2>0. Len(isr_priority_stack) > 0
    BY <1>2, <1>4
  <2>1. CASE i \in 1 .. Len(frames) - 1
    <3>1. frames'[i] = frames[i] /\ i \in 1 .. Len(frames)
      BY <1>1, <1>5, <2>1
    <3>2. CASE i <= Depth
      BY <3>1, <3>2 DEF StackMirrorsFrames
    <3>3. CASE ~(i <= Depth)
      <4>1. i - Depth \in 1 .. Len(isr_priority_stack) - 1
        BY <1>1, <1>2, <1>3, <2>1, <3>3
      <4>2. isr_priority_stack'[i - Depth] = isr_priority_stack[i - Depth]
        BY <1>7, <4>1
      <4>. QED  BY <3>1, <3>3, <4>2 DEF StackMirrorsFrames
    <3>. QED  BY <3>2, <3>3
  <2>2. CASE i = Len(frames)
    <3>1. ~(i <= Depth) /\ i - Depth = Len(isr_priority_stack)
      BY <1>1, <1>2, <1>3, <2>0, <2>2
    <3>. QED  BY <1>6, <1>7, <2>2, <3>1
  <2>. QED  BY <1>1, <1>5, <2>1, <2>2
<1>10. StackMirrorsFrames'
  BY <1>3, <1>5, <1>8, <1>9 DEF StackMirrorsFrames
<1>. QED  BY <1>4, <1>10

----------------------------------------------------------------------------
DeviceOf(signal) ==
    IF signal = "keypress" THEN isr_of_keypress_interrupt ELSE isr_of_timer_interrupt

\* Each word a device has pushed belongs to that device's interrupt.
FramesOfDevices ==
    \A i \in HardwareFrames :
        frames[i].isr \in Isrs /\ frames[i].isr = DeviceOf(frames[i].kind)

\* Only the two devices raise hardware interrupts.
OnlyDevicesWait ==
    \A isr \in Isrs :
        pending[isr] > 0 => isr \in {isr_of_timer_interrupt, isr_of_keypress_interrupt}

\* The debugger's flags when the last routine has returned.
IdleFlags == frames = <<>> => ~isr_active /\ isr_finished

DisciplinedInv ==
    /\ StackMirrorsFrames
    /\ FramesOfDevices
    /\ OnlyDevicesWait
    /\ KeypressRefusalJustified
    /\ TimerRestartable
    /\ IdleFlags

(* No interrupt that the INT instruction raises ever waits. *)
LEMMA OnlyDevicesWaitInductive ==
    ASSUME TypeInv, ControllerTypeOK, OnlyDevicesWait, [Next]_vars
    PROVE  OnlyDevicesWait'
<1>1. CASE UNCHANGED pending
  BY <1>1 DEF OnlyDevicesWait
<1>2. pending \in [Isrs -> Nat]
  BY DEF ControllerTypeOK, QueueTypeOK
<1>3. CASE TimerRefused /\ ~UNCHANGED pending
  <2>1. Enqueue(isr_of_timer_interrupt)
    BY <1>3 DEF TimerRefused, Defer, Drop, ControllerVars
  <2>. QED  BY <1>2, <2>1 DEF Enqueue, OnlyDevicesWait
<1>4. CASE TriggerRefused /\ ~UNCHANGED pending
  <2>1. Enqueue(isr_of_keypress_interrupt)
    BY <1>4 DEF TriggerRefused, Defer, Drop, ControllerVars
  <2>. QED  BY <1>2, <2>1 DEF Enqueue, OnlyDevicesWait
<1>5. ASSUME NEW isr \in Isrs, NEW stepInto \in BOOLEAN, RtiDispatch(isr, stepInto)
      PROVE  OnlyDevicesWait'
  <2>1. pending[isr] > 0 /\ pending' = [pending EXCEPT ![isr] = pending[isr] - 1]
    BY <1>5 DEF RtiDispatch, Dispatch, Dequeue, HighestPending
  <2>. QED  BY <1>2, <2>1 DEF OnlyDevicesWait
<1>6. ASSUME ~UNCHANGED pending
      PROVE  \/ TimerRefused \/ TriggerRefused
             \/ \E isr \in Isrs, stepInto \in BOOLEAN : RtiDispatch(isr, stepInto)
  <2>. USE <1>6 DEF ControllerVars, QueueVars
  <2>1. ~(ExecPlain \/ ExecHalt \/ ExecBreakpoint \/ RtiResume)
    BY DEF ExecPlain, ExecHalt, ExecBreakpoint, RtiResume, Resume
  <2>2. \A target \in Addresses : ~ExecJump(target)
    BY DEF ExecJump
  <2>3. \A i \in SoftIsrs : ~ExecInt(i)
    BY DEF ExecInt
  <2>4. ~(TimerOff \/ TimerTick)
    BY DEF TimerOff, TimerTick
  <2>5. \A stepInto \in BOOLEAN : ~TimerGranted(stepInto) /\ ~TriggerGranted(stepInto)
    BY DEF TimerGranted, TriggerGranted, Grant
  <2>6. ~(KeyNext \/ KeyContinue \/ KeyRestart \/ KeyStepInto \/ KeyFinalize \/ KeyQuit)
    BY DEF KeyNext, KeyContinue, KeyRestart, KeyStepInto, KeyFinalize, KeyQuit
  <2>7. ~UNCHANGED vars
    BY DEF vars
  <2>. QED
    BY <2>1, <2>2, <2>3, <2>4, <2>5, <2>6, <2>7 DEF Next, Execute, Devices, Debug, Halted
<1>. QED  BY <1>1, <1>3, <1>4, <1>5, <1>6

\* What a new word on the stack leaves true of the words below it.
LEMMA PushingOnDisciplined ==
    ASSUME TypeInv, NEW kind \in {"int"} \cup Signals, NEW isr \in Isrs \cup SoftIsrs,
           NEW word \in Addresses, NEW resume \in Addresses,
           frames' = Pushing(kind, isr, word, resume)
    PROVE  /\ FramesOfDevices /\ (kind \in Signals => isr \in Isrs /\ isr = DeviceOf(kind))
                  => FramesOfDevices'
           /\ \A signal \in Signals : InService(signal) => InService(signal)'
           /\ InService(kind)'
           /\ frames' # <<>>
<1>1. frames \in Seq(Frame) /\ Len(frames) \in Nat
  BY FramesTyped
<1>2. /\ Len(frames') = Len(frames) + 1
      /\ \A i \in 1 .. Len(frames) : frames'[i] = frames[i]
      /\ frames'[Len(frames) + 1] = [kind |-> kind, isr |-> isr, word |-> word, resume |-> resume]
  BY <1>1, PushingFrame
<1>3. frames'[Len(frames) + 1].kind = kind /\ frames'[Len(frames) + 1].isr = isr
  BY <1>2
<1>4. InService(kind)'
  BY <1>1, <1>2, <1>3 DEF InService
<1>5. ASSUME NEW signal \in Signals, InService(signal) PROVE InService(signal)'
  BY <1>1, <1>2, <1>5 DEF InService
<1>6. ASSUME FramesOfDevices, kind \in Signals => isr \in Isrs /\ isr = DeviceOf(kind)
      PROVE  FramesOfDevices'
  BY <1>1, <1>2, <1>3, <1>6 DEF FramesOfDevices, HardwareFrames
<1>7. frames' # <<>>
  BY <1>1, <1>2
<1>. QED  BY <1>4, <1>5, <1>6, <1>7

(* One step of the loop keeps the invariant.  Disciplined is needed in two *)
(* places: at INT, and at 'r'.                                             *)
LEMMA DisciplinedInvInductive ==
    ASSUME Disciplined, TypeInv, ControllerInv, DisciplinedInv, [Next]_vars
    PROVE  DisciplinedInv'
<1>0. /\ TypeInv
      /\ ControllerTypeOK
      /\ NoPriorityInversion
      /\ StackMirrorsFrames
      /\ frames \in Seq(Frame) /\ Len(frames) \in Nat /\ PC \in Addresses
  BY FramesTyped DEF DisciplinedInv, ControllerInv
<1>0a. FramesOfDevices /\ OnlyDevicesWait /\ KeypressRefusalJustified /\ TimerRestartable /\ IdleFlags
  BY DEF DisciplinedInv
<1>0b. OnlyDevicesWait'
  BY <1>0, <1>0a, OnlyDevicesWaitInductive
<1>. DEFINE Rest == /\ StackMirrorsFrames'
                    /\ FramesOfDevices'
                    /\ KeypressRefusalJustified'
                    /\ TimerRestartable'
                    /\ IdleFlags'
<1>1. ASSUME UNCHANGED OnStack /\ (isr_active \/ UNCHANGED isr_finished) PROVE Rest
  <2>1. /\ StackMirrorsFrames' /\ FramesOfDevices'
        /\ KeypressRefusalJustified' /\ TimerRestartable'
    BY <1>0, <1>0a, <1>1
       DEF OnStack, StackMirrorsFrames, Depth, FramesOfDevices, HardwareFrames,
           KeypressRefusalJustified, TimerRestartable, InService
  <2>2. IdleFlags'
    <3>1. frames' = frames /\ isr_active' = isr_active
      BY <1>1 DEF OnStack
    <3>. QED  BY <1>0a, <1>1, <3>1, Zenon DEF IdleFlags
  <2>. QED  BY <2>1, <2>2
<1>2. ASSUME NEW i \in SoftIsrs, ExecInt(i) PROVE Rest
  <2>1. HardwareFrames = {}
    BY <1>2 DEF ExecInt, MayCall
  <2>2. isr_priority_stack = <<>> /\ isr_priority_stack' = <<>>
    BY <1>0, <1>2, <2>1, NoHardware DEF ExecInt, ControllerVars
  <2>3. frames' = Pushing("int", i, PC, Succ(PC)) /\ Succ(PC) \in Addresses
    BY <1>0, <1>2, AddressArithmetic DEF ExecInt
  <2>4. /\ Len(frames') = Len(frames) + 1
        /\ \A j \in 1 .. Len(frames) : frames'[j] = frames[j]
        /\ frames'[Len(frames) + 1].kind = "int"
    <3>1. /\ Len(frames') = Len(frames) + 1
          /\ \A j \in 1 .. Len(frames) : frames'[j] = frames[j]
          /\ frames'[Len(frames) + 1] =
                 [kind |-> "int", isr |-> i, word |-> PC, resume |-> Succ(PC)]
      BY <1>0, <2>3, PushingFrame
    <3>. QED  BY <3>1
  <2>5. StackMirrorsFrames'
    <3>1. Depth' = Len(frames')
      BY <1>0, <2>2, <2>4 DEF Depth
    <3>2. ASSUME NEW j \in 1 .. Len(frames') PROVE j <= Depth' /\ frames'[j].kind = "int"
      <4>1. CASE j \in 1 .. Len(frames)
        BY <1>0, <2>2, <2>4, <3>1, <4>1, NoHardware
      <4>2. CASE j = Len(frames) + 1
        BY <1>0, <2>4, <3>1, <4>2
      <4>. QED  BY <1>0, <2>4, <4>1, <4>2
    <3>3. Depth' >= 0
      BY <1>0, <2>4, <3>1
    <3>. QED  BY <3>2, <3>3 DEF StackMirrorsFrames
  <2>6. "int" \notin Signals
    BY DEF Signals
  <2>7. /\ FramesOfDevices'
        /\ \A signal \in Signals : InService(signal) => InService(signal)'
        /\ frames' # <<>>
    BY <1>0, <1>0a, <2>3, <2>6, PushingOnDisciplined
  <2>8. TimerRestartable'
    <3>1. ~InService("timer")
      BY <2>1 DEF HardwareFrames, InService, Signals
    <3>2. isr_of_timer_interrupt # NoIsr => interrupt_timer_active'
      BY <1>0a, <1>2, <3>1 DEF TimerRestartable, ExecInt, timer
    <3>. QED  BY <3>2 DEF TimerRestartable
  <2>9. KeypressRefusalJustified'
    BY <1>0a, <1>2, <2>7 DEF KeypressRefusalJustified, ExecInt, Signals
  <2>. QED  BY <2>5, <2>7, <2>8, <2>9 DEF IdleFlags
<1>3. ASSUME RtiResume PROVE Rest
  <2>1. StackMirrorsFrames'
    BY <1>0, <1>3, MirrorPop
  <2>2. /\ Len(frames') = Len(frames) - 1
        /\ \A i \in 1 .. Len(frames) - 1 : frames'[i] = frames[i]
        /\ Len(frames) \in Nat \ {0}
    BY <1>0, <1>3, FrontOfSequence DEF RtiResume, Return
  <2>3. FramesOfDevices'
    BY <1>0a, <2>2 DEF FramesOfDevices, HardwareFrames
  <2>4. ~keypress_interrupt_active'
    <3>1. ASSUME keypress_interrupt_active, isr_priority_stack = <<>> PROVE FALSE
      BY <1>0, <1>0a, <3>1, NoHardware DEF KeypressRefusalJustified, InService
    <3>. QED  BY <1>3, <3>1 DEF RtiResume
  <2>5. TimerRestartable'
    BY <1>0a, <1>3 DEF TimerRestartable, RtiResume, Return
  <2>6. ASSUME frames' = <<>> PROVE ~isr_active' /\ isr_finished'
    <3>1. Len(frames) = 1
      BY <2>2, <2>6
    <3>2. Depth = Len(frames) - Len(isr_priority_stack) /\ Depth >= 0
      BY <1>0 DEF Depth, StackMirrorsFrames
    <3>3. isr_priority_stack \in Seq(Priorities) /\ Len(isr_priority_stack) \in Nat
      BY <1>0 DEF ControllerTypeOK
    <3>4. Popped = <<>>
      BY <3>1, <3>2, <3>3, PoppedStack
    <3>. QED  BY <1>3, <3>4 DEF RtiResume, Return, ReturnFlags
  <2>7. IdleFlags' /\ KeypressRefusalJustified'
    BY <2>4, <2>6 DEF KeypressRefusalJustified, IdleFlags
  <2>. QED  BY <2>1, <2>3, <2>5, <2>7
<1>4. ASSUME NEW isr \in Isrs, NEW stepInto \in BOOLEAN, RtiDispatch(isr, stepInto) PROVE Rest
  <2>1. StackMirrorsFrames' /\ isr_priority_stack # <<>>
    BY <1>0, <1>4, MirrorReplace
  <2>2. /\ Len(frames') = Len(frames)
        /\ \A i \in 1 .. Len(frames) - 1 : frames'[i] = frames[i]
        /\ frames'[Len(frames)] = [kind |-> SignalOf(isr), isr |-> isr,
                                   word |-> Last(frames).word, resume |-> Last(frames).resume]
        /\ Len(frames) \in Nat \ {0}
    BY <1>0, <1>4, DispatchedFrame
  <2>3. frames'[Len(frames)].kind = SignalOf(isr) /\ frames'[Len(frames)].isr = isr
    BY <2>2
  <2>4. isr = DeviceOf(SignalOf(isr))
    <3>1. pending[isr] > 0
      BY <1>4 DEF RtiDispatch, Dispatch, Dequeue, HighestPending
    <3>2. isr \in {isr_of_timer_interrupt, isr_of_keypress_interrupt}
      BY <1>0a, <3>1 DEF OnlyDevicesWait
    <3>. QED  BY <3>2 DEF DeviceOf, SignalOf
  <2>5. FramesOfDevices'
    BY <1>0a, <2>2, <2>3, <2>4 DEF FramesOfDevices, HardwareFrames
  <2>6. KeypressRefusalJustified'
    <3>1. keypress_interrupt_active' => isr = isr_of_keypress_interrupt
      BY <1>4, <2>1 DEF RtiDispatch
    <3>2. isr = isr_of_keypress_interrupt => frames'[Len(frames)].kind = "keypress"
      BY <2>3 DEF SignalOf
    <3>. QED  BY <2>2, <3>1, <3>2 DEF KeypressRefusalJustified, InService
  <2>7. TimerRestartable'
    BY <1>0a, <1>4 DEF TimerRestartable, RtiDispatch, Return
  <2>8. frames' # <<>>
    BY <2>2
  <2>. QED  BY <2>1, <2>5, <2>6, <2>7, <2>8 DEF IdleFlags
<1>5. ASSUME NEW stepInto \in BOOLEAN, TimerGranted(stepInto) PROVE Rest
  <2>1. isr_of_timer_interrupt \in Isrs
    BY <1>0, <1>5 DEF TimerGranted, TimerDue, TimerRuns, TypeInv, TimerHasRoutine
  <2>2. /\ Pred(PC) \in Addresses
        /\ frames' = Pushing("timer", isr_of_timer_interrupt, Pred(PC), PC)
        /\ isr_priority_stack' = Pushed(isr_of_timer_interrupt, isr_priority_stack)
    BY <1>0, <1>5, AddressArithmetic DEF TimerGranted, Grant
  <2>3. "timer" \in Signals /\ DeviceOf("timer") = isr_of_timer_interrupt
    BY DEF Signals, DeviceOf
  <2>4. StackMirrorsFrames'
    BY <1>0, <2>1, <2>2, <2>3, MirrorPush
  <2>5. /\ FramesOfDevices'
        /\ \A signal \in Signals : InService(signal) => InService(signal)'
        /\ InService("timer")'
        /\ frames' # <<>>
    BY <1>0, <1>0a, <2>1, <2>2, <2>3, PushingOnDisciplined
  <2>6. KeypressRefusalJustified'
    BY <1>0a, <1>5, <2>5 DEF KeypressRefusalJustified, TimerGranted, Signals
  <2>7. TimerRestartable'
    BY <1>5, <2>5 DEF TimerRestartable, TimerGranted
  <2>. QED  BY <2>4, <2>5, <2>6, <2>7 DEF IdleFlags
<1>6. ASSUME NEW stepInto \in BOOLEAN, TriggerGranted(stepInto) PROVE Rest
  <2>1. isr_of_keypress_interrupt \in Isrs
    BY <1>6, Parameters DEF TriggerGranted, KeyTrigger
  <2>2. /\ Pred(PC) \in Addresses
        /\ frames' = Pushing("keypress", isr_of_keypress_interrupt, Pred(PC), PC)
        /\ isr_priority_stack' = Pushed(isr_of_keypress_interrupt, isr_priority_stack)
    BY <1>0, <1>6, AddressArithmetic DEF TriggerGranted, Grant
  <2>3. "keypress" \in Signals /\ DeviceOf("keypress") = isr_of_keypress_interrupt
    BY DEF Signals, DeviceOf
  <2>4. StackMirrorsFrames'
    BY <1>0, <2>1, <2>2, <2>3, MirrorPush
  <2>5. /\ FramesOfDevices'
        /\ \A signal \in Signals : InService(signal) => InService(signal)'
        /\ InService("keypress")'
        /\ frames' # <<>>
    BY <1>0, <1>0a, <2>1, <2>2, <2>3, PushingOnDisciplined
  <2>6. TimerRestartable'
    BY <1>0a, <1>6, <2>5 DEF TimerRestartable, TriggerGranted, Signals, timer
  <2>. QED  BY <2>4, <2>5, <2>6 DEF IdleFlags, KeypressRefusalJustified
<1>7. ASSUME KeyRestart PROVE Rest
  <2>1. UNCHANGED OnStack /\ UNCHANGED isr_finished
    BY <1>7 DEF KeyRestart, MayRestart, OnStack, ControllerVars, flags, isrFlags
  <2>. QED  BY <1>1, <2>1
<1>8. Rest
  BY <1>1, <1>2, <1>3, <1>4, <1>5, <1>6, <1>7, StackSteps
<1>. QED  BY <1>0b, <1>8 DEF DisciplinedInv

(* Used as it is meant, the emulator keeps the stack of priorities, the stack in
   memory, the devices and the flags of the debugger in step. *)
THEOREM DisciplinedSafe == Disciplined => (Spec => []DisciplinedInv)
<1>. SUFFICES ASSUME Disciplined PROVE Spec => []DisciplinedInv
  OBVIOUS
<1>1. Init => DisciplinedInv
  <2>. SUFFICES ASSUME Init PROVE DisciplinedInv
    OBVIOUS
  <2>1. frames = <<>> /\ isr_priority_stack = <<>>
    BY DEF Init, ControllerInit
  <2>2. StackMirrorsFrames /\ FramesOfDevices
    BY <2>1 DEF StackMirrorsFrames, Depth, FramesOfDevices, HardwareFrames
  <2>3. OnlyDevicesWait
    BY DEF Init, ControllerInit, QueueInit, OnlyDevicesWait
  <2>4. KeypressRefusalJustified /\ TimerRestartable /\ IdleFlags
    BY DEF Init, KeypressRefusalJustified, TimerRestartable, IdleFlags
  <2>. QED  BY <2>2, <2>3, <2>4 DEF DisciplinedInv
<1>2. TypeInv /\ ControllerInv /\ DisciplinedInv /\ [Next]_vars => DisciplinedInv'
  BY DisciplinedInvInductive
<1>. QED  BY <1>1, <1>2, TypeInvariant, EmulatorControllerSafe, PTL DEF Spec

(* The controller's priority stack describes the hardware routines that    *)
(* are really on the stack in memory, above the routines of INT.           *)
THEOREM DisciplinedStackMirrors == Disciplined => (Spec => []StackMirrorsFrames)
<1>1. DisciplinedInv => StackMirrorsFrames
  BY DEF DisciplinedInv
<1>. QED  BY <1>1, DisciplinedSafe, PTL

(* A stopped timer is started again by an RTI that is still to come.       *)
THEOREM DisciplinedTimer == Disciplined => (Spec => []TimerRestartable)
<1>1. DisciplinedInv => TimerRestartable
  BY DEF DisciplinedInv
<1>. QED  BY <1>1, DisciplinedSafe, PTL

(* 't' is refused for keypress_interrupt_active only while the keypress    *)
(* routine is in service.                                                  *)
THEOREM DisciplinedKeypress == Disciplined => (Spec => []KeypressRefusalJustified)
<1>1. DisciplinedInv => KeypressRefusalJustified
  BY DEF DisciplinedInv
<1>. QED  BY <1>1, DisciplinedSafe, PTL

(* No device's routine is interrupted by a second run of itself.           *)
THEOREM DisciplinedNoSelfInterruption == Disciplined => (Spec => []NoSelfInterruption)
<1>1. TypeInv /\ ControllerInv /\ DisciplinedInv => NoSelfInterruption
  <2>. SUFFICES ASSUME TypeInv, ControllerInv, DisciplinedInv,
                       NEW i \in HardwareFrames, NEW j \in HardwareFrames,
                       frames[i].kind = frames[j].kind, i # j
                PROVE  FALSE
    BY DEF NoSelfInterruption
  <2>1. Len(frames) \in Nat
    BY FramesTyped
  <2>2. isr_priority_stack \in Seq(Priorities) /\ Len(isr_priority_stack) \in Nat
    BY DEF ControllerInv, ControllerTypeOK
  <2>3. Depth = Len(frames) - Len(isr_priority_stack) /\ Depth >= 0
    BY DEF Depth, DisciplinedInv, StackMirrorsFrames
  <2>4. /\ i \in 1 .. Len(frames) /\ frames[i].kind \in Signals
        /\ j \in 1 .. Len(frames) /\ frames[j].kind \in Signals
    BY DEF HardwareFrames
  <2>5. "int" \notin Signals
    BY DEF Signals
  <2>6. /\ ~(i <= Depth) /\ isr_to_prio[frames[i].isr] = isr_priority_stack[i - Depth]
        /\ ~(j <= Depth) /\ isr_to_prio[frames[j].isr] = isr_priority_stack[j - Depth]
    BY <2>4, <2>5 DEF DisciplinedInv, StackMirrorsFrames
  <2>7. frames[i].isr = frames[j].isr /\ frames[i].isr \in Isrs
    BY DEF DisciplinedInv, FramesOfDevices
  <2>8. isr_to_prio[frames[i].isr] \in Nat
    BY <2>7, QueueAssumption
  <2>9. /\ i - Depth \in 1 .. Len(isr_priority_stack)
        /\ j - Depth \in 1 .. Len(isr_priority_stack)
        /\ (i - Depth < j - Depth \/ j - Depth < i - Depth)
    BY <2>1, <2>2, <2>3, <2>4, <2>6
  <2>10. \/ isr_priority_stack[i - Depth] < isr_priority_stack[j - Depth]
         \/ isr_priority_stack[j - Depth] < isr_priority_stack[i - Depth]
    BY <2>9 DEF ControllerInv, StackStrictlyRising, Rising
  <2>. QED  BY <2>6, <2>7, <2>8, <2>10
<1>. QED  BY <1>1, TypeInvariant, EmulatorControllerSafe, DisciplinedSafe, PTL

(* When the last service routine has returned nothing of it is left in the *)
(* controller, the devices or the debugger's flags.                        *)
THEOREM DisciplinedIdle == Disciplined => (Spec => []IdleIsFresh)
<1>1. TypeInv /\ ControllerInv /\ SizeInv /\ DisciplinedInv => IdleIsFresh
  <2>. SUFFICES ASSUME TypeInv, ControllerInv, SizeInv, DisciplinedInv, frames = <<>>
                PROVE  /\ isr_priority_stack = <<>>
                       /\ heap_size = 0
                       /\ ~isr_active
                       /\ isr_finished
                       /\ interrupt_timer_active = (isr_of_timer_interrupt # NoIsr)
                       /\ ~keypress_interrupt_active
    BY DEF IdleIsFresh
  <2>1. Len(frames) = 0
    OBVIOUS
  <2>2. isr_priority_stack = <<>>
    <3>1. HardwareFrames = {}
      BY <2>1 DEF HardwareFrames
    <3>. QED  BY <3>1, NoHardware DEF ControllerInv, DisciplinedInv
  <2>3. heap_size = 0
    <3>1. \A isr \in Isrs : pending[isr] \in Nat /\ ~(pending[isr] > 0)
      BY <2>2 DEF ControllerInv, ControllerTypeOK, QueueTypeOK, NoPriorityInversion
    <3>2. Waiting = {}
      BY <3>1 DEF Waiting
    <3>. QED  BY <3>2, FS_EmptySet DEF SizeInv
  <2>4. ~isr_active /\ isr_finished
    BY DEF DisciplinedInv, IdleFlags
  <2>5. ~InService("timer") /\ ~InService("keypress")
    BY <2>1 DEF InService
  <2>6. ~keypress_interrupt_active
    BY <2>5 DEF DisciplinedInv, KeypressRefusalJustified
  <2>7. interrupt_timer_active = (isr_of_timer_interrupt # NoIsr)
    <3>1. isr_of_timer_interrupt # NoIsr => interrupt_timer_active
      BY <2>5 DEF DisciplinedInv, TimerRestartable
    <3>2. interrupt_timer_active => isr_of_timer_interrupt # NoIsr
      BY RoutinesHaveAddresses DEF TypeInv, TimerHasRoutine
    <3>3. interrupt_timer_active \in BOOLEAN
      BY DEF TypeInv, TypeOK
    <3>. QED  BY <3>1, <3>2, <3>3
  <2>. QED  BY <2>2, <2>3, <2>4, <2>6, <2>7
<1>. QED  BY <1>1, TypeInvariant, EmulatorControllerSafe, DisciplinedSafe, PTL
=============================================================================
