------------------------------ MODULE Emulator ------------------------------
(***************************************************************************)
(* The main loop of the emulator (interpr_prgrm) with everything in it     *)
(* that concerns interrupts: INT and RTI of the CPU (interpr.c), the timer *)
(* and the keypress interrupt (interrupt.c), the interrupt controller, and *)
(* the debugger's commands (evaluate_keyboard_input in debug.c).  What the *)
(* program computes is left open: at each fetch any instruction may be     *)
(* found, except that RTI is found only in a service routine.              *)
(***************************************************************************)
EXTENDS InterruptController

CONSTANTS
    debug_mode,                \* option -d
    interrupt_timer_interval,  \* option -I
    isr_of_timer_interrupt,    \* interrupt number given to device INTTIMER
    isr_of_keypress_interrupt, \* interrupt number given to device KEYPRESS
    SoftIsrs,                  \* interrupt numbers the program uses in INT
    ivt,                       \* start address of each service routine
    Words,                     \* how many values a register has (2^32)
    Keys,                      \* the commands the user gives the debugger
    Disciplined,               \* see MayCall and MayRestart below
    MaxFrames                  \* bound: how deep service routines may nest

\* What isr_of_timer_interrupt and isr_of_keypress_interrupt hold while the
\* device has no service routine.
NoIsr == 255

ASSUME EmulatorAssumption ==
    /\ debug_mode \in BOOLEAN
    /\ isr_of_timer_interrupt \in Isrs \cup {NoIsr}
    /\ isr_of_keypress_interrupt \in Isrs \cup {NoIsr}
    /\ Isrs \cup SoftIsrs \subseteq 0 .. NoIsr - 1
    /\ Words \in Nat \ {0}
    /\ interrupt_timer_interval \in 0 .. Words - 1
    /\ ivt \in [Isrs \cup SoftIsrs -> 0 .. Words - 1]
    /\ Disciplined \in BOOLEAN
    /\ MaxFrames \in Nat

VARIABLES
    at,                         \* where the main loop is
    PC,
    frames,                     \* the stack in memory, top last; see Frame
    current_isr,
    timer_cnt,
    interrupt_timer_active,
    keypress_interrupt_active,
    breakpoint_encountered,     \* the four flags of debug.c
    isr_finished,
    step_into_activated,
    isr_active,
    restore                     \* the single copy save_state makes of three

cpu == <<PC, frames>>
timer == <<timer_cnt, interrupt_timer_active>>
isrFlags == <<isr_active, step_into_activated, isr_finished>>
flags == <<breakpoint_encountered, isrFlags>>
vars == <<ControllerVars, at, cpu, current_isr, timer, keypress_interrupt_active,
          flags, restore>>

Addresses == 0 .. Words - 1

\* What the timer's counter can be: with -I 0 it runs through all of uint32_t
\* until it wraps around.
Counts == IF interrupt_timer_interval = 0 THEN Addresses
          ELSE 0 .. interrupt_timer_interval - 1

Signals == {"timer", "keypress"}

\* A word pushed by setup_interrupt, with what the reader of the model wants
\* to know of it: who pushed it, for which interrupt, and at which
\* instruction the interrupted code has to go on.
Frame == [kind : {"int"} \cup Signals, isr : Isrs \cup SoftIsrs,
          word : Addresses, resume : Addresses]

TypeOK ==
    /\ at \in {"top", "fetch", "fetch int", "devices", "halted"}
    /\ PC \in Addresses
    /\ frames \in Seq(Frame)
    /\ current_isr \in Isrs \cup SoftIsrs \cup {0}
    /\ timer_cnt \in Counts
    /\ \A flag \in {interrupt_timer_active, keypress_interrupt_active,
                    breakpoint_encountered, isr_finished,
                    step_into_activated, isr_active} : flag \in BOOLEAN
    /\ restore \in [isr_active : BOOLEAN, step_into_activated : BOOLEAN,
                    isr_finished : BOOLEAN]

Init ==
    /\ ControllerInit
    /\ at = "top"
    /\ PC = 0
    /\ frames = <<>>
    /\ current_isr = 0
    /\ timer_cnt = 0
    /\ interrupt_timer_active = (isr_of_timer_interrupt # NoIsr)
    /\ keypress_interrupt_active = FALSE
    /\ breakpoint_encountered = TRUE
    /\ isr_finished = TRUE
    /\ step_into_activated = FALSE
    /\ isr_active = FALSE
    /\ restore = [isr_active |-> FALSE, step_into_activated |-> FALSE,
                  isr_finished |-> FALSE]

\* visibility_condition: the debugger shows itself and waits for a command.
Visible ==
    /\ debug_mode
    /\ breakpoint_encountered
    /\ isr_finished
    /\ isr_active => step_into_activated

\* uint32_t arithmetic on PC, and on timer_cnt.
Succ(a) == IF a = Words - 1 THEN 0 ELSE a + 1
Pred(a) == IF a = 0 THEN Words - 1 ELSE a - 1

Pushing(kind, isr, word, resume) ==
    Append(frames, [kind |-> kind, isr |-> isr, word |-> word, resume |-> resume])

HardwareFrames == {i \in 1 .. Len(frames) : frames[i].kind \in Signals}

Room == Len(frames) < MaxFrames

\* save_state()
SaveState == restore' = [isr_active |-> isr_active,
                         step_into_activated |-> step_into_activated,
                         isr_finished |-> isr_finished]

----------------------------------------------------------------------------
\* The instruction at PC.  "fetch" is the loop after a command has been
\* given, "fetch int" the same after 's', which looked at the opcode.
Fetching == at = "fetch" \/ (at = "top" /\ ~Visible)

ExecPlain ==
    /\ Fetching
    /\ at' = "devices"
    /\ PC' = Succ(PC)
    /\ UNCHANGED <<ControllerVars, frames, current_isr, timer, keypress_interrupt_active, flags, restore>>

\* A taken jump, or an instruction with PC as its destination.
ExecJump(target) ==
    /\ Fetching
    /\ at' = "devices"
    /\ PC' = target
    /\ UNCHANGED <<ControllerVars, frames, current_isr, timer, keypress_interrupt_active, flags, restore>>

\* JUMP 0, or an instruction that ends the emulator with an error.
ExecHalt ==
    /\ Fetching
    /\ at' = "halted"
    /\ UNCHANGED <<ControllerVars, cpu, current_isr, timer, keypress_interrupt_active, flags, restore>>

\* INT 3
ExecBreakpoint ==
    /\ Fetching \/ at = "fetch int"
    /\ at' = "devices"
    /\ breakpoint_encountered' = TRUE
    /\ PC' = Succ(PC)
    /\ UNCHANGED <<ControllerVars, frames, current_isr, timer, keypress_interrupt_active, isrFlags, restore>>

\* A disciplined program uses no INT while a hardware interrupt is in service.
MayCall == Disciplined => HardwareFrames = {}

\* INT i.  The bound leaves room for every hardware interrupt on top.
ExecInt(i) ==
    /\ Fetching \/ at = "fetch int"
    /\ MayCall
    /\ Len(frames) + Cardinality(Isrs) < MaxFrames
    /\ at' = "devices"
    /\ frames' = Pushing("int", i, PC, Succ(PC))
    /\ PC' = ivt[i]
    /\ current_isr' = i
    /\ isr_active' = TRUE
    /\ UNCHANGED <<ControllerVars, timer, keypress_interrupt_active,
                   breakpoint_encountered, isr_finished, step_into_activated, restore>>

\* Faulty variant: the last RTI leaves isr_finished as it is.
ReturnFlagsUnfinished ==
    IF Popped = <<>>
    THEN [isr_active |-> FALSE, step_into_activated |-> FALSE, isr_finished |-> isr_finished]
    ELSE restore

\* Faulty variant: the flags are restored after every RTI.
ReturnFlagsAlwaysRestored == restore

\* RTI up to the test of the heap: what it does to the flags.
ReturnFlags ==
    IF Popped = <<>>
    THEN [isr_active |-> FALSE, step_into_activated |-> FALSE, isr_finished |-> TRUE]
    ELSE restore

\* Faulty variant: RTI does not start the timer again.
ReturnTimerOff ==
    /\ Fetching
    /\ frames # <<>>
    /\ at' = "devices"
    /\ isr_finished' = ReturnFlags.isr_finished
    /\ UNCHANGED <<current_isr, timer, breakpoint_encountered, restore>>

Return ==
    /\ Fetching
    /\ frames # <<>>
    /\ at' = "devices"
    /\ isr_finished' = ReturnFlags.isr_finished
    /\ interrupt_timer_active' =
           (interrupt_timer_active \/ current_isr = isr_of_timer_interrupt)
    /\ UNCHANGED <<current_isr, timer_cnt, breakpoint_encountered, restore>>

\* Faulty variant: RTI leaves keypress_interrupt_active set.
RtiKeepsKeypress ==
    /\ Return
    /\ Resume
    /\ frames' = Front(frames)
    /\ PC' = Succ(Last(frames).word)
    /\ isr_active' = ReturnFlags.isr_active
    /\ step_into_activated' = ReturnFlags.step_into_activated
    /\ UNCHANGED keypress_interrupt_active

\* RTI back to the interrupted code.
RtiResume ==
    /\ Return
    /\ Resume
    /\ frames' = Front(frames)
    /\ PC' = Succ(Last(frames).word)
    /\ keypress_interrupt_active' =
           (keypress_interrupt_active /\ isr_priority_stack = <<>>)
    /\ isr_active' = ReturnFlags.isr_active
    /\ step_into_activated' = ReturnFlags.step_into_activated

SignalOf(isr) == IF isr = isr_of_keypress_interrupt THEN "keypress" ELSE "timer"

\* RTI into the routine of a waiting interrupt.  The popped word is pushed
\* again; the user chooses at the notification box whether to step through.
RtiDispatch(isr, stepInto) ==
    /\ Return
    /\ Dispatch(isr)
    /\ frames' = Append(Front(frames), [kind |-> SignalOf(isr), isr |-> isr,
                                        word |-> Last(frames).word,
                                        resume |-> Last(frames).resume])
    /\ PC' = ivt[isr]
    /\ keypress_interrupt_active' =
           \/ isr = isr_of_keypress_interrupt
           \/ keypress_interrupt_active /\ isr_priority_stack = <<>>
    /\ isr_active' = TRUE
    /\ step_into_activated' = stepInto

Execute ==
    \/ ExecPlain \/ ExecHalt \/ ExecBreakpoint \/ RtiResume
    \/ \E target \in Addresses : ExecJump(target)
    \/ \E i \in SoftIsrs : ExecInt(i)
    \/ \E isr \in Isrs, stepInto \in BOOLEAN : RtiDispatch(isr, stepInto)

----------------------------------------------------------------------------
\* timer_interrupt_check().  Where the bound on nesting leaves no room for a
\* timer frame the timer is not looked at.
TimerOff ==
    /\ at = "devices"
    /\ ~interrupt_timer_active \/ ~Room
    /\ at' = "top"
    /\ UNCHANGED <<ControllerVars, cpu, current_isr, timer, keypress_interrupt_active, flags, restore>>

TimerRuns == at = "devices" /\ interrupt_timer_active /\ Room

TimerTick ==
    /\ TimerRuns
    /\ Succ(timer_cnt) # interrupt_timer_interval
    /\ at' = "top"
    /\ timer_cnt' = Succ(timer_cnt)
    /\ UNCHANGED <<ControllerVars, cpu, current_isr, interrupt_timer_active,
                   keypress_interrupt_active, flags, restore>>

\* Faulty variant: timer_cnt is not reset.
TimerDueNoReset ==
    /\ TimerRuns
    /\ Succ(timer_cnt) = interrupt_timer_interval
    /\ at' = "top"
    /\ timer_cnt' = Succ(timer_cnt)

TimerDue ==
    /\ TimerRuns
    /\ Succ(timer_cnt) = interrupt_timer_interval
    /\ at' = "top"
    /\ timer_cnt' = 0

\* Faulty variant: the timer pushes PC, as INT does, and not PC - 1.
TimerPushesPC(stepInto) ==
    /\ TimerDue
    /\ Grant(isr_of_timer_interrupt)
    /\ interrupt_timer_active' = FALSE
    /\ SaveState
    /\ current_isr' = isr_of_timer_interrupt
    /\ isr_active' = (isr_active \/ Visible)
    /\ step_into_activated' = IF Visible THEN stepInto ELSE step_into_activated
    /\ frames' = Pushing("timer", isr_of_timer_interrupt, PC, PC)
    /\ PC' = ivt[isr_of_timer_interrupt]
    /\ UNCHANGED <<keypress_interrupt_active, breakpoint_encountered, isr_finished>>

TimerGranted(stepInto) ==
    /\ TimerDue
    /\ Grant(isr_of_timer_interrupt)
    /\ interrupt_timer_active' = FALSE
    /\ SaveState
    /\ current_isr' = isr_of_timer_interrupt
    /\ isr_active' = (isr_active \/ Visible)
    /\ step_into_activated' = IF Visible THEN stepInto ELSE step_into_activated
    /\ frames' = Pushing("timer", isr_of_timer_interrupt, Pred(PC), PC)
    /\ PC' = ivt[isr_of_timer_interrupt]
    /\ UNCHANGED <<keypress_interrupt_active, breakpoint_encountered, isr_finished>>

TimerRefused ==
    /\ TimerDue
    /\ Defer(isr_of_timer_interrupt) \/ Drop(isr_of_timer_interrupt)
    /\ UNCHANGED <<cpu, current_isr, interrupt_timer_active, keypress_interrupt_active, flags, restore>>

Devices ==
    \/ TimerOff \/ TimerTick \/ TimerRefused
    \/ \E stepInto \in BOOLEAN : TimerGranted(stepInto)

----------------------------------------------------------------------------
\* evaluate_keyboard_input(): it reads commands until one of them returns.
Command(key) == at = "top" /\ Visible /\ key \in Keys

KeyNext ==
    /\ Command("n")
    /\ at' = "fetch"
    /\ UNCHANGED <<ControllerVars, cpu, current_isr, timer, keypress_interrupt_active, flags, restore>>

KeyContinue ==
    /\ Command("c")
    /\ at' = "fetch"
    /\ breakpoint_encountered' = FALSE
    /\ UNCHANGED <<ControllerVars, cpu, current_isr, timer, keypress_interrupt_active, isrFlags, restore>>

\* A disciplined user restarts only while no service routine is active.
MayRestart == Disciplined => frames = <<>>

\* Faulty variant: 'r' empties the priority stack and forgets the queue.
KeyRestartHalfReset ==
    /\ Command("r")
    /\ MayRestart
    /\ PC' = 0
    /\ frames' = <<>>
    /\ timer_cnt' = 0
    /\ isr_priority_stack' = <<>>
    /\ UNCHANGED <<QueueVars, at, current_isr, interrupt_timer_active,
                   keypress_interrupt_active, flags, restore>>

\* 'r' clears the registers, SP among them, the UART and the timer's counter.
KeyRestart ==
    /\ Command("r")
    /\ MayRestart
    /\ PC' = 0
    /\ frames' = <<>>
    /\ timer_cnt' = 0
    /\ UNCHANGED <<ControllerVars, at, current_isr, interrupt_timer_active,
                   keypress_interrupt_active, flags, restore>>

\* 's' is obeyed only when the instruction at PC is an INT.
KeyStepInto ==
    /\ Command("s")
    /\ at' = "fetch int"
    /\ step_into_activated' = TRUE
    /\ UNCHANGED <<ControllerVars, cpu, current_isr, timer, keypress_interrupt_active,
                   breakpoint_encountered, isr_finished, isr_active, restore>>

KeyFinalize ==
    /\ Command("f")
    /\ isr_active
    /\ at' = "fetch"
    /\ isr_finished' = FALSE
    /\ UNCHANGED <<ControllerVars, cpu, current_isr, timer, keypress_interrupt_active,
                   breakpoint_encountered, step_into_activated, isr_active, restore>>

\* keypress_interrupt_trigger() beyond its first test, which only reports.
KeyTrigger ==
    /\ Command("t")
    /\ isr_of_keypress_interrupt # NoIsr
    /\ ~keypress_interrupt_active

\* Having chosen to step, the user is asked for the next command at once.
TriggerGranted(stepInto) ==
    /\ KeyTrigger
    /\ Room
    /\ Grant(isr_of_keypress_interrupt)
    /\ at' = IF stepInto THEN "top" ELSE "fetch"
    /\ keypress_interrupt_active' = TRUE
    /\ SaveState
    /\ isr_active' = TRUE
    /\ step_into_activated' = stepInto
    /\ frames' = Pushing("keypress", isr_of_keypress_interrupt, Pred(PC), PC)
    /\ PC' = ivt[isr_of_keypress_interrupt]
    /\ UNCHANGED <<current_isr, timer, breakpoint_encountered, isr_finished>>

TriggerRefused ==
    /\ KeyTrigger
    /\ Defer(isr_of_keypress_interrupt) \/ Drop(isr_of_keypress_interrupt)
    /\ UNCHANGED <<at, cpu, current_isr, timer, keypress_interrupt_active, flags, restore>>

KeyQuit ==
    /\ Command("q")
    /\ at' = "halted"
    /\ UNCHANGED <<ControllerVars, cpu, current_isr, timer, keypress_interrupt_active, flags, restore>>

Debug ==
    \/ KeyNext \/ KeyContinue \/ KeyRestart \/ KeyStepInto \/ KeyFinalize
    \/ \E stepInto \in BOOLEAN : TriggerGranted(stepInto)
    \/ TriggerRefused \/ KeyQuit

Halted == at = "halted" /\ UNCHANGED vars

Next == Execute \/ Devices \/ Debug \/ Halted

Spec == Init /\ [][Next]_vars

----------------------------------------------------------------------------
(* The interrupt controller inside the emulator is the one of              *)
(* InterruptController: whatever the program, the devices and the user do, *)
(* each step is a controller step or leaves the controller alone.          *)
ObeysController == ControllerSpec

(* RTI goes on exactly where the interrupted code stopped: after an INT at *)
(* the next instruction, after a timer or keypress interrupt at the one    *)
(* that was not executed, also when other routines ran in between on the   *)
(* same stack word.  INT pushes PC, the devices push PC - 1, RTI adds 1.   *)
ResumesWhereInterrupted ==
    [][at' = "devices" /\ Len(frames') < Len(frames) => PC' = Last(frames).resume]_vars

Depth == Len(frames) - Len(isr_priority_stack)

(* For a disciplined program the priority stack describes the service      *)
(* routines really on the stack: some INT routines at the bottom, and above *)
(* them one hardware routine for each entry, of that entry's priority.     *)
StackMirrorsFrames ==
    /\ Depth >= 0
    /\ \A i \in 1 .. Len(frames) :
          IF i <= Depth
          THEN frames[i].kind = "int"
          ELSE /\ frames[i].kind \in Signals
               /\ isr_to_prio[frames[i].isr] = isr_priority_stack[i - Depth]

InService(signal) == \E i \in 1 .. Len(frames) : frames[i].kind = signal

(* A timer that has stopped counting is in service and will be started     *)
(* again by an RTI: current_isr still names it.                            *)
TimerRestartable ==
    isr_of_timer_interrupt # NoIsr /\ ~interrupt_timer_active =>
        InService("timer") /\ current_isr = isr_of_timer_interrupt

(* 't' is turned away with "can't be interrupted by interrupt that was     *)
(* triggered by same signal" only while that routine is in service.        *)
KeypressRefusalJustified ==
    keypress_interrupt_active => InService("keypress")

(* No routine is entered again, by its own signal, before it has returned. *)
NoSelfInterruption ==
    \A i, j \in HardwareFrames : frames[i].kind = frames[j].kind => i = j

(* When the last service routine has returned nothing of it is left: the   *)
(* controller is empty, the timer counts, and the debugger is not silent   *)
(* for a routine that is no longer there.                                  *)
IdleIsFresh ==
    frames = <<>> =>
        /\ isr_priority_stack = <<>>
        /\ heap_size = 0
        /\ ~isr_active
        /\ isr_finished
        /\ interrupt_timer_active = (isr_of_timer_interrupt # NoIsr)
        /\ ~keypress_interrupt_active

(* README: 'r' restarts: the state of the interrupt system is the one the  *)
(* program started with.                                                   *)
RestartIsFresh ==
    [][KeyRestart =>
          /\ isr_priority_stack' = <<>>
          /\ heap_size' = 0
          /\ ~isr_active'
          /\ interrupt_timer_active' = (isr_of_timer_interrupt # NoIsr)]_vars

(* The comment in RTI: a nonempty priority stack "means a hardware         *)
(* interupt is active", the one RTI returns from.                          *)
RtiEndsHardware ==
    [][Return /\ isr_priority_stack # <<>> => Last(frames).kind \in Signals]_vars

\* The emulator goes on while it is not halted, and a service routine that
\* can run again and again reaches its RTI.
Rti == RtiResume \/ \E isr \in Isrs, stepInto \in BOOLEAN : RtiDispatch(isr, stepInto)

Fairness ==
    /\ WF_vars(Next)
    /\ \A kind \in {"int"} \cup Signals :
          SF_vars(frames # <<>> /\ Last(frames).kind = kind /\ Rti)

FairSpec == Spec /\ Fairness

\* Nobody can promise progress to a user who restarts again and again; 's'
\* leads nowhere at an instruction that is no INT.
UserLetsItRun == <>[][~KeyRestart /\ ~KeyStepInto]_vars

(* README, option -I: timer interrupts come at intervals, again and again, *)
(* as long as the program runs and the user lets it.                       *)
TimerRecurs ==
    isr_of_timer_interrupt # NoIsr /\ UserLetsItRun =>
        []<>(at = "halted" \/ InService("timer"))

(* A step over a routine ('f', or 'n' on an INT) silences the debugger     *)
(* until an RTI clears the flag.  Whatever interrupts the routine, and     *)
(* although save_state has room for one routine only, the debugger does    *)
(* not stay silent for good: the flags do not keep it from showing itself. *)
DebuggerComesBack ==
    UserLetsItRun =>
        []<>(at = "halted" \/ (isr_finished /\ (isr_active => step_into_activated)))

(* A keypress interrupt that was refused for its lower priority is not     *)
(* lost: a later RTI starts its routine.                                   *)
KeypressServed ==
    isr_of_keypress_interrupt # NoIsr /\ UserLetsItRun =>
        (pending[isr_of_keypress_interrupt] > 0 ~> at = "halted" \/ InService("keypress"))
=============================================================================
