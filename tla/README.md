# A TLA+ verification of RETI-Emulator

RETI-Emulator (C) interprets programs for the RETI teaching processor, with an
interrupt controller, a timer, a keypress device, a UART, a debugger and an
assembler. It is one sequential process. What makes it hard is not threads but
everything that happens *between two instructions of the emulated program*:
devices that interrupt it and each other, service routines that nest, a
debugger that restarts or steps through them, and a UART that changes its
registers while the program polls them. Before that, the program has to get
into the machine: an assembler without a specification of its encoding, a loader
that fills three tables of interrupts at once, and a start program assembled at
run time. These modules model both parts, check them with TLC on small
instances and prove with TLAPS what matters most for all parameters.

Paths are relative to the repository (`src/` here is its root).

## 1. Inventory

| Component (source) | State it keeps | Operations | Correct means |
|---|---|---|---|
| Binary heap (`src/src/datastructures.c`) | `isr_heap[255]`, `heap_size` (uint8_t) | insert + `heapify_up`, `pop_highest_prio` + `heapify_down` | a priority queue: what comes out is the most urgent of what is in, nothing lost or doubled; order kept at every fill level |
| Interrupt controller (`interrupt_controller.c`, RTI in `interpr.c`) | `isr_priority_stack`, `stack_top`, the heap, `isr_to_prio` | request of a device (granted, deferred, dropped), offer after RTI, pop by RTI | priorities rise along the nesting; nothing urgent waits for something less urgent; no stranded request; bounds of the arrays |
| Timer and keypress (`interrupt.c`) | `timer_cnt`, `interrupt_timer_active`, `keypress_interrupt_active`, saved flags | `timer_interrupt_check` after every instruction, `keypress_interrupt_trigger` on `t` | a device that was stopped is started again; a refusal is justified; a routine does not interrupt itself |
| CPU loop, INT and RTI (`interpr.c`) | registers, stack in memory, `current_isr` | fetch, execute, devices, debugger | RTI goes on exactly where the program was interrupted |
| Debugger commands (`debug.c`) | `breakpoint_encountered`, `isr_finished`, `step_into_activated`, `isr_active` | `n c r s f t a D q` | it stops where it says, is silent only while it should be, `r` restarts |
| Debugger view (`debug.c`, `tui.c`, `input_output.c`) | four watchobjects, `watchobject_addr`, sizes of terminal and boxes, the screen | `draw_tui`, the dialogue of `a`, resize | the screen shows the present state, and of each memory the cell that is watched, once and in its section |
| UART (`uart.c`, registers in `reti.c`) | R0, R1, R2, latch and buffer of each half, waiting times, input list | `uart_receive`, `uart_send` after every instruction, `reset_uart` | packets are not lost, doubled or mixed whatever the waiting times |
| UART drivers (`opts/isrs.reti`) | registers of the CPU | INT 0, INT 1, INT 2 | print once and whole, read once and whole, return |
| Assembler and disassembler (`assemble.c`, `error.c`) | none | `assembly_to_machine`, `machine_to_assembly`, `check_instr` | decode(encode(i)) = i for every accepted i; fields do not overlap |
| Memory map (`reti.c`) | EPROM, UART, SRAM | `read_storage`, `write_storage` and their address extensions | LOAD and STORE of one operand mean one cell |
| EPROM boot program (`reti.c`) | EPROM | `load_adjusted_eprom_prgrm` | SP, CS, DS, PC get the intended 32-bit values from 22-bit immediates |
| Parser and loader (`parse_instrs.c`) | SRAM, lengths, `ivt_max_idx` | vector table, routines, program | every vector points to its routine, no overlap |
| Metadata, test mode (`special_opts.c`) | input list, output files | read comments, write files | the inputs of the comment that counts, in order |
| Command line (`parse_args.c`) | options | getopt | values in range |
| Text interface (`tui.c`, `input_output.c`) | windows | drawing, menus, input boxes | what is typed is what the emulator gets |
| Utilities, log, stubs (`utils.c`, `log.c`, `trash.c`, `memory_managment_unit.c`) | - | conversions, printing | - |

How they meet. One turn of `interpr_prgrm` is: the debugger, if
`visibility_condition` holds, asks for a command; an instruction is executed;
`timer_interrupt_check`, `uart_receive` and `uart_send` follow in this order.
INT and the two devices push a return word with `setup_interrupt`; RTI pops it,
pops the priority stack, and asks the controller for a waiting interrupt, which
it starts on the same word. The drivers reach the UART only through its
registers, the devices reach the drivers only by interrupting them. No state is
shared otherwise, nothing survives the process.

Hard behaviours, each listed with its line in `PROJECT.json` under `hazards`:
orders of grants and returns; return words written under two conventions (INT
pushes PC, devices PC - 1); `current_isr`, the saved flags and
`keypress_interrupt_active`, each a single variable for routines that nest;
restarts in the middle of a routine or of a packet; the full heap; index and
counter arithmetic in `uint8_t`; read-modify-write of the status register; the
liveness of the timer, of deferred interrupts and of polling loops; a drawing
that fails in the middle of an assignment; windows onto a memory that are cut at
its ends.

## 2. Modules

| Module | Models | Role |
|---|---|---|
| `PriorityQueue` | what `isr_heap` promises: a bounded bag ordered by priority | abstract specification, part of the next one |
| `IsrHeap` | `datastructures.c` and the insertion in `handle_interrupt`, one loop iteration per action | implements `PriorityQueue` (`INSTANCE ... WITH`, property `ImplementsQueue`) |
| `InterruptController` | `interrupt_controller.c` and RTI's part of it | extends `PriorityQueue` |
| `ControllerHeap` | `interrupt_controller.c` on `datastructures.c` | composes `IsrHeap` with the controller; implements `InterruptController` (`ImplementsController`) |
| `Emulator` | main loop, INT, RTI, INT 3, timer, keypress, debugger commands | extends `InterruptController`; its runs also check that it implements it (`ObeysController`) |
| `Console` | what INT 0, 1, 2 promise a program | abstract specification |
| `Uart` | `uart.c`, the registers, the drivers | implements `Console` (`ImplementsConsole`) |
| `Words` | 32-bit words as sets of the positions of their one bits | library: C's shifts, masks, `+ - *` as operations on sets |
| `Assembler` | `assemble.c`, `error.c` | pure: encoding, decoding, checks of operands |
| `DebugView` | `draw_tui`, its windows and boxes, the command `a` | of its own: it reads the registers and changes nothing outside the debugger |
| `Reti` | `main`, `parse_instrs.c`, `reti.c`, every instruction of `interpr.c`, without devices | extends `Assembler` |
| `LeastElement` | facts about greatest values of finite sets | library for the proofs |
| `InterruptController_proofs`, `ControllerHeap_proofs`, `Emulator_proofs`, `Disciplined_proofs`, `Uart_proofs`, `DebugView_proofs`, `Reti_proofs` | theorems | proofs, each about the module it is named for |
| `MCControllerHeap`, `MCEmulator`, `MCUart`, `MCDebugView`, `MCReti` | values of the constants | model checking |

**PriorityQueue / IsrHeap.** `pending[isr]` counts the requests of an interrupt
that wait. The real heap stores interrupt numbers in an array and looks their
priority up; `Insert`, `UpSwap`, `UpDone`, `Pop`, `DownSwap`, `DownDone` are the
iterations of the two loops. Array cells beyond `heap_size` keep their stale
contents, as in the code; `U8` is arithmetic in `uint8_t`, taken modulo the
capacity + 1 because the capacity 255 is `UINT8_MAX`.

**InterruptController.** `isr_priority_stack` is the array up to `stack_top`.
The three outcomes of `handle_hardware_interrupt` are `Grant`, `Defer`, `Drop`.
RTI is `Resume` (nothing waits, or what was taken was put back at once) or
`Dispatch` (the most urgent waiting interrupt outranks what is then in service).

**ControllerHeap.** The controller as it is written: `Request*` are the outcomes
of `handle_interrupt` for a device, an insertion is finished by `Sift`, and RTI
pops its priority, takes the most urgent interrupt out (`RtiTakes`), sifts, and
then offers it, which ends in `OfferGranted` or `OfferPutBack`. `taken` and
`found` are the local variables of this call. Seen through `stackOutside` and
`pendingOutside`, which keep the interrupt in the queue and the stack unpopped
until the offer is decided, each step is one of `InterruptController` or none:
RTI is atomic there, and `Emulator` builds on that.

**Emulator.** `at` is the position in the loop ("top": the debugger or the
fetch; "fetch": after a command; "fetch int": after `s`, which looked at the
opcode; "devices": before the timer check). The program is open: at each fetch
any instruction may be found, so `ExecPlain`, `ExecJump`, `ExecInt`,
`ExecBreakpoint`, `ExecHalt` and RTI are all possible; RTI is assumed to occur
only inside service routines. `frames` is the stack in memory as far as
`setup_interrupt` and RTI use it. Of each word it records, besides its value,
who pushed it and where the interrupted code must go on (`resume`): these two
fields are never read by an action, only by properties. The two halves of the
timer's and the keypress routine's notification box (Enter or `s`) are a choice.
The UART does not appear: it neither reads nor writes any of this state.

The constant `Disciplined` restricts the environment, never the emulator: TRUE
means that the program uses no INT while a hardware interrupt is in service, and
that the user presses `r` only while no service routine is active. With FALSE
neither is assumed. What fails without it is shown by runs of its own (§4).

**Uart.** A value is the sequence of its packets, most significant first; the
drivers' shifts and masks take a byte out of a word and put it back, that is,
take and append elements. Registers, status bits, latches, waiting times and
the drivers' copy of the status register are separate state, and LOAD, ANDI +
STORE, and each poll are separate instructions, with a step of each half of the
UART after every one. `OtherInstruction` is any instruction that does not
concern the UART, also in the middle of a driver (a timer routine, for
example). `rand()` is a choice in 1..`max_waiting_instrs`; the option's value
is chosen in `Init` and kept in eight bits. The inputs come from the beginning of
the program's file: `header` is its lines, `ReadLine` is one turn of
`extract_comment_metadata` (`ReadUpTo` is a function of the number of lines read; a later `# input:`
replaces an earlier one, the first line of code ends the search), and `CommentInput` what it returns. When
they are used up, or after `r`, the user types (`TypedWords`): a number, or a
character behind one or two bytes of an array that was not initialized
(`Garbage`; `mvwgetnstr` writes two bytes of it, `fgets` three).
`RemainingInput` is the list the debugger prints of them. `output` and `answers` record what was printed and
returned. A datatype other than 0 and 4 ends the program in the code; there is
no such step here, so the run would report it as a deadlock.
An out-of-bounds write of a string's packets (see §4) is left without effect on
other state: the block that `realloc` returns is larger than the strings used.

**DebugView.** The screen is the snapshot `Picture` that the last `draw_tui`
drew; `Lines(box)` derives from it the lines of a box, with the sections
(vectors, instructions, data; start program and the rest of the EPROM), the
lengthening of a window at the ends of its memory, `uint8_t` and `uint16_t`
(`U16`, the loop over the EPROM) where the code has them, and the lower border. `at` is "command" while the debugger waits and
"running" otherwise; the program then sets the registers as it likes. Each path
of the dialogue of `a` is an action: left by Escape, accepted, refused because
`draw_tui` failed. `assigned` is never read by an action: it remembers what the
user had accepted for each box. `legacy_debug_tui` is the interface without
windows. What a cell holds, colours, headings and menus are left out, and lines
are taken to fit their box.

**Words / Assembler / Reti.** A line of a program is its opcode and three
operands, each a register code, the number an immediate stands for, or empty;
splitting text into words and looking names up is left out, but not that some
lines are passed over without a message (`PassOver`). As in the code,
names of devices are register codes too. `IsLine` says what a line can be that
the scanners return; the constants of `Reti` are sets of such lines. `assembly_to_machine` and
`machine_to_assembly` shift and mask real 32-bit words; `assembly_to_str` makes
the line that the debugger shows for one. `Reti` is one program
run from its files on: `phase` names the file `main` is loading ("isrs",
"prgrm", "eprom"), then "generate" (`load_adjusted_eprom_prgrm`), "boot" and
"run" (the CPU, with PC below and in SRAM), or "failed" and "stopped" (`exit`,
`JUMP 0`). The files are chosen line by line (`LoadLine`, `RefuseLine`); a
`LoadGap` stands for n NOPs whose words are left out, so that sizes of files
reach the halves of the numbers in the start program; `SramEnd` bounds the
addresses loaded to the 2^31 cells an address can select. `source` is never read by
an action: it remembers which line each address came from. The CPU then executes
whatever words the memory holds, `Compute`, `Transfer`, `Store`, `Jump`, `Call`,
`Breakpoint`, `Return`, `Stop`, with wrap-around of 32 bits. What the model
cannot know, a cell nothing was written to, a UART register, what lies behind
the end of the EPROM array, is any word of `Unknown`. `Put` and `Only` change and make the
tables that are arrays or files in the code. `ToNat` and `Times` are recursive
functions of the number of bits used, which can be reasoned about. The CPU is
followed while PC is at a cell that was written; then the model stops, which is why its runs do
not check deadlock. Devices interrupt nothing here: that is `Emulator`, where the
instructions are open. INT and RTI occur in both, here with the words they
compute, there with the interrupts around them.

## 3. Runs

| Run | Question | Bounds |
|---|---|---|
| `heap` | does the array keep heap order in the middle of both sift loops, is it the bag it should be, and is the controller on it the controller, whose theorems (§5) then hold for it? | 4 interrupts (there are at most 4 devices), two of equal priority; capacity 6: it fills, requests are dropped, and it is three levels deep, so both children, one child and none occur |
| `emulator_free` | types, rising priorities, bounded nesting, no inversion, controller steps only, exact return, for any program and user | 3 addresses (wrap of PC + 1 and PC - 1 included), 4 frames, interval 2, queue of 2, all keys |
| `emulator_disciplined` | stack, timer, flags agree; the timer recurs, deferred interrupts are served, the debugger does not stay silent | 4 frames; interval 0 (option `-I 0`), so that `timer_cnt` wraps around, after 3 values; the timer more urgent than the keypress, so that a keypress is deferred (the other way round there is nothing for `KeypressServed` to say); all keys |
| `uart` | whole values in order, protocol, no lost bit, the inputs that count, the list of remaining input, every call returns | options 0 and 260, waiting times therefore 0 and up to 4 (long enough to end between a later call's load and store of the status, were a driver not to wait); bytes 0 to 4, of which 0 is also the terminator and 4 the type; a letter; 3 calls, so that both words of the comment and a user's word are read; two headers; restarts anywhere |
| `reti` | are the words, the tables of interrupts and the registers after booting what the files say? can what is shown be written? does LOAD find what STORE has put? are remainders in range? | up to 3 lines or gaps of service routines, 2 in both files together if there are fewer; lines of every shape with immediates at the ends of their ranges, and lines that are refused; gaps of 1022 and 2^21; three SRAM sizes; -D |
| `view` | is each window whole, does it show the watched cell, is the screen what was accepted last? | EPROM of 40 cells with 14 of the start program, SRAM of 100 with 3 vectors and 20 instructions; registers at both ends of the memories and of their sections, behind them, in the UART, and just above the limit of `uint16_t`, here 64; heights 24 (the EPROM's box is empty), 25 (one line) and 28, odd and even, with a radius that reaches over both ends of each memory; radius 2 in the plain interface; two assignments |
| `nested_int`, `restart`, `uart_buffer`, `uart_char`, `ds_addressing`, `view_shared` | see §4 | as the run they belong to |

Bounds. `MaxFrames` limits how deep routines nest; where it leaves no room for a
timer frame the timer is not looked at (`TimerOff`), and INT leaves room for
one frame of each device. Four frames hold an INT routine, both devices and a
further INT. `HEAP_SIZE` is 255 in the code; a small one makes the full heap
reachable. `MAX_STACK_SIZE` is not a bound of the model: it is a parameter, and
`CapacityNeverDecides` shows it has no influence. In `reti`, gaps of 1022 and
2^21 NOPs and SRAM sizes 0, 2^16 and 2^31 - 1 put the numbers of the start
program on both sides of 2^10 and above it, with lower halves 0, 1023 and in
between; `MAX_VAL_ISR` is 3 for 255, so that the table can be too long;
`MaxIsrItems` and `MaxItems` bound the files, and `MaxCells` a program that calls
a routine in a loop. `MaxCalls` bounds the drivers'
calls, and with them `output` and `answers`. The proofs use none of these
values.

Fairness. The emulator's loop never waits for anything but the user, hence
`WF(Next)`: it goes on while it is not halted. A service routine is code that
ends: a routine of each kind that is on top again and again reaches its RTI
(`SF` per kind). This is an assumption about the program, not about the
emulator; without it a routine in an endless loop blocks everything and the
liveness properties say nothing. In `Uart`, `SF(DriverStep)` says that a driver
which is interrupted by other instructions again and again still proceeds, since
the routine that interrupts it returns. No fairness is assumed of `rand()`, of
the length of other code. The user may do anything, but the liveness of the
emulator is claimed for behaviours in which at some time `r` and `s` are no
longer pressed (`UserLetsItRun`): either can be repeated for ever, and then no
instruction is executed or the flags are changed under way.

## 4. What was found

Each has a run whose counterexample is the evidence.

* `nested_int`: RTI does not know which kind of routine it ends. The RTI of an
  INT routine that a hardware routine called pops the hardware routine's
  priority and clears `keypress_interrupt_active` (`interpr.c:334`), against its
  comment. From there the keypress routine can be interrupted by itself, and
  the timer may never count again.
* `restart`: `r` clears registers, UART and `timer_cnt`, but not the priority
  stack, the heap, `interrupt_timer_active` and the debugger's flags. Pressed in
  a service routine, it leaves a program whose timer is dead and whose
  less urgent interrupts wait for ever.
* `uart_buffer`: `realloc(send_data, 1)` (`uart.c:95`) gives every string one
  byte.
* `ds_addressing`: without `-D`, LOAD adds the DS register to its parameter, but
  STORE always takes the upper ten bits of DS (`reti.c:203`); with a DS that is
  no multiple of 2^22, the two mean different cells.

* `uart_char`: `get_user_input` (`input_output.c:228`) returns a typed character
  as four bytes of its input array, of which two were written (three in the plain
  interface, by `fgets`, which leaves one); the README says the other three are
  always 0. A program that compares the word it reads with
  a letter may find them different.
* `view_shared`: `watchobject_addr` (`debug.c:492`) is one variable for four
  watchobjects, so an address assigned to a second box moves the first, against
  what the README says of a watchobject's address. An address that is refused
  stays in it, and a box that already showed one makes every later drawing fail.

Met while modelling, without a run: an INT 3 in a routine that was not entered
by stepping does not stop (`visibility_condition`, `include/interpr.h:11`); the
plain interface compares two characters of an answer, so IN2 is taken for IN1;
the README's names `ew`, `swc`, `swd`, `sws` of the boxes are E, SC, SD, SS in
the code, its option `-T` is not accepted, and `-r` has an effect in the plain
interface only; the EPROM's window is shifted at the size of the SRAM; an empty
program lists SRAM cells twice; below 24 lines the height of the EPROM's box
wraps around; a tab before a mnemonic makes the line vanish; a lone minus sign
in an input comment loops for ever, and of a comment longer than 255 characters
the rest is taken for code; `-w 256` means no waiting; `s` on an INT 3 leaves `step_into_activated`
set; a step over an INT routine (`n`, `f`) ends early when a device's routine nested
in it returns: that RTI leaves the priority stack empty, so it sets `isr_finished`
and clears `isr_active`, though the INT routine is still under way
(`interpr.c:337`); the single copy of `save_state`, which an inner device routine
overwrites, is not the reason: of two nested device routines the RTI of the outer one
clears the flags instead of restoring them; the loop over the EPROM counts in
`uint16_t` (`debug.c:313`), while its box draws any watched value below 2^30, so for a
value of 2^16 or above it lists cells that have nothing to do with the
value, and just above 2^16 those of the start program twice, as instructions and as
numbers (hence `Truncated` in `WindowsAreWhole`), though an address is to be the
middle of the window (`README.md:151`); INT with a negative number is accepted
(`error.c:202`), but INT -1 is shown as INT 4194303, which is refused; `r` forgets the remaining
`# input:` words; a program that writes R0 while the UART sends (it is only
warned) can end a string early or not at all, because `uart.c:131` looks at R0;
a driver interrupted by a routine that itself uses the UART can have its last
packet sent twice; a device name where a register belongs is accepted and its
fourth bit changes the opcode (hence `Plain` in `LoadedAsWritten` and
`ShownAsAssembled`, which leaves out these lines and the negative INTs); the numbers
of interrupts count the entries, while their vectors are found by address, so
an entry behind another line gets the wrong vector (hence `TableFirst` in
`DevicesHaveEntries`); the 255th entry is refused, though the message says "more
than 255"; a remainder by zero, and -2^31 divided by -1, are not caught as a
division by zero is; the option for the SRAM size sets the stack pointer and
nothing else, so a program may use SRAM beyond it.

## 5. Theorems

All hold for every value of the constants that satisfies the modules' named
assumptions. They say that the constants have their types and what the code
guarantees of them, with one exception: `QueueAssumption`, `ControllerAssumption`,
`HeapAssumption`, `EmulatorAssumption` (finitely many interrupts, any
priorities, capacities and addresses, any interval, 0 included), `UartAssumption` (values of four
bytes; a string ends at its only 0; the last byte of a number in a comment tells it
from a character; at most 255 words on a line), `RetiAssumption` (lines as the
scanners return them). The exception is `ViewAssumption`: that the program and the
start program lie in their memories is so, but an empty program, an SRAM no larger
than the EPROM (option `-s` allows it, the default does not) and a terminal below
24 lines are excluded, since in each of them a cell is listed twice or falls out of
its box; the theorems about the view say nothing of these settings. Three theorems
exclude inputs in the property they state, and say so there:
`BoxesShowWindows` a watched value of 2^16 or above in the EPROM's box
(`Truncated`), `RetiLoaded` and `RetiShown` entries of the table, lines with a device
name as a register, and INT with a negative number (`Plain`). TLC
evaluates each assumption on the runs. Each inductive invariant was checked with TLC before
it was proved.

* `InterruptController_proofs`. Type correctness first. The inductive invariant
  `ControllerInv` is type + rising stack + no inversion: `NoPriorityInversion`
  alone is not inductive, since after a pop it is only the order of the stack
  and the choice of the *most urgent* waiting interrupt that bounds the others.
  That a most urgent one exists is `HighestExists`, from `LeastElement`. From it
  follow `NestingRises`, `NothingMoreUrgentWaits`, `NestingIsBounded` (a rising
  stack is an injection into the interrupts) and `CapacityNeverDecides`.
  That `heap_size` is the number of waiting requests (`SizeInv`, which counts them
  as a set of tokens) holds by the definition of the bag. It is a lemma that
  `DisciplinedIdle` needs, where RTI looks at the counter and not at the queue; that
  the code's counter is this number is `HeapImplementsQueue`.
* `ControllerHeap_proofs`. The array heap for every capacity up to that of
  `uint8_t`: `TypeOK` contains that no index is outside the array and that
  `U8` never wraps, which holds because a loop that has reached position k
  computes 2k + 2 only while 2k + 1 is inside. `HeapOrder` speaks of the moments
  *between* the iterations of a sift loop, with the one slot the loop is about to
  repair left out and its parent and children compared directly. That the root is
  a highest interrupt (`RootIsHighest`) is induction down the array, put as a
  least counterexample. From these `HeapImplementsQueue`, and with `OfferInv`
  (what RTI has taken out was a most urgent one, the stack is popped for it, and
  its slot is still free) `ArrayImplementsController` and `RoomToPutBack`. So the
  theorems of `InterruptController_proofs` hold on the array.
* `Emulator_proofs`. `EmulatorTypeCorrect`; `EmulatorObeysController`: every
  step is a controller step or leaves it alone, so the controller's theorems
  carry over (`EmulatorControllerSafe`); `EmulatorResumes`, from the invariant
  `WordsPrecede` (each stack word is the predecessor of the instruction to go on
  with), which is what unites the two conventions of pushing.
* `Disciplined_proofs`, under `Disciplined`. One inductive invariant,
  `DisciplinedInv`: the priority stack mirrors the frames; each frame belongs to
  its device; only devices wait; a stopped timer is in service and named by
  `current_isr`; the keypress flag implies its routine; idle flags. Each part
  needs the first: an RTI that finds the priority stack empty returns from an
  INT routine, so no hardware routine is there. From it follow the five
  properties of the run `emulator_disciplined`.
* `Uart_proofs`. `UartInv` says what the four parties know of each other:
  `Handshake` relates the driver's position, the status bits and the halves of
  the UART; `DisplayInv` and `KeyboardInv` say which packets of the value are
  in R0 or R1, in the latch, in the buffer. From it `TerminatorHolds`,
  `ProtocolKept`, `NoReadyIsLost` (the stale copy of the status register
  overwrites nothing) and, with `DriversImplementConsole`, the refinement of
  `Console`. `InputInv` adds the index into the words of the comment, which is one
  ahead of the answers while a word is under way; from it `InputsAreInOrder`. For
  `ListedInputArrives`, the debugger's list is at each fetch a rest of the word in
  the receiver followed by the packets of the words behind it, before and after.
* `DebugView_proofs`. `ViewInv`: types, the screen was drawn of typed values,
  the watchobjects are the accepted assignments (while nothing is proposed), and
  the screen is their picture. `ScreenShowsAssignments` then covers the dialogue
  that writes its proposal first and takes it back. `BoxesShowWindows` and
  `RegistersCellShown` are arithmetic: the loops list an interval without gaps
  (`IsWindow`), cut at the ends of the memory and never empty where the watched
  cell is. This needs EPROM smaller than SRAM, because the window of the EPROM is
  shifted at the size of the SRAM.
* `Reti_proofs`. `LoaderInv` (types; how far the files are loaded; each line
  accepted, below the next address, and its word in its cell) gives `RetiTyped`.
  `SourceBelow` with `SramEnd` is what makes the cells of two addresses
  different. `DeviceInv` gives `RetiEntries`: that the entries which come first
  are counted (`EntriesCounted`) is needed because an EPROM program may hold entries
  too, which take numbers but are no cells of SRAM. The round trip
  `RetiLoaded` goes by the bits: a word is made of fields (`ConsistsOf`), each
  field is read back from it (`FieldsAre`), and immediates and register codes
  are the numbers of their bits. `RetiShown` uses that the round trip loses
  nothing in either direction. For `RetiBoots`, `BootInv` says that the CPU is at
  some instruction k of the intact start program and the registers are
  `Booted(k)`; 14 steps lead from all zeros to the promised registers, by
  `LoadedParts` (a number is its upper 22 bits, sign extended, times 1024, with
  the lower 10 put in) and `PlusIsSum` (addition with carries between bits is
  addition). `RetiStored` needs `-D`, as `ds_addressing` shows, and
  `RetiRemainder` the rounding of C's division.

Numbers and their bits. SMT does not evaluate powers with a variable exponent,
and an induction theorem of the library cannot be instantiated. `Reti_proofs`
therefore names 2^b `Weight(b)`, lists the 32 values once (`Powers`), and proves facts
about sums of bits by induction up to a fixed bound: `UpTo` says that a set with
0 and, with each k below the bound, k + 1, has all numbers up to the bound; it
follows from the existence of a least element.

The proofs corrected the model in three places. `LoadReadsStored` speaks of SRAM
only: what is stored into a register of the UART need not be read again.
`DevicesHaveEntries` speaks of vectors that are not negative: a negative one is no
address of SRAM. And `ViewAssumption` asks for an EPROM strictly smaller than the
SRAM, as above. None of these was met on the small instances.

Only model-checked: liveness (`TimerRecurs`, `KeypressServed`, `DebuggerComesBack`,
`CallsReturn`), which the prover does not reach. Every other property of a passing run is
stated by a theorem.

## 6. Not modelled, and the plan

Not modelled, for good: how ncurses draws windows and walks through a menu, the
layout of lines, headings and numbers (`tui.c`, `input_output.c`, parts of
`debug.c`), the output files of the test mode (`special_opts.c`), the range
checks of option parsing, logging, scripts, and code that is not compiled in.
They keep no state that the properties are about. Left out with a hazard of
their own in `PROJECT.json`: a service routine that interrupts a polling driver
and uses the UART itself, lines of text by their characters, terminals of less
than 24 lines.

What could follow:

1. `Emulator` over `Reti`: the devices between instructions that are real words,
   so that INT and RTI are one definition.
2. The layout of the heap's array after a pop and a push of the same interrupt:
   which of two interrupts of equal priority comes first.

## 7. Running

    tlc -config MCEmulatorFree.cfg MCEmulator
    tlapm Emulator_proofs.tla

`PROJECT.json` lists every run with its properties, for each property a
mutation of the model that violates it (the definitions marked *Faulty variant*
in the modules), and for each definition the lines it models.
