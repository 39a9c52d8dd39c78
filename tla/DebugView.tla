----------------------------- MODULE DebugView -----------------------------
(***************************************************************************)
(* What the debugger shows of the memories (draw_tui in debug.c): four     *)
(* boxes, each with the cells around the address its watchobject stands    *)
(* for, a register's value or a typed address; and the dialogue of the     *)
(* command 'a' that assigns watchobjects, in the interface with windows    *)
(* and in the plain one (-l).  What the cells hold is left out, not        *)
(* whether they are shown as instructions.  Words are scaled: INDEX stands *)
(* for 2^30, so that the two upper bits of a word w are w \div INDEX, and  *)
(* U16_SIZE for 2^16, what a uint16_t can count.                           *)
(* A line is taken to fit the width of its box.                            *)
(***************************************************************************)
EXTENDS Integers, Sequences, FiniteSets, FiniteSetsExt

CONSTANTS
    INDEX, U16_SIZE, EPROM_SIZE, sram_size,
    num_instrs_start_prgrm,
    ivt_size,               \* ivt_max_idx + 1
    num_instrs,             \* num_instrs_isrs + num_instrs_prgrm
    radius_option,          \* -r
    RegStates,              \* what the registers may hold while the program runs
    Typed,                  \* the addresses that are typed
    Heights,                \* of the terminal
    MaxAssigns              \* bound: how often 'a' is followed to its end

Registers == {"PC", "IN1", "IN2", "SP", "DS"}
Boxes == {"EPROM", "SRAM_C", "SRAM_D", "SRAM_S"}
ADDRESS == "Address"

\* determine_watchobject_value: UINT64_MAX, for a text that is no number
\* (and for -1, without the message).
Invalid == -1

\* With an empty program num_instrs - 1 is UINT32_MAX and SRAM cells are
\* listed twice.  The EPROM's window is shifted at the end of the SRAM, which
\* has to lie behind it: with an SRAM as large as the EPROM the last cell of
\* the EPROM falls below the border of a box of even height.  Below 24 lines
\* the height of the EPROM's box wraps around.
ASSUME ViewAssumption ==
    /\ {INDEX, U16_SIZE, EPROM_SIZE, sram_size} \subseteq Nat
    /\ num_instrs_start_prgrm \in 1 .. EPROM_SIZE - 1
    /\ EPROM_SIZE < U16_SIZE /\ U16_SIZE <= INDEX
    /\ num_instrs \in 1 .. sram_size /\ ivt_size \in 0 .. num_instrs - 1
    /\ EPROM_SIZE < sram_size /\ sram_size <= 2 * INDEX
    /\ radius_option \in 0 .. 255
    /\ RegStates \subseteq [Registers -> 0 .. 4 * INDEX - 1]
    /\ Typed \subseteq 0 .. 4 * INDEX - 1
    /\ Heights \subseteq 24 .. 200
    /\ MaxAssigns \in Nat

VARIABLES
    legacy_debug_tui,
    at,                 \* "command": evaluate_keyboard_input waits
    regs,
    term_height,        \* as update_term_and_box_sizes found it last
    watchobject,        \* eprom_watchobject, sram_watchobject_cs, _ds, _stack
    watchobject_addr,
    screen,             \* what the last draw_tui that succeeded has put there
    assigned,           \* per box: what the user had accepted for it
    assigns

vars == <<legacy_debug_tui, at, regs, term_height, watchobject,
          watchobject_addr, screen, assigned, assigns>>

\* What draw_tui reads: the picture is a function of it.
Picture ==
    [regs |-> regs, height |-> term_height,
     title |-> watchobject,
     value |-> [box \in Boxes |-> IF watchobject[box] # ADDRESS THEN regs[watchobject[box]]
                                 ELSE watchobject_addr + IF box = "EPROM" THEN 0 ELSE 2 * INDEX]]

\* determine_watchobject_value has a value for each of the boxes.
Drawable(objects, typed) == typed = Invalid => \A box \in Boxes : objects[box] # ADDRESS

\* draw_tui returns false before it has drawn anything.
draw_tui ==
    screen' = IF Drawable(watchobject, watchobject_addr)' THEN Picture' ELSE screen

----------------------------------------------------------------------------
\* The lines of the boxes of the screen.
U8(n) == n % 256

\* The registers take 10 lines, the UART 11, the list of commands one.
BoxHeight(box) == U8(screen.height - IF box = "EPROM" THEN 22 ELSE 1)

Radius(box) == IF legacy_debug_tui THEN radius_option ELSE (BoxHeight(box) - 2) \div 2

\* The cells from .. to, as a loop prints them.
Cells(from, to, as) ==
    [i \in 1 .. Max({0, to - from + 1}) |-> [idx |-> from + i - 1, as |-> as]]

\* Near one end of the memory the window is lengthened at the other end.
Lower(x, r) == IF x < r THEN U8(r - x) ELSE 0
Upper(x, r) == IF x + r > sram_size - 1 THEN U8(x + r - (sram_size - 1)) ELSE 0

\* The loop over the EPROM's cells counts in uint16_t.
U16(n) == n % U16_SIZE

\* print_eprom_watchobject
EpromSections(from, to) ==
    Cells(U16(Max({0, from})), Min({to, num_instrs_start_prgrm - 1}), "instruction")
    \o Cells(U16(Max({num_instrs_start_prgrm, from})), Min({to, EPROM_SIZE - 1}), "number")

EpromCells(x, r) ==
    IF x \div INDEX # 0 THEN <<>>
    ELSE EpromSections(x - r - Upper(x, r), x + r + Lower(x, r))

\* Faulty variant: a box of even height gets as many lines as an odd one.
SramFromSameForEven(x, r) == x - r - IF legacy_debug_tui THEN 0 ELSE Upper(x, r)

\* The first cell; boxes of even height have one line less than 2 r + 1.
SramFrom(x, r) ==
    x - r - IF legacy_debug_tui THEN 0 ELSE Upper(x, r) - (screen.height % 2)

\* Faulty variant: the vectors end one cell later than the code begins.
SramSectionsOverlap(from, to) ==
    Cells(Max({0, from}), Min({to, ivt_size}), "number")
    \o Cells(Max({ivt_size, from}), Min({to, num_instrs - 1}), "instruction")
    \o Cells(Max({num_instrs, from}), Min({to, sram_size - 1}), "number")

\* print_sram_watchobject: interrupt vectors, instructions, data.
SramSections(from, to) ==
    Cells(Max({0, from}), Min({to, ivt_size - 1}), "number")
    \o Cells(Max({ivt_size, from}), Min({to, num_instrs - 1}), "instruction")
    \o Cells(Max({num_instrs, from}), Min({to, sram_size - 1}), "number")

SramCells(value, r) ==
    LET x == value % (2 * INDEX)
    IN  IF (value \div (2 * INDEX)) % 2 = 0 THEN <<>>
        ELSE SramSections(SramFrom(x, r), x + r + IF legacy_debug_tui THEN 0 ELSE Lower(x, r))

\* write_text_into_box stops at the lower border.
Lines(box) ==
    LET cells == IF box = "EPROM" THEN EpromCells(screen.value[box], Radius(box))
                 ELSE SramCells(screen.value[box], Radius(box))
    IN  IF legacy_debug_tui THEN cells
        ELSE SubSeq(cells, 1, Min({Len(cells), Max({0, BoxHeight(box) - 2})}))

\* reg_to_mem_pntr: the registers whose arrows a line has.
Arrows(box, idx) ==
    {reg \in Registers :
        IF box = "EPROM"
        THEN screen.regs[reg] \div INDEX = 0 /\ screen.regs[reg] % INDEX = idx
        ELSE screen.regs[reg] \div INDEX \in {2, 3} /\ screen.regs[reg] % (2 * INDEX) = idx}

----------------------------------------------------------------------------
FirstWatchobject ==
    [box \in Boxes |-> CASE box = "SRAM_D" -> "DS" [] box = "SRAM_S" -> "SP"
                         [] OTHER -> "PC"]

\* breakpoint_encountered is set at first: the debugger has drawn.
Init ==
    /\ legacy_debug_tui \in BOOLEAN
    /\ at = "command"
    /\ regs = [reg \in Registers |-> 0]
    /\ term_height \in Heights
    /\ watchobject = FirstWatchobject
    /\ watchobject_addr = Invalid
    /\ screen = Picture
    /\ assigned = [box \in Boxes |-> [object |-> FirstWatchobject[box], typed |-> Invalid]]
    /\ assigns = 0

\* The program runs, without the debugger; a timer interrupt draws.
Run(drawing) ==
    /\ at = "running"
    /\ regs' \in RegStates
    /\ UNCHANGED <<legacy_debug_tui, at, term_height, watchobject, watchobject_addr,
                   assigned, assigns>>
    /\ IF drawing THEN draw_tui ELSE UNCHANGED screen

\* interpr_prgrm: visibility_condition holds.
ShowDebugger ==
    /\ at = "running"
    /\ at' = "command"
    /\ term_height' \in Heights
    /\ UNCHANGED <<legacy_debug_tui, regs, watchobject, watchobject_addr, assigned, assigns>>
    /\ draw_tui

\* A command that lets the program go on.
KeyGo ==
    /\ at = "command"
    /\ at' = "running"
    /\ UNCHANGED <<legacy_debug_tui, regs, term_height, watchobject, watchobject_addr,
                   screen, assigned, assigns>>

KeyRestart ==
    /\ at = "command"
    /\ regs' = [reg \in Registers |-> 0]
    /\ UNCHANGED <<legacy_debug_tui, at, term_height, watchobject, watchobject_addr,
                   assigned, assigns>>
    /\ draw_tui

\* 't' starts the keypress routine, PC and SP change; the user steps into it.
KeyTrigger ==
    /\ at = "command"
    /\ \E after \in RegStates : regs' = [regs EXCEPT !["PC"] = after["PC"], !["SP"] = after["SP"]]
    /\ UNCHANGED <<legacy_debug_tui, at, term_height, watchobject, watchobject_addr,
                   assigned, assigns>>
    /\ draw_tui

\* Faulty variant: the second menu's CANCEL2 is taken for a register.
AssignCancelledUnchecked ==
    /\ at = "command"
    /\ ~legacy_debug_tui
    /\ \E box \in Boxes : watchobject' = [watchobject EXCEPT ![box] = "Cancel"]
    /\ UNCHANGED <<legacy_debug_tui, at, regs, term_height, watchobject_addr, screen,
                   assigned, assigns>>

\* 'a', left with Escape; the plain interface has no way out.
AssignCancelled ==
    /\ at = "command"
    /\ ~legacy_debug_tui
    /\ UNCHANGED <<legacy_debug_tui, at, regs, term_height, watchobject, watchobject_addr,
                   assigned, assigns>>
    /\ draw_tui

\* ask_for_user_decision: the plain interface compares two characters.
Decision(named) == IF legacy_debug_tui /\ named = "IN2" THEN "IN1" ELSE named

\* The two questions, and for an address a third one, have been answered.
Assigning(named, typed) ==
    /\ at = "command"
    /\ assigns < MaxAssigns
    /\ assigns' = assigns + 1
    /\ watchobject_addr' = IF Decision(named) = ADDRESS THEN typed ELSE watchobject_addr
    /\ UNCHANGED <<legacy_debug_tui, at, regs, term_height>>

Proposed(box, named) == [watchobject EXCEPT ![box] = Decision(named)]

\* Faulty variant: a watchobject that could not be drawn is kept.
AssignRefusedKept(box, named, typed) ==
    /\ Assigning(named, typed)
    /\ ~Drawable(Proposed(box, named), watchobject_addr')
    /\ watchobject' = Proposed(box, named)
    /\ UNCHANGED <<screen, assigned>>

\* draw_tui fails and the box gets its watchobject back; what was typed stays.
AssignRefused(box, named, typed) ==
    /\ Assigning(named, typed)
    /\ ~Drawable(Proposed(box, named), watchobject_addr')
    /\ UNCHANGED <<watchobject, screen, assigned>>

Assign(box, named, typed) ==
    /\ Assigning(named, typed)
    /\ Drawable(Proposed(box, named), watchobject_addr')
    /\ watchobject' = Proposed(box, named)
    /\ assigned' = [assigned EXCEPT ![box] = [object |-> named, typed |-> typed]]
    /\ draw_tui

Next ==
    \/ \E drawing \in BOOLEAN : Run(drawing)
    \/ ShowDebugger \/ KeyGo \/ KeyRestart \/ KeyTrigger \/ AssignCancelled
    \/ \E box \in Boxes, named \in Registers \cup {ADDRESS} :
          \E typed \in IF named = ADDRESS THEN Typed \cup {Invalid} ELSE {Invalid} :
             Assign(box, named, typed) \/ AssignRefused(box, named, typed)

Spec == Init /\ [][Next]_vars

----------------------------------------------------------------------------
TypeOK ==
    /\ legacy_debug_tui \in BOOLEAN
    /\ at \in {"running", "command"}
    /\ regs \in [Registers -> 0 .. 4 * INDEX - 1]
    /\ term_height \in Heights
    /\ watchobject \in [Boxes -> Registers \cup {ADDRESS}]
    /\ watchobject_addr \in Typed \cup {Invalid}
    /\ assigned \in [Boxes -> [object : Registers \cup {ADDRESS}, typed : Typed \cup {Invalid}]]

MemorySize(box) == IF box = "EPROM" THEN EPROM_SIZE ELSE sram_size

HoldsInstruction(box, idx) ==
    IF box = "EPROM" THEN idx < num_instrs_start_prgrm
    ELSE ivt_size <= idx /\ idx < num_instrs

\* An address outside the EPROM that print_eprom_watchobject does not turn
\* away, because its upper two bits are 0, and from which U16 takes bits.
\* The box then lists cells that have nothing to do with it, some of them
\* by both loops.
Truncated(box) == box = "EPROM" /\ screen.value[box] \in U16_SIZE .. INDEX - 1

(* The two or three loops that print a box list one window: each cell once, *)
(* in order, none left out between them, instructions as instructions and  *)
(* vectors and data as numbers.  In the EPROM's box this holds of addresses *)
(* below 2^16 only, and of those that list nothing.                        *)
WindowsAreWhole ==
    \A box \in Boxes : LET lines == Lines(box) IN ~Truncated(box) =>
        \A i \in 1 .. Len(lines) :
            /\ lines[i].idx \in 0 .. MemorySize(box) - 1
            /\ lines[i].as = "instruction" <=> HoldsInstruction(box, lines[i].idx)
            /\ i > 1 => lines[i].idx = lines[i - 1].idx + 1

\* The cell of its memory that a word addresses, as read_storage decodes it.
InBox(box, word) ==
    IF box = "EPROM" THEN word < EPROM_SIZE
    ELSE word >= 2 * INDEX /\ word - 2 * INDEX < sram_size

(* README: a watchobject shows the cells around the address its register   *)
(* holds.  The cell itself is always among the lines that fit the box,     *)
(* also at both ends of the memory, and has the register's arrow.          *)
WatchedCellShown ==
    \A box \in Boxes :
        LET reg == screen.title[box]
            word == screen.value[box]
            lines == Lines(box)
        IN  reg # ADDRESS /\ InBox(box, word) /\ (legacy_debug_tui \/ BoxHeight(box) > 2) =>
                \E i \in 1 .. Len(lines) :
                    lines[i].idx = word % (2 * INDEX) /\ reg \in Arrows(box, lines[i].idx)

\* What a user who knows only what was accepted expects to see.
Expected ==
    [regs |-> regs, height |-> term_height,
     title |-> [box \in Boxes |-> assigned[box].object],
     value |-> [box \in Boxes |->
                  IF assigned[box].object # ADDRESS THEN regs[assigned[box].object]
                  ELSE assigned[box].typed + IF box = "EPROM" THEN 0 ELSE 2 * INDEX]]

\* IN2 cannot be named in the plain interface (see Decision).
Nameable(object) == legacy_debug_tui => object # "IN2"

(* Whenever the debugger waits for a command, the screen shows the present *)
(* state under the assignments that were accepted, whatever was cancelled, *)
(* refused or run since; here for assignments of registers.                *)
ScreenIsCurrent ==
    /\ at = "command"
    /\ \A box \in Boxes : assigned[box].object # ADDRESS /\ Nameable(assigned[box].object)
    => screen = Expected

(* README: a watchobject's address is given by the register, or by the     *)
(* memory address, that was assigned to this watchobject before.           *)
AssignedIsShown ==
    /\ at = "command"
    /\ \A box \in Boxes : Nameable(assigned[box].object)
    => screen = Expected
=============================================================================
