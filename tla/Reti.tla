-------------------------------- MODULE Reti --------------------------------
(***************************************************************************)
(* From the text of the programs to the first steps of the loaded program: *)
(* main loads the service routines and the program into SRAM               *)
(* (parse_instrs.c), the assembler fills the tables of interrupts on the   *)
(* way (assemble.c), the EPROM gets its start program, and the CPU runs it *)
(* (reti.c, interpr.c).  Devices and interrupts are in Emulator and Uart.  *)
(***************************************************************************)
EXTENDS Assembler, FiniteSets

CONSTANTS
    IsrLines,             \* lines that occur in the file of service routines,
    PrgrmLines,           \* in the program,
    EpromLines,           \* and in an EPROM program
    Gaps,                 \* bound: numbers of NOPs between them
    MaxIsrItems,          \* bound: lines and gaps in the first file,
    MaxItems,             \* bound: and up to the next ones
    MaxCells,             \* bound: cells of SRAM in use when INT is executed
    SramSizes,            \* values of the SRAM size option
    ds_address_extension, \* option -D
    MAX_VAL_ISR,          \* 255
    Unknown               \* words a cell may hold that nothing was written to

ASSUME RetiAssumption ==
    /\ \A line \in IsrLines \cup PrgrmLines \cup EpromLines : IsLine(line)
    /\ Gaps \subseteq Nat \ {0} /\ MaxIsrItems \in Nat /\ MaxItems \in Nat
    /\ MaxCells \in Nat
    /\ SramSizes \subseteq Nat
    /\ ds_address_extension \in BOOLEAN
    /\ MAX_VAL_ISR \in 1 .. 255
    /\ Unknown \subseteq Word

VARIABLES
    sram_size, eprom_given,   \* options
    phase,                    \* the file main() loads, then what the CPU does
    i,                        \* next address, in parse_and_load_program
    items,
    source,                   \* the line each address of SRAM was loaded from
    sram,                     \* the cells written so far
    eprom,
    num_instrs_isrs, num_instrs_prgrm, ivt_max_idx,
    isr_num, isr_to_prio, device_to_isr,
    isr_of_timer_interrupt, isr_of_keypress_interrupt,
    interrupt_timer_active, keypress_interrupt_activatable,
    regs

\* A table with one entry, and a table with one entry more or another value
\* for it.
Only(key, value) == [k \in {key} |-> value]
Put(table, key, value) ==
    [k \in DOMAIN table \cup {key} |-> IF k = key THEN value ELSE table[k]]

options == <<sram_size, eprom_given>>
sizes == <<num_instrs_isrs, num_instrs_prgrm>>
ofDevices == <<isr_to_prio, device_to_isr, isr_of_timer_interrupt, isr_of_keypress_interrupt,
               interrupt_timer_active, keypress_interrupt_activatable>>
loader == <<i, items, source, sizes, ivt_max_idx, isr_num, ofDevices>>
vars == <<options, phase, loader, sram, eprom, regs>>

Init ==
    /\ sram_size \in SramSizes /\ eprom_given \in BOOLEAN
    /\ phase = "isrs"
    /\ i = 0 /\ items = 0
    /\ source = <<>> /\ sram = <<>> /\ eprom = <<>>
    /\ num_instrs_isrs = 0 /\ num_instrs_prgrm = 0 /\ ivt_max_idx = -1
    /\ isr_num = 0
    /\ isr_to_prio = <<>> /\ device_to_isr = [d \in INTTIMER .. KEYPRESS |-> 0]
    /\ isr_of_timer_interrupt = MAX_VAL_ISR /\ isr_of_keypress_interrupt = MAX_VAL_ISR
    /\ interrupt_timer_active = FALSE /\ keypress_interrupt_activatable = FALSE
    /\ regs = [r \in Registers |-> {}]

----------------------------------------------------------------------------
\* Loading.

\* Bound: the addresses of SRAM.
SramEnd == 2^30 + (2^30 - 1)

Loading ==
    /\ phase \in {"isrs", "prgrm", "eprom"}
    /\ items < IF phase = "isrs" THEN MaxIsrItems ELSE MaxItems

Lines ==
    CASE phase = "isrs" -> IsrLines [] phase = "prgrm" -> PrgrmLines
      [] phase = "eprom" -> EpromLines

IsEntry(line) == FinalOp(line) \in {IVTE, IVTEDP}
IsDeviceEntry(line) == FinalOp(line) = IVTEDP

\* An entry takes the next interrupt number; there may not be too many.
NumberedEntries(line) == isr_num + (IF IsEntry(line) THEN 1 ELSE 0)

\* Faulty variant: the check comes one entry late.
LoadableOneMore(line) ==
    /\ Accepted(line)
    /\ IsDeviceEntry(line) => line.opd[2].reg \in {INTTIMER, KEYPRESS}
    /\ NumberedEntries(line) <= MAX_VAL_ISR

Loadable(line) ==
    /\ Accepted(line)
    /\ IsDeviceEntry(line) => line.opd[2].reg \in {INTTIMER, KEYPRESS}
    /\ NumberedEntries(line) # MAX_VAL_ISR

\* Faulty variant: the number after that of the entry.
NextIsr == isr_num + 1

\* isr_num - 1, after the entry has been counted.
NewIsr == isr_num

\* What the entry of a device leaves besides its word.
AssignDevice(line) ==
    LET device == line.opd[2].reg
    IN  IF IsDeviceEntry(line)
        THEN /\ device_to_isr' = [device_to_isr EXCEPT ![device] = NewIsr]
             /\ isr_to_prio' = Put(isr_to_prio, NewIsr, line.opd[3].im % 256)
             /\ IF device = INTTIMER
                THEN /\ interrupt_timer_active' = TRUE
                     /\ isr_of_timer_interrupt' = NewIsr
                     /\ UNCHANGED <<keypress_interrupt_activatable, isr_of_keypress_interrupt>>
                ELSE /\ keypress_interrupt_activatable' = TRUE
                     /\ isr_of_keypress_interrupt' = NewIsr
                     /\ UNCHANGED <<interrupt_timer_active, isr_of_timer_interrupt>>
        ELSE UNCHANGED ofDevices

Write(memory, n, w) == Put(memory, FromNat(n), w)

LoadLine(line) ==
    /\ Loading /\ Loadable(line)
    /\ i + 1 <= SramEnd
    /\ i' = i + 1 /\ items' = items + 1
    /\ isr_num' = NumberedEntries(line)
    /\ AssignDevice(line)
    /\ ivt_max_idx' = IF phase = "isrs" /\ line.op = IVTE THEN i ELSE ivt_max_idx
    /\ IF phase = "eprom"
       THEN /\ eprom' = Append(eprom, assembly_to_machine(line))
            /\ UNCHANGED <<sram, source>>
       ELSE /\ sram' = Write(sram, i, assembly_to_machine(line))
            /\ source' = Put(source, i, line)
            /\ UNCHANGED eprom
    /\ UNCHANGED <<options, phase, sizes, regs>>

\* A refused line ends the emulator.
RefuseLine(line) ==
    /\ Loading /\ ~ Loadable(line)
    /\ phase' = "failed"
    /\ UNCHANGED <<options, loader, sram, eprom, regs>>

\* parse_instr skips the spaces before a mnemonic, but a tab there ends the
\* mnemonic, which is empty then.  Like a comment, an empty line or one that
\* does not begin with a letter, such a line is passed over.
PassOver ==
    /\ Loading
    /\ items' = items + 1
    /\ UNCHANGED <<options, phase, i, source, sizes, ivt_max_idx, isr_num, ofDevices,
                   sram, eprom, regs>>

\* n NOPs, whose words are left out.
LoadGap(n) ==
    /\ Loading /\ phase # "eprom"
    /\ i + n <= SramEnd
    /\ i' = i + n /\ items' = items + 1
    /\ UNCHANGED <<options, phase, source, sizes, ivt_max_idx, isr_num, ofDevices,
                   sram, eprom, regs>>

----------------------------------------------------------------------------
\* load_adjusted_eprom_prgrm: no instruction holds a 32-bit number, so it is
\* loaded as its upper 22 bits, with sign, times 1024 and its lower 10 bits.
UpperUnsigned(w) == ToNat(Shr(w, 10)) \* faulty: not sign extended
Upper(w) == ToInt(SignExtended(Shr(w, 10)))
Lower(w) == ToNat(Low(w, 10))
LoadNumber(r, w) ==
    << Line(LOADI, Reg(r), Im(Upper(w)), Empty),
       Line(MULTI, Reg(r), Im(1024), Empty),
       Line(ORI, Reg(r), Im(Lower(w)), Empty) >>
Move(from, to) == << Line(MOVE, Reg(from), Reg(to), Empty) >>

StartProgram ==
    LoadNumber(SP, {31} \cup FromInt(sram_size - 1)) \o Move(SP, BAF)
    \o LoadNumber(CS, {31} \cup FromNat(num_instrs_isrs)) \o Move(CS, DS)
    \o LoadNumber(ACC, FromNat(num_instrs_prgrm))
    \o << Line(ADD, Reg(DS), Reg(ACC), Empty), Line(LOADI, Reg(ACC), Im(0), Empty) >>
    \o Move(CS, PC)

\* The end of a file; after the last one the CPU starts.
EndIsrs ==
    /\ phase = "isrs"
    /\ num_instrs_isrs' = i
    /\ phase' = "prgrm"
    /\ UNCHANGED <<options, i, items, source, num_instrs_prgrm, ivt_max_idx, isr_num,
                   ofDevices, sram, eprom, regs>>

EndPrgrm ==
    /\ phase = "prgrm"
    /\ num_instrs_prgrm' = i - num_instrs_isrs
    /\ i' = 0
    /\ phase' = IF eprom_given THEN "eprom" ELSE "generate"
    /\ UNCHANGED <<options, items, source, num_instrs_isrs, ivt_max_idx, isr_num, ofDevices,
                   sram, eprom, regs>>

EndEprom ==
    /\ phase = "eprom"
    /\ phase' = "boot"
    /\ UNCHANGED <<options, loader, sram, eprom, regs>>

GenerateEprom ==
    /\ phase = "generate"
    /\ IF \A k \in DOMAIN StartProgram : Accepted(StartProgram[k])
       THEN /\ eprom' = [k \in DOMAIN StartProgram |-> assembly_to_machine(StartProgram[k])]
            /\ phase' = "boot"
       ELSE phase' = "failed" /\ UNCHANGED eprom
    /\ UNCHANGED <<options, loader, sram, regs>>

Load ==
    \/ Loading /\ \E line \in Lines : LoadLine(line) \/ RefuseLine(line)
    \/ PassOver
    \/ \E n \in Gaps : LoadGap(n)
    \/ EndIsrs \/ EndPrgrm \/ EndEprom \/ GenerateEprom

----------------------------------------------------------------------------
\* Storage: the two upper bits of an address select EPROM, UART or SRAM.
InEprom(a) == {30, 31} \cap a = {}
InUart(a) == {30, 31} \cap a = {30}
EpromIndex(a) == ToNat(Low(a, 16)) + 1
Cell(a) == Low(a, 31)

\* read_storage, where "unknown" stands for what cannot be known here: the
\* registers of the UART, cells never written.
ReadFrom(rom, ram, a, unknown) ==
    IF InEprom(a)
    THEN IF EpromIndex(a) \in DOMAIN rom THEN rom[EpromIndex(a)] ELSE unknown
    ELSE IF InUart(a) THEN Low(unknown, 8)
    ELSE IF Cell(a) \in DOMAIN ram THEN ram[Cell(a)] ELSE unknown
read_storage(a, unknown) == ReadFrom(eprom, sram, a, unknown)

\* write_storage; a write beyond the end of the EPROM is not followed.
write_storage(a, w) ==
    IF InEprom(a)
    THEN /\ EpromIndex(a) \in DOMAIN eprom
         /\ eprom' = [eprom EXCEPT ![EpromIndex(a)] = w]
         /\ UNCHANGED sram
    ELSE /\ sram' = IF InUart(a) THEN sram ELSE Put(sram, Cell(a), w)
         /\ UNCHANGED eprom

UpperOf(w) == {b \in w : b >= 22}

\* Faulty variant: loads add the DS register, whatever the option.
LoadAddressAdded(im) == Plus(im, regs[DS])

\* read_storage_fill
LoadAddress(im) ==
    IF ds_address_extension THEN im \cup UpperOf(regs[DS]) ELSE Plus(im, regs[DS])

\* write_storage_ds_fill: whatever the option.
StoreAddress(im) == im \cup UpperOf(regs[DS])

\* setup_interrupt reads its vector from the start of SRAM.
VectorAddress(im) == im \cup {31}

----------------------------------------------------------------------------
\* The CPU.  An instruction is fetched as long as PC is at a known cell.
Running == phase \in {"boot", "run"}

Fetchable ==
    LET a == regs[PC]
    IN  IF InEprom(a) THEN EpromIndex(a) \in DOMAIN eprom
        ELSE ~ InUart(a) /\ Cell(a) \in DOMAIN sram

Fetched == read_storage(regs[PC], {})
instr == machine_to_assembly(Fetched)
R(k) == ToNat(instr.opd[k])
Value(k) == regs[R(k)]

\* Set registers; PC goes on unless it is set.
Advanced(new) == IF PC \in DOMAIN new THEN new ELSE Put(new, PC, Plus(regs[PC], {0}))
SetRegs(new) ==
    /\ regs' = [r \in Registers |->
                   IF r \in DOMAIN Advanced(new) THEN Advanced(new)[r] ELSE regs[r]]
    /\ phase' = IF 31 \in regs'[PC] THEN "run" ELSE phase
    /\ UNCHANGED <<options, loader>>

Fetch(ops) == Running /\ Fetchable /\ Decodable(Fetched) /\ instr.op \in ops

\* C truncates; mod() adds the divisor to a negative remainder.
Truncated(m, n) == m \div n + (IF m < 0 /\ m % n # 0 THEN 1 ELSE 0)
Quotient(m, n) == IF n < 0 THEN -Truncated(m, -n) ELSE Truncated(m, n)
Remainder(m, n) == m - n * Quotient(m, n) \* faulty: the % of C
Modulo(m, n) == LET r == m - n * Quotient(m, n) IN IF r < 0 THEN r + n ELSE r

Operation(op, v, w) ==
    CASE op % 8 = ADDI -> Plus(v, w)
      [] op % 8 = SUBI -> Minus(v, w)
      [] op % 8 = MULTI -> Times(v, w)
      [] op % 8 = DIVI -> FromInt(Quotient(ToInt(v), ToInt(w)))
      [] op % 8 = MODI -> FromInt(Modulo(ToInt(v), ToInt(w)))
      [] op % 8 = OPLUSI -> Xor(v, w)
      [] op % 8 = ORI -> v \cup w
      [] op % 8 = ANDI -> v \cap w

\* The bitwise operations take their immediate without its sign.
SecondOperand(unknown) ==
    CASE instr.op \in ComputeI -> IF instr.op >= OPLUSI THEN Low(instr.opd[2], 22) ELSE instr.opd[2]
      [] instr.op \in ComputeR -> Value(2)
      [] instr.op \in ComputeM -> read_storage(LoadAddress(instr.opd[2]), unknown)

\* Division by 0 is an error; in mod(), and -2^31 / -1, the host traps.
Divides(op, v, w) ==
    op % 8 \in {DIVI, MODI} => w # {} /\ ~ (v = {31} /\ w = Bits)

Compute ==
    /\ Fetch(ComputeI \cup ComputeR \cup ComputeM)
    /\ \E unknown \in Unknown :
          /\ Divides(instr.op, Value(1), SecondOperand(unknown))
          /\ SetRegs(Only(R(1), Operation(instr.op, Value(1), SecondOperand(unknown))))
    /\ UNCHANGED <<sram, eprom>>

\* LOAD r i, LOADIN r s i, LOADI r i, MOVE r s
Transfer ==
    /\ Fetch({LOAD, LOADIN, LOADI, MOVE})
    /\ \E unknown \in Unknown :
          SetRegs(CASE instr.op = LOAD ->
                         Only(R(1), read_storage(LoadAddress(instr.opd[2]), unknown))
                    [] instr.op = LOADIN ->
                         Only(R(2), read_storage(Plus(Value(1), instr.opd[3]), unknown))
                    [] instr.op = LOADI -> Only(R(1), instr.opd[2])
                    [] instr.op = MOVE -> Only(R(2), Value(1)))
    /\ UNCHANGED <<sram, eprom>>

Store ==
    /\ Fetch({STORE, STOREIN})
    /\ IF instr.op = STORE
       THEN write_storage(StoreAddress(instr.opd[2]), Value(1))
       ELSE write_storage(Plus(Value(1), instr.opd[3]), Value(2))
    /\ SetRegs(<<>>)

Taken ==
    LET n == ToInt(regs[ACC])
    IN  CASE instr.op = JUMPGT -> n > 0  [] instr.op = JUMPEQ -> n = 0
          [] instr.op = JUMPGE -> n >= 0 [] instr.op = JUMPLT -> n < 0
          [] instr.op = JUMPNE -> n # 0  [] instr.op = JUMPLE -> n <= 0
          [] instr.op = JUMP -> TRUE

Jump ==
    /\ Fetch(Jumps \cup {NOP})
    /\ ~ (instr.op = JUMP /\ instr.opd[1] = {})
    /\ SetRegs(IF instr.op # NOP /\ Taken THEN Only(PC, Plus(regs[PC], instr.opd[1])) ELSE <<>>)
    /\ UNCHANGED <<sram, eprom>>

\* setup_interrupt: PC is pushed, the routine is entered by its vector.
Call ==
    /\ Fetch({INT}) /\ instr.opd[1] # {0, 1}
    /\ Cardinality(DOMAIN sram) <= MaxCells
    /\ write_storage(regs[SP], regs[PC])
    /\ \E unknown \in Unknown :
          SetRegs(Put(Only(SP, Minus(regs[SP], {0})), PC,
                      ReadFrom(eprom', sram', VectorAddress(instr.opd[1]), unknown)))

\* INT 3, the breakpoint
Breakpoint ==
    /\ Fetch({INT}) /\ instr.opd[1] = {0, 1}
    /\ SetRegs(<<>>)
    /\ UNCHANGED <<sram, eprom>>

\* return_from_interrupt, and on to the instruction behind INT.
Return ==
    /\ Fetch({RTI})
    /\ \E unknown \in Unknown :
          SetRegs(Put(Only(SP, Plus(regs[SP], {0})), PC,
                      Plus(read_storage(Plus(regs[SP], {0}), unknown), {0})))
    /\ UNCHANGED <<sram, eprom>>

\* JUMP 0, or a word that is no instruction, or a division that fails.
Stop ==
    /\ Running /\ Fetchable
    /\ \/ ~ Decodable(Fetched)
       \/ Decodable(Fetched) /\ instr.op = JUMP /\ instr.opd[1] = {}
       \/ /\ Decodable(Fetched) /\ instr.op \in ComputeI \cup ComputeR \cup ComputeM
          /\ \E unknown \in Unknown : ~ Divides(instr.op, Value(1), SecondOperand(unknown))
    /\ phase' = "stopped"
    /\ UNCHANGED <<options, loader, sram, eprom, regs>>

Cpu == Compute \/ Transfer \/ Store \/ Jump \/ Call \/ Breakpoint \/ Return \/ Stop

Next == Load \/ Cpu

Spec == Init /\ [][Next]_vars

----------------------------------------------------------------------------
TypeOK ==
    /\ phase \in {"isrs", "prgrm", "eprom", "generate", "boot", "run", "stopped", "failed"}
    /\ i \in Nat /\ num_instrs_isrs \in Nat /\ num_instrs_prgrm \in Nat
    /\ ivt_max_idx \in -1 .. num_instrs_isrs + i
    /\ isr_num \in 0 .. MAX_VAL_ISR - 1
    /\ \A n \in DOMAIN isr_to_prio : n \in 0 .. isr_num - 1 /\ isr_to_prio[n] \in 0 .. 255
    /\ regs \in [Registers -> Word]
    /\ \A c \in DOMAIN sram : sram[c] \in Word
    /\ \A k \in DOMAIN eprom : eprom[k] \in Word

\* Of the lines that are accepted these are the ones whose word says what the
\* line says.  Left out are an entry of the table, whose word is a vector and not
\* an instruction; a device named where a register belongs, whose fourth bit
\* changes the opcode; and INT with a negative number, which check_im accepts
\* down to -2097152, but which is read back without its sign.
Plain(line) ==
    /\ ~ IsEntry(line)
    /\ \A k \in 1 .. 3 : IsReg(line.opd[k]) => line.opd[k].reg \in Registers
    /\ line.op = INT => line.opd[1].im >= 0
OperandsSaid(line) ==
    [k \in {j \in 1 .. 3 : ~ IsEmpty(line.opd[j])} |->
        IF IsReg(line.opd[k]) THEN FromNat(line.opd[k].reg) ELSE FromInt(line.opd[k].im)]

\* Each word in SRAM of a plain line (that is, without the entries, the device
\* names and the negative INT above), from its fields at different places with different
\* extensions, is read as the line it was assembled from, also at the ends
\* of the ranges of its immediate.
LoadedAsWritten ==
    phase \in {"isrs", "prgrm"} =>
        \A a \in DOMAIN source :
            Plain(source[a]) =>
                machine_to_assembly(sram[FromNat(a)]) =
                    [op |-> FinalOp(source[a]), opd |-> OperandsSaid(source[a])]

\* The line that the debugger shows for the word of a plain line can be
\* assembled, and gives the same word again: the mnemonics that two opcodes
\* share, the signs and the order of the operands are those the assembler reads,
\* though the two directions have tables and cases of their own.  It is false of
\* what Plain leaves out: INT -1 is accepted and shown as INT 4194303, which the
\* assembler refuses.
ShownAsAssembled ==
    phase \in {"isrs", "prgrm"} =>
        \A a \in DOMAIN source :
            Plain(source[a]) =>
                LET w == sram[FromNat(a)]
                    shown == assembly_to_str(machine_to_assembly(w))
                IN  Accepted(shown) /\ assembly_to_machine(shown) = w

\* All entries are at the start of the service routines.
TableFirst ==
    LET entries == {a \in DOMAIN source : IsEntry(source[a])}
    IN  entries = 0 .. isr_num - 1

\* Interrupt numbers count the entries, vectors are found by address, and
\* priorities in a third table: if the table comes first, the interrupt that
\* a device raises is the entry naming the device, the vector read for it is
\* the one of that entry, and the priority is its priority.  No number is the
\* one that stands for "no interrupt".  (The CPU may overwrite the table, and
\* a negative vector is no address of SRAM.)
DeviceHasEntry(device, isr) ==
    isr # MAX_VAL_ISR =>
        /\ device_to_isr[device] = isr
        /\ isr \in DOMAIN source /\ isr \in DOMAIN isr_to_prio
        /\ source[isr].opd[2] = Reg(device)
        /\ isr_to_prio[isr] = source[isr].opd[3].im % 256
        /\ phase \notin {"boot", "run", "stopped"} /\ source[isr].opd[1].im >= 0 =>
             read_storage(VectorAddress(FromNat(isr)), {}) = {31} \cup FromNat(source[isr].opd[1].im)
DevicesHaveEntries ==
    TableFirst => /\ DeviceHasEntry(INTTIMER, isr_of_timer_interrupt)
                  /\ DeviceHasEntry(KEYPRESS, isr_of_keypress_interrupt)

\* The generated start program is made of numbers in their range and, when
\* it has run, leaves the CPU at the first instruction behind the service
\* routines, the data segment behind the program and the stack at the end of
\* SRAM, whatever the three sizes.
BootEntersProgram ==
    [][/\ phase = "generate" => phase' = "boot"
       /\ phase = "boot" /\ phase' = "run" /\ ~ eprom_given =>
            /\ regs'[PC] = {31} \cup FromNat(num_instrs_isrs)
            /\ regs'[CS] = regs'[PC]
            /\ regs'[DS] = {31} \cup FromNat(num_instrs_isrs + num_instrs_prgrm)
            /\ regs'[SP] = {31} \cup FromInt(sram_size - 1)
            /\ regs'[BAF] = regs'[SP]
            /\ regs'[ACC] = {} /\ regs'[IN1] = {} /\ regs'[IN2] = {}]_vars

\* The comment at mod(): the remainder of a division by a positive number is
\* the least number of its class that is not negative, also for a negative
\* dividend, for which C's own operator gives another.
RemainderInRange ==
    [][Compute /\ instr.op \in {MODI, ADD + MODI} /\ ToInt(SecondOperand({})) > 0 =>
         ToInt(regs'[R(1)]) = ToInt(Value(1)) % ToInt(SecondOperand({}))]_vars

\* README: -D uses the DS address extension instead of adding the register
\* DS.  Either way STORE and LOAD with the same parameter mean the same cell:
\* what STORE has put into SRAM a LOAD finds.
InSram(a) == ~ InEprom(a) /\ ~ InUart(a)
LoadReadsStored ==
    [][Store /\ instr.op = STORE /\ InSram(StoreAddress(instr.opd[2])) =>
         ReadFrom(eprom', sram', LoadAddress(instr.opd[2]), {}) = Value(1)]_vars
=============================================================================
