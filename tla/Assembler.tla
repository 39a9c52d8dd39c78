----------------------------- MODULE Assembler -----------------------------
(***************************************************************************)
(* The assembler and the disassembler (assemble.c) with the checks of      *)
(* error.c.  A line of a program is an opcode, as get_mnemonic returns it, *)
(* and three operands: the code of a register name, the number that an     *)
(* immediate stands for, or nothing.                                       *)
(***************************************************************************)
EXTENDS Words, Sequences

\* Eight operations with an immediate, with a register, with a memory cell.
ComputeI == 0 .. 7
ComputeR == 8 .. 15
ComputeM == 16 .. 23
ADDI == 0
SUBI == 1
MULTI == 2
DIVI == 3
MODI == 4
OPLUSI == 5
ORI == 6
ANDI == 7
ADD == 8
LOAD == 32
LOADIN == 40
LOADI == 56
STORE == 64
STOREIN == 72
MOVE == 88
NOP == 96
INT == 97
RTI == 98
JUMPGT == 100
JUMPEQ == 104
JUMPGE == 108
JUMPLT == 112
JUMPNE == 116
JUMPLE == 120
JUMP == 124
IVTE == 128
IVTEDP == 129
Jumps == {JUMPGT, JUMPEQ, JUMPGE, JUMPLT, JUMPNE, JUMPLE, JUMP}
Opcodes == ComputeI \cup ComputeR \cup ComputeM \cup Jumps
           \cup {LOAD, LOADIN, LOADI, STORE, STOREIN, MOVE, NOP, INT, RTI}

Reg(code) == [reg |-> code]
Im(n) == [im |-> n]
Empty == [empty |-> TRUE]
Line(op, opd1, opd2, opd3) == [op |-> op, opd |-> <<opd1, opd2, opd3>>]
IsReg(opd) == DOMAIN opd = {"reg"}
IsIm(opd) == DOMAIN opd = {"im"}
IsEmpty(opd) == DOMAIN opd = {"empty"}

\* get_register_code: the registers of the CPU, then the devices, which are
\* written like registers.
PC == 0
IN1 == 1
IN2 == 2
ACC == 3
SP == 4
BAF == 5
CS == 6
DS == 7
INTTIMER == 8
UARTREC == 9
KEYPRESS == 11
Registers == PC .. DS
Names == PC .. KEYPRESS

\* What a line can be that get_mnemonic, get_register_code and get_im take
\* from a text.
IsOperand(opd) ==
    \/ IsReg(opd) /\ opd = Reg(opd.reg) /\ opd.reg \in Names
    \/ IsIm(opd) /\ opd = Im(opd.im) /\ opd.im \in Int
    \/ opd = Empty
IsLine(line) ==
    /\ line = Line(line.op, line.opd[1], line.opd[2], line.opd[3])
    /\ line.op \in (Opcodes \ ComputeM) \cup {IVTE}
    /\ \A k \in 1 .. 3 : IsOperand(line.opd[k])

----------------------------------------------------------------------------
\* ADD r i is ADD with a memory cell if i begins with a digit; IVTE with a
\* second operand is the entry of a device.
FinalOp(line) ==
    IF line.op \in ComputeR /\ IsIm(line.opd[2]) /\ line.opd[2].im >= 0 THEN line.op + 8
    ELSE IF line.op = IVTE /\ line.opd[2] # Empty THEN IVTEDP
    ELSE line.op

\* check_instr: the kinds of the operands.
Shape(op) ==
    CASE op \in ComputeI \cup ComputeM \cup {LOAD, LOADI, STORE} -> <<"reg", "im", "empty">>
      [] op \in ComputeR \cup {MOVE} -> <<"reg", "reg", "empty">>
      [] op \in {LOADIN, STOREIN} -> <<"reg", "reg", "im">>
      [] op \in Jumps \cup {INT, IVTE} -> <<"im", "empty", "empty">>
      [] op = IVTEDP -> <<"im", "reg", "im">>
      [] op \in {NOP, RTI} -> <<"empty", "empty", "empty">>

\* check_im
ImInRange(op, n) ==
    IF op \in ComputeM \cup {LOAD, STORE} THEN n \in 0 .. 2^22 - 1
    ELSE n \in -2^21 .. 2^21 - 1

\* The line is assembled, not refused.
Accepted(line) ==
    \A k \in 1 .. 3 :
        /\ DOMAIN line.opd[k] = {Shape(FinalOp(line))[k]}
        /\ IsIm(line.opd[k]) => ImInRange(FinalOp(line), line.opd[k].im)

OperandWord(opd) ==
    IF IsReg(opd) THEN FromNat(opd.reg)
    ELSE IF IsIm(opd) THEN Low(FromInt(opd.im), 22)
    ELSE {}

\* How far each operand is shifted.
Positions(op) ==
    CASE op \in ComputeI \cup ComputeM \cup {LOAD, LOADI} -> <<22, 0, 0>>
      [] op \in ComputeR -> <<22, 19, 0>>
      [] op \in {LOADIN, MOVE} -> <<25, 22, 0>>
      [] op = STORE -> <<25, 0, 0>>
      [] op = STOREIN -> <<22, 25, 0>>
      [] OTHER -> <<0, 0, 0>>

\* The word an accepted line becomes; a vector is an address in SRAM.
assembly_to_machine(line) ==
    LET op == FinalOp(line)
        Operand(k) == Shl(OperandWord(line.opd[k]), Positions(op)[k])
    IN  IF op \in {IVTE, IVTEDP} THEN {31} \cup Operand(1)
        ELSE Shl(FromNat(op), 25) \cup Operand(1) \cup Operand(2) \cup Operand(3)

----------------------------------------------------------------------------
\* The opcode lies in seven bits, of which those of loads and stores have
\* four, followed by the code of a register.
OpOf(w) ==
    IF ToNat(Shr(w, 30)) \in {1, 2} THEN 8 * ToNat(Shr(w, 28)) ELSE ToNat(Shr(w, 25))

\* Other words end the emulator when they are executed.
Decodable(w) == OpOf(w) \in Opcodes

\* Faulty variant: immediates are never sign extended.
ImmediateUnsigned(w) == Low(w, 22)

Immediate(w) ==
    IF OpOf(w) \in ComputeM \cup {LOAD, STORE, INT} THEN Low(w, 22) ELSE SignExtended(w)

machine_to_assembly(w) ==
    LET op == OpOf(w)
        reg(position) == Field(w, position, 3)
    IN  [op |-> op,
         opd |-> CASE op \in ComputeI \cup ComputeM \cup {LOAD, LOADI} -> <<reg(22), Immediate(w)>>
                   [] op \in ComputeR -> <<reg(22), reg(19)>>
                   [] op = LOADIN -> <<reg(25), reg(22), Immediate(w)>>
                   [] op = STORE -> <<reg(25), Immediate(w)>>
                   [] op = STOREIN -> <<reg(22), reg(25), Immediate(w)>>
                   [] op = MOVE -> <<reg(25), reg(22)>>
                   [] op \in Jumps \cup {INT} -> <<Immediate(w)>>
                   [] op \in {NOP, RTI} -> <<>>]

\* Faulty variant: the mnemonics of the operations with an immediate.
ShownOpImmediate(op) == IF op \in ComputeM THEN op - 16 ELSE op

\* assembly_to_str, of a decoded word: the line the debugger shows for it.
\* The operations with a memory cell have the mnemonics of those with a
\* register, the immediate is printed as an int.
ShownOp(op) == IF op \in ComputeM THEN op - 8 ELSE op

assembly_to_str(shown) ==
    LET Opd(k) == IF k > Len(shown.opd) THEN Empty
                  ELSE IF Shape(shown.op)[k] = "reg" THEN Reg(ToNat(shown.opd[k]))
                  ELSE Im(ToInt(shown.opd[k]))
    IN  Line(ShownOp(shown.op), Opd(1), Opd(2), Opd(3))
=============================================================================
