------------------------------- MODULE MCReti -------------------------------
(* Lines of every shape with immediates at the ends of their ranges, and   *)
(* some that are refused; gaps and sizes for which the numbers in the      *)
(* start program use their upper and their lower half.                     *)
EXTENDS Reti

Line0(op) == Line(op, Empty, Empty, Empty)
Line1(op, n) == Line(op, Im(n), Empty, Empty)
Line2(op, r, n) == Line(op, Reg(r), Im(n), Empty)
Line2R(op, r, s) == Line(op, Reg(r), Reg(s), Empty)
Entry(n, device, prio) == Line(IVTE, Im(n), Reg(device), Im(prio))

MCIsrLines ==
    { Line1(IVTE, 1), Entry(2097151, INTTIMER, 1), Entry(2, KEYPRESS, 257),
      Entry(0, UARTREC, 0), Line0(RTI), Line2(ADD, CS, 4194303) }

MCPrgrmLines ==
    { Line2(STORE, DS, 4194303), Line2(STORE, PC, 1), Line2(LOAD, IN1, 1),
      Line(STOREIN, Reg(BAF), Reg(SP), Im(-1)), Line(LOADIN, Reg(CS), Reg(IN2), Im(2097151)),
      Line2(ADDI, ACC, -2097152), Line2(DIVI, ACC, -1024), Line2(MODI, ACC, 3), Line2(ANDI, DS, -2),
      Line2R(ADD + SUBI, ACC, DS), Line2R(ADD + OPLUSI, ACC, DS), Line2R(ADD + MODI, CS, IN1),
      Line2R(MOVE, ACC, PC), Line2(LOADI, KEYPRESS, 5), Line2(LOADI, SP, 4194303),
      Line1(JUMP, 0), Line1(JUMPLT, 2), Line1(JUMPGE, -2097152), Line1(INT, 0), Line1(INT, 3),
      Line0(RTI) }

MCEpromLines == { Line2(LOADI, PC, -2097152), Line0(NOP), Line2(STORE, PC, 0) }

MCUnknown == {{}, {0, 5, 31}}
=============================================================================
