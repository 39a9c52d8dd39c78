---------------------------- MODULE MCDebugView ----------------------------
(* Words of a small machine: an EPROM of 40 cells of which 14 are the      *)
(* start program, an SRAM of 100 cells with 3 vectors and 20 instructions. *)
(* The registers point to both ends of the memories and of their sections, *)
(* behind them, to the UART, to an SRAM address with its bit 30 set, and   *)
(* to an address that uint16_t cannot count.                               *)
EXTENDS DebugView

MCFile(pc, in1, in2, sp, ds) ==
    [reg \in Registers |-> CASE reg = "PC" -> pc [] reg = "IN1" -> in1 [] reg = "IN2" -> in2
                             [] reg = "SP" -> sp [] OTHER -> ds]

Sram(idx) == 2 * INDEX + idx

MCRegStates ==
    {MCFile(0, 0, 1, Sram(99), Sram(19)),
     MCFile(13, U16_SIZE + 5, 14, Sram(98), Sram(20)),
     MCFile(39, 40, INDEX + 1, Sram(100), Sram(3)),
     MCFile(Sram(0), Sram(2), Sram(1), Sram(0), Sram(30)),
     MCFile(Sram(3), 2, Sram(99), 3 * INDEX + 1, INDEX)}

=============================================================================
