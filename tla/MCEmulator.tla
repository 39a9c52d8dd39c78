----------------------------- MODULE MCEmulator -----------------------------
(* Two devices and one or two software interrupts.  Service routine 0 is   *)
(* the timer's, 1 the keypress's and 2 that of INT 2.  Three addresses are *)
(* the fewest that tell PC - 1, PC and PC + 1 apart.                       *)
EXTENDS Emulator

KeypressFirst == (0 :> 1) @@ (1 :> 2)
TimerFirst == (0 :> 2) @@ (1 :> 1)

MCivt == [i \in Isrs \cup SoftIsrs |-> 1]

AllKeys == {"n", "c", "r", "s", "f", "t", "q"}

=============================================================================
