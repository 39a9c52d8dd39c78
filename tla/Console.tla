------------------------------ MODULE Console ------------------------------
(***************************************************************************)
(* What the drivers INT 0, INT 1 and INT 2 promise a program: a call       *)
(* prints its value once, or reads one word, and then returns.  How the    *)
(* value travels in packets is not visible here.                           *)
(***************************************************************************)
EXTENDS Sequences

CONSTANTS
    Prints,   \* what a program prints: integers and strings
    Inputs    \* the words that can be typed

VARIABLES
    request,  \* the call in progress: <<>>, or what is printed or read
    output,   \* what the terminal shows
    answers   \* what the calls of INT 2 have returned

Idle == [state |-> "idle"]
Printing(v) == [state |-> "printing", value |-> v]
Reading == [state |-> "reading"]
Done == [state |-> "done"]
Answered(w) == [state |-> "answered", value |-> w]

ConsoleInit ==
    /\ request = Idle
    /\ output = <<>>
    /\ answers = <<>>

Call ==
    /\ request = Idle
    /\ request' \in {Printing(v) : v \in Prints} \cup {Reading}
    /\ UNCHANGED <<output, answers>>

Show ==
    \E v \in Prints :
        /\ request = Printing(v)
        /\ request' = Done
        /\ output' = Append(output, v)
        /\ UNCHANGED answers

Type ==
    /\ request = Reading
    /\ request' \in {Answered(w) : w \in Inputs}
    /\ UNCHANGED <<output, answers>>

Return ==
    \/ /\ request = Done
       /\ request' = Idle
       /\ UNCHANGED <<output, answers>>
    \/ \E w \in Inputs :
           /\ request = Answered(w)
           /\ request' = Idle
           /\ answers' = Append(answers, w)
           /\ UNCHANGED output

\* The debugger's 'r' abandons the call in progress.
Abandon ==
    /\ request' = Idle
    /\ UNCHANGED <<output, answers>>

ConsoleNext == Call \/ Show \/ Type \/ Return \/ Abandon

ConsoleSpec == ConsoleInit /\ [][ConsoleNext]_<<request, output, answers>>
=============================================================================
