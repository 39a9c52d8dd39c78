-------------------------------- MODULE Uart --------------------------------
(***************************************************************************)
(* The UART (uart.c), its three registers (reti.c), and the drivers a      *)
(* program calls with INT 0, INT 1 and INT 2 (opts/isrs.reti).  The main   *)
(* loop runs one instruction and then lets the receiving and the sending   *)
(* half of the UART take one step each.  A value is the sequence of its    *)
(* packets, the most significant first; a waiting time is chosen by rand().*)
(*                                                                         *)
(* One driver runs at a time.  Instructions that do not concern the UART,  *)
(* between, before and after those of a driver, are OtherInstruction.      *)
(***************************************************************************)
EXTENDS Integers, Sequences

CONSTANTS
    Numbers,        \* the 32-bit integers printed: sequences of four bytes
    Strings,        \* the strings printed, each with its terminator 0
    Inputs,         \* the integers typed or written: sequences of four bytes
    Chars,          \* the letters typed or written
    Garbage,        \* what bytes may hold that nothing was written to
    Headers,        \* beginnings of program files: their lines
    WaitingOptions, \* values of option -w
    MaxCalls        \* bound: calls of drivers

Byte == 0 .. 255

\* DataType
StringType == 0
IntegerType == 4

ASSUME UartAssumption ==
    /\ Numbers \subseteq [1 .. 4 -> Byte]
    /\ Inputs \subseteq [1 .. 4 -> Byte]
    /\ Strings \subseteq Seq(Byte)
    /\ \A s \in Strings : s # <<>> /\ \A i \in 1 .. Len(s) : s[i] = 0 <=> i = Len(s)
    /\ Chars \subseteq Byte /\ Garbage \subseteq Byte
    /\ \A w \in Inputs : w[4] \notin Chars
    /\ Headers \subseteq Seq([kind : {"input", "comment", "blank", "code"},
                              tokens : Seq(Inputs \cup {<<c>> : c \in Chars})])
    /\ \A header \in Headers : \A i \in DOMAIN header : Len(header[i].tokens) <= 255
    /\ WaitingOptions \subseteq Nat
    /\ MaxCalls \in Nat

VARIABLES
    header,            \* of the program; <<>> without option -m
    max_waiting_instrs,
    at,                \* the part of the main loop that runs next
    R0, R1,            \* send and receive register
    status,            \* the bits of R2 that are set
    tx,                \* the sending half and the display at its other end
    rx,                \* the receiving half and the keyboard
    uart_input,        \* the inputs of the comment, none after a restart
    input_idx,
    call,              \* the driver that runs, if any, and its value
    step,              \* the instruction at which it is
    packet,            \* the number of its packet
    acc,               \* the copy of the status register in ACC
    got,               \* the packets it has read
    output,            \* stdout
    answers,           \* what the calls of INT 2 returned
    calls              \* number of calls so far

device == <<R0, R1, status, tx, rx, uart_input, input_idx>>
driver == <<call, step, packet, acc, got>>
options == <<header, max_waiting_instrs>>
vars == <<options, at, device, driver, output, answers, calls>>

b0 == "ready to send"
b1 == "received"

NoCall == [op |-> "none"]
PrintCalls == {[op |-> "print", value |-> <<IntegerType>> \o n] : n \in Numbers}
              \cup {[op |-> "print", value |-> <<StringType>> \o s] : s \in Strings}
ReadCall == [op |-> "read"]

TypeOK ==
    /\ max_waiting_instrs \in Byte
    /\ at \in {"cpu", "receive", "send"}
    /\ R0 \in Byte /\ R1 \in Byte
    /\ status \subseteq {b0, b1} /\ acc \subseteq {b0, b1}
    /\ tx.sending_waiting_time \in 0 .. max_waiting_instrs
    /\ tx.sending_finished => tx.sending_waiting_time > 0
    /\ tx.send_data \in Seq(Byte) /\ tx.send_idx <= Len(tx.send_data)
    /\ rx.receiving_waiting_time \in 0 .. max_waiting_instrs
    /\ rx.receiving_finished => rx.receiving_waiting_time > 0
    /\ rx.received_num_idx \in -1 .. 3
    /\ input_idx \in 0 .. Len(uart_input)
    /\ call \in PrintCalls \cup {ReadCall, NoCall}
    /\ step \in {"idle", "put", "load", "store", "poll", "take"}
    /\ got \in Seq(Byte) /\ Len(got) <= 4

----------------------------------------------------------------------------
\* extract_input_from_comment: a number, or a single character as its code.
WordOf(token) == IF Len(token) = 1 THEN <<0, 0, 0>> \o token ELSE token

\* extract_comment_metadata, a line: the blank ones and the comments at the
\* top of the file are read; "# input:" sets len also where it has no input.
ReadLine(read, line) ==
    CASE read.over \/ line.kind = "code" -> [read EXCEPT !.over = TRUE]
      [] ~read.over /\ line.kind = "input" ->
            [read EXCEPT !.len = Len(line.tokens),
                         !.result = IF line.tokens = <<>> THEN @
                                    ELSE [i \in DOMAIN line.tokens |-> WordOf(line.tokens[i])]]
      [] OTHER -> read

\* What has been read after each number of lines.
ReadUpTo(lines) ==
    LET read[n \in 0 .. Len(lines)] ==
            IF n = 0 THEN [over |-> FALSE, result |-> <<>>, len |-> 0]
            ELSE ReadLine(read[n - 1], lines[n])
    IN  read

CommentInput(lines) ==
    LET read == ReadUpTo(lines)[Len(lines)]
    IN  SubSeq(read.result, 1, read.len)

\* get_user_input: a number, or four bytes of the buffer of which a letter
\* and the 0 behind it fill two; fgets, in the plain interface, has put
\* another 0 behind the end of the line.
TypedWords == Inputs \cup
    {<<g, h, 0, c>> : g \in Garbage, h \in Garbage \cup {0}, c \in Chars}

----------------------------------------------------------------------------
\* reset_uart() writes every field but those that are set before their use.
FreshTx == [sending_finished |-> FALSE, sending_waiting_time |-> 0,
            init_finished |-> FALSE, datatype |-> StringType, send_data |-> <<>>,
            send_idx |-> 0]
FreshRx == [receiving_finished |-> FALSE, receiving_waiting_time |-> 0,
            received_num |-> <<0, 0, 0, 0>>, received_num_part |-> 0,
            received_num_idx |-> -1]

NoDriver ==
    /\ call' = NoCall /\ step' = "idle" /\ packet' = 1
    /\ acc' = {} /\ got' = <<>>

Init ==
    /\ header \in Headers
    /\ \E option \in WaitingOptions : max_waiting_instrs = option % 256
    /\ at = "cpu"
    /\ R0 = 0 /\ R1 = 0 /\ status = {b0, b1}
    /\ tx = FreshTx /\ rx = FreshRx
    /\ uart_input = CommentInput(header) /\ input_idx = 0
    /\ call = NoCall /\ step = "idle" /\ packet = 1 /\ acc = {} /\ got = <<>>
    /\ output = <<>> /\ answers = <<>> /\ calls = 0

----------------------------------------------------------------------------
\* One instruction.
Instruction == at = "cpu" /\ at' = "receive" /\ UNCHANGED options

OtherInstruction ==
    /\ Instruction
    /\ UNCHANGED <<device, driver, output, answers, calls>>

\* The bit with which a driver asks for the next packet.
Bit == IF call.op = "print" THEN b0 ELSE b1

CallDriver(c) ==
    /\ Instruction
    /\ step = "idle"
    /\ calls < MaxCalls
    /\ calls' = calls + 1
    /\ call' = c
    /\ step' = IF c.op = "print" THEN "put" ELSE "load"
    /\ UNCHANGED <<device, packet, acc, got, output, answers>>

\* STORE ACC 0 or STORE IN1 0
StorePacket ==
    /\ Instruction
    /\ step = "put"
    /\ R0' = call.value[packet]
    /\ step' = "load"
    /\ UNCHANGED <<R1, status, tx, rx, uart_input, input_idx, call, packet, acc, got,
                   output, answers, calls>>

\* LOAD ACC 2
LoadStatus ==
    /\ Instruction
    /\ step = "load"
    /\ acc' = status
    /\ step' = "store"
    /\ UNCHANGED <<device, call, packet, got, output, answers, calls>>

\* ANDI ACC -2 (or -3), STORE ACC 2
StoreStatus ==
    /\ Instruction
    /\ step = "store"
    /\ status' = acc \ {Bit}
    /\ step' = "poll"
    /\ UNCHANGED <<R0, R1, tx, rx, uart_input, input_idx, call, packet, acc, got,
                   output, answers, calls>>

\* LOAD ACC 2, ANDI ACC 1 (or 2), JUMP== -2
PollAgain ==
    /\ Instruction
    /\ step = "poll"
    /\ Bit \notin status
    /\ UNCHANGED <<device, driver, output, answers, calls>>

\* Faulty variant: the driver goes on without waiting for the bit.
PollSentAtOnce ==
    /\ Instruction
    /\ step = "poll" /\ call.op = "print"
    /\ IF packet < Len(call.value)
       THEN packet' = packet + 1 /\ step' = "put" /\ UNCHANGED <<call, acc, got>>
       ELSE NoDriver
    /\ UNCHANGED <<device, output, answers, calls>>

\* Faulty variant: the driver does not wait for its last packet.
PollSentLastAtOnce ==
    /\ Instruction
    /\ step = "poll" /\ call.op = "print"
    /\ Bit \in status \/ packet = Len(call.value)
    /\ IF packet < Len(call.value)
       THEN packet' = packet + 1 /\ step' = "put" /\ UNCHANGED <<call, acc, got>>
       ELSE NoDriver
    /\ UNCHANGED <<device, output, answers, calls>>

\* The UART has sent the packet: on to the next, or RTI after the last.
PollSent ==
    /\ Instruction
    /\ step = "poll" /\ call.op = "print"
    /\ Bit \in status
    /\ IF packet < Len(call.value)
       THEN packet' = packet + 1 /\ step' = "put" /\ UNCHANGED <<call, acc, got>>
       ELSE NoDriver
    /\ UNCHANGED <<device, output, answers, calls>>

\* Faulty variant: the driver takes a packet without waiting for it.
PollReceivedAtOnce ==
    /\ Instruction
    /\ step = "poll" /\ call.op = "read"
    /\ step' = "take"
    /\ UNCHANGED <<device, call, packet, acc, got, output, answers, calls>>

\* The UART has received a packet.
PollReceived ==
    /\ Instruction
    /\ step = "poll" /\ call.op = "read"
    /\ Bit \in status
    /\ step' = "take"
    /\ UNCHANGED <<device, call, packet, acc, got, output, answers, calls>>

\* LOAD ACC 1, shifted and put into IN1; after the fourth packet RTI.
TakePacket ==
    /\ Instruction
    /\ step = "take"
    /\ IF packet < 4
       THEN /\ got' = Append(got, R1)
            /\ packet' = packet + 1
            /\ step' = "load"
            /\ UNCHANGED <<call, acc, answers>>
       ELSE /\ answers' = Append(answers, Append(got, R1))
            /\ NoDriver
    /\ UNCHANGED <<device, output, calls>>

\* The debugger's 'r': reset_uart(), and the program starts from the beginning.
Restart ==
    /\ at = "cpu"
    /\ R0' = 0 /\ R1' = 0 /\ status' = {b0, b1}
    /\ tx' = FreshTx /\ rx' = FreshRx
    /\ uart_input' = <<>> /\ input_idx' = 0
    /\ NoDriver
    /\ UNCHANGED <<options, at, output, answers, calls>>

DriverStep ==
    \/ StorePacket \/ LoadStatus \/ StoreStatus
    \/ PollAgain \/ PollSent \/ PollReceived \/ TakePacket

Cpu ==
    \/ OtherInstruction \/ DriverStep
    \/ \E c \in PrintCalls \cup {ReadCall} : CallDriver(c)

----------------------------------------------------------------------------
\* uart_receive()
Receiving ==
    /\ at = "receive"
    /\ at' = "send"
    /\ UNCHANGED <<options, R0, tx, uart_input, driver, output, answers, calls>>

ReceiveNothing ==
    /\ Receiving
    /\ b1 \in status /\ ~rx.receiving_finished
    /\ UNCHANGED <<R1, status, rx, input_idx>>

\* The next word: from the comment of the program, then from the user.
NextWords == IF input_idx < Len(uart_input) THEN {uart_input[input_idx + 1]} ELSE TypedWords

\* The next packet of a word: the byte received_num_idx, counted from the
\* least significant.
Fetched(r, word) ==
    LET idx == IF r.received_num_idx = -1 THEN 3 ELSE r.received_num_idx
        num == IF r.received_num_idx = -1 THEN word ELSE r.received_num
    IN  [r EXCEPT !.received_num = num,
                  !.received_num_part = num[4 - idx],
                  !.received_num_idx = idx - 1]

Arrives(r) ==
    /\ R1' = r.received_num_part
    /\ status' = status \cup {b1}
    /\ rx' = [r EXCEPT !.receiving_finished = FALSE, !.receiving_waiting_time = 0]

\* Faulty variant: input_idx is not advanced.
FetchPacketNoAdvance(word, time) ==
    /\ Receiving
    /\ b1 \notin status /\ ~rx.receiving_finished
    /\ IF max_waiting_instrs = 0
       THEN Arrives(Fetched(rx, word))
       ELSE /\ rx' = [Fetched(rx, word) EXCEPT !.receiving_finished = TRUE,
                                               !.receiving_waiting_time = time]
            /\ UNCHANGED <<R1, status>>
    /\ UNCHANGED input_idx

FetchPacket(word, time) ==
    /\ Receiving
    /\ b1 \notin status /\ ~rx.receiving_finished
    /\ input_idx' = IF input_idx < Len(uart_input) /\ Fetched(rx, word).received_num_idx = -1
                    THEN input_idx + 1 ELSE input_idx
    /\ IF max_waiting_instrs = 0
       THEN Arrives(Fetched(rx, word))
       ELSE /\ rx' = [Fetched(rx, word) EXCEPT !.receiving_finished = TRUE,
                                               !.receiving_waiting_time = time]
            /\ UNCHANGED <<R1, status>>

\* Faulty variant: the time is compared before it is decremented.
ReceiveWaitPostDecrement ==
    /\ Receiving
    /\ rx.receiving_finished
    /\ IF rx.receiving_waiting_time = 0
       THEN Arrives(rx)
       ELSE /\ rx' = [rx EXCEPT !.receiving_waiting_time = @ - 1]
            /\ UNCHANGED <<R1, status>>
    /\ UNCHANGED input_idx

ReceiveWait ==
    /\ Receiving
    /\ rx.receiving_finished
    /\ IF rx.receiving_waiting_time = 1
       THEN Arrives(rx)
       ELSE /\ rx' = [rx EXCEPT !.receiving_waiting_time = @ - 1]
            /\ UNCHANGED <<R1, status>>
    /\ UNCHANGED input_idx

\* rand() % max_waiting_instrs + 1
WaitingTimes == IF max_waiting_instrs = 0 THEN {0} ELSE 1 .. max_waiting_instrs

Receive ==
    \/ ReceiveNothing \/ ReceiveWait
    \/ \E word \in NextWords, time \in WaitingTimes : FetchPacket(word, time)

----------------------------------------------------------------------------
\* uart_send()
Sending ==
    /\ at = "send"
    /\ at' = "cpu"
    /\ UNCHANGED <<options, R0, R1, rx, uart_input, input_idx, driver, answers, calls>>

SendNothing ==
    /\ Sending
    /\ b0 \in status /\ ~tx.sending_finished
    /\ UNCHANGED <<status, tx, output>>

\* R0 is taken over: as the type of what follows, or as a packet of it.
Latched ==
    IF tx.init_finished
    THEN [tx EXCEPT !.send_data = Append(SubSeq(@, 1, tx.send_idx), R0)]
    ELSE [tx EXCEPT !.datatype = R0, !.send_data = <<>>, !.send_idx = 0]

\* Faulty variant: an integer ends with its third packet.
LastPacketEarly(t) ==
    IF t.datatype = StringType THEN R0 = 0 ELSE t.send_idx + 1 = 3

\* A string ends with the packet at whose end R0 is 0, an integer with its
\* fourth.  send_idx is num_bytes - remaining_bytes for an integer.
LastPacket(t) ==
    IF t.datatype = StringType THEN R0 = 0 ELSE t.send_idx + 1 = 4

\* Faulty variant: the bit is set only at the end of a string or an integer.
SentWithoutReady(t) ==
    /\ status' = IF t.init_finished /\ LastPacket(t) THEN status \cup {b0} ELSE status
    /\ tx' = [t EXCEPT !.sending_finished = FALSE, !.sending_waiting_time = 0,
                       !.init_finished = TRUE]
    /\ UNCHANGED output

\* sending_finished: the packet has arrived at the display.
Sent(t) ==
    /\ status' = status \cup {b0}
    /\ IF t.init_finished
       THEN /\ tx' = [t EXCEPT !.sending_finished = FALSE, !.sending_waiting_time = 0,
                               !.send_idx = @ + 1, !.init_finished = ~LastPacket(t)]
            /\ output' = IF LastPacket(t)
                         THEN Append(output, <<t.datatype>> \o t.send_data) ELSE output
       ELSE /\ tx' = [t EXCEPT !.sending_finished = FALSE, !.sending_waiting_time = 0,
                               !.init_finished = TRUE]
            /\ UNCHANGED output

\* A type other than 0 and 4 ends the emulator: there is no such step.
LatchPacket(time) ==
    /\ Sending
    /\ b0 \notin status /\ ~tx.sending_finished
    /\ Latched.datatype \in {StringType, IntegerType}
    /\ IF max_waiting_instrs = 0
       THEN Sent(Latched)
       ELSE /\ tx' = [Latched EXCEPT !.sending_finished = TRUE, !.sending_waiting_time = time]
            /\ UNCHANGED <<status, output>>

SendWait ==
    /\ Sending
    /\ tx.sending_finished
    /\ IF tx.sending_waiting_time = 1
       THEN Sent(tx)
       ELSE /\ tx' = [tx EXCEPT !.sending_waiting_time = @ - 1]
            /\ UNCHANGED <<status, output>>

Send ==
    \/ SendNothing \/ SendWait
    \/ \E time \in WaitingTimes : LatchPacket(time)

Next == Cpu \/ Restart \/ Receive \/ Send

Spec == Init /\ [][Next]_vars
----------------------------------------------------------------------------
(* A driver keeps to the protocol whose breach read_array and write_array  *)
(* report: it does not write R0 while the UART still sends, does not set a *)
(* bit that only the UART may set, and does not read R1 before a packet    *)
(* has arrived.                                                            *)
ProtocolRespected ==
    [][/\ StorePacket => b0 \in status
       /\ StoreStatus => status' \subseteq status
       /\ TakePacket => b1 \in status]_vars

(* LOAD, ANDI and STORE of the status register are three instructions, and *)
(* the UART sets its bits between them: no bit it has set is overwritten.  *)
NoLostReady == [][StoreStatus => status \ status' \subseteq {Bit}]_vars

(* README: what has been sent is the packet that stood in R0 when the      *)
(* waiting time began.  The display looks at R0 once more at its end, for  *)
(* the terminator: R0 still holds that packet.                             *)
TerminatorIsPacket ==
    tx.sending_finished /\ tx.init_finished =>
        R0 = tx.send_data[tx.send_idx + 1]

\* The line of the header that counts: the last "# input:" above the code.
AboveCode(i) == \A j \in 1 .. i : header[j].kind # "code"
InputLines == {i \in DOMAIN header : header[i].kind = "input" /\ AboveCode(i)}
Counts(i) == i \in InputLines /\ \A j \in InputLines : j <= i

(* The numbers and characters of the comment "# input:" are read first,    *)
(* each once and in their order, as long as the program is not restarted.  *)
InputsInOrder ==
    \A i \in DOMAIN header : Counts(i) /\ uart_input # <<>> =>
        /\ Len(uart_input) = Len(header[i].tokens)
        /\ \A k \in DOMAIN header[i].tokens :
               k <= Len(answers) => answers[k] = WordOf(header[i].tokens[k])

\* Faulty variant: the least significant packet is left out.
RestOfWordWithoutLast ==
    IF rx.received_num_idx = -1 THEN <<>> ELSE SubSeq(rx.received_num, 4 - rx.received_num_idx, 3)

\* print_uart_meta_data, "Remaining input:" packet by packet: the rest of the
\* word that is being received, then the words of the comment behind it.
RestOfWord ==
    IF rx.received_num_idx = -1 THEN <<>> ELSE SubSeq(rx.received_num, 4 - rx.received_num_idx, 4)

\* The packets of the words behind the first k, four each.
PacketsBehind(words, k) ==
    [i \in 1 .. 4 * (Len(words) - k) |-> words[k + 1 + (i - 1) \div 4][((i - 1) % 4) + 1]]

RemainingInput ==
    LET started == IF RestOfWord = <<>> THEN 0 ELSE 1
    IN  RestOfWord \o PacketsBehind(uart_input, input_idx + started)

(* What the debugger lists as remaining input is what arrives: each packet *)
(* that is fetched is the first of the list, and the list loses just this  *)
(* one, within a word, from a word to the next, and from the inputs of the *)
(* comment to what the user types.                                         *)
RemainingInputArrives ==
    [][rx'.received_num_idx # rx.received_num_idx /\ at = "receive" /\ RemainingInput # <<>> =>
          /\ rx'.received_num_part = Head(RemainingInput)
          /\ RemainingInput' = Tail(RemainingInput)]_vars

(* README: of the four packets of a 32-bit ASCII character three are       *)
(* wasted, "because they are always 0".                                    *)
CharsArePadded ==
    rx.received_num[4] \in Chars => SubSeq(rx.received_num, 1, 3) = <<0, 0, 0>>

(* README: a string consists of up to 256 packets.  Each packet that has   *)
(* been taken over has a place in the buffer of the display.               *)
Allocated(t) == IF t.datatype = StringType THEN 1 ELSE 4

PacketsFitBuffer == Len(tx.send_data) <= Allocated(tx)

\* A call that prints has been shown once its last packet has arrived; a
\* call that reads has its word once the first packet is on its way.
Shown == packet = Len(call.value) /\ ~tx.init_finished
HasWord == packet > 1 \/ rx.received_num_idx # -1

console == INSTANCE Console WITH
    Prints <- {c.value : c \in PrintCalls},
    Inputs <- TypedWords \cup {<<0, 0, 0, c>> : c \in Chars},
    request <- CASE call.op = "none" -> [state |-> "idle"]
                 [] call.op = "print" ->
                        IF Shown THEN [state |-> "done"]
                        ELSE [state |-> "printing", value |-> call.value]
                 [] call.op = "read" ->
                        IF HasWord THEN [state |-> "answered", value |-> rx.received_num]
                        ELSE [state |-> "reading"]

(* Seen from the program the drivers print each value once, whole and in   *)
(* order, and read whole words, whatever the waiting times.                *)
ImplementsConsole == console!ConsoleSpec

\* The loop goes on, and a driver that can execute again and again does so.
FairSpec == Spec /\ WF_vars(Next) /\ SF_vars(DriverStep)

(* A call of a driver returns, unless the user restarts the program.       *)
CallsReturn == [](step # "idle" => <>(step = "idle"))
=============================================================================
