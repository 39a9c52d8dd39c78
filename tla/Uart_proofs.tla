----------------------------- MODULE Uart_proofs -----------------------------
(***************************************************************************)
(* Proofs about the UART and its drivers, for all values that are printed  *)
(* and typed, all program headers and all waiting times.                   *)
(***************************************************************************)
EXTENDS Uart, LeastElement, SequenceTheorems

Word == [1 .. 4 -> Byte]

\* The words the receiver can take in: of the comment, or typed.
AllWords == TypedWords \cup {<<0, 0, 0, c>> : c \in Chars}

\* The two halves of the UART, with the types that TypeOK leaves open.
TxType == [sending_finished : BOOLEAN, sending_waiting_time : Nat,
           init_finished : BOOLEAN, datatype : {StringType, IntegerType},
           send_data : Seq(Byte), send_idx : Nat]
RxType == [receiving_finished : BOOLEAN, receiving_waiting_time : Nat,
           received_num : Word, received_num_part : Byte, received_num_idx : -1 .. 3]

HalvesTyped ==
    /\ tx \in TxType
    /\ rx \in RxType
    /\ uart_input \in Seq(AllWords)
    /\ output \in Seq(Seq(Byte)) /\ answers \in Seq(Seq(Byte))
    /\ packet \in Nat /\ calls \in Nat

(* Who may set and clear which bit, and when: a driver clears its bit when *)
(* both are set and waits until the UART has set it again; a half of the   *)
(* UART waits only while its bit is clear.                                 *)
Handshake ==
    /\ (call = NoCall) <=> (step = "idle")
    /\ call = NoCall => packet = 1 /\ got = <<>>
    /\ call.op = "print" => step # "take" /\ packet \in 1 .. Len(call.value) /\ got = <<>>
    /\ call.op = "read" => step # "put" /\ packet \in 1 .. 4 /\ Len(got) = packet - 1
    /\ b0 \notin status => call.op = "print" /\ step = "poll"
    /\ b1 \notin status => call.op = "read" /\ step = "poll"
    /\ step = "store" => acc = {b0, b1}
    /\ tx.sending_finished => b0 \notin status
    /\ rx.receiving_finished => b1 \notin status

\* The packets of the printed value that have arrived at the display.
Arrived == IF step = "poll" /\ b0 \in status THEN packet ELSE packet - 1

(* The display holds the packets that have arrived, and the one that is on *)
(* its way.                                                                *)
DisplayInv ==
    /\ call.op # "print" => ~tx.init_finished
    /\ call.op = "print" =>
          /\ step # "put" => R0 = call.value[packet]
          /\ tx.init_finished <=> (Arrived \in 1 .. Len(call.value) - 1)
          /\ tx.init_finished \/ tx.sending_finished => tx.datatype = call.value[1]
          /\ tx.sending_finished /\ ~tx.init_finished => tx.send_idx = 0 /\ tx.send_data = <<>>
          /\ tx.init_finished =>
                /\ tx.send_idx = Arrived - 1
                /\ Len(tx.send_data) = tx.send_idx + (IF tx.sending_finished THEN 1 ELSE 0)
                /\ \A k \in 1 .. Len(tx.send_data) : tx.send_data[k] = call.value[k + 1]

\* The packets of the word that have been fetched from the keyboard.
Held == IF step = "take" \/ (step = "poll" /\ (b1 \in status \/ rx.receiving_finished))
        THEN packet ELSE packet - 1

(* The receiver knows how many packets of its word it has handed over, and *)
(* the driver has read just these.                                         *)
KeyboardInv ==
    /\ call.op # "read" => rx.received_num_idx = -1
    /\ call.op = "read" =>
          /\ rx.received_num_idx = IF Held \in {0, 4} THEN -1 ELSE 3 - Held
          /\ Held > 0 => rx.received_num \in AllWords
          /\ \A k \in 1 .. packet - 1 : got[k] = rx.received_num[k]
          /\ Held = packet => rx.received_num_part = rx.received_num[packet]
          /\ Held = packet /\ ~rx.receiving_finished => R1 = rx.received_num[packet]

\* The packets that have been fetched of the word that is read, and the words
\* that have been fetched to their end.
HeldPackets == IF call.op = "read" THEN Held ELSE 0
UsedWords == Len(answers) + (IF HeldPackets = 4 THEN 1 ELSE 0)

(* The words of the comment are used up one by one.                        *)
InputInv ==
    /\ uart_input # <<>> =>
          /\ uart_input = CommentInput(header)
          /\ input_idx = IF UsedWords < Len(uart_input) THEN UsedWords ELSE Len(uart_input)
    /\ \A k \in 1 .. Len(answers) : k <= Len(uart_input) => answers[k] = uart_input[k]
    /\ HeldPackets > 0 /\ Len(answers) < Len(uart_input) =>
          rx.received_num = uart_input[Len(answers) + 1]

----------------------------------------------------------------------------
NothingRead == [over |-> FALSE, result |-> <<>>, len |-> 0]

\* What line n makes of what the function read has for the line before.
ReadFrom(lines, read, n) ==
    IF n = 0 THEN NothingRead ELSE ReadLine(read[n - 1], lines[n])

(* The loop over the lines of a file has a result for every number of      *)
(* lines: a first number without one would have one, built from that of    *)
(* the number before.                                                      *)
LEMMA LinesAreRead ==
    ASSUME NEW lines, Len(lines) \in Nat
    PROVE  ReadUpTo(lines) = [n \in 0 .. Len(lines) |-> ReadFrom(lines, ReadUpTo(lines), n)]
<1>. DEFINE Result(read, m) == read = [n \in 0 .. m |-> ReadFrom(lines, read, n)]
            Stuck == {m \in Nat : ~\E read : Result(read, m)}
<1>1. ASSUME Stuck # {} PROVE FALSE
  <2>1. PICK m \in Stuck : \A k \in Stuck : m <= k
    BY <1>1, LeastNatural
  <2>2. CASE m = 0
    <3>1. Result([n \in 0 .. 0 |-> NothingRead], 0)
      BY DEF ReadFrom
    <3>. QED  BY <2>1, <2>2, <3>1
  <2>3. CASE m > 0
    <3>1. m - 1 \in Nat /\ m - 1 \notin Stuck
      BY <2>1, <2>3
    <3>2. PICK read : Result(read, m - 1)
      BY <3>1
    <3>. DEFINE next == [n \in 0 .. m |-> IF n = m THEN ReadLine(read[m - 1], lines[m]) ELSE read[n]]
    <3>3. ASSUME NEW n \in 0 .. m PROVE next[n] = ReadFrom(lines, next, n)
      <4>1. CASE n = m
        <5>1. next[m - 1] = read[m - 1] /\ n # 0
          BY <2>1, <2>3, <4>1
        <5>. QED  BY <2>1, <4>1, <5>1 DEF ReadFrom
      <4>2. CASE n # m
        <5>1. n \in 0 .. m - 1 /\ next[n] = read[n]
          BY <2>1, <4>2
        <5>2. n # 0 => next[n - 1] = read[n - 1]
          BY <2>1, <5>1
        <5>. QED  BY <3>2, <5>1, <5>2 DEF ReadFrom
      <4>. QED  BY <4>1, <4>2
    <3>4. Result(next, m)
      <4>1. next = [n \in 0 .. m |-> next[n]]
        OBVIOUS
      <4>. HIDE DEF next
      <4>. QED  BY <3>3, <4>1
    <3>. QED  BY <2>1, <3>4
  <2>. QED  BY <2>1, <2>2, <2>3
<1>2. PICK read : Result(read, Len(lines))
  BY <1>1
<1>3. ReadUpTo(lines) = CHOOSE r : r = [n \in 0 .. Len(lines) |-> ReadFrom(lines, r, n)]
  BY DEF ReadUpTo, ReadFrom, NothingRead
<1>. QED  BY <1>2, <1>3

\* The tokens of an input comment, and the lines of a file.
Tokens == Inputs \cup {<<c>> : c \in Chars}
Line == [kind : {"input", "comment", "blank", "code"}, tokens : Seq(Tokens)]

\* The words a line of inputs stands for.
WordsOf(tokens) == [k \in DOMAIN tokens |-> WordOf(tokens[k])]

(* Every token stands for a word of four bytes.                            *)
LEMMA TokensAreWords ==
    ASSUME NEW token \in Tokens
    PROVE  WordOf(token) \in AllWords
<1>1. CASE token \in Inputs
  <2>1. token \in [1 .. 4 -> Byte]
    BY <1>1, UartAssumption
  <2>2. token \in Seq(Byte) /\ Len(token) = 4
    BY <2>1
  <2>. QED  BY <1>1, <2>2 DEF WordOf, AllWords, TypedWords
<1>2. CASE token \in {<<c>> : c \in Chars}
  <2>1. PICK c \in Chars : token = <<c>>
    BY <1>2
  <2>2. <<0, 0, 0>> \o <<c>> = <<0, 0, 0, c>>
    <3>. DEFINE s == <<0, 0, 0>> \o <<c>>
                t == <<0, 0, 0, c>>
    <3>0. c \in Int
      BY UartAssumption DEF Byte
    <3>1. s \in Seq(Int) /\ Len(s) = 4 /\ \A i \in 1 .. 4 : s[i] = IF i <= 3 THEN 0 ELSE c
      BY <3>0
    <3>2. t \in Seq(Int) /\ Len(t) = 4 /\ \A i \in 1 .. 4 : t[i] = IF i <= 3 THEN 0 ELSE c
      BY <3>0
    <3>. HIDE DEF s, t
    <3>3. s = t
      BY <3>1, <3>2, SeqEqual
    <3>. QED  BY <3>3 DEF s, t
  <2>3. WordOf(token) = <<0, 0, 0, c>>
    BY <2>1, <2>2 DEF WordOf
  <2>. QED  BY <2>3 DEF AllWords
<1>. QED  BY <1>1, <1>2 DEF Tokens

(* A line of tokens stands for as many words.                              *)
LEMMA WordsOfTokens ==
    ASSUME NEW tokens \in Seq(Tokens)
    PROVE  WordsOf(tokens) \in Seq(AllWords) /\ Len(WordsOf(tokens)) = Len(tokens)
<1>1. \A k \in 1 .. Len(tokens) : WordOf(tokens[k]) \in AllWords
  BY ElementOfSeq, TokensAreWords
<1>2. WordsOf(tokens) = [k \in 1 .. Len(tokens) |-> WordOf(tokens[k])] /\ Len(tokens) \in Nat
  BY DEF WordsOf
<1>. QED  BY <1>1, <1>2, IsASeq

(* A word consists of four bytes.                                          *)
LEMMA WordsTyped == AllWords \subseteq Word
<1>1. Inputs \subseteq Word
  BY UartAssumption DEF Word
<1>2. Chars \subseteq Byte /\ Garbage \subseteq Byte /\ 0 \in Byte
  BY UartAssumption DEF Byte
<1>3. ASSUME NEW v \in Byte, NEW w \in Byte, NEW x \in Byte, NEW y \in Byte
      PROVE  <<v, w, x, y>> \in Word
  <2>. DEFINE t == <<v, w, x, y>>
  <2>1. t \in Seq(Byte) /\ Len(t) = 4
    OBVIOUS
  <2>. HIDE DEF t
  <2>2. t \in [1 .. 4 -> Byte]
    BY <2>1, LenProperties
  <2>. QED  BY <2>2 DEF Word, t
<1>. QED  BY <1>1, <1>2, <1>3 DEF AllWords, TypedWords

(* Line i is the last one with inputs above the code among the first n.    *)
Input(lines, i) == lines[i].kind = "input" /\ \A j \in 1 .. i : lines[j].kind # "code"
LastInput(lines, n, i) ==
    /\ i \in 1 .. n /\ Input(lines, i)
    /\ \A j \in 1 .. n : Input(lines, j) => j <= i

(* What the loop knows after n lines.                                      *)
ReadCorrect(lines, read, n) ==
    /\ read \in [over : BOOLEAN, result : Seq(AllWords), len : Nat]
    /\ read.over = (\E j \in 1 .. n : lines[j].kind = "code")
    /\ read.len = 0 \/ read.len = Len(read.result)
    /\ \A i \in 1 .. n : LastInput(lines, n, i) =>
          /\ read.len = Len(lines[i].tokens)
          /\ lines[i].tokens # <<>> => read.result = WordsOf(lines[i].tokens)

(* One more line.                                                          *)
LEMMA OneMoreLine ==
    ASSUME NEW lines \in Seq(Line), NEW n \in 1 .. Len(lines), NEW read,
           ReadCorrect(lines, read, n - 1)
    PROVE  ReadCorrect(lines, ReadLine(read, lines[n]), n)
<1>. DEFINE line == lines[n]
            next == ReadLine(read, line)
<1>1. /\ line \in Line /\ n \in Nat /\ n > 0
      /\ \A j \in 1 .. n : j \in 1 .. n - 1 \/ j = n
      /\ \A j \in 1 .. n - 1 : j \in 1 .. n
  BY ElementOfSeq
<1>2. /\ read \in [over : BOOLEAN, result : Seq(AllWords), len : Nat]
      /\ read.over = (\E j \in 1 .. n - 1 : lines[j].kind = "code")
      /\ read.len = 0 \/ read.len = Len(read.result)
      /\ \A i \in 1 .. n - 1 : LastInput(lines, n - 1, i) =>
            /\ read.len = Len(lines[i].tokens)
            /\ lines[i].tokens # <<>> => read.result = WordsOf(lines[i].tokens)
  BY DEF ReadCorrect
<1>3. CASE read.over \/ line.kind = "code"
  <2>1. next = [read EXCEPT !.over = TRUE]
    BY <1>3 DEF ReadLine
  <2>2. \E j \in 1 .. n : lines[j].kind = "code"
    BY <1>1, <1>2, <1>3
  <2>3. ~Input(lines, n)
    BY <2>2 DEF Input
  <2>4. \A i \in 1 .. n : LastInput(lines, n, i) => i \in 1 .. n - 1 /\ LastInput(lines, n - 1, i)
    BY <1>1, <2>3 DEF LastInput
  <2>. HIDE DEF next, line
  <2>5. ReadCorrect(lines, next, n)
    BY <1>1, <1>2, <2>1, <2>2, <2>4 DEF ReadCorrect
  <2>. QED  BY <2>5 DEF next, line
<1>4. CASE ~read.over /\ line.kind = "input"
  <2>1. next = [read EXCEPT !.len = Len(line.tokens),
                            !.result = IF line.tokens = <<>> THEN @ ELSE WordsOf(line.tokens)]
    BY <1>4 DEF ReadLine, WordsOf
  <2>2. line.tokens \in Seq(Tokens) /\ Len(line.tokens) \in Nat
    BY <1>1 DEF Line
  <2>3. /\ WordsOf(line.tokens) \in Seq(AllWords)
        /\ Len(WordsOf(line.tokens)) = Len(line.tokens)
    BY <2>2, WordsOfTokens
  <2>4. ~\E j \in 1 .. n : lines[j].kind = "code"
    BY <1>1, <1>2, <1>4
  <2>5. Input(lines, n)
    BY <1>4, <2>4 DEF Input
  <2>6. \A i \in 1 .. n : LastInput(lines, n, i) => i = n
    BY <1>1, <2>5 DEF LastInput
  <2>7. line.tokens = <<>> => Len(line.tokens) = 0
    OBVIOUS
  <2>8. /\ next \in [over : BOOLEAN, result : Seq(AllWords), len : Nat]
        /\ next.over = read.over
        /\ next.len = Len(line.tokens)
        /\ line.tokens # <<>> => next.result = WordsOf(line.tokens)
    <3>. HIDE DEF next, line
    <3>. QED  BY <1>2, <2>1, <2>2, <2>3
  <2>. HIDE DEF next
  <2>9. ReadCorrect(lines, next, n)
    BY <1>2, <1>4, <2>3, <2>4, <2>6, <2>7, <2>8 DEF ReadCorrect
  <2>. QED  BY <2>9 DEF next
<1>5. CASE ~read.over /\ line.kind \notin {"code", "input"}
  <2>1. next = read
    BY <1>5 DEF ReadLine
  <2>2. ~Input(lines, n) /\ lines[n].kind # "code"
    BY <1>5 DEF Input
  <2>3. \A i \in 1 .. n : LastInput(lines, n, i) => i \in 1 .. n - 1 /\ LastInput(lines, n - 1, i)
    BY <1>1, <2>2 DEF LastInput
  <2>. HIDE DEF next, line
  <2>4. ReadCorrect(lines, next, n)
    BY <1>1, <1>2, <2>1, <2>2, <2>3 DEF ReadCorrect
  <2>. QED  BY <2>4 DEF next, line
<1>. QED  BY <1>3, <1>4, <1>5

(* All the lines: induction on their number, as the absence of a first one *)
(* at which the loop is wrong.                                             *)
LEMMA AllLinesRead ==
    ASSUME NEW lines \in Seq(Line)
    PROVE  ReadCorrect(lines, ReadUpTo(lines)[Len(lines)], Len(lines))
<1>. DEFINE Wrong == {n \in 0 .. Len(lines) : ~ReadCorrect(lines, ReadUpTo(lines)[n], n)}
<1>1. Len(lines) \in Nat
  OBVIOUS
<1>2. \A n \in 0 .. Len(lines) : ReadUpTo(lines)[n] = ReadFrom(lines, ReadUpTo(lines), n)
  BY <1>1, LinesAreRead
<1>3. ASSUME Wrong # {} PROVE FALSE
  <2>0. Wrong \in SUBSET Nat
    BY <1>1
  <2>1. PICK n \in Wrong : \A k \in Wrong : n <= k
    <3>. HIDE DEF Wrong
    <3>. QED  BY <1>3, <2>0, LeastNatural
  <2>2. CASE n = 0
    <3>1. ReadCorrect(lines, NothingRead, 0)
      BY DEF ReadCorrect, NothingRead
    <3>. QED  BY <1>2, <2>1, <2>2, <3>1 DEF ReadFrom
  <2>3. CASE n # 0
    <3>1. n \in 1 .. Len(lines) /\ n - 1 \in 0 .. Len(lines) /\ n - 1 \notin Wrong
      BY <1>1, <2>1, <2>3
    <3>2. ReadCorrect(lines, ReadUpTo(lines)[n - 1], n - 1)
      BY <3>1
    <3>3. ReadUpTo(lines)[n] = ReadLine(ReadUpTo(lines)[n - 1], lines[n])
      BY <1>2, <2>3, <3>1 DEF ReadFrom
    <3>4. ReadCorrect(lines, ReadUpTo(lines)[n], n)
      BY <3>1, <3>2, <3>3, OneMoreLine
    <3>. QED  BY <2>1, <3>4
  <2>. QED  BY <2>2, <2>3
<1>. QED  BY <1>1, <1>3

(* The list of inputs of a program: words, and those of the last "# input:" *)
(* above its code.                                                         *)
LEMMA CommentInputIs ==
    ASSUME NEW lines \in Seq(Line)
    PROVE  /\ CommentInput(lines) \in Seq(AllWords)
           /\ \A i \in 1 .. Len(lines) : LastInput(lines, Len(lines), i) =>
                 CommentInput(lines) = WordsOf(lines[i].tokens)
<1>. DEFINE read == ReadUpTo(lines)[Len(lines)]
<1>1. ReadCorrect(lines, read, Len(lines))
  BY AllLinesRead
<1>2. CommentInput(lines) = SubSeq(read.result, 1, read.len)
  BY DEF CommentInput
<1>. HIDE DEF read
<1>3. /\ read.result \in Seq(AllWords) /\ read.len \in Nat
      /\ read.len = 0 \/ read.len = Len(read.result)
  BY <1>1 DEF ReadCorrect
<1>4. SubSeq(read.result, 1, read.len) = IF read.len = 0 THEN <<>> ELSE read.result
  BY <1>3
<1>5. ASSUME NEW i \in 1 .. Len(lines), LastInput(lines, Len(lines), i)
      PROVE  CommentInput(lines) = WordsOf(lines[i].tokens)
  <2>1. /\ read.len = Len(lines[i].tokens)
        /\ lines[i].tokens # <<>> => read.result = WordsOf(lines[i].tokens)
        /\ lines[i].tokens \in Seq(Tokens)
    <3>1. lines[i] \in Line
      BY ElementOfSeq
    <3>. QED  BY <1>1, <1>5, <3>1 DEF ReadCorrect, Line
  <2>2. lines[i].tokens = <<>> => WordsOf(lines[i].tokens) = <<>>
    BY DEF WordsOf
  <2>3. lines[i].tokens = <<>> <=> Len(lines[i].tokens) = 0
    BY <2>1, EmptySeq
  <2>. QED  BY <1>2, <1>4, <2>1, <2>2, <2>3
<1>. QED  BY <1>2, <1>3, <1>4, <1>5

----------------------------------------------------------------------------
(* A sequence of four bytes is one.                                        *)
LEMMA WordIsSeq ==
    ASSUME NEW word \in [1 .. 4 -> Byte]
    PROVE  word \in Seq(Byte) /\ Len(word) = 4
<1>1. \A i \in 1 .. 4 : word[i] \in Byte
  OBVIOUS
<1>2. word = [i \in 1 .. 4 |-> word[i]]
  OBVIOUS
<1>3. 4 \in Nat
  OBVIOUS
<1>. QED  BY <1>1, <1>2, <1>3, IsASeq

(* A type, and the packets behind it.                                      *)
LEMMA TypePrefixed ==
    ASSUME NEW t \in Byte, NEW s \in Seq(Byte)
    PROVE  /\ <<t>> \o s \in Seq(Byte) /\ Len(<<t>> \o s) = Len(s) + 1
           /\ (<<t>> \o s)[1] = t
           /\ \A k \in 2 .. Len(s) + 1 : (<<t>> \o s)[k] = s[k - 1]
<1>1. <<t>> \in Seq(Byte) /\ Len(<<t>>) = 1 /\ <<t>>[1] = t
  OBVIOUS
<1>. QED  BY <1>1, ConcatProperties

(* A printed value: its type, then its packets; an integer has four, and   *)
(* of the packets of a string the last one, and no other, is the 0.        *)
LEMMA PrintedValue ==
    ASSUME NEW c \in PrintCalls
    PROVE  /\ c.op = "print"
           /\ c.value \in Seq(Byte) /\ Len(c.value) \in Nat /\ Len(c.value) >= 2
           /\ c.value[1] \in {StringType, IntegerType}
           /\ c.value[1] = IntegerType => Len(c.value) = 5
           /\ c.value[1] = StringType =>
                 \A k \in 2 .. Len(c.value) : c.value[k] = 0 <=> k = Len(c.value)
<1>. USE DEF StringType, IntegerType
<1>1. CASE c \in {[op |-> "print", value |-> <<IntegerType>> \o n] : n \in Numbers}
  <2>1. PICK num \in Numbers : c = [op |-> "print", value |-> <<IntegerType>> \o num]
    BY <1>1
  <2>2. num \in Seq(Byte) /\ Len(num) = 4
    <3>1. num \in [1 .. 4 -> Byte]
      BY UartAssumption
    <3>. QED  BY <3>1, WordIsSeq
  <2>3. IntegerType \in Byte
    BY DEF Byte
  <2>. DEFINE v == <<IntegerType>> \o num
  <2>4. v \in Seq(Byte) /\ Len(v) = Len(num) + 1 /\ v[1] = IntegerType
    BY <2>2, <2>3, TypePrefixed
  <2>. HIDE DEF v
  <2>5. c.op = "print" /\ c.value = v
    BY <2>1 DEF v
  <2>6. Len(v) = 5 /\ Len(v) \in Nat /\ Len(v) >= 2
    BY <2>2, <2>4
  <2>7. v[1] # StringType
    BY <2>4
  <2>. QED  BY <2>4, <2>5, <2>6, <2>7
<1>2. CASE c \in {[op |-> "print", value |-> <<StringType>> \o s] : s \in Strings}
  <2>1. PICK s \in Strings : c = [op |-> "print", value |-> <<StringType>> \o s]
    BY <1>2
  <2>2. /\ s \in Seq(Byte) /\ Len(s) \in Nat \ {0}
        /\ \A i \in 1 .. Len(s) : s[i] = 0 <=> i = Len(s)
    BY UartAssumption, EmptySeq
  <2>3. StringType \in Byte
    BY DEF Byte
  <2>. DEFINE v == <<StringType>> \o s
  <2>4. /\ v \in Seq(Byte) /\ Len(v) = Len(s) + 1 /\ v[1] = StringType
        /\ \A k \in 2 .. Len(v) : v[k] = s[k - 1]
    BY <2>2, <2>3, TypePrefixed
  <2>. HIDE DEF v
  <2>5. \A k \in 2 .. Len(v) : v[k] = 0 <=> k = Len(v)
    BY <2>2, <2>4
  <2>6. c.op = "print" /\ c.value = v
    BY <2>1 DEF v
  <2>. QED  BY <2>2, <2>4, <2>5, <2>6
<1>. QED  BY <1>1, <1>2 DEF PrintCalls

(* The kinds of calls exclude each other.                                  *)
LEMMA CallKinds ==
    ASSUME call \in PrintCalls \cup {ReadCall, NoCall}
    PROVE  /\ call.op = "print" <=> call \in PrintCalls
           /\ call.op = "read" <=> call = ReadCall
           /\ call.op = "none" <=> call = NoCall
BY PrintedValue DEF ReadCall, NoCall

UartInv ==
    /\ TypeOK
    /\ HalvesTyped
    /\ header \in Headers
    /\ Handshake
    /\ DisplayInv
    /\ KeyboardInv

(* What the next packet of the keyboard is.                                *)
LEMMA FetchedPacket ==
    ASSUME HalvesTyped, NEW word \in AllWords
    PROVE  LET idx == IF rx.received_num_idx = -1 THEN 3 ELSE rx.received_num_idx
               num == IF rx.received_num_idx = -1 THEN word ELSE rx.received_num
           IN  /\ Fetched(rx, word) \in RxType
               /\ Fetched(rx, word).received_num = num
               /\ Fetched(rx, word).received_num_part = num[4 - idx]
               /\ Fetched(rx, word).received_num_idx = idx - 1
               /\ Fetched(rx, word).receiving_finished = rx.receiving_finished
               /\ idx \in 0 .. 3
<1>. DEFINE idx == IF rx.received_num_idx = -1 THEN 3 ELSE rx.received_num_idx
            num == IF rx.received_num_idx = -1 THEN word ELSE rx.received_num
<1>1. rx \in RxType /\ rx.received_num_idx \in -1 .. 3 /\ rx.received_num \in Word
  BY DEF HalvesTyped, RxType
<1>2. num \in Word /\ idx \in 0 .. 3 /\ idx - 1 \in -1 .. 3 /\ 4 - idx \in 1 .. 4
  BY <1>1, WordsTyped
<1>3. num[4 - idx] \in Byte
  <2>. HIDE DEF num, idx
  <2>. QED  BY <1>2 DEF Word
<1>4. Fetched(rx, word) = [rx EXCEPT !.received_num = num,
                                     !.received_num_part = num[4 - idx],
                                     !.received_num_idx = idx - 1]
  BY DEF Fetched
<1>. HIDE DEF num, idx
<1>5. /\ Fetched(rx, word) \in RxType
      /\ Fetched(rx, word).received_num = num
      /\ Fetched(rx, word).received_num_part = num[4 - idx]
      /\ Fetched(rx, word).received_num_idx = idx - 1
      /\ Fetched(rx, word).receiving_finished = rx.receiving_finished
  BY <1>1, <1>2, <1>3, <1>4 DEF RxType
<1>. QED  BY <1>2, <1>5 DEF num, idx

(* The next word is one of the comment or a typed one.                     *)
LEMMA NextWordsTyped ==
    ASSUME TypeOK, HalvesTyped
    PROVE  NextWords \subseteq AllWords
<1>1. CASE input_idx < Len(uart_input)
  <2>1. input_idx + 1 \in 1 .. Len(uart_input)
    BY <1>1 DEF TypeOK, HalvesTyped
  <2>. QED  BY <1>1, <2>1, ElementOfSeq DEF NextWords, HalvesTyped
<1>. QED  BY <1>1 DEF NextWords, AllWords

(* What R0 holds when it is taken over: the next packet of the value.      *)
LEMMA LatchedPacket ==
    ASSUME TypeOK, HalvesTyped, Latched.datatype \in {StringType, IntegerType}
    PROVE  /\ Latched \in TxType
           /\ Latched.sending_finished = tx.sending_finished
           /\ Latched.init_finished = tx.init_finished
           /\ tx.init_finished =>
                 /\ Latched.datatype = tx.datatype
                 /\ Latched.send_idx = tx.send_idx
                 /\ Len(Latched.send_data) = tx.send_idx + 1
                 /\ \A k \in 1 .. tx.send_idx : Latched.send_data[k] = tx.send_data[k]
                 /\ Latched.send_data[tx.send_idx + 1] = R0
           /\ ~tx.init_finished =>
                 /\ Latched.datatype = R0
                 /\ Latched.send_idx = 0 /\ Latched.send_data = <<>>
<1>1. /\ tx.send_data \in Seq(Byte) /\ tx.send_idx \in Nat /\ tx.send_idx <= Len(tx.send_data)
      /\ R0 \in Byte
  BY DEF TypeOK, HalvesTyped, TxType
<1>2. CASE tx.init_finished
  <2>. DEFINE front == SubSeq(tx.send_data, 1, tx.send_idx)
              data == Append(front, R0)
  <2>1. \A i \in 1 .. tx.send_idx : tx.send_data[i] \in Byte
    BY <1>1, ElementOfSeq
  <2>2. /\ front \in Seq(Byte) /\ Len(front) = tx.send_idx
        /\ \A k \in 1 .. tx.send_idx : front[k] = tx.send_data[k]
    BY <1>1, <2>1
  <2>3. Latched = [tx EXCEPT !.send_data = data]
    BY <1>2 DEF Latched
  <2>4. /\ data \in Seq(Byte) /\ Len(data) = tx.send_idx + 1
        /\ \A k \in 1 .. tx.send_idx : data[k] = tx.send_data[k]
        /\ data[tx.send_idx + 1] = R0
    <3>. HIDE DEF front
    <3>. QED  BY <1>1, <2>2
  <2>. HIDE DEF data
  <2>. QED  BY <1>2, <2>3, <2>4 DEF HalvesTyped, TxType
<1>3. CASE ~tx.init_finished
  <2>1. Latched = [tx EXCEPT !.datatype = R0, !.send_data = <<>>, !.send_idx = 0]
    BY <1>3 DEF Latched
  <2>2. tx \in TxType /\ <<>> \in Seq(Byte)
    BY DEF HalvesTyped
  <2>3. R0 \in {StringType, IntegerType}
    BY <2>1, <2>2 DEF TxType
  <2>. QED  BY <1>3, <2>1, <2>2, <2>3 DEF TxType
<1>. QED  BY <1>2, <1>3

----------------------------------------------------------------------------
(* What every driver finds and leaves behind: both bits are set unless one *)
(* waits for its bit.                                                      *)
LEMMA BothBits ==
    ASSUME TypeOK, Handshake, step # "poll"
    PROVE  status = {b0, b1} /\ ~tx.sending_finished /\ ~rx.receiving_finished
BY DEF TypeOK, Handshake

(* A step that leaves the UART and the driver alone.                       *)
LEMMA NothingChanges ==
    ASSUME UartInv, at' \in {"cpu", "receive", "send"},
           UNCHANGED <<options, device, driver, output, answers, calls>>
    PROVE  UartInv'
<1>. USE DEF UartInv, options, device, driver
<1>1. TypeOK'
  BY DEF TypeOK
<1>2. HalvesTyped' /\ (header \in Headers)'
  BY DEF HalvesTyped
<1>3. Handshake'
  BY DEF Handshake
<1>4. DisplayInv'
  BY DEF DisplayInv, Arrived
<1>5. KeyboardInv'
  BY DEF KeyboardInv, Held
<1>. QED  BY <1>1, <1>2, <1>3, <1>4, <1>5

(* A driver is called: none runs, and the halves of the UART are at rest.  *)
LEMMA CallDriverStep ==
    ASSUME UartInv, NEW c \in PrintCalls \cup {ReadCall}, CallDriver(c)
    PROVE  UartInv'
<1>0. /\ TypeOK /\ HalvesTyped /\ header \in Headers /\ Handshake
      /\ DisplayInv /\ KeyboardInv
  BY DEF UartInv
<1>1. /\ step = "idle" /\ call = NoCall /\ packet = 1 /\ got = <<>>
      /\ call.op # "print" /\ call.op # "read"
  BY <1>0 DEF CallDriver, Handshake, NoCall
<1>2. /\ call' = c /\ c # NoCall /\ at' = "receive" /\ calls' = calls + 1
      /\ UNCHANGED <<header, max_waiting_instrs, R0, R1, status, tx, rx, uart_input, input_idx,
                     packet, acc, got, output, answers>>
      /\ step' = IF c.op = "print" THEN "put" ELSE "load"
  <2>1. c # NoCall
    BY PrintedValue DEF NoCall, ReadCall
  <2>. QED  BY <2>1 DEF CallDriver, Instruction, options, device
<1>3. TypeOK'
  BY <1>0, <1>2 DEF TypeOK
<1>4. HalvesTyped' /\ (header \in Headers)'
  BY <1>0, <1>2 DEF HalvesTyped
<1>5. CASE c \in PrintCalls
  <2>1. c.op = "print" /\ Len(c.value) \in Nat /\ Len(c.value) >= 2
    BY <1>5, PrintedValue
  <2>2. Handshake'
    BY <1>0, <1>1, <1>2, <2>1, BothBits DEF Handshake, NoCall
  <2>3. DisplayInv'
    BY <1>0, <1>1, <1>2, <2>1, BothBits DEF DisplayInv, Arrived
  <2>4. KeyboardInv'
    BY <1>0, <1>1, <1>2, <2>1 DEF KeyboardInv
  <2>. QED  BY <1>3, <1>4, <2>2, <2>3, <2>4 DEF UartInv
<1>6. CASE c = ReadCall
  <2>1. c.op = "read"
    BY <1>6 DEF ReadCall
  <2>2. Handshake'
    BY <1>0, <1>1, <1>2, <2>1, BothBits DEF Handshake, NoCall
  <2>3. DisplayInv'
    BY <1>0, <1>1, <1>2, <2>1 DEF DisplayInv
  <2>4. KeyboardInv'
    BY <1>0, <1>1, <1>2, <2>1 DEF KeyboardInv, Held
  <2>. QED  BY <1>3, <1>4, <2>2, <2>3, <2>4 DEF UartInv
<1>. QED  BY <1>5, <1>6

(* What is known of the driver that runs.                                  *)
LEMMA RunningDriver ==
    ASSUME UartInv, step # "idle"
    PROVE  /\ call # NoCall /\ call \in PrintCalls \cup {ReadCall}
           /\ call.op = "print" =>
                 /\ call \in PrintCalls /\ call # ReadCall
                 /\ call.value \in Seq(Byte) /\ Len(call.value) \in Nat /\ Len(call.value) >= 2
                 /\ packet \in 1 .. Len(call.value) /\ call.value[packet] \in Byte
                 /\ got = <<>> /\ step # "take" /\ rx.received_num_idx = -1
                 /\ Bit = b0
           /\ call.op # "print" =>
                 /\ call = ReadCall /\ call.op = "read"
                 /\ packet \in 1 .. 4 /\ Len(got) = packet - 1 /\ step # "put"
                 /\ ~tx.init_finished
                 /\ Bit = b1
<1>1. /\ TypeOK /\ HalvesTyped /\ Handshake /\ DisplayInv /\ KeyboardInv
  BY DEF UartInv
<1>2. call # NoCall /\ call \in PrintCalls \cup {ReadCall}
  BY <1>1 DEF TypeOK, Handshake
<1>3. CASE call \in PrintCalls
  <2>1. /\ call.op = "print" /\ call # ReadCall
        /\ call.value \in Seq(Byte) /\ Len(call.value) \in Nat /\ Len(call.value) >= 2
    BY <1>3, PrintedValue DEF ReadCall
  <2>2. packet \in 1 .. Len(call.value) /\ got = <<>> /\ step # "take"
    BY <1>1, <2>1 DEF Handshake
  <2>3. call.value[packet] \in Byte
    BY <2>1, <2>2, ElementOfSeq
  <2>4. rx.received_num_idx = -1
    BY <1>1, <2>1 DEF KeyboardInv
  <2>. QED  BY <1>2, <1>3, <2>1, <2>2, <2>3, <2>4 DEF Bit
<1>4. CASE call = ReadCall
  <2>1. call.op = "read"
    BY <1>4 DEF ReadCall
  <2>. QED  BY <1>1, <1>2, <1>4, <2>1 DEF Handshake, DisplayInv, Bit
<1>. QED  BY <1>2, <1>3, <1>4

(* The next packet is put into R0.                                         *)
LEMMA StorePacketStep ==
    ASSUME UartInv, StorePacket
    PROVE  UartInv'
<1>0. /\ TypeOK /\ HalvesTyped /\ header \in Headers /\ Handshake
      /\ DisplayInv /\ KeyboardInv
  BY DEF UartInv
<1>1. /\ step = "put" /\ step' = "load" /\ R0' = call.value[packet] /\ at' = "receive"
      /\ UNCHANGED <<header, max_waiting_instrs, R1, status, tx, rx, uart_input, input_idx,
                     call, packet, acc, got, output, answers, calls>>
  BY DEF StorePacket, Instruction, options
<1>2. call.op = "print" /\ call.op # "read" /\ R0' \in Byte /\ call # NoCall
  BY <1>1, RunningDriver
<1>3. TypeOK'
  BY <1>0, <1>1, <1>2 DEF TypeOK
<1>4. HalvesTyped' /\ (header \in Headers)'
  BY <1>0, <1>1 DEF HalvesTyped
<1>5. Handshake'
  BY <1>0, <1>1, <1>2, BothBits DEF Handshake
<1>6. DisplayInv'
  BY <1>0, <1>1, <1>2 DEF DisplayInv, Arrived
<1>7. KeyboardInv'
  BY <1>0, <1>1, <1>2 DEF KeyboardInv
<1>. QED  BY <1>3, <1>4, <1>5, <1>6, <1>7 DEF UartInv

(* The status register is copied to ACC: with both bits.                   *)
LEMMA LoadStatusStep ==
    ASSUME UartInv, LoadStatus
    PROVE  UartInv'
<1>0. /\ TypeOK /\ HalvesTyped /\ header \in Headers /\ Handshake
      /\ DisplayInv /\ KeyboardInv
  BY DEF UartInv
<1>1. /\ step = "load" /\ step' = "store" /\ acc' = status /\ at' = "receive"
      /\ UNCHANGED <<header, max_waiting_instrs, R0, R1, status, tx, rx, uart_input, input_idx,
                     call, packet, got, output, answers, calls>>
  BY DEF LoadStatus, Instruction, options, device
<1>2. status = {b0, b1}
  BY <1>0, <1>1, BothBits
<1>3. TypeOK'
  BY <1>0, <1>1 DEF TypeOK
<1>4. HalvesTyped' /\ (header \in Headers)'
  BY <1>0, <1>1 DEF HalvesTyped
<1>5. Handshake'
  BY <1>0, <1>1, <1>2 DEF Handshake
<1>6. DisplayInv'
  BY <1>0, <1>1 DEF DisplayInv, Arrived
<1>7. KeyboardInv'
  BY <1>0, <1>1 DEF KeyboardInv, Held
<1>. QED  BY <1>3, <1>4, <1>5, <1>6, <1>7 DEF UartInv

(* The bit of the driver is cleared, and no other.                         *)
LEMMA StoreStatusStep ==
    ASSUME UartInv, StoreStatus
    PROVE  UartInv'
<1>0. /\ TypeOK /\ HalvesTyped /\ header \in Headers /\ Handshake
      /\ DisplayInv /\ KeyboardInv
  BY DEF UartInv
<1>1. /\ step = "store" /\ step' = "poll" /\ status' = acc \ {Bit} /\ at' = "receive"
      /\ UNCHANGED <<header, max_waiting_instrs, R0, R1, tx, rx, uart_input, input_idx,
                     call, packet, acc, got, output, answers, calls>>
  BY DEF StoreStatus, Instruction, options
<1>2. /\ acc = {b0, b1} /\ status = {b0, b1}
      /\ ~tx.sending_finished /\ ~rx.receiving_finished
  BY <1>0, <1>1, BothBits DEF Handshake
<1>3. /\ call # NoCall
      /\ \/ call.op = "print" /\ call.op # "read" /\ status' = {b1}
         \/ call.op = "read" /\ call.op # "print" /\ status' = {b0}
  <2>1. b0 # b1
    BY DEF b0, b1
  <2>. QED  BY <1>1, <1>2, <2>1, RunningDriver
<1>4. b0 # b1
  BY DEF b0, b1
<1>5. TypeOK'
  BY <1>0, <1>1, <1>3 DEF TypeOK
<1>6. HalvesTyped' /\ (header \in Headers)'
  BY <1>0, <1>1 DEF HalvesTyped
<1>7. Handshake'
  BY <1>0, <1>1, <1>2, <1>3, <1>4 DEF Handshake
<1>8. DisplayInv'
  <2>1. call.op = "print" => Arrived' = Arrived
    BY <1>1, <1>3, <1>4 DEF Arrived
  <2>. QED  BY <1>0, <1>1, <2>1 DEF DisplayInv
<1>9. KeyboardInv'
  <2>1. call.op = "read" => Held' = packet - 1 /\ Held = packet - 1
    BY <1>1, <1>2, <1>3, <1>4 DEF Held
  <2>. QED  BY <1>0, <1>1, <1>2, <1>3, <2>1 DEF KeyboardInv
<1>. QED  BY <1>5, <1>6, <1>7, <1>8, <1>9 DEF UartInv

(* The bit is set again: on to the next packet, or the call is over.       *)
LEMMA PollSentStep ==
    ASSUME UartInv, PollSent
    PROVE  UartInv'
<1>0. /\ TypeOK /\ HalvesTyped /\ header \in Headers /\ Handshake
      /\ DisplayInv /\ KeyboardInv
  BY DEF UartInv
<1>1. /\ step = "poll" /\ call.op = "print" /\ b0 \in status /\ at' = "receive"
      /\ UNCHANGED <<header, max_waiting_instrs, R0, R1, status, tx, rx, uart_input, input_idx,
                     output, answers, calls>>
      /\ IF packet < Len(call.value)
         THEN packet' = packet + 1 /\ step' = "put" /\ UNCHANGED <<call, acc, got>>
         ELSE NoDriver
  BY DEF PollSent, Instruction, options, device, Bit
<1>2. /\ call # NoCall /\ call.op # "read" /\ packet \in 1 .. Len(call.value)
      /\ Len(call.value) \in Nat /\ got = <<>> /\ rx.received_num_idx = -1
  BY <1>1, RunningDriver
<1>3. b1 \in status /\ ~tx.sending_finished /\ ~rx.receiving_finished
  BY <1>0, <1>1, <1>2 DEF Handshake
<1>4. Arrived = packet
  BY <1>1 DEF Arrived
<1>5. header' \in Headers /\ TypeOK'
  <2>1. /\ call' \in PrintCalls \cup {ReadCall, NoCall} /\ step' \in {"idle", "put"}
        /\ acc' \subseteq {b0, b1} /\ got' = <<>>
    BY <1>0, <1>1, <1>2 DEF TypeOK, NoDriver
  <2>. QED  BY <1>0, <1>1, <2>1 DEF TypeOK
<1>6. CASE packet < Len(call.value)
  <2>1. packet' = packet + 1 /\ step' = "put" /\ UNCHANGED <<call, acc, got>>
    BY <1>1, <1>6
  <2>2. HalvesTyped'
    BY <1>0, <1>1, <2>1 DEF HalvesTyped
  <2>3. Handshake'
    BY <1>0, <1>1, <1>2, <1>3, <1>6, <2>1 DEF Handshake
  <2>4. Arrived' = Arrived
    BY <1>2, <1>4, <2>1 DEF Arrived
  <2>5. DisplayInv'
    BY <1>0, <1>1, <2>1, <2>4 DEF DisplayInv
  <2>6. KeyboardInv'
    BY <1>0, <1>1, <1>2, <2>1 DEF KeyboardInv
  <2>. QED  BY <1>5, <2>2, <2>3, <2>5, <2>6 DEF UartInv
<1>7. CASE ~(packet < Len(call.value))
  <2>1. call' = NoCall /\ step' = "idle" /\ packet' = 1 /\ acc' = {} /\ got' = <<>>
    BY <1>1, <1>7 DEF NoDriver
  <2>2. HalvesTyped'
    BY <1>0, <1>1, <2>1 DEF HalvesTyped
  <2>3. call'.op # "print" /\ call'.op # "read"
    BY <2>1 DEF NoCall
  <2>4. Handshake'
    BY <1>1, <1>3, <2>1, <2>3 DEF Handshake
  <2>5. ~tx.init_finished
    BY <1>0, <1>1, <1>2, <1>4, <1>7 DEF DisplayInv
  <2>6. DisplayInv' /\ KeyboardInv'
    BY <1>1, <1>2, <2>3, <2>5 DEF DisplayInv, KeyboardInv
  <2>. QED  BY <1>5, <2>2, <2>4, <2>6 DEF UartInv
<1>. QED  BY <1>6, <1>7

(* The bit is set: a packet can be taken.                                  *)
LEMMA PollReceivedStep ==
    ASSUME UartInv, PollReceived
    PROVE  UartInv'
<1>0. /\ TypeOK /\ HalvesTyped /\ header \in Headers /\ Handshake
      /\ DisplayInv /\ KeyboardInv
  BY DEF UartInv
<1>1. /\ step = "poll" /\ step' = "take" /\ at' = "receive" /\ Bit \in status
      /\ call.op = "read"
      /\ UNCHANGED <<header, max_waiting_instrs, R0, R1, status, tx, rx, uart_input, input_idx,
                     call, packet, acc, got, output, answers, calls>>
  BY DEF PollReceived, Instruction, options, device
<1>2. call # NoCall /\ call.op # "print" /\ b1 \in status
  BY <1>1, RunningDriver
<1>3. b0 \in status /\ ~rx.receiving_finished
  BY <1>0, <1>2 DEF Handshake
<1>4. TypeOK'
  BY <1>0, <1>1 DEF TypeOK
<1>5. HalvesTyped' /\ (header \in Headers)'
  BY <1>0, <1>1 DEF HalvesTyped
<1>6. Handshake'
  BY <1>0, <1>1, <1>2, <1>3 DEF Handshake
<1>7. DisplayInv'
  BY <1>0, <1>1, <1>2 DEF DisplayInv
<1>8. Held' = Held
  BY <1>1, <1>2 DEF Held
<1>9. KeyboardInv'
  BY <1>0, <1>1, <1>8 DEF KeyboardInv
<1>. QED  BY <1>4, <1>5, <1>6, <1>7, <1>9 DEF UartInv

(* What is known when a packet is taken: it is the next one of the word.   *)
LEMMA TakenPacket ==
    ASSUME UartInv, TakePacket
    PROVE  /\ call.op = "read" /\ call.op # "print" /\ call # NoCall
           /\ packet \in 1 .. 4 /\ R1 = rx.received_num[packet]
           /\ status = {b0, b1} /\ ~tx.sending_finished /\ ~rx.receiving_finished
           /\ rx.received_num \in AllWords
           /\ rx.received_num_idx = IF packet = 4 THEN -1 ELSE 3 - packet
           /\ Append(got, R1) \in Seq(Byte) /\ Len(Append(got, R1)) = packet
           /\ \A k \in 1 .. packet : Append(got, R1)[k] = rx.received_num[k]
<1>0. TypeOK /\ Handshake /\ KeyboardInv /\ step = "take"
  BY DEF UartInv, TakePacket
<1>1. call.op = "read" /\ call.op # "print" /\ call # NoCall
  BY <1>0, RunningDriver
<1>2. packet \in 1 .. 4 /\ Len(got) = packet - 1 /\ got \in Seq(Byte) /\ R1 \in Byte
  BY <1>0, <1>1 DEF TypeOK, Handshake
<1>3. status = {b0, b1} /\ ~tx.sending_finished /\ ~rx.receiving_finished
  BY <1>0, BothBits
<1>4. Held = packet
  BY <1>0 DEF Held
<1>5. /\ R1 = rx.received_num[packet] /\ rx.received_num \in AllWords
      /\ rx.received_num_idx = IF packet = 4 THEN -1 ELSE 3 - packet
      /\ \A k \in 1 .. packet - 1 : got[k] = rx.received_num[k]
  BY <1>0, <1>1, <1>2, <1>3, <1>4 DEF KeyboardInv
<1>6. /\ Append(got, R1) \in Seq(Byte) /\ Len(Append(got, R1)) = packet
      /\ \A k \in 1 .. packet - 1 : Append(got, R1)[k] = got[k]
      /\ Append(got, R1)[packet] = R1
  BY <1>2
<1>7. \A k \in 1 .. packet : k \in 1 .. packet - 1 \/ k = packet
  BY <1>2
<1>. QED  BY <1>1, <1>2, <1>3, <1>5, <1>6, <1>7

(* A packet is taken; the fourth ends the call.                            *)
LEMMA TakePacketStep ==
    ASSUME UartInv, TakePacket
    PROVE  UartInv'
<1>0. /\ TypeOK /\ HalvesTyped /\ header \in Headers /\ Handshake
      /\ DisplayInv /\ KeyboardInv
  BY DEF UartInv
<1>. DEFINE taken == Append(got, R1)
<1>1. /\ step = "take" /\ at' = "receive"
      /\ UNCHANGED <<header, max_waiting_instrs, R0, R1, status, tx, rx, uart_input, input_idx,
                     output, calls>>
      /\ IF packet < 4
         THEN got' = taken /\ packet' = packet + 1 /\ step' = "load"
              /\ UNCHANGED <<call, acc, answers>>
         ELSE answers' = Append(answers, taken) /\ NoDriver
  BY DEF TakePacket, Instruction, options, device
<1>2. /\ call.op = "read" /\ call.op # "print" /\ call # NoCall
      /\ packet \in 1 .. 4
      /\ status = {b0, b1} /\ ~tx.sending_finished /\ ~rx.receiving_finished
      /\ rx.received_num \in AllWords
      /\ rx.received_num_idx = IF packet = 4 THEN -1 ELSE 3 - packet
      /\ taken \in Seq(Byte) /\ Len(taken) = packet
      /\ \A k \in 1 .. packet : taken[k] = rx.received_num[k]
  BY TakenPacket
<1>. HIDE DEF taken
<1>3. header' \in Headers /\ TypeOK'
  <2>1. /\ call' \in PrintCalls \cup {ReadCall, NoCall} /\ step' \in {"idle", "load"}
        /\ acc' \subseteq {b0, b1}
    BY <1>0, <1>1, <1>2 DEF TypeOK, NoDriver
  <2>2. got' \in Seq(Byte) /\ Len(got') <= 4
    <3>1. got' = taken \/ got' = <<>>
      BY <1>1 DEF NoDriver
    <3>2. <<>> \in Seq(Byte) /\ Len(<<>>) = 0
      OBVIOUS
    <3>3. taken \in Seq(Byte) /\ Len(taken) <= 4
      BY <1>2
    <3>4. got' = <<>> => got' \in Seq(Byte) /\ Len(got') <= 4
      BY <3>2
    <3>5. got' = taken => got' \in Seq(Byte) /\ Len(got') <= 4
      BY <3>3
    <3>. QED  BY <3>1, <3>4, <3>5
  <2>. QED  BY <1>0, <1>1, <2>1, <2>2 DEF TypeOK
<1>4. ~tx.init_finished
  BY <1>0, <1>2 DEF DisplayInv
<1>5. CASE packet < 4
  <2>1. /\ got' = taken /\ packet' = packet + 1 /\ step' = "load"
        /\ UNCHANGED <<call, acc, answers>>
    BY <1>1, <1>5
  <2>2. HalvesTyped'
    BY <1>0, <1>1, <2>1 DEF HalvesTyped
  <2>3. Handshake'
    BY <1>1, <1>2, <1>5, <2>1 DEF Handshake
  <2>4. DisplayInv'
    BY <1>1, <1>2, <1>4, <2>1 DEF DisplayInv
  <2>5. Held' = packet
    BY <1>2, <2>1 DEF Held
  <2>6. KeyboardInv'
    BY <1>1, <1>2, <1>5, <2>1, <2>5 DEF KeyboardInv
  <2>. QED  BY <1>3, <2>2, <2>3, <2>4, <2>6 DEF UartInv
<1>6. CASE ~(packet < 4)
  <2>1. /\ call' = NoCall /\ step' = "idle" /\ packet' = 1 /\ acc' = {} /\ got' = <<>>
        /\ answers' = Append(answers, taken)
    BY <1>1, <1>6 DEF NoDriver
  <2>2. HalvesTyped'
    BY <1>0, <1>1, <1>2, <2>1 DEF HalvesTyped
  <2>3. call'.op # "print" /\ call'.op # "read"
    BY <2>1 DEF NoCall
  <2>4. Handshake'
    BY <1>1, <1>2, <2>1, <2>3 DEF Handshake
  <2>5. DisplayInv' /\ KeyboardInv'
    BY <1>1, <1>2, <1>4, <1>6, <2>3 DEF DisplayInv, KeyboardInv
  <2>. QED  BY <1>3, <2>2, <2>4, <2>5 DEF UartInv
<1>. QED  BY <1>5, <1>6

\* What holds after the UART has been reset and no driver runs.
AtRest ==
    /\ max_waiting_instrs \in Byte /\ at \in {"cpu", "receive", "send"} /\ header \in Headers
    /\ R0 = 0 /\ R1 = 0 /\ status = {b0, b1} /\ tx = FreshTx /\ rx = FreshRx
    /\ uart_input \in Seq(AllWords) /\ input_idx = 0
    /\ call = NoCall /\ step = "idle" /\ packet = 1 /\ acc = {} /\ got = <<>>
    /\ output \in Seq(Seq(Byte)) /\ answers \in Seq(Seq(Byte)) /\ calls \in Nat

(* A UART that has been reset, without a driver.                           *)
LEMMA FreshHalves == AtRest => UartInv
<1>. SUFFICES ASSUME AtRest PROVE UartInv
  OBVIOUS
<1>1. FreshTx \in TxType /\ FreshRx \in RxType
  <2>1. <<0, 0, 0, 0>> \in Word
    <3>1. <<0, 0, 0, 0>> \in Seq(Byte) /\ Len(<<0, 0, 0, 0>>) = 4
      BY DEF Byte
    <3>. QED  BY <3>1, LenProperties DEF Word
  <2>. HIDE DEF Word
  <2>2. 0 \in Byte /\ 0 \in Nat /\ -1 \in -1 .. 3 /\ <<>> \in Seq(Byte)
    BY DEF Byte
  <2>. QED  BY <2>1, <2>2 DEF FreshTx, FreshRx, TxType, RxType, StringType
<1>2. /\ ~tx.sending_finished /\ tx.sending_waiting_time = 0 /\ ~tx.init_finished
      /\ tx.send_data = <<>> /\ tx.send_idx = 0
      /\ ~rx.receiving_finished /\ rx.receiving_waiting_time = 0 /\ rx.received_num_idx = -1
  BY DEF AtRest, FreshTx, FreshRx
<1>3. Len(<<>>) = 0 /\ <<>> \in Seq(Byte) /\ 0 \in Byte
  BY DEF Byte
<1>4. TypeOK
  <2>1. max_waiting_instrs \in Nat /\ Len(uart_input) \in Nat
    BY DEF Byte, AtRest
  <2>. QED  BY <1>2, <1>3, <2>1 DEF TypeOK, AtRest
<1>5. HalvesTyped
  BY <1>1 DEF HalvesTyped, AtRest
<1>6. call.op # "print" /\ call.op # "read"
  BY DEF AtRest, NoCall
<1>7. Handshake
  BY <1>2, <1>6 DEF Handshake, AtRest
<1>8. DisplayInv
  BY <1>2, <1>6 DEF DisplayInv
<1>9. KeyboardInv
  BY <1>2, <1>6 DEF KeyboardInv
<1>. QED  BY <1>4, <1>5, <1>7, <1>8, <1>9 DEF UartInv, AtRest

(* The same of the next state.                                             *)
LEMMA FreshHalvesNext == AtRest' => UartInv'
BY FreshHalves, PTL

(* The emulator starts.                                                    *)
LEMMA UartStart == Init => UartInv
<1>. SUFFICES ASSUME Init PROVE UartInv
  OBVIOUS
<1>1. header \in Seq(Line)
  BY UartAssumption DEF Init, Line, Tokens
<1>2. uart_input \in Seq(AllWords)
  BY <1>1, CommentInputIs DEF Init
<1>3. max_waiting_instrs \in Byte
  BY UartAssumption DEF Init, Byte
<1>4. <<>> \in Seq(Seq(Byte)) /\ 0 \in Nat
  OBVIOUS
<1>. QED  BY <1>2, <1>3, <1>4, FreshHalves DEF Init, AtRest

(* The debugger restarts the program.                                      *)
LEMMA RestartStep ==
    ASSUME UartInv, Restart
    PROVE  UartInv'
<1>1. <<>> \in Seq(AllWords)
  OBVIOUS
<1>. QED  BY <1>1, FreshHalvesNext DEF UartInv, TypeOK, HalvesTyped, Restart, AtRest, NoDriver, options

\* The receiving half with another waiting time.
RxWith(r, finished, time) ==
    [r EXCEPT !.receiving_finished = finished, !.receiving_waiting_time = time]

(* It differs in nothing else.                                             *)
LEMMA RxWithTime ==
    ASSUME NEW r \in RxType, NEW finished \in BOOLEAN, NEW time \in Nat
    PROVE  /\ RxWith(r, finished, time) \in RxType
           /\ RxWith(r, finished, time).receiving_finished = finished
           /\ RxWith(r, finished, time).receiving_waiting_time = time
           /\ RxWith(r, finished, time).received_num = r.received_num
           /\ RxWith(r, finished, time).received_num_part = r.received_num_part
           /\ RxWith(r, finished, time).received_num_idx = r.received_num_idx
BY DEF RxWith, RxType

(* A packet is on its way to R1: its waiting time passes, or it arrives.   *)
LEMMA ReceiveWaitStep ==
    ASSUME UartInv, ReceiveWait
    PROVE  UartInv'
<1>0. /\ TypeOK /\ HalvesTyped /\ header \in Headers /\ Handshake
      /\ DisplayInv /\ KeyboardInv
  BY DEF UartInv
<1>1. /\ at' = "send" /\ rx.receiving_finished
      /\ UNCHANGED <<header, max_waiting_instrs, R0, tx, uart_input, input_idx, call, step,
                     packet, acc, got, output, answers, calls>>
      /\ IF rx.receiving_waiting_time = 1
         THEN Arrives(rx)
         ELSE /\ rx' = [rx EXCEPT !.receiving_waiting_time = @ - 1]
              /\ UNCHANGED <<R1, status>>
  BY DEF ReceiveWait, Receiving, options, driver
<1>2. /\ rx \in RxType /\ rx.receiving_waiting_time \in 1 .. max_waiting_instrs
      /\ max_waiting_instrs \in Nat /\ rx.received_num_part \in Byte
  <2>1. rx \in RxType /\ max_waiting_instrs \in Nat
    BY <1>0 DEF TypeOK, HalvesTyped, Byte
  <2>2. rx.receiving_waiting_time \in 0 .. max_waiting_instrs /\ rx.receiving_waiting_time > 0
    BY <1>0, <1>1 DEF TypeOK
  <2>. QED  BY <2>1, <2>2 DEF RxType
<1>3. /\ b1 \notin status /\ call.op = "read" /\ call.op # "print" /\ step = "poll"
      /\ b0 \in status /\ packet \in 1 .. 4
  <2>1. b0 # b1
    BY DEF b0, b1
  <2>. QED  BY <1>0, <1>1, <2>1 DEF Handshake
<1>4. /\ R1' \in Byte /\ status' \subseteq {b0, b1} /\ b0 \in status'
      /\ rx' \in RxType
      /\ rx'.received_num = rx.received_num
      /\ rx'.received_num_part = rx.received_num_part
      /\ rx'.received_num_idx = rx.received_num_idx
      /\ rx'.receiving_waiting_time \in 0 .. max_waiting_instrs
      /\ rx'.receiving_finished => rx'.receiving_waiting_time > 0 /\ b1 \notin status'
      /\ ~rx'.receiving_finished => R1' = rx.received_num_part /\ b1 \in status'
  <2>1. CASE rx.receiving_waiting_time = 1
    <3>1. /\ R1' = rx.received_num_part /\ status' = status \cup {b1}
          /\ rx' = RxWith(rx, FALSE, 0)
      BY <1>1, <2>1 DEF Arrives, RxWith
    <3>2. status \subseteq {b0, b1}
      BY <1>0 DEF TypeOK
    <3>3. /\ rx' \in RxType
          /\ rx'.received_num = rx.received_num
          /\ rx'.received_num_part = rx.received_num_part
          /\ rx'.received_num_idx = rx.received_num_idx
          /\ rx'.receiving_finished = FALSE /\ rx'.receiving_waiting_time = 0
      <4>1. rx \in RxType /\ FALSE \in BOOLEAN /\ 0 \in Nat
        BY <1>2
      <4>. QED  BY <3>1, <4>1, RxWithTime
    <3>4. status' \subseteq {b0, b1} /\ b0 \in status' /\ b1 \in status'
      BY <1>3, <3>1, <3>2
    <3>5. R1' \in Byte /\ 0 \in 0 .. max_waiting_instrs
      BY <1>2, <3>1
    <3>. QED  BY <3>1, <3>3, <3>4, <3>5
  <2>2. CASE rx.receiving_waiting_time # 1
    <3>1. rx' = [rx EXCEPT !.receiving_waiting_time = @ - 1] /\ UNCHANGED <<R1, status>>
      BY <1>1, <2>2
    <3>2. R1 \in Byte /\ status \subseteq {b0, b1}
      BY <1>0 DEF TypeOK
    <3>. QED  BY <1>1, <1>2, <1>3, <2>2, <3>1, <3>2 DEF RxType
  <2>. QED  BY <2>1, <2>2
<1>5. TypeOK'
  BY <1>0, <1>1, <1>4 DEF TypeOK
<1>6. HalvesTyped' /\ (header \in Headers)'
  BY <1>0, <1>1, <1>4 DEF HalvesTyped
<1>7. Handshake'
  BY <1>0, <1>1, <1>3, <1>4 DEF Handshake
<1>8. DisplayInv'
  BY <1>0, <1>1, <1>3 DEF DisplayInv
<1>9. Held = packet /\ Held' = packet
  BY <1>1, <1>3, <1>4 DEF Held
<1>10. KeyboardInv'
  BY <1>0, <1>1, <1>3, <1>4, <1>9 DEF KeyboardInv
<1>. QED  BY <1>5, <1>6, <1>7, <1>8, <1>10 DEF UartInv

(* What is known when a packet is fetched from the keyboard: it is the one *)
(* the driver waits for.                                                   *)
LEMMA FetchedNext ==
    ASSUME UartInv, NEW word \in NextWords, b1 \notin status, ~rx.receiving_finished
    PROVE  /\ call.op = "read" /\ call.op # "print" /\ step = "poll" /\ b0 \in status
           /\ packet \in 1 .. 4 /\ word \in AllWords
           /\ (rx.received_num_idx = -1) <=> (packet = 1)
           /\ Fetched(rx, word) \in RxType
           /\ Fetched(rx, word).received_num =
                 IF packet = 1 THEN word ELSE rx.received_num
           /\ Fetched(rx, word).received_num \in AllWords
           /\ Fetched(rx, word).received_num_part = Fetched(rx, word).received_num[packet]
           /\ Fetched(rx, word).received_num_idx = 3 - packet
           /\ Fetched(rx, word).receiving_finished = rx.receiving_finished
           /\ \A k \in 1 .. packet - 1 : got[k] = Fetched(rx, word).received_num[k]
<1>0. TypeOK /\ HalvesTyped /\ Handshake /\ KeyboardInv
  BY DEF UartInv
<1>1. b0 # b1
  BY DEF b0, b1
<1>2. /\ call.op = "read" /\ call.op # "print" /\ step = "poll" /\ b0 \in status
      /\ packet \in 1 .. 4 /\ word \in AllWords
  BY <1>0, <1>1, NextWordsTyped DEF Handshake
<1>3. Held = packet - 1
  BY <1>2 DEF Held
<1>4. /\ rx.received_num_idx = IF packet = 1 THEN -1 ELSE 4 - packet
      /\ packet > 1 => rx.received_num \in AllWords
      /\ \A k \in 1 .. packet - 1 : got[k] = rx.received_num[k]
  BY <1>0, <1>2, <1>3 DEF KeyboardInv
<1>5. (rx.received_num_idx = -1) <=> (packet = 1)
  BY <1>2, <1>4
<1>6. /\ Fetched(rx, word) \in RxType
      /\ Fetched(rx, word).received_num = IF packet = 1 THEN word ELSE rx.received_num
      /\ Fetched(rx, word).received_num_part = Fetched(rx, word).received_num[packet]
      /\ Fetched(rx, word).received_num_idx = 3 - packet
      /\ Fetched(rx, word).receiving_finished = rx.receiving_finished
  <2>1. CASE packet = 1
    <3>1. rx.received_num_idx = -1
      BY <1>5, <2>1
    <3>. QED  BY <1>0, <1>2, <2>1, <3>1, FetchedPacket
  <2>2. CASE packet # 1
    <3>1. rx.received_num_idx # -1 /\ 4 - rx.received_num_idx = packet
          /\ rx.received_num_idx - 1 = 3 - packet
      BY <1>2, <1>4, <1>5, <2>2
    <3>. QED  BY <1>0, <1>2, <2>2, <3>1, FetchedPacket
  <2>. QED  BY <2>1, <2>2
<1>7. \A k \in 1 .. packet - 1 : got[k] = Fetched(rx, word).received_num[k]
  BY <1>2, <1>4, <1>6
<1>8. Fetched(rx, word).received_num \in AllWords
  BY <1>2, <1>4, <1>6
<1>. QED  BY <1>2, <1>5, <1>6, <1>7, <1>8

(* A packet is fetched: it arrives at once or after its waiting time.      *)
LEMMA FetchPacketStep ==
    ASSUME UartInv, NEW word \in NextWords, NEW time \in WaitingTimes, FetchPacket(word, time)
    PROVE  UartInv'
<1>0. /\ TypeOK /\ HalvesTyped /\ header \in Headers /\ Handshake
      /\ DisplayInv /\ KeyboardInv
  BY DEF UartInv
<1>. DEFINE r == Fetched(rx, word)
<1>1. /\ at' = "send" /\ b1 \notin status /\ ~rx.receiving_finished
      /\ UNCHANGED <<header, max_waiting_instrs, R0, tx, uart_input, call, step,
                     packet, acc, got, output, answers, calls>>
      /\ input_idx' = IF input_idx < Len(uart_input) /\ r.received_num_idx = -1
                      THEN input_idx + 1 ELSE input_idx
      /\ IF max_waiting_instrs = 0
         THEN Arrives(r)
         ELSE /\ rx' = [r EXCEPT !.receiving_finished = TRUE, !.receiving_waiting_time = time]
              /\ UNCHANGED <<R1, status>>
  BY DEF FetchPacket, Receiving, options, driver
<1>2. /\ call.op = "read" /\ call.op # "print" /\ step = "poll" /\ b0 \in status
      /\ packet \in 1 .. 4 /\ r \in RxType
      /\ r.received_num \in AllWords /\ r.received_num_part = r.received_num[packet]
      /\ r.received_num_idx = 3 - packet
      /\ \A k \in 1 .. packet - 1 : got[k] = r.received_num[k]
  BY <1>1, FetchedNext
<1>. HIDE DEF r
<1>3. max_waiting_instrs \in Nat /\ Len(uart_input) \in Nat /\ r.received_num_part \in Byte
  BY <1>0, <1>2 DEF TypeOK, HalvesTyped, Byte, RxType
<1>4. /\ R1' \in Byte /\ status' \subseteq {b0, b1} /\ b0 \in status'
      /\ rx' \in RxType /\ rx'.received_num = r.received_num
      /\ rx'.received_num_part = r.received_num_part
      /\ rx'.received_num_idx = r.received_num_idx
      /\ rx'.receiving_waiting_time \in 0 .. max_waiting_instrs
      /\ rx'.receiving_finished => rx'.receiving_waiting_time > 0 /\ b1 \notin status'
      /\ ~rx'.receiving_finished => R1' = r.received_num_part /\ b1 \in status'
  <2>1. status \subseteq {b0, b1} /\ R1 \in Byte
    BY <1>0 DEF TypeOK
  <2>2. CASE max_waiting_instrs = 0
    <3>1. /\ R1' = r.received_num_part /\ status' = status \cup {b1}
          /\ rx' = RxWith(r, FALSE, 0)
      BY <1>1, <2>2 DEF Arrives, RxWith
    <3>2. /\ rx' \in RxType /\ rx'.received_num = r.received_num
          /\ rx'.received_num_part = r.received_num_part
          /\ rx'.received_num_idx = r.received_num_idx
          /\ rx'.receiving_finished = FALSE /\ rx'.receiving_waiting_time = 0
      BY <1>2, <3>1, RxWithTime
    <3>3. status' \subseteq {b0, b1} /\ b0 \in status' /\ b1 \in status'
      BY <1>2, <2>1, <3>1
    <3>4. R1' \in Byte /\ 0 \in 0 .. max_waiting_instrs
      BY <1>3, <3>1
    <3>. QED  BY <3>1, <3>2, <3>3, <3>4
  <2>3. CASE max_waiting_instrs # 0
    <3>1. rx' = RxWith(r, TRUE, time) /\ UNCHANGED <<R1, status>>
      BY <1>1, <2>3 DEF RxWith
    <3>2. time \in 1 .. max_waiting_instrs
      BY <2>3 DEF WaitingTimes
    <3>3. time \in Nat /\ time > 0 /\ time \in 0 .. max_waiting_instrs
      BY <1>3, <3>2
    <3>4. /\ rx' \in RxType /\ rx'.received_num = r.received_num
          /\ rx'.received_num_part = r.received_num_part
          /\ rx'.received_num_idx = r.received_num_idx
          /\ rx'.receiving_finished = TRUE /\ rx'.receiving_waiting_time = time
      BY <1>2, <3>1, <3>3, RxWithTime
    <3>. QED  BY <1>1, <1>2, <2>1, <3>1, <3>3, <3>4
  <2>. QED  BY <2>2, <2>3
<1>5. TypeOK'
  <2>1. input_idx' \in 0 .. Len(uart_input)
    BY <1>0, <1>1, <1>3 DEF TypeOK
  <2>2. rx'.received_num_idx \in -1 .. 3
    BY <1>4 DEF RxType
  <2>. QED  BY <1>0, <1>1, <1>4, <2>1, <2>2 DEF TypeOK
<1>6. HalvesTyped' /\ (header \in Headers)'
  BY <1>0, <1>1, <1>4 DEF HalvesTyped
<1>7. Handshake'
  BY <1>0, <1>1, <1>2, <1>4 DEF Handshake
<1>8. DisplayInv'
  BY <1>0, <1>1, <1>2 DEF DisplayInv
<1>9. Held' = packet
  BY <1>1, <1>2, <1>4 DEF Held
<1>10. KeyboardInv'
  BY <1>1, <1>2, <1>4, <1>9 DEF KeyboardInv
<1>. QED  BY <1>5, <1>6, <1>7, <1>8, <1>10 DEF UartInv

----------------------------------------------------------------------------
\* The sending half with another waiting time, and after a packet has arrived.
TxWith(t, finished, time) ==
    [t EXCEPT !.sending_finished = finished, !.sending_waiting_time = time]
TxArrived(t, idx, init) ==
    [t EXCEPT !.sending_finished = FALSE, !.sending_waiting_time = 0,
              !.send_idx = idx, !.init_finished = init]

(* They differ in nothing else.                                            *)
LEMMA TxWithTime ==
    ASSUME NEW t \in TxType, NEW finished \in BOOLEAN, NEW time \in Nat
    PROVE  /\ TxWith(t, finished, time) \in TxType
           /\ TxWith(t, finished, time).sending_finished = finished
           /\ TxWith(t, finished, time).sending_waiting_time = time
           /\ TxWith(t, finished, time).init_finished = t.init_finished
           /\ TxWith(t, finished, time).datatype = t.datatype
           /\ TxWith(t, finished, time).send_idx = t.send_idx
           /\ TxWith(t, finished, time).send_data = t.send_data
BY DEF TxWith, TxType

\* The sending half t is sending the packet that the driver has put into R0.
OnItsWay(t) ==
    /\ t \in TxType
    /\ t.init_finished = tx.init_finished
    /\ t.datatype = call.value[1]
    /\ t.init_finished =>
          /\ t.send_idx = packet - 2
          /\ Len(t.send_data) = packet - 1
          /\ \A k \in 1 .. packet - 1 : t.send_data[k] = call.value[k + 1]
    /\ ~t.init_finished => t.send_idx = 0 /\ t.send_data = <<>>

(* While the bit to send is clear the driver that prints waits for it.     *)
LEMMA SendingDriver ==
    ASSUME UartInv, b0 \notin status
    PROVE  /\ call \in PrintCalls /\ call.op = "print" /\ call.op # "read" /\ call # NoCall
           /\ step = "poll" /\ packet \in 1 .. Len(call.value)
           /\ Len(call.value) \in Nat /\ Len(call.value) >= 2
           /\ R0 = call.value[packet] /\ Arrived = packet - 1
           /\ tx.init_finished <=> packet > 1
           /\ got = <<>> /\ b1 \in status /\ ~rx.receiving_finished
           /\ rx.received_num_idx = -1
<1>0. TypeOK /\ HalvesTyped /\ Handshake /\ DisplayInv
  BY DEF UartInv
<1>1. call.op = "print" /\ step = "poll"
  BY <1>0 DEF Handshake
<1>2. /\ call \in PrintCalls /\ call.op # "read" /\ call # NoCall
      /\ packet \in 1 .. Len(call.value) /\ Len(call.value) \in Nat /\ Len(call.value) >= 2
      /\ got = <<>> /\ rx.received_num_idx = -1
  BY <1>1, RunningDriver
<1>3. b1 \in status /\ ~rx.receiving_finished
  BY <1>0, <1>2 DEF Handshake
<1>4. Arrived = packet - 1
  BY <1>1 DEF Arrived
<1>5. tx.init_finished <=> packet > 1
  BY <1>0, <1>1, <1>2, <1>4 DEF DisplayInv
<1>6. R0 = call.value[packet]
  BY <1>0, <1>1 DEF DisplayInv
<1>. QED  BY <1>1, <1>2, <1>3, <1>4, <1>5, <1>6

(* The packet whose waiting time passes.                                   *)
LEMMA WaitingOnItsWay ==
    ASSUME UartInv, tx.sending_finished
    PROVE  b0 \notin status /\ OnItsWay(tx)
<1>0. HalvesTyped /\ Handshake /\ DisplayInv
  BY DEF UartInv
<1>1. b0 \notin status
  BY <1>0 DEF Handshake
<1>2. call.op = "print" /\ Arrived = packet - 1 /\ packet \in Nat
  BY <1>0, <1>1, SendingDriver DEF HalvesTyped
<1>3. /\ tx.datatype = call.value[1]
      /\ ~tx.init_finished => tx.send_idx = 0 /\ tx.send_data = <<>>
      /\ tx.init_finished =>
            /\ tx.send_idx = packet - 2 /\ Len(tx.send_data) = packet - 1
            /\ \A k \in 1 .. packet - 1 : tx.send_data[k] = call.value[k + 1]
  BY <1>0, <1>2 DEF DisplayInv
<1>. QED  BY <1>0, <1>1, <1>3 DEF OnItsWay, HalvesTyped

(* The packet that is taken over from R0.                                  *)
LEMMA LatchedOnItsWay ==
    ASSUME UartInv, b0 \notin status, ~tx.sending_finished,
           Latched.datatype \in {StringType, IntegerType}
    PROVE  OnItsWay(Latched)
<1>0. TypeOK /\ HalvesTyped /\ DisplayInv
  BY DEF UartInv
<1>1. /\ call.op = "print" /\ Arrived = packet - 1 /\ packet \in Nat \ {0}
      /\ R0 = call.value[packet] /\ (tx.init_finished <=> packet > 1)
  BY SendingDriver
<1>. DEFINE L == Latched
<1>2. /\ L \in TxType /\ L.init_finished = tx.init_finished
      /\ tx.init_finished =>
            /\ L.datatype = tx.datatype
            /\ L.send_idx = tx.send_idx
            /\ Len(L.send_data) = tx.send_idx + 1
            /\ \A k \in 1 .. tx.send_idx : L.send_data[k] = tx.send_data[k]
            /\ L.send_data[tx.send_idx + 1] = R0
      /\ ~tx.init_finished => L.datatype = R0 /\ L.send_idx = 0 /\ L.send_data = <<>>
  BY <1>0, LatchedPacket
<1>. HIDE DEF L
<1>3. CASE tx.init_finished
  <2>1. /\ tx.datatype = call.value[1] /\ tx.send_idx = packet - 2
        /\ Len(tx.send_data) = packet - 2
        /\ \A k \in 1 .. packet - 2 : tx.send_data[k] = call.value[k + 1]
    BY <1>0, <1>1, <1>3 DEF DisplayInv
  <2>2. \A k \in 1 .. packet - 1 : k \in 1 .. packet - 2 \/ k = packet - 1
    BY <1>1
  <2>3. L.send_data[packet - 1] = call.value[packet]
    BY <1>1, <1>2, <1>3, <2>1
  <2>4. \A k \in 1 .. packet - 1 : L.send_data[k] = call.value[k + 1]
    BY <1>1, <1>2, <1>3, <2>1, <2>2, <2>3
  <2>5. L.send_idx = packet - 2 /\ Len(L.send_data) = packet - 1 /\ L.datatype = call.value[1]
    BY <1>1, <1>2, <1>3, <2>1
  <2>6. OnItsWay(L)
    BY <1>2, <1>3, <2>4, <2>5 DEF OnItsWay
  <2>. QED  BY <2>6 DEF L
<1>4. CASE ~tx.init_finished
  <2>1. packet = 1
    BY <1>1, <1>4
  <2>2. OnItsWay(L)
    BY <1>1, <1>2, <1>4, <2>1 DEF OnItsWay
  <2>. QED  BY <2>2 DEF L
<1>. QED  BY <1>3, <1>4

(* The display finds the end of a value just where it is.                  *)
LEMMA LastPacketIsLast ==
    ASSUME UartInv, b0 \notin status, NEW t, OnItsWay(t), t.init_finished
    PROVE  LastPacket(t) <=> packet = Len(call.value)
<1>1. /\ call \in PrintCalls /\ packet \in 2 .. Len(call.value) /\ Len(call.value) \in Nat
      /\ R0 = call.value[packet]
  BY SendingDriver DEF OnItsWay
<1>2. t.datatype = call.value[1] /\ t.send_idx = packet - 2
  BY DEF OnItsWay
<1>3. StringType # IntegerType
  BY DEF StringType, IntegerType
<1>4. CASE call.value[1] = StringType
  <2>1. LastPacket(t) <=> R0 = 0
    BY <1>2, <1>4 DEF LastPacket
  <2>2. \A k \in 2 .. Len(call.value) : call.value[k] = 0 <=> k = Len(call.value)
    BY <1>1, <1>4, PrintedValue
  <2>. QED  BY <1>1, <2>1, <2>2
<1>5. CASE call.value[1] = IntegerType
  <2>1. LastPacket(t) <=> t.send_idx + 1 = 4
    BY <1>2, <1>3, <1>5 DEF LastPacket
  <2>2. Len(call.value) = 5
    BY <1>1, <1>5, PrintedValue
  <2>. QED  BY <1>1, <1>2, <2>1, <2>2
<1>. QED  BY <1>1, <1>4, <1>5, PrintedValue

(* A packet has arrived at the display.                                    *)
LEMMA SentStep ==
    ASSUME UartInv, b0 \notin status, NEW t, OnItsWay(t), Sent(t), at' = "cpu",
           UNCHANGED <<options, R0, R1, rx, uart_input, input_idx, driver, answers, calls>>
    PROVE  UartInv'
<1>0. /\ TypeOK /\ HalvesTyped /\ header \in Headers /\ Handshake
      /\ DisplayInv /\ KeyboardInv
  BY DEF UartInv
<1>. DEFINE idx == IF t.init_finished THEN t.send_idx + 1 ELSE t.send_idx
            init == ~t.init_finished \/ ~LastPacket(t)
<1>1. /\ call \in PrintCalls /\ call.op = "print" /\ call.op # "read" /\ call # NoCall
      /\ step = "poll" /\ packet \in 1 .. Len(call.value)
      /\ Len(call.value) \in Nat /\ Len(call.value) >= 2
      /\ R0 = call.value[packet]
      /\ tx.init_finished <=> packet > 1
      /\ got = <<>> /\ b1 \in status /\ ~rx.receiving_finished
  BY SendingDriver
<1>2. /\ t \in TxType /\ t.init_finished = tx.init_finished /\ t.datatype = call.value[1]
      /\ t.send_idx \in Nat /\ t.send_data \in Seq(Byte) /\ t.datatype \in Byte
      /\ t.init_finished \in BOOLEAN
  BY DEF OnItsWay, TxType, StringType, IntegerType, Byte
<1>3. /\ idx = packet - 1
      /\ Len(t.send_data) = packet - 1
      /\ \A k \in 1 .. packet - 1 : t.send_data[k] = call.value[k + 1]
  <2>1. CASE t.init_finished
    BY <1>1, <2>1 DEF OnItsWay
  <2>2. CASE ~t.init_finished
    <3>1. packet = 1 /\ t.send_idx = 0 /\ Len(t.send_data) = 0
      BY <1>1, <1>2, <2>2 DEF OnItsWay
    <3>. QED  BY <2>2, <3>1
  <2>. QED  BY <2>1, <2>2
<1>4. init <=> packet < Len(call.value)
  <2>1. CASE t.init_finished
    BY <1>1, <2>1, LastPacketIsLast
  <2>2. CASE ~t.init_finished
    BY <1>1, <1>2, <2>2
  <2>. QED  BY <2>1, <2>2
<1>5. status' = status \cup {b0}
  BY DEF Sent
<1>6. /\ tx' = TxArrived(t, idx, init)
      /\ output' = output \/ output' = Append(output, <<t.datatype>> \o t.send_data)
  <2>1. CASE t.init_finished
    BY <2>1 DEF Sent, TxArrived
  <2>2. CASE ~t.init_finished
    <3>1. tx' = [t EXCEPT !.sending_finished = FALSE, !.sending_waiting_time = 0,
                          !.init_finished = TRUE]
          /\ output' = output
      BY <2>2 DEF Sent
    <3>. QED  BY <1>2, <2>2, <3>1 DEF TxArrived, TxType
  <2>. QED  BY <2>1, <2>2
<1>7. init \in BOOLEAN /\ idx \in Nat
  BY <1>2
<1>. HIDE DEF idx, init
<1>8. /\ tx' \in TxType /\ tx'.sending_finished = FALSE /\ tx'.sending_waiting_time = 0
      /\ tx'.init_finished = init /\ tx'.datatype = t.datatype /\ tx'.send_idx = idx
      /\ tx'.send_data = t.send_data
  <2>1. tx' = TxArrived(t, idx, init)
    BY <1>6
  <2>. QED  BY <1>2, <1>7, <2>1 DEF TxArrived, TxType
<1>9. UNCHANGED <<header, max_waiting_instrs, R0, R1, rx, uart_input, input_idx, call, step,
                  packet, acc, got, answers, calls>>
  BY DEF options, driver
<1>10. status' \subseteq {b0, b1} /\ b0 \in status' /\ b1 \in status'
  BY <1>0, <1>1, <1>5 DEF TypeOK
<1>11. TypeOK'
  <2>1. max_waiting_instrs \in Nat
    BY <1>0 DEF TypeOK, Byte
  <2>. QED  BY <1>0, <1>2, <1>3, <1>8, <1>9, <1>10, <2>1 DEF TypeOK
<1>12. HalvesTyped' /\ (header \in Headers)'
  <2>1. output' \in Seq(Seq(Byte))
    <3>1. <<t.datatype>> \o t.send_data \in Seq(Byte)
      BY <1>2, TypePrefixed
    <3>2. output' = output \/ output' = Append(output, <<t.datatype>> \o t.send_data)
      BY <1>6
    <3>. DEFINE shown == <<t.datatype>> \o t.send_data
    <3>. HIDE DEF shown
    <3>3. shown \in Seq(Byte) /\ output \in Seq(Seq(Byte))
      BY <1>0, <3>1 DEF shown, HalvesTyped
    <3>4. output' = output \/ output' = Append(output, shown)
      BY <3>2 DEF shown
    <3>. QED  BY <3>3, <3>4
  <2>. QED  BY <1>0, <1>8, <1>9, <2>1 DEF HalvesTyped
<1>13. Handshake'
  BY <1>0, <1>1, <1>8, <1>9, <1>10 DEF Handshake
<1>14. Arrived' = packet
  BY <1>1, <1>9, <1>10 DEF Arrived
<1>15. DisplayInv'
  BY <1>1, <1>2, <1>3, <1>4, <1>8, <1>9, <1>14 DEF DisplayInv
<1>16. KeyboardInv'
  BY <1>0, <1>1, <1>9 DEF KeyboardInv
<1>. QED  BY <1>11, <1>12, <1>13, <1>15, <1>16 DEF UartInv

(* A packet stays on its way.                                              *)
LEMMA SendingStep ==
    ASSUME UartInv, b0 \notin status, NEW t, OnItsWay(t), NEW time \in 1 .. max_waiting_instrs,
           tx' = TxWith(t, TRUE, time), UNCHANGED <<status, output>>, at' = "cpu",
           UNCHANGED <<options, R0, R1, rx, uart_input, input_idx, driver, answers, calls>>
    PROVE  UartInv'
<1>0. /\ TypeOK /\ HalvesTyped /\ header \in Headers /\ Handshake
      /\ DisplayInv /\ KeyboardInv
  BY DEF UartInv
<1>1. /\ call.op = "print" /\ call.op # "read" /\ call # NoCall /\ step = "poll"
      /\ packet \in 1 .. Len(call.value) /\ Len(call.value) \in Nat
      /\ R0 = call.value[packet] /\ Arrived = packet - 1
      /\ tx.init_finished <=> packet > 1
  BY SendingDriver
<1>2. t \in TxType /\ max_waiting_instrs \in Nat
  BY <1>0 DEF OnItsWay, TypeOK, Byte
<1>3. /\ tx' \in TxType /\ tx'.sending_finished = TRUE /\ tx'.sending_waiting_time = time
      /\ tx'.init_finished = t.init_finished /\ tx'.datatype = t.datatype
      /\ tx'.send_idx = t.send_idx /\ tx'.send_data = t.send_data
  <2>1. time \in Nat /\ TRUE \in BOOLEAN
    BY <1>2
  <2>. QED  BY <1>2, <2>1, TxWithTime
<1>4. UNCHANGED <<header, max_waiting_instrs, R0, R1, rx, uart_input, input_idx, call, step,
                  packet, acc, got, answers, calls>>
  BY DEF options, driver
<1>5. TypeOK'
  <2>1. t.send_data \in Seq(Byte) /\ t.send_idx <= Len(t.send_data)
    <3>1. CASE t.init_finished
      BY <1>1, <1>2, <3>1 DEF OnItsWay, TxType
    <3>2. CASE ~t.init_finished
      BY <1>2, <3>2 DEF OnItsWay, TxType
    <3>. QED  BY <3>1, <3>2
  <2>2. time \in 0 .. max_waiting_instrs /\ time > 0
    BY <1>2
  <2>. QED  BY <1>0, <1>3, <1>4, <2>1, <2>2 DEF TypeOK
<1>6. HalvesTyped' /\ (header \in Headers)'
  BY <1>0, <1>3, <1>4 DEF HalvesTyped
<1>7. Handshake'
  BY <1>0, <1>1, <1>3, <1>4 DEF Handshake
<1>8. Arrived' = packet - 1
  BY <1>1, <1>4 DEF Arrived
<1>9. DisplayInv'
  <2>1. /\ t.init_finished = tx.init_finished /\ t.datatype = call.value[1]
        /\ ~t.init_finished => t.send_idx = 0 /\ t.send_data = <<>>
        /\ t.init_finished => t.send_idx = packet - 2 /\ Len(t.send_data) = packet - 1
    BY DEF OnItsWay
  <2>2. t.init_finished =>
           \A k \in 1 .. Len(t.send_data) : t.send_data[k] = call.value[k + 1]
    BY <2>1 DEF OnItsWay
  <2>3. tx'.init_finished <=> Arrived' \in 1 .. Len(call.value) - 1
    <3>1. packet > 1 <=> packet - 1 \in 1 .. Len(call.value) - 1
      BY <1>1
    <3>2. tx'.init_finished <=> packet > 1
      BY <1>1, <1>3, <2>1
    <3>. QED  BY <1>8, <3>1, <3>2
  <2>4. CASE t.init_finished
    <3>1. /\ tx'.init_finished /\ tx'.sending_finished
          /\ tx'.send_data = t.send_data /\ tx'.send_idx = t.send_idx
      BY <1>3, <2>4
    <3>2. tx'.send_idx = Arrived' - 1 /\ Len(tx'.send_data) = tx'.send_idx + 1
      <4>1. t.send_idx = packet - 2 /\ Len(t.send_data) = packet - 1 /\ packet \in Nat
        BY <1>1, <2>1, <2>4
      <4>2. tx'.send_idx = packet - 2 /\ Len(tx'.send_data) = packet - 1
        BY <3>1, <4>1
      <4>3. Arrived' - 1 = packet - 2 /\ (packet - 2) + 1 = packet - 1
        BY <1>8, <4>1
      <4>. QED  BY <4>2, <4>3
    <3>3. \A k \in 1 .. Len(tx'.send_data) : tx'.send_data[k] = call'.value[k + 1]
      BY <1>4, <2>2, <2>4, <3>1
    <3>4. tx'.datatype = call'.value[1] /\ R0' = call'.value[packet'] /\ call'.op = "print"
      BY <1>1, <1>3, <1>4, <2>1
    <3>. QED  BY <1>4, <2>3, <3>1, <3>2, <3>3, <3>4 DEF DisplayInv
  <2>5. CASE ~t.init_finished
    <3>1. ~tx'.init_finished /\ tx'.send_idx = 0 /\ tx'.send_data = <<>>
      BY <1>3, <2>1, <2>5
    <3>. QED  BY <1>1, <1>3, <1>4, <2>1, <2>3, <3>1 DEF DisplayInv
  <2>. QED  BY <2>4, <2>5
<1>10. KeyboardInv'
  BY <1>0, <1>1, <1>4 DEF KeyboardInv
<1>. QED  BY <1>5, <1>6, <1>7, <1>9, <1>10 DEF UartInv

(* The sending half takes over a packet.                                   *)
LEMMA LatchPacketStep ==
    ASSUME UartInv, NEW time \in WaitingTimes, LatchPacket(time)
    PROVE  UartInv'
<1>1. OnItsWay(Latched) /\ b0 \notin status
  BY LatchedOnItsWay DEF LatchPacket
<1>2. CASE max_waiting_instrs = 0
  BY <1>1, <1>2, SentStep DEF LatchPacket, Sending
<1>3. CASE max_waiting_instrs # 0
  <2>1. tx' = TxWith(Latched, TRUE, time) /\ time \in 1 .. max_waiting_instrs
    BY <1>3 DEF LatchPacket, TxWith, WaitingTimes
  <2>. QED  BY <1>1, <1>3, <2>1, SendingStep DEF LatchPacket, Sending
<1>. QED  BY <1>2, <1>3

(* The waiting time of the sending half passes.                            *)
LEMMA SendWaitStep ==
    ASSUME UartInv, SendWait
    PROVE  UartInv'
<1>1. OnItsWay(tx) /\ b0 \notin status
  BY WaitingOnItsWay DEF SendWait
<1>2. CASE tx.sending_waiting_time = 1
  BY <1>1, <1>2, SentStep DEF SendWait, Sending
<1>3. CASE tx.sending_waiting_time # 1
  <2>1. tx \in TxType /\ tx.sending_finished = TRUE
    BY DEF UartInv, HalvesTyped, SendWait, TxType
  <2>2. tx.sending_waiting_time \in 1 .. max_waiting_instrs /\ max_waiting_instrs \in Nat
    BY <2>1 DEF UartInv, TypeOK, Byte
  <2>3. tx' = TxWith(tx, TRUE, tx.sending_waiting_time - 1)
    BY <1>3, <2>1 DEF SendWait, TxWith, TxType
  <2>4. tx.sending_waiting_time - 1 \in 1 .. max_waiting_instrs
    BY <1>3, <2>2
  <2>. QED  BY <1>1, <1>3, <2>3, <2>4, SendingStep DEF SendWait, Sending
<1>. QED  BY <1>2, <1>3

----------------------------------------------------------------------------
(* Every step keeps the invariant.                                         *)
LEMMA UartStep ==
    ASSUME UartInv, [Next]_vars
    PROVE  UartInv'
<1>0. at \in {"cpu", "receive", "send"}
  BY DEF UartInv, TypeOK
<1>1. CASE UNCHANGED vars
  BY <1>0, <1>1, NothingChanges DEF vars
<1>2. CASE OtherInstruction \/ PollAgain
  BY <1>2, NothingChanges DEF OtherInstruction, PollAgain, Instruction
<1>3. CASE \E c \in PrintCalls \cup {ReadCall} : CallDriver(c)
  BY <1>3, CallDriverStep
<1>4. CASE StorePacket \/ LoadStatus \/ StoreStatus
  BY <1>4, StorePacketStep, LoadStatusStep, StoreStatusStep
<1>5. CASE PollSent \/ PollReceived \/ TakePacket
  BY <1>5, PollSentStep, PollReceivedStep, TakePacketStep
<1>6. CASE Restart
  BY <1>6, RestartStep
<1>7. CASE ReceiveNothing
  BY <1>7, NothingChanges DEF ReceiveNothing, Receiving, device
<1>8. CASE ReceiveWait
  BY <1>8, ReceiveWaitStep
<1>9. CASE \E word \in NextWords, time \in WaitingTimes : FetchPacket(word, time)
  BY <1>9, FetchPacketStep
<1>10. CASE SendNothing
  BY <1>10, NothingChanges DEF SendNothing, Sending, device
<1>11. CASE SendWait
  BY <1>11, SendWaitStep
<1>12. CASE \E time \in WaitingTimes : LatchPacket(time)
  BY <1>12, LatchPacketStep
<1>. QED
  BY <1>1, <1>2, <1>3, <1>4, <1>5, <1>6, <1>7, <1>8, <1>9, <1>10, <1>11, <1>12
  DEF Next, Cpu, DriverStep, Receive, Send

(* The handshake of the drivers with the UART, and what the two halves of  *)
(* the UART hold of the value that is printed and the word that is read.   *)
THEOREM UartInvariant == Spec => []UartInv
<1>1. UartInv /\ [Next]_vars => UartInv'
  BY UartStep
<1>. QED  BY <1>1, UartStart, PTL DEF Spec

(* The registers, the two halves of the UART and the drivers are well      *)
(* typed in every reachable state.                                         *)
THEOREM UartTypeCorrect == Spec => []TypeOK
<1>1. UartInv => TypeOK
  BY DEF UartInv
<1>. QED  BY <1>1, UartInvariant, PTL

(* The display finds in R0 the packet that was taken over when the waiting *)
(* time began: no driver writes R0 in the meantime.                        *)
THEOREM TerminatorHolds == Spec => []TerminatorIsPacket
<1>1. UartInv => TerminatorIsPacket
  <2>. SUFFICES ASSUME UartInv, tx.sending_finished, tx.init_finished
                PROVE  R0 = tx.send_data[tx.send_idx + 1]
    BY DEF TerminatorIsPacket
  <2>1. OnItsWay(tx) /\ R0 = call.value[packet] /\ packet \in Nat /\ packet > 1
    BY WaitingOnItsWay, SendingDriver
  <2>. QED  BY <2>1 DEF OnItsWay
<1>. QED  BY <1>1, UartInvariant, PTL

(* The drivers write R0, read R1 and store the status register only when   *)
(* the UART allows it.                                                     *)
THEOREM ProtocolKept == Spec => ProtocolRespected
<1>. DEFINE Kept == /\ StorePacket => b0 \in status
                    /\ StoreStatus => status' \subseteq status
                    /\ TakePacket => b1 \in status
<1>1. UartInv /\ [Next]_vars => [Kept]_vars
  <2>. SUFFICES ASSUME UartInv PROVE Kept
    OBVIOUS
  <2>1. TypeOK /\ Handshake
    BY DEF UartInv
  <2>2. ASSUME StorePacket \/ TakePacket PROVE status = {b0, b1}
    BY <2>1, <2>2, BothBits DEF StorePacket, TakePacket
  <2>3. ASSUME StoreStatus PROVE status' \subseteq status
    BY <2>1, <2>3, BothBits DEF StoreStatus, Handshake
  <2>. QED  BY <2>2, <2>3
<1>. QED  BY <1>1, UartInvariant, PTL DEF Spec, ProtocolRespected

(* A driver that stores the status register back loses no bit that the     *)
(* UART has set since it was loaded.                                       *)
THEOREM NoReadyIsLost == Spec => NoLostReady
<1>. DEFINE Kept == StoreStatus => status \ status' \subseteq {Bit}
<1>1. UartInv /\ [Next]_vars => [Kept]_vars
  <2>. SUFFICES ASSUME UartInv, StoreStatus PROVE status \ status' \subseteq {Bit}
    OBVIOUS
  <2>. QED  BY BothBits DEF UartInv, StoreStatus, Handshake
<1>. QED  BY <1>1, UartInvariant, PTL DEF Spec, NoLostReady

----------------------------------------------------------------------------
(* Steps that neither fetch a packet nor end a call that reads leave the   *)
(* inputs as they are.                                                     *)
LEMMA InputsUntouched ==
    ASSUME InputInv, rx'.received_num = rx.received_num, HeldPackets' = HeldPackets,
           UNCHANGED <<header, uart_input, input_idx, answers>>
    PROVE  InputInv'
<1>1. UsedWords' = UsedWords
  BY DEF UsedWords
<1>. QED  BY <1>1 DEF InputInv

(* A driver keeps the packets that are held, unless it ends a call.        *)
LEMMA HeldByDriver ==
    ASSUME UartInv,
           \/ OtherInstruction \/ StorePacket \/ LoadStatus \/ StoreStatus
           \/ PollAgain \/ PollSent \/ PollReceived
           \/ \E c \in PrintCalls \cup {ReadCall} : CallDriver(c)
    PROVE  /\ HeldPackets' = HeldPackets
           /\ UNCHANGED <<header, uart_input, input_idx, answers, rx>>
<1>1. /\ UNCHANGED <<header, uart_input, input_idx, answers, rx>>
  BY DEF OtherInstruction, StorePacket, LoadStatus, StoreStatus, PollAgain, PollSent,
         PollReceived, CallDriver, Instruction, device, options
<1>. SUFFICES HeldPackets' = HeldPackets
  BY <1>1
<1>2. CASE OtherInstruction \/ PollAgain
  <2>1. UNCHANGED <<call, step, packet, status, rx>>
    BY <1>2 DEF OtherInstruction, PollAgain, device, driver
  <2>. QED  BY <2>1 DEF HeldPackets, Held
<1>3. CASE StorePacket \/ PollSent
  <2>1. call.op # "read" /\ call'.op # "read"
    <3>1. call.op # "read"
      BY <1>3, RunningDriver DEF StorePacket, PollSent
    <3>. QED  BY <1>3, <3>1 DEF StorePacket, PollSent, NoDriver, NoCall
  <2>. QED  BY <2>1 DEF HeldPackets, Held
<1>4. CASE LoadStatus \/ PollReceived
  <2>1. Held' = Held /\ call' = call
    BY <1>4, RunningDriver DEF LoadStatus, PollReceived, device, Held
  <2>. QED  BY <2>1 DEF HeldPackets, Held
<1>5. CASE StoreStatus
  <2>1. step = "store" /\ step' = "poll" /\ call' = call /\ packet' = packet
        /\ status' = acc \ {Bit}
    BY <1>5 DEF StoreStatus
  <2>2. CASE call.op = "read"
    <3>1. b1 \notin status' /\ ~rx.receiving_finished
      BY <2>1, <2>2, RunningDriver, BothBits DEF UartInv, Bit
    <3>. QED  BY <1>1, <2>1, <2>2, <3>1 DEF HeldPackets, Held
  <2>3. CASE call.op # "read"
    BY <2>1, <2>3 DEF HeldPackets, Held
  <2>. QED  BY <2>2, <2>3
<1>6. ASSUME NEW c \in PrintCalls \cup {ReadCall}, CallDriver(c) PROVE HeldPackets' = HeldPackets
  <2>1. step = "idle" /\ step' \in {"put", "load"} /\ packet' = packet
    BY <1>6 DEF CallDriver
  <2>2. call = NoCall /\ packet = 1
    BY <2>1 DEF UartInv, Handshake
  <2>3. HeldPackets = 0
    BY <2>2 DEF HeldPackets, NoCall
  <2>4. HeldPackets' = 0
    BY <2>1, <2>2 DEF HeldPackets, Held
  <2>. QED  BY <2>3, <2>4
<1>. QED  BY <1>1, <1>2, <1>3, <1>4, <1>5, <1>6

(* The end of a call that reads: its four packets are the word.            *)
LEMMA WordIsAnswered ==
    ASSUME UartInv, InputInv, TakePacket
    PROVE  InputInv'
<1>0. HalvesTyped /\ step = "take"
  BY DEF UartInv, TakePacket
<1>. DEFINE taken == Append(got, R1)
<1>1. /\ UNCHANGED <<header, uart_input, input_idx, rx>>
      /\ IF packet < 4
         THEN packet' = packet + 1 /\ step' = "load" /\ UNCHANGED <<call, answers>>
         ELSE answers' = Append(answers, taken) /\ call' = NoCall
  BY DEF TakePacket, Instruction, options, device, NoDriver
<1>2. /\ call.op = "read" /\ packet \in 1 .. 4 /\ rx.received_num \in AllWords
      /\ taken \in Seq(Byte) /\ Len(taken) = packet
      /\ \A k \in 1 .. packet : taken[k] = rx.received_num[k]
  BY TakenPacket
<1>. HIDE DEF taken
<1>3. HeldPackets = packet
  BY <1>0, <1>2 DEF HeldPackets, Held
<1>4. CASE packet < 4
  <2>1. UNCHANGED <<call, answers>> /\ packet' = packet + 1 /\ step' = "load"
    BY <1>1, <1>4
  <2>2. HeldPackets' = packet
    BY <1>2, <2>1 DEF HeldPackets, Held
  <2>. QED  BY <1>1, <1>3, <2>1, <2>2, InputsUntouched
<1>5. CASE packet = 4
  <2>1. answers' = Append(answers, taken) /\ call' = NoCall
    BY <1>1, <1>5
  <2>2. HeldPackets' = 0
    BY <2>1 DEF HeldPackets, NoCall
  <2>3. /\ answers \in Seq(Seq(Byte)) /\ Len(answers) \in Nat
        /\ uart_input \in Seq(AllWords) /\ Len(uart_input) \in Nat
    BY <1>0 DEF HalvesTyped
  <2>4. /\ Len(answers') = Len(answers) + 1
        /\ \A k \in 1 .. Len(answers) : answers'[k] = answers[k]
        /\ answers'[Len(answers) + 1] = taken
    BY <1>2, <2>1, <2>3
  <2>5. UsedWords = Len(answers) + 1 /\ UsedWords' = Len(answers) + 1
    BY <1>3, <1>5, <2>2, <2>4 DEF UsedWords
  <2>6. taken = rx.received_num
    <3>1. rx.received_num \in Seq(Byte) /\ Len(rx.received_num) = 4
      BY <1>2, WordsTyped, WordIsSeq DEF Word
    <3>. QED  BY <1>2, <1>5, <3>1, SeqEqual
  <2>7. Len(answers) < Len(uart_input) => taken = uart_input[Len(answers) + 1]
    BY <1>3, <1>5, <2>6 DEF InputInv
  <2>8. \A k \in 1 .. Len(answers') : k <= Len(uart_input) => answers'[k] = uart_input[k]
    <3>1. SUFFICES ASSUME NEW k \in 1 .. Len(answers'), k <= Len(uart_input)
                   PROVE  answers'[k] = uart_input[k]
      OBVIOUS
    <3>2. CASE k = Len(answers) + 1
      BY <2>3, <2>4, <2>7, <3>1, <3>2
    <3>3. CASE k # Len(answers) + 1
      <4>1. k \in 1 .. Len(answers)
        BY <2>3, <2>4, <3>3
      <4>. QED  BY <2>4, <3>1, <4>1 DEF InputInv
    <3>. QED  BY <3>2, <3>3
  <2>9. uart_input' # <<>> =>
           /\ uart_input' = CommentInput(header')
           /\ input_idx' = IF UsedWords' < Len(uart_input') THEN UsedWords' ELSE Len(uart_input')
    BY <1>1, <2>5 DEF InputInv
  <2>. QED  BY <1>1, <2>2, <2>8, <2>9 DEF InputInv
<1>. QED  BY <1>2, <1>4, <1>5

(* A packet is fetched: the first of a word takes the next word, the last  *)
(* one ends it.                                                            *)
LEMMA WordIsFetched ==
    ASSUME UartInv, InputInv, NEW word \in NextWords, NEW time \in WaitingTimes,
           FetchPacket(word, time)
    PROVE  InputInv'
<1>0. HalvesTyped /\ TypeOK
  BY DEF UartInv
<1>. DEFINE r == Fetched(rx, word)
<1>1. /\ b1 \notin status /\ ~rx.receiving_finished
      /\ UNCHANGED <<header, uart_input, call, step, packet, answers>>
      /\ input_idx' = IF input_idx < Len(uart_input) /\ r.received_num_idx = -1
                      THEN input_idx + 1 ELSE input_idx
  BY DEF FetchPacket, Receiving, options, driver
<1>2. /\ call.op = "read" /\ step = "poll" /\ packet \in 1 .. 4 /\ r \in RxType
      /\ r.received_num = IF packet = 1 THEN word ELSE rx.received_num
      /\ r.received_num_idx = 3 - packet
  BY <1>1, FetchedNext
<1>. HIDE DEF r
<1>3. /\ rx'.received_num = r.received_num
      /\ rx'.receiving_finished \/ b1 \in status'
  <2>1. CASE max_waiting_instrs = 0
    <3>1. rx' = RxWith(r, FALSE, 0) /\ status' = status \cup {b1}
      BY <2>1 DEF FetchPacket, Arrives, RxWith, r
    <3>2. r \in RxType /\ FALSE \in BOOLEAN /\ 0 \in Nat
      BY <1>2
    <3>3. rx'.received_num = r.received_num
      BY <3>1, <3>2, RxWithTime
    <3>. QED  BY <3>1, <3>3
  <2>2. CASE max_waiting_instrs # 0
    <3>1. rx' = RxWith(r, TRUE, time)
      BY <2>2 DEF FetchPacket, RxWith, r
    <3>2. r \in RxType /\ TRUE \in BOOLEAN /\ time \in Nat
      BY <1>0, <1>2, <2>2 DEF WaitingTimes, TypeOK, Byte
    <3>. QED  BY <3>1, <3>2, RxWithTime
  <2>. QED  BY <2>1, <2>2
<1>4. HeldPackets = packet - 1 /\ HeldPackets' = packet
  BY <1>1, <1>2, <1>3 DEF HeldPackets, Held
<1>5. /\ Len(answers) \in Nat /\ Len(uart_input) \in Nat /\ input_idx \in 0 .. Len(uart_input)
      /\ uart_input # <<>> <=> Len(uart_input) > 0
  BY <1>0, EmptySeq DEF HalvesTyped, TypeOK
<1>6. /\ UsedWords = Len(answers)
      /\ UsedWords' = Len(answers) + (IF packet = 4 THEN 1 ELSE 0)
  BY <1>1, <1>2, <1>4, <1>5 DEF UsedWords
<1>7. uart_input # <<>> =>
         input_idx' = IF UsedWords' < Len(uart_input) THEN UsedWords' ELSE Len(uart_input)
  <2>. SUFFICES ASSUME uart_input # <<>>
                PROVE  input_idx' = IF UsedWords' < Len(uart_input)
                                    THEN UsedWords' ELSE Len(uart_input)
    OBVIOUS
  <2>1. input_idx = IF Len(answers) < Len(uart_input) THEN Len(answers) ELSE Len(uart_input)
    BY <1>6 DEF InputInv
  <2>2. CASE packet = 4
    <3>1. r.received_num_idx = -1
      BY <1>2, <2>2
    <3>. QED  BY <1>1, <1>5, <1>6, <2>1, <2>2, <3>1
  <2>3. CASE packet # 4
    <3>1. r.received_num_idx # -1
      BY <1>2, <2>3
    <3>. QED  BY <1>1, <1>5, <1>6, <2>1, <2>3, <3>1
  <2>. QED  BY <2>2, <2>3
<1>8. Len(answers) < Len(uart_input) => r.received_num = uart_input[Len(answers) + 1]
  <2>. SUFFICES ASSUME Len(answers) < Len(uart_input)
                PROVE  r.received_num = uart_input[Len(answers) + 1]
    OBVIOUS
  <2>1. CASE packet = 1
    <3>1. input_idx = Len(answers) /\ input_idx < Len(uart_input)
      BY <1>5, <1>6 DEF InputInv
    <3>. QED  BY <1>2, <2>1, <3>1 DEF NextWords
  <2>2. CASE packet # 1
    <3>1. HeldPackets > 0
      BY <1>2, <1>4, <2>2
    <3>. QED  BY <1>2, <2>2, <3>1 DEF InputInv
  <2>. QED  BY <2>1, <2>2
<1>. QED  BY <1>1, <1>3, <1>7, <1>8 DEF InputInv

(* Every step keeps the words of the comment in their order.               *)
LEMMA InputStep ==
    ASSUME UartInv, InputInv, [Next]_vars
    PROVE  InputInv'
<1>1. CASE UNCHANGED vars
  BY <1>1, InputsUntouched DEF vars, options, device, driver, HeldPackets, Held
<1>2. CASE \/ OtherInstruction \/ StorePacket \/ LoadStatus \/ StoreStatus
           \/ PollAgain \/ PollSent \/ PollReceived
           \/ \E c \in PrintCalls \cup {ReadCall} : CallDriver(c)
  <2>1. HeldPackets' = HeldPackets /\ UNCHANGED <<header, uart_input, input_idx, answers, rx>>
    BY <1>2, HeldByDriver
  <2>. QED  BY <2>1, InputsUntouched
<1>3. CASE TakePacket
  BY <1>3, WordIsAnswered
<1>4. CASE Restart
  <2>1. /\ uart_input' = <<>> /\ call' = NoCall /\ UNCHANGED answers
    BY <1>4 DEF Restart, NoDriver
  <2>2. HeldPackets' = 0 /\ Len(<<>>) = 0
    BY <2>1 DEF HeldPackets, NoCall
  <2>3. \A k \in 1 .. Len(answers) : ~(k <= 0)
    BY DEF UartInv, HalvesTyped
  <2>. QED  BY <2>1, <2>2, <2>3 DEF InputInv
<1>5. CASE ReceiveNothing \/ Send
  <2>1. /\ UNCHANGED <<header, uart_input, input_idx, answers, rx, call, step, packet>>
        /\ b1 \in status' <=> b1 \in status
    <3>1. b1 # b0
      BY DEF b0, b1
    <3>. QED  BY <1>5, <3>1 DEF ReceiveNothing, Receiving, Send, SendNothing, SendWait, LatchPacket,
                               Sending, Sent, options, driver
  <2>2. HeldPackets' = HeldPackets
    BY <2>1 DEF HeldPackets, Held
  <2>. QED  BY <2>1, <2>2, InputsUntouched
<1>6. CASE ReceiveWait
  <2>1. UNCHANGED <<header, uart_input, input_idx, answers, call, step, packet>>
    BY <1>6 DEF ReceiveWait, Receiving, options, driver
  <2>2. /\ rx'.received_num = rx.received_num /\ rx.receiving_finished
        /\ rx'.receiving_finished \/ b1 \in status'
    <3>1. rx \in RxType
      BY DEF UartInv, HalvesTyped
    <3>. QED  BY <1>6, <3>1 DEF ReceiveWait, Arrives, RxType
  <2>3. HeldPackets' = HeldPackets
    <3>1. b1 \notin status /\ step = "poll"
      BY <2>2 DEF UartInv, Handshake
    <3>. QED  BY <2>1, <2>2, <3>1 DEF HeldPackets, Held
  <2>. QED  BY <2>1, <2>2, <2>3, InputsUntouched
<1>7. CASE \E word \in NextWords, time \in WaitingTimes : FetchPacket(word, time)
  BY <1>7, WordIsFetched
<1>. QED
  BY <1>1, <1>2, <1>3, <1>4, <1>5, <1>6, <1>7 DEF Next, Cpu, DriverStep, Receive

(* The words of the comment are read first, in their order, each once.     *)
THEOREM InputInvariant == Spec => []InputInv
<1>1. Init => InputInv
  <2>. SUFFICES ASSUME Init PROVE InputInv
    OBVIOUS
  <2>1. /\ uart_input = CommentInput(header) /\ input_idx = 0
        /\ answers = <<>> /\ call = NoCall
    BY DEF Init
  <2>2. HeldPackets = 0 /\ Len(answers) = 0
    BY <2>1 DEF HeldPackets, NoCall
  <2>3. UsedWords = 0
    BY <2>2 DEF UsedWords
  <2>4. Len(uart_input) \in Nat
    BY UartStart DEF UartInv, HalvesTyped
  <2>. QED  BY <2>1, <2>2, <2>3, <2>4 DEF InputInv
<1>2. UartInv /\ InputInv /\ [Next]_vars => InputInv'
  BY InputStep
<1>. QED  BY <1>1, <1>2, UartInvariant, PTL DEF Spec

(* What the calls of INT 2 return are the numbers and characters of the    *)
(* "# input:" comment that counts, as long as there are any.               *)
THEOREM InputsAreInOrder == Spec => []InputsInOrder
<1>1. UartInv /\ InputInv => InputsInOrder
  <2>. SUFFICES ASSUME UartInv, InputInv, NEW i \in DOMAIN header, Counts(i), uart_input # <<>>
                PROVE  /\ Len(uart_input) = Len(header[i].tokens)
                       /\ \A k \in DOMAIN header[i].tokens :
                              k <= Len(answers) => answers[k] = WordOf(header[i].tokens[k])
    BY DEF InputsInOrder
  <2>. DEFINE tokens == header[i].tokens
  <2>1. header \in Seq(Line) /\ i \in 1 .. Len(header) /\ DOMAIN header = 1 .. Len(header)
    <3>1. header \in Seq(Line)
      BY UartAssumption DEF UartInv, Line, Tokens
    <3>. QED  BY <3>1
  <2>2. LastInput(header, Len(header), i)
    BY <2>1 DEF Counts, InputLines, AboveCode, LastInput, Input
  <2>3. uart_input = WordsOf(tokens)
    BY <2>1, <2>2, CommentInputIs DEF InputInv
  <2>4. tokens \in Seq(Tokens)
    <3>1. header[i] \in Line
      BY <2>1, ElementOfSeq
    <3>. QED  BY <3>1 DEF Line
  <2>. HIDE DEF tokens
  <2>5. DOMAIN tokens = 1 .. Len(tokens) /\ Len(tokens) \in Nat
    BY <2>4
  <2>8. Len(uart_input) = Len(tokens)
    BY <2>3, <2>4, WordsOfTokens
  <2>9. ASSUME NEW k \in DOMAIN tokens, k <= Len(answers)
        PROVE  answers[k] = WordOf(tokens[k])
    <3>1. k \in 1 .. Len(answers) /\ k <= Len(uart_input)
      BY <2>5, <2>8, <2>9 DEF UartInv, HalvesTyped
    <3>2. answers[k] = uart_input[k]
      BY <3>1 DEF InputInv
    <3>. QED  BY <2>3, <2>9, <3>2 DEF WordsOf
  <2>. QED  BY <2>8, <2>9 DEF tokens
<1>. QED  BY <1>1, UartInvariant, InputInvariant, PTL

----------------------------------------------------------------------------
(* A concatenation begins with its first part.                             *)
LEMMA HeadTailConcat ==
    ASSUME NEW s \in Seq(Byte), NEW t \in Seq(Byte), s # <<>>
    PROVE  Head(s \o t) = Head(s) /\ Tail(s \o t) = Tail(s) \o t
<1>. DEFINE st == s \o t
            rest == Tail(s) \o t
<1>1. Len(s) \in Nat \ {0} /\ Len(t) \in Nat
  BY EmptySeq
<1>2. /\ Tail(s) \in Seq(Byte) /\ Len(Tail(s)) = Len(s) - 1
      /\ \A i \in 1 .. Len(s) - 1 : Tail(s)[i] = s[i + 1]
  BY HeadTailProperties
<1>3. /\ st \in Seq(Byte) /\ Len(st) = Len(s) + Len(t)
      /\ \A i \in 1 .. Len(s) + Len(t) : st[i] = IF i <= Len(s) THEN s[i] ELSE t[i - Len(s)]
  BY ConcatProperties
<1>4. /\ rest \in Seq(Byte) /\ Len(rest) = Len(s) - 1 + Len(t)
      /\ \A i \in 1 .. Len(s) - 1 + Len(t) :
            rest[i] = IF i <= Len(s) - 1 THEN Tail(s)[i] ELSE t[i - (Len(s) - 1)]
  <2>. DEFINE u == Tail(s)
  <2>. HIDE DEF u
  <2>1. /\ u \o t \in Seq(Byte) /\ Len(u \o t) = Len(u) + Len(t)
        /\ \A i \in 1 .. Len(u) + Len(t) :
              (u \o t)[i] = IF i <= Len(u) THEN u[i] ELSE t[i - Len(u)]
    BY <1>2, ConcatProperties DEF u
  <2>. QED  BY <1>2, <2>1 DEF u
<1>. HIDE DEF st, rest
<1>5. st # <<>>
  BY <1>1, <1>3, EmptySeq
<1>6. Head(st) = Head(s)
  BY <1>1, <1>3, <1>5
<1>7. /\ Tail(st) \in Seq(Byte) /\ Len(Tail(st)) = Len(s) + Len(t) - 1
      /\ \A i \in 1 .. Len(s) + Len(t) - 1 : Tail(st)[i] = st[i + 1]
  BY <1>3, <1>5, HeadTailProperties
<1>8. ASSUME NEW i \in 1 .. Len(s) + Len(t) - 1
      PROVE  Tail(st)[i] = rest[i]
  <2>1. i \in Nat /\ i + 1 \in 1 .. Len(s) + Len(t) /\ i \in 1 .. Len(s) - 1 + Len(t)
        /\ i + 1 - Len(s) = i - (Len(s) - 1) /\ (i + 1 <= Len(s) <=> i <= Len(s) - 1)
    BY <1>1
  <2>2. Tail(st)[i] = IF i + 1 <= Len(s) THEN s[i + 1] ELSE t[i + 1 - Len(s)]
    BY <1>3, <1>7, <2>1
  <2>3. rest[i] = IF i <= Len(s) - 1 THEN Tail(s)[i] ELSE t[i - (Len(s) - 1)]
    BY <1>4, <2>1
  <2>4. i <= Len(s) - 1 => Tail(s)[i] = s[i + 1]
    BY <1>1, <1>2, <2>1
  <2>. QED  BY <2>1, <2>2, <2>3, <2>4
<1>9. Tail(st) = rest
  <2>1. Len(Tail(st)) = Len(rest)
    BY <1>1, <1>4, <1>7
  <2>. QED  BY <1>4, <1>7, <1>8, <2>1, SeqEqual
<1>. QED  BY <1>6, <1>9 DEF st, rest

(* Behind the last word there is no packet.                                *)
LEMMA NoPacketsBehind ==
    ASSUME NEW words \in Seq(Word), NEW k \in Nat, k >= Len(words)
    PROVE  PacketsBehind(words, k) = <<>>
<1>1. 4 * (Len(words) - k) <= 0 /\ 4 * (Len(words) - k) \in Int
  OBVIOUS
<1>2. 1 .. 4 * (Len(words) - k) = {}
  BY <1>1
<1>. QED  BY <1>2 DEF PacketsBehind

(* They are a sequence of bytes.                                           *)
LEMMA PacketsAreBytes ==
    ASSUME NEW words \in Seq(Word), NEW k \in Nat
    PROVE  PacketsBehind(words, k) \in Seq(Byte)
<1>1. CASE k < Len(words)
  <2>. DEFINE n == 4 * (Len(words) - k)
              Packet(i) == words[k + 1 + (i - 1) \div 4][((i - 1) % 4) + 1]
  <2>1. ASSUME NEW i \in 1 .. n
        PROVE  Packet(i) \in Byte
    <3>1. k + 1 + (i - 1) \div 4 \in 1 .. Len(words) /\ ((i - 1) % 4) + 1 \in 1 .. 4
      BY <1>1, <2>1
    <3>2. words[k + 1 + (i - 1) \div 4] \in Word
      BY <3>1, ElementOfSeq
    <3>. QED  BY <3>1, <3>2 DEF Word
  <2>2. n \in Nat
    BY <1>1
  <2>3. PacketsBehind(words, k) = [i \in 1 .. n |-> Packet(i)]
    BY DEF PacketsBehind
  <2>. HIDE DEF n, Packet
  <2>. QED  BY <2>1, <2>2, <2>3, IsASeq
<1>2. CASE k >= Len(words)
  BY <1>2, NoPacketsBehind, EmptySeq
<1>. QED  BY <1>1, <1>2

(* The packets of the words behind the first k are those of word k + 1, and *)
(* those of the words behind k + 1.                                        *)
LEMMA FirstOfPackets ==
    ASSUME NEW words \in Seq(Word), NEW k \in Nat, k < Len(words)
    PROVE  PacketsBehind(words, k) = words[k + 1] \o PacketsBehind(words, k + 1)
<1>. DEFINE n == 4 * (Len(words) - k)
            all == PacketsBehind(words, k)
            rest == PacketsBehind(words, k + 1)
            word == words[k + 1]
            both == word \o rest
<1>1. n \in Nat /\ n >= 4 /\ Len(words) \in Nat
  OBVIOUS
<1>2. all = [i \in 1 .. n |-> words[k + 1 + (i - 1) \div 4][((i - 1) % 4) + 1]]
  BY DEF PacketsBehind
<1>3. rest = [i \in 1 .. n - 4 |-> words[k + 1 + 1 + (i - 1) \div 4][((i - 1) % 4) + 1]]
  <2>1. 4 * (Len(words) - (k + 1)) = n - 4
    OBVIOUS
  <2>. QED  BY <2>1 DEF PacketsBehind
<1>4. all \in Seq(Byte) /\ rest \in Seq(Byte)
  BY PacketsAreBytes
<1>5. DOMAIN all = 1 .. n /\ DOMAIN rest = 1 .. n - 4
  BY <1>2, <1>3
<1>6. word \in Word
  BY <1>1, ElementOfSeq
<1>7. word \in Seq(Byte) /\ Len(word) = 4
  BY <1>6, WordIsSeq DEF Word
<1>. HIDE DEF all, rest, n
<1>8. Len(all) = n /\ Len(rest) = n - 4
  BY <1>1, <1>4, <1>5, LenProperties
<1>9. /\ both \in Seq(Byte) /\ Len(both) = n
      /\ \A i \in 1 .. n : both[i] = IF i <= 4 THEN word[i] ELSE rest[i - 4]
  <2>. HIDE DEF word
  <2>1. /\ both \in Seq(Byte) /\ Len(both) = Len(word) + Len(rest)
        /\ \A i \in 1 .. Len(word) + Len(rest) :
              both[i] = IF i <= Len(word) THEN word[i] ELSE rest[i - Len(word)]
    BY <1>4, <1>7, ConcatProperties
  <2>2. Len(word) + Len(rest) = n
    BY <1>1, <1>7, <1>8
  <2>. QED  BY <1>7, <2>1, <2>2
<1>. HIDE DEF both
<1>10. ASSUME NEW i \in 1 .. n
       PROVE  all[i] = both[i]
  <2>1. CASE i <= 4
    <3>1. (i - 1) \div 4 = 0 /\ (i - 1) % 4 = i - 1 /\ k + 1 + 0 = k + 1 /\ i - 1 + 1 = i
      BY <1>1, <2>1
    <3>2. all[i] = word[i]
      BY <1>2, <3>1
    <3>. QED  BY <1>9, <2>1, <3>2
  <2>2. CASE i > 4
    <3>1. /\ i - 4 \in 1 .. n - 4
          /\ (i - 1) \div 4 = 1 + (i - 4 - 1) \div 4 /\ (i - 1) % 4 = (i - 4 - 1) % 4
      BY <1>1, <2>2
    <3>2. k + 1 + (i - 1) \div 4 = k + 1 + 1 + (i - 4 - 1) \div 4
      BY <1>1, <2>2, <3>1
    <3>3. all[i] = words[k + 1 + (i - 1) \div 4][((i - 1) % 4) + 1]
      BY <1>2
    <3>4. rest[i - 4] = words[k + 1 + 1 + (i - 4 - 1) \div 4][((i - 4 - 1) % 4) + 1]
      BY <1>3, <3>1
    <3>5. all[i] = rest[i - 4]
      BY <3>1, <3>2, <3>3, <3>4
    <3>. QED  BY <1>1, <1>9, <2>2, <3>5
  <2>. QED  BY <1>1, <2>1, <2>2
<1>11. all = both
  BY <1>4, <1>8, <1>9, <1>10, SeqEqual
<1>. QED  BY <1>11 DEF all, both, rest

(* A rest of a word begins with its packet i.                              *)
LEMMA RestOfPackets ==
    ASSUME NEW num \in Seq(Byte), Len(num) = 4, NEW i \in 1 .. 4
    PROVE  /\ SubSeq(num, i, 4) \in Seq(Byte) /\ SubSeq(num, i, 4) # <<>>
           /\ Head(SubSeq(num, i, 4)) = num[i]
           /\ Tail(SubSeq(num, i, 4)) = SubSeq(num, i + 1, 4)
<1>1. 4 \in i .. Len(num) /\ i \in 1 .. Len(num)
  OBVIOUS
<1>2. /\ Head(SubSeq(num, i, 4)) = num[i]
      /\ Tail(SubSeq(num, i, 4)) = SubSeq(num, i + 1, 4)
  BY <1>1, HeadTailOfSubSeq
<1>3. \A k \in i .. 4 : num[k] \in Byte
  BY ElementOfSeq
<1>4. i \in Int /\ 4 \in Int /\ i <= 4
  OBVIOUS
<1>5. SubSeq(num, i, 4) \in Seq(Byte) /\ Len(SubSeq(num, i, 4)) = 4 - i + 1
  BY <1>3, <1>4, SubSeqProperties
<1>6. SubSeq(num, i, 4) # <<>>
  <2>1. Len(SubSeq(num, i, 4)) # 0
    BY <1>5
  <2>. QED  BY <2>1, EmptySeq
<1>. QED  BY <1>2, <1>5, <1>6

(* A fetched packet is the first of the list, and leaves the rest.         *)
LEMMA ListLosesPacket ==
    ASSUME UartInv, NEW word \in NextWords, NEW time \in WaitingTimes, FetchPacket(word, time),
           RemainingInput # <<>>
    PROVE  /\ rx'.received_num_part = Head(RemainingInput)
           /\ RemainingInput' = Tail(RemainingInput)
<1>0. TypeOK /\ HalvesTyped
  BY DEF UartInv
<1>. DEFINE old == rx.received_num_idx
            num == IF old = -1 THEN word ELSE rx.received_num
            idx == IF old = -1 THEN 3 ELSE old
            r == Fetched(rx, word)
            Behind(k) == PacketsBehind(uart_input, k)
            L == Len(uart_input)
<1>1. /\ word \in AllWords /\ r \in RxType /\ r.received_num = num
      /\ r.received_num_part = num[4 - idx] /\ r.received_num_idx = idx - 1 /\ idx \in 0 .. 3
  BY <1>0, NextWordsTyped, FetchedPacket
<1>2. old \in -1 .. 3 /\ num \in Word
  BY <1>0, <1>1, WordsTyped DEF HalvesTyped, RxType
<1>3. /\ UNCHANGED uart_input
      /\ input_idx' = IF input_idx < L /\ idx - 1 = -1 THEN input_idx + 1 ELSE input_idx
  BY <1>1 DEF FetchPacket, Receiving
<1>. HIDE DEF r
<1>4. /\ rx'.received_num = num /\ rx'.received_num_part = num[4 - idx]
      /\ rx'.received_num_idx = idx - 1
  <2>. HIDE DEF num, idx
  <2>1. CASE max_waiting_instrs = 0
    <3>1. rx' = RxWith(r, FALSE, 0)
      BY <2>1 DEF FetchPacket, Arrives, RxWith, r
    <3>2. r \in RxType /\ FALSE \in BOOLEAN /\ 0 \in Nat
      BY <1>1
    <3>. QED  BY <1>1, <3>1, <3>2, RxWithTime
  <2>2. CASE max_waiting_instrs # 0
    <3>1. rx' = RxWith(r, TRUE, time)
      BY <2>2 DEF FetchPacket, RxWith, r
    <3>2. r \in RxType /\ TRUE \in BOOLEAN /\ time \in Nat
      BY <1>0, <1>1, <2>2 DEF WaitingTimes, TypeOK, Byte
    <3>. QED  BY <1>1, <3>1, <3>2, RxWithTime
  <2>. QED  BY <2>1, <2>2
<1>5. uart_input \in Seq(Word) /\ L \in Nat /\ input_idx \in 0 .. L
  <2>1. uart_input \in Seq(AllWords) /\ input_idx \in 0 .. L
    BY <1>0 DEF HalvesTyped, TypeOK
  <2>. QED  BY <2>1, WordsTyped, SeqMonotonic
<1>6. num \in Seq(Byte) /\ Len(num) = 4
  BY <1>2, WordIsSeq DEF Word
<1>7. \A k \in Nat : Behind(k) \in Seq(Byte) /\ <<>> \o Behind(k) = Behind(k)
  BY <1>5, PacketsAreBytes, ConcatEmptySeq
<1>8. /\ Head(SubSeq(num, 4 - idx, 4)) = num[4 - idx]
      /\ Tail(SubSeq(num, 4 - idx, 4)) = SubSeq(num, 5 - idx, 4)
      /\ SubSeq(num, 4 - idx, 4) \in Seq(Byte) /\ SubSeq(num, 4 - idx, 4) # <<>>
  <2>. HIDE DEF num, idx
  <2>1. 4 - idx \in 1 .. 4 /\ 4 - idx + 1 = 5 - idx
    BY <1>1
  <2>. QED  BY <1>6, <2>1, RestOfPackets
\* Before and after, the list is a rest of the word and the words behind.
<1>9. RemainingInput = SubSeq(num, 4 - idx, 4) \o Behind(input_idx + 1)
  <2>1. CASE old = -1
    <3>1. num = word /\ idx = 3 /\ RestOfWord = <<>> /\ input_idx + 0 = input_idx
      BY <1>5, <2>1 DEF RestOfWord
    <3>2. RemainingInput = Behind(input_idx)
      BY <1>5, <1>7, <3>1 DEF RemainingInput
    <3>3. input_idx < L
      BY <1>5, <3>2, NoPacketsBehind
    <3>4. Behind(input_idx) = word \o Behind(input_idx + 1)
      <4>1. word = uart_input[input_idx + 1] /\ input_idx \in Nat
        BY <1>5, <3>3 DEF NextWords
      <4>. HIDE DEF num, idx
      <4>. QED  BY <1>5, <3>3, <4>1, FirstOfPackets
    <3>5. SubSeq(num, 4 - idx, 4) = num
      <4>1. 4 - idx = 1
        BY <3>1
      <4>. HIDE DEF num, idx
      <4>2. SubSeq(num, 1, Len(num)) = num
        BY <1>6, SubSeqFull
      <4>. QED  BY <1>6, <4>1, <4>2
    <3>. QED  BY <3>1, <3>2, <3>4, <3>5
  <2>2. CASE old # -1
    <3>1. num = rx.received_num /\ idx = old /\ RestOfWord = SubSeq(num, 4 - idx, 4)
      BY <2>2 DEF RestOfWord
    <3>. HIDE DEF num, idx
    <3>2. RestOfWord # <<>>
      BY <1>8, <3>1
    <3>. QED  BY <3>1, <3>2 DEF RemainingInput
  <2>. QED  BY <2>1, <2>2
<1>10. RemainingInput' = SubSeq(num, 5 - idx, 4) \o Behind(input_idx + 1)
  <2>. HIDE DEF num, idx
  <2>1. CASE idx = 0
    <3>1. RestOfWord' = <<>> /\ SubSeq(num, 5 - idx, 4) = <<>>
      BY <1>4, <2>1, SubSeqEmpty DEF RestOfWord
    <3>2. input_idx' \in Nat /\ input_idx' + 0 = input_idx'
      BY <1>3, <1>5
    <3>3. RemainingInput' = Behind(input_idx')
      BY <1>3, <1>7, <3>1, <3>2 DEF RemainingInput
    <3>4. Behind(input_idx') = Behind(input_idx + 1)
      <4>1. CASE input_idx < L
        BY <1>3, <2>1, <4>1
      <4>2. CASE input_idx = L
        <5>1. input_idx' = L
          BY <1>3, <4>2
        <5>. QED  BY <1>5, <4>2, <5>1, NoPacketsBehind
      <4>. QED  BY <1>5, <4>1, <4>2
    <3>5. <<>> \o Behind(input_idx + 1) = Behind(input_idx + 1)
      BY <1>5, <1>7
    <3>. QED  BY <3>1, <3>3, <3>4, <3>5
  <2>2. CASE idx # 0
    <3>1. idx > 0 /\ idx - 1 # -1 /\ 4 - (idx - 1) = 5 - idx /\ input_idx' = input_idx
      BY <1>1, <1>3, <2>2
    <3>2. RestOfWord' = SubSeq(num, 5 - idx, 4)
      BY <1>4, <3>1 DEF RestOfWord
    <3>3. RestOfWord' # <<>>
      <4>1. 5 - idx \in 1 .. 4
        BY <1>1, <3>1
      <4>. QED  BY <1>6, <3>2, <4>1, RestOfPackets
    <3>. QED  BY <1>3, <3>1, <3>2, <3>3 DEF RemainingInput
  <2>. QED  BY <2>1, <2>2
<1>. HIDE DEF num, idx
<1>11. Behind(input_idx + 1) \in Seq(Byte)
  BY <1>5, <1>7
<1>. QED  BY <1>4, <1>8, <1>9, <1>10, <1>11, HeadTailConcat

(* What the debugger lists as remaining input is what arrives.             *)
THEOREM ListedInputArrives == Spec => RemainingInputArrives
<1>. DEFINE Kept == rx'.received_num_idx # rx.received_num_idx /\ at = "receive"
                       /\ RemainingInput # <<>> =>
                    /\ rx'.received_num_part = Head(RemainingInput)
                    /\ RemainingInput' = Tail(RemainingInput)
<1>1. UartInv /\ [Next]_vars => [Kept]_vars
  <2>. SUFFICES ASSUME UartInv, [Next]_vars, rx'.received_num_idx # rx.received_num_idx,
                       at = "receive", RemainingInput # <<>>
                PROVE  /\ rx'.received_num_part = Head(RemainingInput)
                       /\ RemainingInput' = Tail(RemainingInput)
    OBVIOUS
  <2>1. CASE \E word \in NextWords, time \in WaitingTimes : FetchPacket(word, time)
    BY <2>1, ListLosesPacket
  <2>2. ~ReceiveWait
    <3>. SUFFICES ASSUME ReceiveWait PROVE rx'.received_num_idx = rx.received_num_idx
      OBVIOUS
    <3>1. rx \in RxType
      BY DEF UartInv, HalvesTyped
    <3>. QED  BY <3>1 DEF ReceiveWait, Arrives, RxType
  <2>3. ~ReceiveNothing /\ ~UNCHANGED vars
    BY DEF ReceiveNothing, vars, device
  <2>4. ~Cpu /\ ~Restart
    <3>1. "receive" # "cpu"
      OBVIOUS
    <3>. QED  BY <3>1 DEF Cpu, OtherInstruction, DriverStep, CallDriver, Restart, StorePacket,
                   LoadStatus, StoreStatus, PollAgain, PollSent, PollReceived, TakePacket, Instruction
  <2>5. ~Send
    BY DEF Send, SendNothing, SendWait, LatchPacket, Sending
  <2>. QED  BY <2>1, <2>2, <2>3, <2>4, <2>5 DEF Next, Receive
<1>. QED  BY <1>1, UartInvariant, PTL DEF Spec, RemainingInputArrives

----------------------------------------------------------------------------
\* The request of the console that a state of the drivers stands for.
Request ==
    CASE call.op = "none" -> [state |-> "idle"]
      [] call.op = "print" ->
             IF Shown THEN [state |-> "done"]
             ELSE [state |-> "printing", value |-> call.value]
      [] call.op = "read" ->
             IF HasWord THEN [state |-> "answered", value |-> rx.received_num]
             ELSE [state |-> "reading"]

(* The request of each kind of call, in a state and in the next.           *)
LEMMA RequestIs ==
    /\ call = NoCall => Request = console!Idle
    /\ call.op = "print" => Request = IF Shown THEN console!Done ELSE console!Printing(call.value)
    /\ call.op = "read" =>
          Request = IF HasWord THEN console!Answered(rx.received_num) ELSE console!Reading
BY DEF Request, NoCall, console!Idle, console!Done, console!Printing, console!Answered,
       console!Reading

(* The same of the next state. *)
LEMMA RequestIsNext ==
    /\ call' = NoCall => Request' = console!Idle
    /\ call'.op = "print" =>
          Request' = IF Shown' THEN console!Done ELSE console!Printing(call'.value)
    /\ call'.op = "read" =>
          Request' = IF HasWord' THEN console!Answered(rx'.received_num) ELSE console!Reading
BY DEF Request, NoCall, console!Idle, console!Done, console!Printing, console!Answered,
       console!Reading

ConsoleStep == [console!ConsoleNext]_<<Request, output, answers>>

(* What the program does not see.                                          *)
LEMMA ConsoleStutters ==
    ASSUME Request' = Request, UNCHANGED <<output, answers>>
    PROVE  ConsoleStep
BY DEF ConsoleStep

(* A driver is called.                                                     *)
LEMMA CallIsCall ==
    ASSUME UartInv, NEW c \in PrintCalls \cup {ReadCall}, CallDriver(c)
    PROVE  ConsoleStep
<1>1. call = NoCall /\ packet = 1 /\ rx.received_num_idx = -1
  <2>1. call = NoCall /\ packet = 1
    BY DEF UartInv, CallDriver, Handshake
  <2>. QED  BY <2>1 DEF UartInv, KeyboardInv, NoCall
<1>2. call' = c /\ UNCHANGED <<output, answers, packet, rx>>
  BY DEF CallDriver, device
<1>3. Request = console!Idle
  BY <1>1, RequestIs
<1>4. Request' \in {console!Printing(v) : v \in {d.value : d \in PrintCalls}} \cup {console!Reading}
  <2>1. CASE c \in PrintCalls
    <3>1. c.op = "print" /\ packet' # Len(call'.value)
      <4>1. c.op = "print" /\ Len(c.value) \in Nat /\ Len(c.value) >= 2
        BY <2>1, PrintedValue
      <4>2. packet' = 1 /\ call' = c
        BY <1>1, <1>2
      <4>3. \A n \in Nat : n >= 2 => 1 # n
        OBVIOUS
      <4>. QED  BY <4>1, <4>2, <4>3
    <3>2. Request' = console!Printing(c.value)
      BY <1>2, <3>1, RequestIsNext DEF Shown
    <3>. QED  BY <2>1, <3>2
  <2>2. CASE c = ReadCall
    <3>1. call'.op = "read" /\ ~HasWord'
      BY <1>1, <1>2, <2>2 DEF ReadCall, HasWord
    <3>. QED  BY <3>1, RequestIsNext
  <2>. QED  BY <2>1, <2>2
<1>. QED  BY <1>2, <1>3, <1>4 DEF ConsoleStep, console!ConsoleNext, console!Call, Request

(* The last packet has arrived: the display shows the value as it was      *)
(* printed.                                                                *)
LEMMA SentIsShown ==
    ASSUME UartInv, b0 \notin status, NEW t, OnItsWay(t), Sent(t),
           UNCHANGED <<rx, driver, answers>>
    PROVE  ConsoleStep
<1>1. /\ call \in PrintCalls /\ call.op = "print" /\ packet \in 1 .. Len(call.value)
      /\ Len(call.value) \in Nat /\ Len(call.value) >= 2
      /\ tx.init_finished <=> packet > 1
  BY SendingDriver
<1>2. t \in TxType /\ t.init_finished = tx.init_finished /\ t.datatype = call.value[1]
  BY DEF OnItsWay
<1>3. UNCHANGED <<call, packet, answers>>
  BY DEF driver
<1>4. CASE packet # Len(call.value)
  <2>1. output' = output
    BY <1>1, <1>4, LastPacketIsLast DEF Sent
  <2>2. Request = console!Printing(call.value)
    BY <1>1, <1>4, RequestIs DEF Shown
  <2>3. Request' = console!Printing(call.value)
    BY <1>1, <1>3, <1>4, RequestIsNext DEF Shown
  <2>. QED  BY <1>3, <2>1, <2>2, <2>3, ConsoleStutters
<1>5. CASE packet = Len(call.value)
  <2>1. tx.init_finished /\ t.init_finished
    BY <1>1, <1>2, <1>5
  <2>2. LastPacket(t)
    BY <1>5, <2>1, LastPacketIsLast
  <2>3. /\ ~tx'.init_finished
        /\ output' = Append(output, <<t.datatype>> \o t.send_data)
    BY <1>2, <2>1, <2>2 DEF Sent, TxType
  <2>4. <<t.datatype>> \o t.send_data = call.value
    <3>1. /\ t.datatype \in Byte /\ t.send_data \in Seq(Byte) /\ Len(t.send_data) = packet - 1
          /\ \A k \in 1 .. packet - 1 : t.send_data[k] = call.value[k + 1]
      BY <2>1 DEF OnItsWay, TxType, StringType, IntegerType, Byte
    <3>. DEFINE shown == <<t.datatype>> \o t.send_data
    <3>2. /\ shown \in Seq(Byte) /\ Len(shown) = Len(t.send_data) + 1
          /\ shown[1] = t.datatype
          /\ \A k \in 2 .. Len(t.send_data) + 1 : shown[k] = t.send_data[k - 1]
      BY <3>1, TypePrefixed
    <3>. HIDE DEF shown
    <3>3. Len(shown) = Len(call.value)
      BY <1>1, <1>5, <3>1, <3>2
    <3>4. ASSUME NEW k \in 1 .. Len(call.value) PROVE shown[k] = call.value[k]
      <4>1. CASE k = 1
        BY <1>2, <3>2, <4>1
      <4>2. CASE k # 1
        <5>1. k \in 2 .. Len(t.send_data) + 1 /\ k - 1 \in 1 .. packet - 1 /\ (k - 1) + 1 = k
          BY <1>1, <1>5, <3>1, <4>2
        <5>. QED  BY <3>1, <3>2, <5>1
      <4>. QED  BY <4>1, <4>2
    <3>5. call.value \in Seq(Byte)
      BY <1>1, PrintedValue
    <3>6. shown = call.value
      BY <3>2, <3>3, <3>4, <3>5, SeqEqual
    <3>. QED  BY <3>6 DEF shown
  <2>5. Request = console!Printing(call.value)
    BY <1>1, <2>1, RequestIs DEF Shown
  <2>6. Request' = console!Done
    BY <1>1, <1>3, <1>5, <2>3, RequestIsNext DEF Shown
  <2>7. call.value \in {d.value : d \in PrintCalls} /\ output' = Append(output, call.value)
    BY <1>1, <2>3, <2>4
  <2>. QED  BY <1>3, <2>5, <2>6, <2>7
            DEF ConsoleStep, console!ConsoleNext, console!Show, Request
<1>. QED  BY <1>4, <1>5

(* A call that prints ends when its last packet has been shown.            *)
LEMMA PollSentReturns ==
    ASSUME UartInv, PollSent
    PROVE  ConsoleStep
<1>1. /\ step = "poll" /\ call.op = "print" /\ b0 \in status
      /\ UNCHANGED <<tx, output, answers>>
      /\ IF packet < Len(call.value)
         THEN packet' = packet + 1 /\ call' = call
         ELSE call' = NoCall
  BY DEF PollSent, device, Bit, NoDriver
<1>2. packet \in 1 .. Len(call.value) /\ Len(call.value) \in Nat /\ Arrived = packet
  BY <1>1, RunningDriver DEF Arrived
<1>3. tx.init_finished <=> packet \in 1 .. Len(call.value) - 1
  BY <1>1, <1>2 DEF UartInv, DisplayInv
<1>4. CASE packet < Len(call.value)
  <2>1. call' = call /\ tx.init_finished
    BY <1>1, <1>2, <1>3, <1>4
  <2>2. Request = console!Printing(call.value)
    BY <1>1, <2>1, RequestIs DEF Shown
  <2>3. Request' = console!Printing(call.value)
    BY <1>1, <2>1, RequestIsNext DEF Shown
  <2>. QED  BY <1>1, <2>2, <2>3, ConsoleStutters
<1>5. CASE ~(packet < Len(call.value))
  <2>1. packet = Len(call.value) /\ ~tx.init_finished /\ call' = NoCall
    BY <1>1, <1>2, <1>3, <1>5
  <2>2. Request = console!Done
    BY <1>1, <2>1, RequestIs DEF Shown
  <2>3. Request' = console!Idle
    BY <2>1, RequestIsNext
  <2>. QED  BY <1>1, <2>2, <2>3 DEF ConsoleStep, console!ConsoleNext, console!Return, Request
<1>. QED  BY <1>4, <1>5

(* The first packet of a word makes it the answer; the others change       *)
(* nothing that the program sees.                                          *)
LEMMA FetchIsType ==
    ASSUME UartInv, NEW word \in NextWords, NEW time \in WaitingTimes, FetchPacket(word, time)
    PROVE  ConsoleStep
<1>. DEFINE r == Fetched(rx, word)
<1>1. /\ b1 \notin status /\ ~rx.receiving_finished
      /\ UNCHANGED <<call, packet, output, answers>>
  BY DEF FetchPacket, Receiving, driver
<1>2. /\ call.op = "read" /\ packet \in 1 .. 4 /\ word \in AllWords /\ r \in RxType
      /\ r.received_num = IF packet = 1 THEN word ELSE rx.received_num
      /\ r.received_num_idx = 3 - packet
      /\ (rx.received_num_idx = -1) <=> (packet = 1)
  BY <1>1, FetchedNext
<1>. HIDE DEF r
<1>3. rx'.received_num = r.received_num /\ rx'.received_num_idx = r.received_num_idx
  <2>1. CASE max_waiting_instrs = 0
    <3>1. rx' = RxWith(r, FALSE, 0)
      BY <2>1 DEF FetchPacket, Arrives, RxWith, r
    <3>2. r \in RxType /\ FALSE \in BOOLEAN /\ 0 \in Nat
      BY <1>2
    <3>. QED  BY <3>1, <3>2, RxWithTime
  <2>2. CASE max_waiting_instrs # 0
    <3>1. rx' = RxWith(r, TRUE, time)
      BY <2>2 DEF FetchPacket, RxWith, r
    <3>2. r \in RxType /\ TRUE \in BOOLEAN /\ time \in Nat
      BY <1>2, <2>2 DEF WaitingTimes, UartInv, TypeOK, Byte
    <3>. QED  BY <3>1, <3>2, RxWithTime
  <2>. QED  BY <2>1, <2>2
<1>4. CASE packet = 1
  <2>1. ~HasWord
    BY <1>2, <1>4 DEF HasWord
  <2>2. Request = console!Reading
    BY <1>2, <2>1, RequestIs
  <2>3. HasWord' /\ rx'.received_num = word
    BY <1>2, <1>3, <1>4 DEF HasWord
  <2>4. Request' = console!Answered(word)
    BY <1>1, <1>2, <2>3, RequestIsNext
  <2>5. Request' \in {console!Answered(w) : w \in AllWords}
    BY <1>2, <2>4
  <2>. QED  BY <1>1, <2>2, <2>5 DEF ConsoleStep, console!ConsoleNext, console!Type, Request, AllWords
<1>5. CASE packet # 1
  <2>1. HasWord /\ HasWord' /\ rx'.received_num = rx.received_num
    BY <1>1, <1>2, <1>3, <1>5 DEF HasWord
  <2>2. Request' = Request
    BY <1>1, <1>2, <2>1, RequestIs, RequestIsNext
  <2>. QED  BY <1>1, <2>2, ConsoleStutters
<1>. QED  BY <1>4, <1>5

(* The fourth packet that is taken ends the call with the word that came.  *)
LEMMA TakeReturns ==
    ASSUME UartInv, TakePacket
    PROVE  ConsoleStep
<1>. DEFINE taken == Append(got, R1)
<1>1. /\ UNCHANGED <<rx, output>>
      /\ IF packet < 4
         THEN packet' = packet + 1 /\ UNCHANGED <<call, answers>>
         ELSE answers' = Append(answers, taken) /\ call' = NoCall
  BY DEF TakePacket, Instruction, device, NoDriver
<1>2. /\ call.op = "read" /\ packet \in 1 .. 4 /\ rx.received_num \in AllWords
      /\ rx.received_num_idx = IF packet = 4 THEN -1 ELSE 3 - packet
      /\ taken \in Seq(Byte) /\ Len(taken) = packet
      /\ \A k \in 1 .. packet : taken[k] = rx.received_num[k]
  BY TakenPacket
<1>. HIDE DEF taken
<1>3. HasWord
  BY <1>2 DEF HasWord
<1>4. Request = console!Answered(rx.received_num)
  BY <1>2, <1>3, RequestIs
<1>5. CASE packet < 4
  <2>1. UNCHANGED <<call, answers, rx, output>> /\ HasWord'
    BY <1>1, <1>2, <1>5 DEF HasWord
  <2>2. Request' = Request
    BY <1>2, <1>4, <2>1, RequestIsNext
  <2>. QED  BY <2>1, <2>2, ConsoleStutters
<1>6. CASE packet = 4
  <2>1. answers' = Append(answers, taken) /\ Request' = console!Idle
    BY <1>1, <1>6, RequestIsNext
  <2>2. taken = rx.received_num
    <3>1. rx.received_num \in Seq(Byte) /\ Len(rx.received_num) = 4
      BY <1>2, WordsTyped, WordIsSeq DEF Word
    <3>. QED  BY <1>2, <1>6, <3>1, SeqEqual
  <2>. DEFINE w == rx.received_num
  <2>3. w \in AllWords /\ Request = console!Answered(w) /\ answers' = Append(answers, w)
    BY <1>2, <1>4, <2>1, <2>2
  <2>. HIDE DEF w
  <2>. QED  BY <1>1, <2>1, <2>3
            DEF ConsoleStep, console!ConsoleNext, console!Return, Request, AllWords
<1>. QED  BY <1>2, <1>5, <1>6

(* A step of the UART and its drivers is a step of the console, or none    *)
(* that the program sees.                                                  *)
LEMMA EveryStepIsConsoleStep ==
    ASSUME UartInv, [Next]_vars
    PROVE  ConsoleStep
<1>1. CASE UNCHANGED vars
  BY <1>1, ConsoleStutters DEF vars, device, driver, Request, Shown, HasWord
<1>2. CASE OtherInstruction \/ PollAgain
  BY <1>2, ConsoleStutters DEF OtherInstruction, PollAgain, device, driver, Request, Shown, HasWord
<1>3. CASE \E c \in PrintCalls \cup {ReadCall} : CallDriver(c)
  BY <1>3, CallIsCall
<1>4. CASE StorePacket \/ LoadStatus \/ StoreStatus \/ PollReceived
  <2>1. UNCHANGED <<call, packet, tx, rx, output, answers>>
    BY <1>4 DEF StorePacket, LoadStatus, StoreStatus, PollReceived, device
  <2>. QED  BY <2>1, ConsoleStutters DEF Request, Shown, HasWord
<1>5. CASE PollSent
  BY <1>5, PollSentReturns
<1>6. CASE TakePacket
  BY <1>6, TakeReturns
<1>7. CASE Restart
  <2>1. call' = NoCall /\ UNCHANGED <<output, answers>>
    BY <1>7 DEF Restart, NoDriver
  <2>2. Request' = console!Idle
    BY <2>1, RequestIsNext
  <2>. QED  BY <2>1, <2>2 DEF ConsoleStep, console!ConsoleNext, console!Abandon, Request
<1>8. CASE ReceiveNothing
  <2>1. UNCHANGED <<call, packet, tx, rx, output, answers>>
    BY <1>8 DEF ReceiveNothing, Receiving, driver
  <2>. QED  BY <2>1, ConsoleStutters DEF Request, Shown, HasWord
<1>9. CASE ReceiveWait
  <2>1. UNCHANGED <<call, packet, tx, output, answers>>
    BY <1>9 DEF ReceiveWait, Receiving, driver
  <2>2. rx'.received_num = rx.received_num /\ rx'.received_num_idx = rx.received_num_idx
    <3>1. rx \in RxType
      BY DEF UartInv, HalvesTyped
    <3>. QED  BY <1>9, <3>1 DEF ReceiveWait, Arrives, RxType
  <2>. QED  BY <2>1, <2>2, ConsoleStutters DEF Request, Shown, HasWord
<1>10. CASE \E word \in NextWords, time \in WaitingTimes : FetchPacket(word, time)
  BY <1>10, FetchIsType
<1>11. CASE SendNothing
  <2>1. UNCHANGED <<call, packet, tx, rx, output, answers>>
    BY <1>11 DEF SendNothing, Sending, driver
  <2>. QED  BY <2>1, ConsoleStutters DEF Request, Shown, HasWord
<1>12. CASE SendWait
  <2>1. OnItsWay(tx) /\ b0 \notin status
    BY <1>12, WaitingOnItsWay DEF SendWait
  <2>2. UNCHANGED <<rx, driver, answers>>
    BY <1>12 DEF SendWait, Sending
  <2>3. CASE tx.sending_waiting_time = 1
    BY <1>12, <2>1, <2>2, <2>3, SentIsShown DEF SendWait
  <2>4. CASE tx.sending_waiting_time # 1
    <3>1. tx'.init_finished = tx.init_finished /\ output' = output
      <4>1. tx \in TxType
        BY DEF UartInv, HalvesTyped
      <4>. QED  BY <1>12, <2>4, <4>1 DEF SendWait, TxType
    <3>2. UNCHANGED <<call, packet>>
      BY <2>2 DEF driver
    <3>. QED  BY <2>2, <3>1, <3>2, ConsoleStutters DEF Request, Shown, HasWord
  <2>. QED  BY <2>3, <2>4
<1>13. ASSUME NEW time \in WaitingTimes, LatchPacket(time) PROVE ConsoleStep
  <2>1. OnItsWay(Latched) /\ b0 \notin status
    BY <1>13, LatchedOnItsWay DEF LatchPacket
  <2>2. UNCHANGED <<rx, driver, answers>>
    BY <1>13 DEF LatchPacket, Sending
  <2>3. CASE max_waiting_instrs = 0
    BY <1>13, <2>1, <2>2, <2>3, SentIsShown DEF LatchPacket
  <2>4. CASE max_waiting_instrs # 0
    <3>1. tx'.init_finished = tx.init_finished /\ output' = output
      <4>1. Latched \in TxType /\ Latched.init_finished = tx.init_finished
        BY <2>1 DEF OnItsWay
      <4>2. tx' = TxWith(Latched, TRUE, time) /\ output' = output
        BY <1>13, <2>4 DEF LatchPacket, TxWith
      <4>3. TRUE \in BOOLEAN /\ time \in Nat
        BY <2>4 DEF WaitingTimes, UartInv, TypeOK, Byte
      <4>. QED  BY <4>1, <4>2, <4>3, TxWithTime
    <3>2. UNCHANGED <<call, packet>>
      BY <2>2 DEF driver
    <3>. QED  BY <2>2, <3>1, <3>2, ConsoleStutters DEF Request, Shown, HasWord
  <2>. QED  BY <2>3, <2>4
<1>. QED
  BY <1>1, <1>2, <1>3, <1>4, <1>5, <1>6, <1>7, <1>8, <1>9, <1>10, <1>11, <1>12, <1>13
  DEF Next, Cpu, DriverStep, Receive, Send

(* The drivers and the UART implement the console: whatever the waiting    *)
(* times, each value is printed once, whole and in order, and whole words  *)
(* are read.                                                               *)
THEOREM DriversImplementConsole == Spec => ImplementsConsole
<1>1. Init => console!ConsoleInit
  <2>. SUFFICES ASSUME Init PROVE console!ConsoleInit
    OBVIOUS
  <2>1. call = NoCall /\ output = <<>> /\ answers = <<>>
    BY DEF Init
  <2>2. Request = console!Idle
    BY <2>1, RequestIs
  <2>. QED  BY <2>1, <2>2 DEF console!ConsoleInit, Request
<1>2. UartInv /\ [Next]_vars => ConsoleStep
  BY EveryStepIsConsoleStep
<1>. QED  BY <1>1, <1>2, UartInvariant, PTL
          DEF Spec, ImplementsConsole, console!ConsoleSpec, ConsoleStep, Request
=============================================================================
