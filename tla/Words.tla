------------------------------- MODULE Words -------------------------------
(* 32-bit words as the sets of the positions of their one bits.  Shifts,   *)
(* masks and the bitwise operators of C are then operations on sets, and   *)
(* TLC never meets a number beyond its own integers.                       *)
EXTENDS Integers

Bits == 0 .. 31
Word == SUBSET Bits

Low(w, n) == {b \in w : b < n}                  \* w & (2^n - 1)
Shl(w, n) == {b + n : b \in w} \cap Bits        \* w << n
Shr(w, n) == {b - n : b \in {c \in w : c >= n}} \* w >> n
Field(w, from, n) == Low(Shr(w, from), n)
Xor(v, w) == (v \ w) \cup (w \ v)
Not(w) == Bits \ w

\* A number below 2^31, and an int32_t.
FromNat(n) == {b \in 0 .. 30 : (n \div 2^b) % 2 = 1}
FromInt(n) == IF n >= 0 THEN FromNat(n) ELSE Not(FromNat(-n - 1))

\* The number that the lower n bits stand for.
LowValues(w) ==
    LET value[n \in 0 .. 32] ==
            IF n = 0 THEN 0 ELSE value[n - 1] + IF n - 1 \in w THEN 2^(n - 1) ELSE 0
    IN  value
ToNat(w) == LowValues(w)[32]
ToInt(w) == IF 31 \in w THEN -ToNat(Not(w)) - 1 ELSE ToNat(w)

\* A carry enters a position if one is generated below and all positions in
\* between propagate it.
Carry(v, w) ==
    {b \in Bits : \E c \in v \cap w : c < b /\ (c + 1) .. (b - 1) \subseteq v \cup w}
Plus(v, w) == Xor(Xor(v, w), Carry(v, w))
Negated(w) == Plus(Not(w), {0})
Minus(v, w) == Plus(v, Negated(w))

\* v times the lower n bits of w.
LowProducts(v, w) ==
    LET product[n \in 0 .. 32] ==
            IF n = 0 THEN {}
            ELSE IF n - 1 \in w THEN Plus(product[n - 1], Shl(v, n - 1)) ELSE product[n - 1]
    IN  product
Times(v, w) == LowProducts(v, w)[32]

\* sign_extend_22_to_32
SignExtended(w) == IF 21 \in w THEN w \cup 22 .. 31 ELSE Low(w, 22)
=============================================================================
