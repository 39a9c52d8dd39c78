----------------------------- MODULE Reti_proofs -----------------------------
(***************************************************************************)
(* Proofs about words, lines and the loaded program, for lines of every    *)
(* content, and about the CPU for every program.                           *)
(***************************************************************************)
EXTENDS Reti, LeastElement, SequenceTheorems

----------------------------------------------------------------------------
\* Numbers and their bits.

(* The values of the positions. *)
LEMMA Powers ==
    /\ 2^0 = 1 /\ 2^1 = 2 /\ 2^2 = 4 /\ 2^3 = 8 /\ 2^4 = 16 /\ 2^5 = 32 /\ 2^6 = 64
    /\ 2^7 = 128 /\ 2^8 = 256 /\ 2^9 = 512 /\ 2^10 = 1024 /\ 2^11 = 2048 /\ 2^12 = 4096
    /\ 2^13 = 8192 /\ 2^14 = 16384 /\ 2^15 = 32768 /\ 2^16 = 65536 /\ 2^17 = 131072
    /\ 2^18 = 262144 /\ 2^19 = 524288 /\ 2^20 = 1048576 /\ 2^21 = 2097152
    /\ 2^22 = 4194304 /\ 2^23 = 8388608 /\ 2^24 = 16777216 /\ 2^25 = 33554432
    /\ 2^26 = 67108864 /\ 2^27 = 134217728 /\ 2^28 = 268435456 /\ 2^29 = 536870912
    /\ 2^30 = 1073741824 /\ 2^31 = 2147483648
OBVIOUS

(* Each is twice the one below it. *)
LEMMA Doubled ==
    ASSUME NEW b \in 0 .. 30
    PROVE  2^b \in Int /\ 2^b > 0 /\ 2^(b + 1) = 2 * 2^b
<1>1. CASE b = 0
  BY <1>1, Powers
<1>2. CASE b = 1
  BY <1>2, Powers
<1>3. CASE b = 2
  BY <1>3, Powers
<1>4. CASE b = 3
  BY <1>4, Powers
<1>5. CASE b = 4
  BY <1>5, Powers
<1>6. CASE b = 5
  BY <1>6, Powers
<1>7. CASE b = 6
  BY <1>7, Powers
<1>8. CASE b = 7
  BY <1>8, Powers
<1>9. CASE b = 8
  BY <1>9, Powers
<1>10. CASE b = 9
  BY <1>10, Powers
<1>11. CASE b = 10
  BY <1>11, Powers
<1>12. CASE b = 11
  BY <1>12, Powers
<1>13. CASE b = 12
  BY <1>13, Powers
<1>14. CASE b = 13
  BY <1>14, Powers
<1>15. CASE b = 14
  BY <1>15, Powers
<1>16. CASE b = 15
  BY <1>16, Powers
<1>17. CASE b = 16
  BY <1>17, Powers
<1>18. CASE b = 17
  BY <1>18, Powers
<1>19. CASE b = 18
  BY <1>19, Powers
<1>20. CASE b = 19
  BY <1>20, Powers
<1>21. CASE b = 20
  BY <1>21, Powers
<1>22. CASE b = 21
  BY <1>22, Powers
<1>23. CASE b = 22
  BY <1>23, Powers
<1>24. CASE b = 23
  BY <1>24, Powers
<1>25. CASE b = 24
  BY <1>25, Powers
<1>26. CASE b = 25
  BY <1>26, Powers
<1>27. CASE b = 26
  BY <1>27, Powers
<1>28. CASE b = 27
  BY <1>28, Powers
<1>29. CASE b = 28
  BY <1>29, Powers
<1>30. CASE b = 29
  BY <1>30, Powers
<1>31. CASE b = 30
  BY <1>31, Powers
<1>. QED
  BY <1>1, <1>2, <1>3, <1>4, <1>5, <1>6, <1>7, <1>8, <1>9, <1>10, <1>11, <1>12, <1>13, <1>14, <1>15, <1>16,
     <1>17, <1>18, <1>19, <1>20, <1>21, <1>22, <1>23, <1>24, <1>25, <1>26, <1>27, <1>28, <1>29, <1>30, <1>31

(* The quotient and the remainder, which are unique. *)
LEMMA Divided ==
    ASSUME NEW n \in Int, NEW d \in Int, d > 0,
           NEW q \in Int, q = n \div d, NEW r \in Int, r = n % d
    PROVE  n = d * q + r /\ r \in 0 .. d - 1
OBVIOUS

(* Of natural numbers, both are natural numbers. *)
LEMMA QuotientType ==
    ASSUME NEW n \in Nat, NEW d \in Int, d > 0
    PROVE  n \div d \in Nat /\ n % d \in Nat
OBVIOUS

(* A smaller quotient makes room for the whole divisor, *)
LEMMA LessQuotient ==
    ASSUME NEW d \in Int, d > 0, NEW q \in Int, NEW m \in Int, m < q
    PROVE  d * m + d <= d * q
<1>1. PICK k \in Nat : q = m + 1 + k
  <2>1. q - m - 1 \in Nat /\ q = m + 1 + (q - m - 1)
    OBVIOUS
  <2>. QED
    BY <2>1
<1>2. d * q = d * m + d + d * k
  BY <1>1
<1>3. d * k >= 0
  OBVIOUS
<1>. QED
  BY <1>2, <1>3

(* so a number has one quotient, and *)
LEMMA SameQuotient ==
    ASSUME NEW d \in Int, d > 0, NEW q \in Int, NEW m \in Int,
           NEW r \in 0 .. d - 1, NEW s \in 0 .. d - 1, d * q + r = d * m + s
    PROVE  q = m
<1>1. d * q \in Int /\ d * m \in Int
  OBVIOUS
<1>2. m < q => d * m + d <= d * q
  BY LessQuotient
<1>3. q < m => d * q + d <= d * m
  BY LessQuotient
<1>. QED
  BY <1>1, <1>2, <1>3

(* What the quotient is, from its product with the divisor. *)
LEMMA QuotientIs ==
    ASSUME NEW n \in Nat, NEW d \in Int, d > 0, NEW q \in Nat, NEW r \in 0 .. d - 1,
           n = d * q + r
    PROVE  n \div d = q
<1>1. PICK m \in Int : m = n \div d
  BY QuotientType
<1>2. PICK s \in Int : s = n % d
  BY QuotientType
<1>3. n = d * m + s /\ s \in 0 .. d - 1
  BY <1>1, <1>2, Divided
<1>. QED
  BY <1>1, <1>3, SameQuotient

(* The quotient by a larger number. *)
LEMMA BelowDivisor ==
    ASSUME NEW d \in Int, d > 0, NEW n \in 0 .. d - 1
    PROVE  n \div d = 0
<1>1. n \in Nat /\ n = d * 0 + n
  OBVIOUS
<1>. QED
  BY <1>1, QuotientIs

(* A position further up is one more halving. *)
LEMMA HalfOfQuotient ==
    ASSUME NEW n \in Nat, NEW p \in Int, p > 0
    PROVE  n \div (2 * p) = (n \div p) \div 2
<1>1. PICK q \in Nat : q = n \div p
  BY QuotientType
<1>2. PICK r \in Int : r = n % p
  BY QuotientType
<1>3. n = p * q + r /\ r \in 0 .. p - 1
  BY <1>1, <1>2, Divided
<1>4. PICK h \in Nat : h = q \div 2 /\ (q = 2 * h \/ q = 2 * h + 1)
  OBVIOUS
<1>5. 2 * p \in Int /\ 2 * p > 0
  OBVIOUS
<1>6. \E s \in 0 .. 2 * p - 1 : n = (2 * p) * h + s
  <2>1. CASE q = 2 * h
    <3>1. p * q = (2 * p) * h
      BY <2>1
    <3>2. n = (2 * p) * h + r /\ r \in 0 .. 2 * p - 1
      BY <1>3, <3>1
    <3>. QED
      BY <3>2
  <2>2. CASE q = 2 * h + 1
    <3>1. p * q = (2 * p) * h + p
      BY <2>2
    <3>2. p + r \in 0 .. 2 * p - 1
      BY <1>3
    <3>3. n = (2 * p) * h + (p + r)
      BY <1>3, <3>1
    <3>. QED
      BY <3>2, <3>3
  <2>. QED
    BY <1>4, <2>1, <2>2
<1>7. n \div (2 * p) = h
  BY <1>5, <1>6, QuotientIs
<1>. QED
  BY <1>1, <1>4, <1>7, Zenon

\* What a position is worth.
Weight(b) == 2^b

(* The lowest position is worth one, *)
LEMMA WeightZero == Weight(0) = 1
BY Powers DEF Weight

(* each other one twice the one below it. *)
LEMMA Weights ==
    ASSUME NEW b \in 0 .. 30
    PROVE  Weight(b) \in Int /\ Weight(b) > 0 /\ Weight(b + 1) = 2 * Weight(b)
BY Doubled, Zenon DEF Weight

(* They are positive numbers. *)
LEMMA WeightType ==
    ASSUME NEW b \in 0 .. 31
    PROVE  Weight(b) \in Int /\ Weight(b) > 0
<1>1. CASE b = 31
  <2>1. Weight(30) \in Int /\ Weight(30) > 0 /\ Weight(30 + 1) = 2 * Weight(30) /\ 30 + 1 = 31
    BY Weights
  <2>. QED
    BY <1>1, <2>1
<1>2. CASE b # 31
  <2>1. b \in 0 .. 30
    BY <1>2
  <2>. QED
    BY <2>1, Weights
<1>. QED
  BY <1>1, <1>2

(* The bits of a number, with the positions' worths named. *)
LEMMA BitsOf ==
    ASSUME NEW n
    PROVE  FromNat(n) = {b \in 0 .. 30 : (n \div Weight(b)) % 2 = 1}
BY Zenon DEF FromNat, Weight

(* The quotients that make the bits of a number. *)
LEMMA Halved ==
    ASSUME NEW n \in Nat
    PROVE  /\ n \div Weight(0) = n
           /\ \A b \in 0 .. 31 : n \div Weight(b) \in Nat
           /\ \A b \in 0 .. 30 : n \div Weight(b + 1) = (n \div Weight(b)) \div 2
<1>1. n \div Weight(0) = n
  BY WeightZero
<1>2. ASSUME NEW b \in 0 .. 30
      PROVE  n \div Weight(b + 1) = (n \div Weight(b)) \div 2
  <2>1. Weight(b) \in Int /\ Weight(b) > 0 /\ Weight(b + 1) = 2 * Weight(b)
    BY Weights
  <2>2. n \div (2 * Weight(b)) = (n \div Weight(b)) \div 2
    BY <2>1, HalfOfQuotient
  <2>. QED
    BY <2>1, <2>2, Zenon
<1>3. ASSUME NEW b \in 0 .. 31
      PROVE  n \div Weight(b) \in Nat
  <2>1. Weight(b) \in Int /\ Weight(b) > 0
    BY WeightType
  <2>. QED
    BY <2>1, QuotientType
<1>. QED
  BY <1>1, <1>2, <1>3

(* Induction up to a bound, for a set of numbers. *)
LEMMA UpTo ==
    ASSUME NEW N \in Nat, NEW S, 0 \in S, \A k \in 0 .. N - 1 : k \in S => k + 1 \in S
    PROVE  0 .. N \subseteq S
<1> DEFINE T == (0 .. N) \ S
<1>1. ASSUME T # {}
      PROVE  FALSE
  <2>1. T \in SUBSET Nat
    OBVIOUS
  <2> HIDE DEF T
  <2>2. PICK k \in T : \A l \in T : k <= l
    BY <1>1, <2>1, LeastNatural
  <2> USE DEF T
  <2>3. k \in 1 .. N /\ k - 1 \in 0 .. N - 1 /\ k - 1 \notin T /\ k = (k - 1) + 1
    BY <2>2
  <2>. QED
    BY <2>2, <2>3
<1>. QED
  BY <1>1

\* What the loops over the bits of a word make of their value before bit n - 1.
ValueOf(w, value, n) ==
    IF n = 0 THEN 0 ELSE value[n - 1] + IF n - 1 \in w THEN Weight(n - 1) ELSE 0
ProductOf(v, w, product, n) ==
    IF n = 0 THEN {}
    ELSE IF n - 1 \in w THEN Plus(product[n - 1], Shl(v, n - 1)) ELSE product[n - 1]

(* The values they run through. *)
LEMMA LowValuesOf ==
    ASSUME NEW w
    PROVE  LowValues(w) = CHOOSE f : f = [n \in 0 .. 32 |-> ValueOf(w, f, n)]
BY Zenon DEF LowValues, ValueOf, Weight

(* The functions are defined for every word. *)
LEMMA ValuesExist ==
    ASSUME NEW w
    PROVE  LowValues(w) = [n \in 0 .. 32 |-> ValueOf(w, LowValues(w), n)]
<1> DEFINE Result(value, m) == value = [n \in 0 .. m |-> ValueOf(w, value, n)]
           S == {m \in 0 .. 32 : \E value : Result(value, m)}
<1>1. 0 \in S
  <2>1. Result([n \in 0 .. 0 |-> 0], 0)
    BY DEF ValueOf
  <2>. QED
    BY <2>1
<1>2. ASSUME NEW m \in 0 .. 31, m \in S
      PROVE  m + 1 \in S
  <2>1. PICK value : Result(value, m)
    BY <1>2
  <2> DEFINE next == [n \in 0 .. m + 1 |-> IF n = m + 1 THEN ValueOf(w, value, n) ELSE value[n]]
  <2>2. ASSUME NEW n \in 0 .. m + 1
        PROVE  next[n] = ValueOf(w, next, n)
    <3>1. n # 0 => n - 1 \in 0 .. m /\ next[n - 1] = value[n - 1]
      OBVIOUS
    <3>2. CASE n = m + 1
      BY <3>1, <3>2 DEF ValueOf
    <3>3. CASE n # m + 1
      <4>1. n \in 0 .. m /\ next[n] = value[n]
        BY <3>3
      <4>2. value[n] = ValueOf(w, value, n)
        BY <2>1, <4>1
      <4>. QED
        BY <3>1, <4>1, <4>2 DEF ValueOf
    <3>. QED
      BY <3>2, <3>3
  <2>3. next = [n \in 0 .. m + 1 |-> next[n]]
    OBVIOUS
  <2> HIDE DEF next
  <2>4. Result(next, m + 1)
    BY <2>2, <2>3
  <2>. QED
    BY <2>4
<1> HIDE DEF S
<1>3. 0 .. 32 \subseteq S
  BY <1>1, <1>2, UpTo
<1>4. PICK value : Result(value, 32)
  BY <1>3 DEF S
<1>5. LowValues(w) = CHOOSE f : f = [n \in 0 .. 32 |-> ValueOf(w, f, n)]
  BY LowValuesOf
<1>. QED
  BY <1>4, <1>5

(* So does that of the partial products. *)
LEMMA ProductsExist ==
    ASSUME NEW v, NEW w
    PROVE  LowProducts(v, w) = [n \in 0 .. 32 |-> ProductOf(v, w, LowProducts(v, w), n)]
<1> DEFINE Result(product, m) == product = [n \in 0 .. m |-> ProductOf(v, w, product, n)]
           S == {m \in 0 .. 32 : \E product : Result(product, m)}
<1>1. 0 \in S
  <2>1. Result([n \in 0 .. 0 |-> {}], 0)
    BY DEF ProductOf
  <2>. QED
    BY <2>1
<1>2. ASSUME NEW m \in 0 .. 31, m \in S
      PROVE  m + 1 \in S
  <2>1. PICK product : Result(product, m)
    BY <1>2
  <2> DEFINE next == [n \in 0 .. m + 1 |->
                         IF n = m + 1 THEN ProductOf(v, w, product, n) ELSE product[n]]
  <2>2. ASSUME NEW n \in 0 .. m + 1
        PROVE  next[n] = ProductOf(v, w, next, n)
    <3>1. n # 0 => n - 1 \in 0 .. m /\ next[n - 1] = product[n - 1]
      OBVIOUS
    <3>2. CASE n = m + 1
      BY <3>1, <3>2 DEF ProductOf
    <3>3. CASE n # m + 1
      <4>1. n \in 0 .. m /\ next[n] = product[n]
        BY <3>3
      <4>2. product[n] = ProductOf(v, w, product, n)
        BY <2>1, <4>1
      <4>. QED
        BY <3>1, <4>1, <4>2 DEF ProductOf
    <3>. QED
      BY <3>2, <3>3
  <2>3. next = [n \in 0 .. m + 1 |-> next[n]]
    OBVIOUS
  <2> HIDE DEF next
  <2>4. Result(next, m + 1)
    BY <2>2, <2>3
  <2>. QED
    BY <2>4
<1> HIDE DEF S
<1>3. 0 .. 32 \subseteq S
  BY <1>1, <1>2, UpTo
<1>4. PICK product : Result(product, 32)
  BY <1>3 DEF S
<1>5. LowProducts(v, w) = CHOOSE f : f = [n \in 0 .. 32 |-> ProductOf(v, w, f, n)]
  BY DEF LowProducts, ProductOf
<1>. QED
  BY <1>4, <1>5

(* So they can be unfolded bit by bit. *)
LEMMA ValueStep ==
    ASSUME NEW w
    PROVE  /\ LowValues(w)[0] = 0
           /\ \A n \in 0 .. 31 :
                LowValues(w)[n + 1] = LowValues(w)[n] + IF n \in w THEN Weight(n) ELSE 0
<1>1. \A n \in 0 .. 32 : LowValues(w)[n] = ValueOf(w, LowValues(w), n)
  BY ValuesExist
<1>2. \A n \in 0 .. 31 : n + 1 \in 0 .. 32 /\ n + 1 # 0 /\ (n + 1) - 1 = n
  OBVIOUS
<1>. QED
  BY <1>1, <1>2 DEF ValueOf

(* A partial product from the one below it. *)
LEMMA ProductStep ==
    ASSUME NEW v, NEW w
    PROVE  /\ LowProducts(v, w)[0] = {}
           /\ \A n \in 0 .. 31 :
                LowProducts(v, w)[n + 1] =
                  IF n \in w THEN Plus(LowProducts(v, w)[n], Shl(v, n)) ELSE LowProducts(v, w)[n]
<1>1. \A n \in 0 .. 32 : LowProducts(v, w)[n] = ProductOf(v, w, LowProducts(v, w), n)
  BY ProductsExist
<1>2. \A n \in 0 .. 31 : n + 1 \in 0 .. 32 /\ n + 1 # 0 /\ (n + 1) - 1 = n
  OBVIOUS
<1>. QED
  BY <1>1, <1>2 DEF ProductOf

(* Higher positions are worth more. *)
LEMMA WeightsGrow ==
    ASSUME NEW k \in 0 .. 31, NEW b \in k .. 31
    PROVE  Weight(k) \in Nat /\ Weight(b) \in Nat /\ Weight(k) > 0 /\ Weight(k) <= Weight(b)
<1>1. \A a \in 0 .. 31 : Weight(a) \in Nat /\ Weight(a) > 0
  BY WeightType
<1> DEFINE S == {m \in 0 .. 31 - k : Weight(k) <= Weight(k + m)}
<1>2. 0 \in S
  <2>1. k + 0 = k
    OBVIOUS
  <2>2. Weight(k) <= Weight(k)
    BY <1>1
  <2>3. Weight(k) <= Weight(k + 0)
    BY <2>1, <2>2, Zenon
  <2>. QED
    BY <2>3
<1>3. ASSUME NEW m \in 0 .. (31 - k) - 1, m \in S
      PROVE  m + 1 \in S
  <2>1. k + m \in 0 .. 30 /\ (k + m) + 1 = k + (m + 1) /\ m + 1 \in 0 .. 31 - k
    OBVIOUS
  <2>2. Weight(k + m) \in Nat /\ Weight((k + m) + 1) = 2 * Weight(k + m)
    BY <2>1, Weights
  <2>3. Weight(k) \in Nat /\ Weight(k) <= Weight(k + m)
    BY <1>1, <1>3
  <2>4. Weight(k) <= Weight((k + m) + 1)
    BY <2>2, <2>3
  <2>5. Weight(k) <= Weight(k + (m + 1))
    BY <2>1, <2>4, Zenon
  <2>. QED
    BY <2>1, <2>5
<1> HIDE DEF S
<1>4. 0 .. 31 - k \subseteq S
  <2>1. 31 - k \in Nat
    OBVIOUS
  <2>. QED
    BY <1>2, <1>3, <2>1, UpTo
<1>5. b - k \in 0 .. 31 - k /\ k + (b - k) = b
  OBVIOUS
<1>6. Weight(k) <= Weight(k + (b - k))
  BY <1>4, <1>5 DEF S
<1>7. Weight(k) <= Weight(b)
  BY <1>5, <1>6, Zenon
<1>8. k \in 0 .. 31 /\ b \in 0 .. 31
  OBVIOUS
<1>. QED
  BY <1>1, <1>7, <1>8

(* The lower k bits are a number below Weight(k). *)
LEMMA LowValueType ==
    ASSUME NEW w, NEW k \in 0 .. 31
    PROVE  LowValues(w)[k] \in 0 .. Weight(k) - 1
<1> DEFINE S == {m \in 0 .. 31 : LowValues(w)[m] \in 0 .. Weight(m) - 1}
<1>1. 0 \in S
  BY ValueStep, WeightZero
<1>2. ASSUME NEW m \in 0 .. 30, m \in S
      PROVE  m + 1 \in S
  <2>1. Weight(m) \in Int /\ Weight(m) > 0 /\ Weight(m + 1) = 2 * Weight(m)
    BY Weights
  <2>2. LowValues(w)[m + 1] = LowValues(w)[m] + IF m \in w THEN Weight(m) ELSE 0
    BY ValueStep
  <2>3. LowValues(w)[m] \in 0 .. Weight(m) - 1
    BY <1>2
  <2>4. LowValues(w)[m + 1] \in 0 .. 2 * Weight(m) - 1
    <3>1. PICK p \in Int : p = Weight(m) /\ p > 0
      BY <2>1
    <3>2. PICK v \in 0 .. p - 1 : v = LowValues(w)[m]
      BY <2>3, <3>1
    <3>3. LowValues(w)[m + 1] = v \/ LowValues(w)[m + 1] = v + p
      BY <2>2, <3>1, <3>2
    <3>4. LowValues(w)[m + 1] \in 0 .. 2 * p - 1
      BY <3>1, <3>2, <3>3
    <3>. QED
      BY <3>1, <3>4
  <2>5. m + 1 \in 0 .. 31
    OBVIOUS
  <2>. QED
    BY <2>1, <2>4, <2>5
<1> HIDE DEF S
<1>3. 0 .. 31 \subseteq S
  BY <1>1, <1>2, UpTo
<1>. QED
  BY <1>3 DEF S

(* Bits that are not set do not count. *)
LEMMA NatBelow ==
    ASSUME NEW w, NEW k \in 0 .. 31, \A b \in k .. 31 : b \notin w
    PROVE  ToNat(w) = LowValues(w)[k] /\ ToNat(w) \in 0 .. Weight(k) - 1
<1> DEFINE S == {m \in 0 .. 32 - k : LowValues(w)[k + m] = LowValues(w)[k]}
<1>1. 0 \in S
  OBVIOUS
<1>2. ASSUME NEW m \in 0 .. (32 - k) - 1, m \in S
      PROVE  m + 1 \in S
  <2>1. k + m \in k .. 31 /\ k + m \in 0 .. 31 /\ (k + m) + 1 = k + (m + 1)
    OBVIOUS
  <2>2. LowValues(w)[(k + m) + 1] = LowValues(w)[k + m] + 0
    BY <2>1, ValueStep
  <2>3. LowValues(w)[k + m] = LowValues(w)[k] /\ LowValues(w)[k] \in Int
    BY <1>2, LowValueType
  <2>4. LowValues(w)[(k + m) + 1] = LowValues(w)[k]
    BY <2>2, <2>3
  <2>. QED
    BY <2>1, <2>4
<1> HIDE DEF S
<1>3. 0 .. 32 - k \subseteq S
  <2>1. 32 - k \in Nat
    OBVIOUS
  <2>. QED
    BY <1>1, <1>2, <2>1, UpTo
<1>4. 32 - k \in S /\ k + (32 - k) = 32
  BY <1>3
<1>5. LowValues(w)[32] = LowValues(w)[k]
  BY <1>4 DEF S
<1>. QED
  BY <1>5, LowValueType DEF ToNat

(* A number is the value of its bits. *)
LEMMA NatOfBits ==
    ASSUME NEW n \in 0 .. Weight(31) - 1
    PROVE  ToNat(FromNat(n)) = n
<1> DEFINE w == FromNat(n)
           S == {m \in 0 .. 31 : n = LowValues(w)[m] + Weight(m) * (n \div Weight(m))}
<1>0. n \in Nat
  OBVIOUS
<1>1. 0 \in S
  <2>1. LowValues(w)[0] = 0 /\ Weight(0) = 1 /\ n \div Weight(0) = n
    BY ValueStep, WeightZero, Halved
  <2>2. n = 0 + 1 * n
    OBVIOUS
  <2>3. n = LowValues(w)[0] + Weight(0) * (n \div Weight(0))
    BY <2>1, <2>2, Zenon
  <2>. QED
    BY <2>3
<1>2. ASSUME NEW m \in 0 .. 30, m \in S
      PROVE  m + 1 \in S
  <2>1. PICK p \in Int : p = Weight(m) /\ p > 0 /\ Weight(m + 1) = 2 * p
    BY Weights
  <2>2. PICK q \in Nat : q = n \div Weight(m)
    <3>1. n \div Weight(m) \in Nat
      BY <1>0, <2>1, QuotientType
    <3>. QED
      BY <3>1
  <2>3. PICK h \in Nat : h = q \div 2 /\ ((q % 2 = 0 /\ q = 2 * h) \/ (q % 2 = 1 /\ q = 2 * h + 1))
    <3>1. PICK h \in Nat : h = q \div 2
      BY QuotientType
    <3>2. PICK r \in Nat : r = q % 2
      BY QuotientType
    <3>3. q = 2 * h + r /\ r \in 0 .. 1
      BY <3>1, <3>2, Divided
    <3>. QED
      BY <3>1, <3>2, <3>3
  <2>4. n \div Weight(m + 1) = h
    <3>1. n \div Weight(m + 1) = (n \div Weight(m)) \div 2
      BY <1>0, <2>1, QuotientType
    <3>. QED
      BY <2>2, <2>3, <3>1, Zenon
  <2>5. m \in w <=> q % 2 = 1
    BY <2>2, BitsOf
  <2>6. PICK v \in Int : v = LowValues(w)[m]
    BY LowValueType
  <2>7. n = v + p * q
    BY <1>2, <2>1, <2>2, <2>6, Zenon
  <2>8. LowValues(w)[m + 1] = v + IF m \in w THEN p ELSE 0
    BY <2>1, <2>6, ValueStep
  <2>9. n = LowValues(w)[m + 1] + (2 * p) * h
    <3>1. CASE q = 2 * h /\ q % 2 = 0
      <4>1. p * q = (2 * p) * h
        BY <3>1
      <4>2. LowValues(w)[m + 1] = v
        BY <2>5, <2>8, <3>1
      <4>. QED
        BY <2>7, <4>1, <4>2
    <3>2. CASE q = 2 * h + 1 /\ q % 2 = 1
      <4>1. p * q = (2 * p) * h + p
        BY <3>2
      <4>2. LowValues(w)[m + 1] = v + p
        BY <2>5, <2>8, <3>2
      <4>. QED
        BY <2>7, <4>1, <4>2
    <3>. QED
      BY <2>3, <3>1, <3>2
  <2>10. n = LowValues(w)[m + 1] + Weight(m + 1) * (n \div Weight(m + 1))
    BY <2>1, <2>4, <2>9, Zenon
  <2>11. m + 1 \in 0 .. 31
    OBVIOUS
  <2>. QED
    BY <2>10, <2>11
<1>3. \A b \in 31 .. 31 : b \notin w
  BY BitsOf
<1> HIDE DEF S, w
<1>4. 0 .. 31 \subseteq S
  BY <1>1, <1>2, UpTo
<1>5. n = LowValues(w)[31] + Weight(31) * (n \div Weight(31))
  BY <1>4 DEF S
<1>6. Weight(31) \in Nat /\ Weight(31) > 0
  BY WeightsGrow
<1>7. n \div Weight(31) = 0
  BY <1>6, BelowDivisor
<1>8. ToNat(w) = LowValues(w)[31] /\ LowValues(w)[31] \in Int
  BY <1>3, NatBelow, LowValueType
<1>9. Weight(31) * 0 = 0
  BY <1>6
<1>10. n = LowValues(w)[31] + 0
  BY <1>5, <1>7, <1>9
<1>. QED
  BY <1>8, <1>10 DEF w

(* So different numbers have different bits. *)
LEMMA BitsDiffer ==
    ASSUME NEW m \in 0 .. Weight(31) - 1, NEW n \in 0 .. Weight(31) - 1, FromNat(m) = FromNat(n)
    PROVE  m = n
BY NatOfBits

(* A number below Weight(k) has only bits below k. *)
LEMMA BitsBelow ==
    ASSUME NEW k \in 0 .. 31, NEW n \in 0 .. Weight(k) - 1
    PROVE  \A b \in FromNat(n) : b \in 0 .. 30 /\ b < k
<1>1. ASSUME NEW b \in 0 .. 30, b >= k
      PROVE  n \div Weight(b) = 0
  <2>1. b \in k .. 31
    BY <1>1
  <2>2. Weight(k) \in Nat /\ Weight(b) \in Nat /\ Weight(b) > 0 /\ Weight(k) <= Weight(b)
    BY <2>1, WeightsGrow
  <2>3. n \in 0 .. Weight(b) - 1
    BY <2>2
  <2>. QED
    BY <2>2, <2>3, BelowDivisor
<1>2. 0 % 2 # 1
  OBVIOUS
<1>. QED
  BY <1>1, <1>2, BitsOf

----------------------------------------------------------------------------
\* The operations on words.

(* They give words again. *)
LEMMA WordsClosed ==
    ASSUME NEW v \in Word, NEW w \in Word, NEW n \in Nat
    PROVE  /\ Low(w, n) \in Word /\ Shl(w, n) \in Word /\ Shr(w, n) \in Word
           /\ Xor(v, w) \in Word /\ Not(w) \in Word /\ v \cup w \in Word /\ v \cap w \in Word
           /\ Plus(v, w) \in Word /\ Minus(v, w) \in Word /\ SignExtended(w) \in Word
<1>1. Low(w, n) \in Word /\ Shl(w, n) \in Word /\ v \cup w \in Word /\ v \cap w \in Word
  BY DEF Low, Shl, Word
<1>2. Shr(w, n) \in Word
  BY DEF Shr, Word, Bits
<1>3. \A x, y \in Word : Xor(x, y) \in Word
  BY DEF Xor, Word
<1>4. \A x : Not(x) \in Word
  BY DEF Not, Word
<1>5. \A x, y \in Word : Plus(x, y) \in Word
  <2>1. \A x, y : Carry(x, y) \in Word
    BY DEF Carry, Word
  <2>. QED
    BY <1>3, <2>1 DEF Plus
<1>6. Minus(v, w) \in Word
  <2>1. {0} \in Word
    BY DEF Word, Bits
  <2>. QED
    BY <1>4, <1>5, <2>1 DEF Minus, Negated
<1>7. SignExtended(w) \in Word
  <2>1. 22 .. 31 \subseteq Bits
    BY DEF Bits
  <2>2. w \cup 22 .. 31 \in Word /\ Low(w, 22) \in Word
    BY <2>1 DEF Word, Low
  <2>. QED
    BY <2>2, Zenon DEF SignExtended
<1>. QED
  BY <1>1, <1>2, <1>3, <1>4, <1>5, <1>6, <1>7

(* Numbers become words. *)
LEMMA NumbersAreWords ==
    ASSUME NEW n
    PROVE  FromNat(n) \in Word /\ 31 \notin FromNat(n) /\ FromInt(n) \in Word
<1>1. \A m : FromNat(m) \in Word /\ 31 \notin FromNat(m)
  BY DEF FromNat, Word, Bits
<1>. QED
  BY <1>1 DEF FromInt, Not, Word

(* The product is a sum of shifted words. *)
LEMMA TimesType ==
    ASSUME NEW v \in Word, NEW w \in Word
    PROVE  Times(v, w) \in Word
<1> DEFINE S == {m \in 0 .. 32 : LowProducts(v, w)[m] \in Word}
<1>1. 0 \in S
  BY ProductStep DEF Word
<1>2. ASSUME NEW m \in 0 .. 31, m \in S
      PROVE  m + 1 \in S
  <2>1. LowProducts(v, w)[m + 1] = Plus(LowProducts(v, w)[m], Shl(v, m))
        \/ LowProducts(v, w)[m + 1] = LowProducts(v, w)[m]
    BY ProductStep
  <2>2. LowProducts(v, w)[m] \in Word /\ m \in Nat /\ m + 1 \in 0 .. 32
    BY <1>2
  <2>3. Plus(LowProducts(v, w)[m], Shl(v, m)) \in Word
    BY <2>2, WordsClosed
  <2>. QED
    BY <2>1, <2>2, <2>3
<1> HIDE DEF S
<1>3. 0 .. 32 \subseteq S
  BY <1>1, <1>2, UpTo
<1>. QED
  BY <1>3 DEF S, Times

(* The number a word stands for. *)
LEMMA ToIntType ==
    ASSUME NEW w \in Word
    PROVE  ToInt(w) \in Int /\ ToInt(w) < Weight(31)
<1>1. 31 \notin w => ToNat(w) \in 0 .. Weight(31) - 1
  <2>1. ASSUME 31 \notin w
        PROVE  \A b \in 31 .. 31 : b \notin w
    BY <2>1
  <2>. QED
    BY <2>1, NatBelow
<1>2. 31 \in w => ToNat(Not(w)) \in 0 .. Weight(31) - 1
  <2>1. ASSUME 31 \in w
        PROVE  \A b \in 31 .. 31 : b \notin Not(w)
    BY <2>1 DEF Not
  <2>. QED
    BY <2>1, NatBelow
<1>3. Weight(31) \in Int /\ Weight(31) > 0
  BY WeightType
<1>. QED
  BY <1>1, <1>2, <1>3 DEF ToInt

(* An int32_t is the value of its word. *)
LEMMA IntOfBits ==
    ASSUME NEW n \in -Weight(31) .. Weight(31) - 1
    PROVE  ToInt(FromInt(n)) = n
<1>1. Weight(31) \in Int /\ Weight(31) > 0
  BY WeightType
<1>2. CASE n >= 0
  <2>1. n \in 0 .. Weight(31) - 1 /\ FromInt(n) = FromNat(n)
    BY <1>1, <1>2 DEF FromInt
  <2>. QED
    BY <2>1, NatOfBits, NumbersAreWords DEF ToInt
<1>3. CASE n < 0
  <2>1. PICK m \in 0 .. Weight(31) - 1 : m = -n - 1
    BY <1>1, <1>3
  <2>2. FromInt(n) = Not(FromNat(m))
    BY <1>3, <2>1 DEF FromInt
  <2>3. Not(Not(FromNat(m))) = FromNat(m) /\ 31 \in Not(FromNat(m))
    BY NumbersAreWords DEF Not, Word, Bits
  <2>4. ToInt(Not(FromNat(m))) = -m - 1
    BY <2>3, NatOfBits DEF ToInt
  <2>. QED
    BY <1>1, <2>1, <2>2, <2>4
<1>. QED
  BY <1>1, <1>2, <1>3

----------------------------------------------------------------------------
\* TypeOK

(* A field of three bits is the code of a register of the CPU. *)
LEMMA FieldType ==
    ASSUME NEW w, NEW from \in Nat
    PROVE  ToNat(Field(w, from, 3)) \in Registers
<1>1. \A b \in 3 .. 31 : b \notin Field(w, from, 3)
  BY DEF Field, Low
<1>2. ToNat(Field(w, from, 3)) \in 0 .. Weight(3) - 1
  BY <1>1, NatBelow
<1>3. Weight(3) = 8
  BY Powers DEF Weight
<1>. QED
  BY <1>2, <1>3 DEF Registers, PC, DS

(* The opcodes, by what they do. *)
LEMMA OpcodeCases ==
    ASSUME NEW op \in Opcodes
    PROVE  \/ op \in ComputeI \cup ComputeM \cup {LOAD, LOADI}
           \/ op \in ComputeR \/ op = LOADIN \/ op = STORE \/ op = STOREIN \/ op = MOVE
           \/ op \in Jumps \cup {INT} \/ op \in {NOP, RTI}
BY DEF Opcodes

(* The operands of a decoded instruction. *)
LEMMA OperandsDecoded ==
    ASSUME NEW w \in Word
    PROVE  /\ OpOf(w) \in ComputeI \cup ComputeM \cup {LOAD, LOADI} =>
                machine_to_assembly(w).opd = <<Field(w, 22, 3), Immediate(w)>>
           /\ OpOf(w) \in ComputeR =>
                machine_to_assembly(w).opd = <<Field(w, 22, 3), Field(w, 19, 3)>>
           /\ OpOf(w) = LOADIN =>
                machine_to_assembly(w).opd = <<Field(w, 25, 3), Field(w, 22, 3), Immediate(w)>>
           /\ OpOf(w) = STORE => machine_to_assembly(w).opd = <<Field(w, 25, 3), Immediate(w)>>
           /\ OpOf(w) = STOREIN =>
                machine_to_assembly(w).opd = <<Field(w, 22, 3), Field(w, 25, 3), Immediate(w)>>
           /\ OpOf(w) = MOVE => machine_to_assembly(w).opd = <<Field(w, 25, 3), Field(w, 22, 3)>>
           /\ OpOf(w) \in Jumps \cup {INT} => machine_to_assembly(w).opd = <<Immediate(w)>>
           /\ OpOf(w) \in {NOP, RTI} => machine_to_assembly(w).opd = <<>>
<1>1. ASSUME OpOf(w) \in ComputeI \cup ComputeM \cup {LOAD, LOADI}
      PROVE  machine_to_assembly(w).opd = <<Field(w, 22, 3), Immediate(w)>>
  <2>1. OpOf(w) \notin ComputeR \cup Jumps \cup {LOADIN, STORE, STOREIN, MOVE, INT, NOP, RTI}
    BY <1>1 DEF ComputeI, ComputeR, ComputeM, Jumps, LOAD, LOADIN, LOADI, STORE, STOREIN,
        MOVE, NOP, INT, RTI, JUMPGT, JUMPEQ, JUMPGE, JUMPLT, JUMPNE, JUMPLE, JUMP
  <2>. QED
    BY <1>1, <2>1 DEF machine_to_assembly
<1>2. ASSUME OpOf(w) \in ComputeR
      PROVE  machine_to_assembly(w).opd = <<Field(w, 22, 3), Field(w, 19, 3)>>
  <2>1. OpOf(w) \notin ComputeI \cup ComputeM \cup Jumps
        /\ OpOf(w) \notin {LOAD, LOADIN, LOADI, STORE, STOREIN, MOVE, INT, NOP, RTI}
    BY <1>2 DEF ComputeI, ComputeR, ComputeM, Jumps, LOAD, LOADIN, LOADI, STORE, STOREIN,
        MOVE, NOP, INT, RTI, JUMPGT, JUMPEQ, JUMPGE, JUMPLT, JUMPNE, JUMPLE, JUMP
  <2>. QED
    BY <1>2, <2>1 DEF machine_to_assembly
<1> USE DEF ComputeI, ComputeR, ComputeM, Jumps, LOAD, LOADIN, LOADI, STORE, STOREIN,
            MOVE, NOP, INT, RTI, JUMPGT, JUMPEQ, JUMPGE, JUMPLT, JUMPNE, JUMPLE, JUMP
<1>3. OpOf(w) = LOADIN => machine_to_assembly(w).opd = <<Field(w, 25, 3), Field(w, 22, 3), Immediate(w)>>
  BY DEF machine_to_assembly
<1>4. OpOf(w) = STORE => machine_to_assembly(w).opd = <<Field(w, 25, 3), Immediate(w)>>
  BY DEF machine_to_assembly
<1>5. OpOf(w) = STOREIN => machine_to_assembly(w).opd = <<Field(w, 22, 3), Field(w, 25, 3), Immediate(w)>>
  BY DEF machine_to_assembly
<1>6. OpOf(w) = MOVE => machine_to_assembly(w).opd = <<Field(w, 25, 3), Field(w, 22, 3)>>
  BY DEF machine_to_assembly
<1>7. OpOf(w) \in Jumps \cup {INT} => machine_to_assembly(w).opd = <<Immediate(w)>>
  BY DEF machine_to_assembly
<1>8. OpOf(w) \in {NOP, RTI} => machine_to_assembly(w).opd = <<>>
  BY DEF machine_to_assembly
<1>. QED
  BY <1>1, <1>2, <1>3, <1>4, <1>5, <1>6, <1>7, <1>8, Zenon

(* A table with one entry, and with one entry more. *)
LEMMA PutType ==
    ASSUME NEW table, NEW key, NEW value
    PROVE  /\ DOMAIN Put(table, key, value) = DOMAIN table \cup {key}
           /\ Put(table, key, value)[key] = value
           /\ \A k \in DOMAIN table : k # key => Put(table, key, value)[k] = table[k]
           /\ DOMAIN Only(key, value) = {key} /\ Only(key, value)[key] = value
BY DEF Put, Only

\* What the CPU relies on, and keeps.
MachineTyped ==
    /\ regs \in [Registers -> Word]
    /\ \A c \in DOMAIN sram : sram[c] \in Word
    /\ \A k \in DOMAIN eprom : eprom[k] \in Word

(* A read gives a word, whatever an unknown cell holds. *)
LEMMA ReadFromType ==
    ASSUME NEW rom, \A k \in DOMAIN rom : rom[k] \in Word,
           NEW ram, \A c \in DOMAIN ram : ram[c] \in Word,
           NEW a, NEW unknown \in Word
    PROVE  ReadFrom(rom, ram, a, unknown) \in Word
<1>1. Low(unknown, 8) \in Word
  BY WordsClosed
<1>2. CASE InEprom(a)
  BY <1>2 DEF ReadFrom
<1>3. CASE ~ InEprom(a)
  BY <1>1, <1>3 DEF ReadFrom
<1>. QED
  BY <1>2, <1>3

(* So does read_storage. *)
LEMMA ReadType ==
    ASSUME MachineTyped, NEW a, NEW unknown \in Word
    PROVE  read_storage(a, unknown) \in Word
BY ReadFromType DEF MachineTyped, read_storage

(* A write leaves words. *)
LEMMA WriteType ==
    ASSUME MachineTyped, NEW a, NEW w \in Word, write_storage(a, w)
    PROVE  (\A c \in DOMAIN sram' : sram'[c] \in Word) /\ (\A k \in DOMAIN eprom' : eprom'[k] \in Word)
<1>1. CASE InEprom(a)
  BY <1>1 DEF MachineTyped, write_storage
<1>2. CASE ~ InEprom(a)
  <2>1. eprom' = eprom /\ (sram' = sram \/ sram' = Put(sram, Cell(a), w))
    BY <1>2 DEF write_storage
  <2>2. CASE sram' = Put(sram, Cell(a), w)
    BY <2>1, <2>2 DEF MachineTyped, Put
  <2>. QED
    BY <2>1, <2>2 DEF MachineTyped
<1>. QED
  BY <1>1, <1>2

(* Registers are set to words, PC always. *)
LEMMA RegistersSet ==
    ASSUME MachineTyped, NEW new, DOMAIN new \subseteq Registers,
           \A r \in DOMAIN new : new[r] \in Word, SetRegs(new)
    PROVE  /\ regs' \in [Registers -> Word]
           /\ phase' \in {phase, "run"}
           /\ UNCHANGED <<options, loader>>
<1>1. PC \in Registers
  BY DEF PC, Registers, DS
<1>2. Plus(regs[PC], {0}) \in Word
  <2>1. regs[PC] \in Word /\ {0} \in Word
    BY <1>1 DEF MachineTyped, Word, Bits
  <2>. QED
    BY <2>1, WordsClosed
<1>3. DOMAIN Advanced(new) \subseteq Registers /\ \A r \in DOMAIN Advanced(new) : Advanced(new)[r] \in Word
  <2>1. CASE PC \in DOMAIN new
    BY <2>1 DEF Advanced
  <2>2. CASE PC \notin DOMAIN new
    BY <1>1, <1>2, <2>2 DEF Advanced, Put
  <2>. QED
    BY <2>1, <2>2
<1>4. regs' \in [Registers -> Word]
  BY <1>3 DEF SetRegs, MachineTyped
<1>. QED
  BY <1>4 DEF SetRegs

(* What is fetched is a word; the operands that name registers name those of *)
(* the CPU, the others are words.                                            *)
LEMMA InstrTyped ==
    ASSUME MachineTyped
    PROVE  /\ Fetched \in Word /\ instr.op = OpOf(Fetched) /\ Immediate(Fetched) \in Word
           /\ instr.op \in ComputeI \cup ComputeM \cup {LOAD, LOADI} =>
                instr.opd = <<Field(Fetched, 22, 3), Immediate(Fetched)>>
           /\ instr.op \in ComputeR => instr.opd = <<Field(Fetched, 22, 3), Field(Fetched, 19, 3)>>
           /\ instr.op = LOADIN =>
                instr.opd = <<Field(Fetched, 25, 3), Field(Fetched, 22, 3), Immediate(Fetched)>>
           /\ instr.op = STORE => instr.opd = <<Field(Fetched, 25, 3), Immediate(Fetched)>>
           /\ instr.op = STOREIN =>
                instr.opd = <<Field(Fetched, 22, 3), Field(Fetched, 25, 3), Immediate(Fetched)>>
           /\ instr.op = MOVE => instr.opd = <<Field(Fetched, 25, 3), Field(Fetched, 22, 3)>>
           /\ instr.op \in Jumps \cup {INT} => instr.opd = <<Immediate(Fetched)>>
<1>1. {} \in Word
  BY DEF Word
<1>2. Fetched \in Word
  BY <1>1, ReadType DEF Fetched
<1>3. instr.op = OpOf(Fetched)
  BY DEF instr, machine_to_assembly
<1>4. Immediate(Fetched) \in Word
  <2>1. Low(Fetched, 22) \in Word /\ SignExtended(Fetched) \in Word
    BY <1>2, WordsClosed
  <2>. QED
    BY <2>1, Zenon DEF Immediate
<1>. QED
  BY <1>2, <1>3, <1>4, OperandsDecoded, Zenon DEF instr

(* A register of the CPU is read and set as one. *)
LEMMA OnlyType ==
    ASSUME NEW r \in Registers, NEW w \in Word
    PROVE  DOMAIN Only(r, w) \subseteq Registers /\ \A k \in DOMAIN Only(r, w) : Only(r, w)[k] \in Word
BY DEF Only

(* The same of two registers. *)
LEMMA TwoType ==
    ASSUME NEW r \in Registers, NEW w \in Word, NEW s \in Registers, NEW v \in Word
    PROVE  /\ DOMAIN Put(Only(r, w), s, v) \subseteq Registers
           /\ \A k \in DOMAIN Put(Only(r, w), s, v) : Put(Only(r, w), s, v)[k] \in Word
BY DEF Only, Put

(* No operation leads out of the words. *)
LEMMA OperationType ==
    ASSUME NEW op \in ComputeI \cup ComputeR \cup ComputeM, NEW v \in Word, NEW w \in Word
    PROVE  Operation(op, v, w) \in Word
<1>1. op % 8 \in 0 .. 7
  BY DEF ComputeI, ComputeR, ComputeM
<1>2. /\ Plus(v, w) \in Word /\ Minus(v, w) \in Word /\ Times(v, w) \in Word
      /\ Xor(v, w) \in Word /\ v \cup w \in Word /\ v \cap w \in Word
  BY WordsClosed, TimesType
<1>3. FromInt(Quotient(ToInt(v), ToInt(w))) \in Word /\ FromInt(Modulo(ToInt(v), ToInt(w))) \in Word
  BY NumbersAreWords
<1>. QED
  BY <1>1, <1>2, <1>3 DEF Operation, ADDI, SUBI, MULTI, DIVI, MODI, OPLUSI, ORI, ANDI

\* A step of the CPU that sets words.
StepTyped ==
    /\ phase \in {"boot", "run"}
    /\ phase' \in {"boot", "run", "stopped"}
    /\ UNCHANGED <<options, loader>>
    /\ regs' \in [Registers -> Word]
    /\ \A c \in DOMAIN sram' : sram'[c] \in Word
    /\ \A k \in DOMAIN eprom' : eprom'[k] \in Word

(* Compute *)
LEMMA ComputeTyped ==
    ASSUME MachineTyped, RetiAssumption, Compute
    PROVE  StepTyped
<1>1. Running /\ instr.op \in ComputeI \cup ComputeR \cup ComputeM /\ UNCHANGED <<sram, eprom>>
  BY DEF Compute, Fetch
<1>2. PICK unknown \in Unknown : SetRegs(Only(R(1), Operation(instr.op, Value(1), SecondOperand(unknown))))
  BY DEF Compute
<1>3. unknown \in Word
  BY DEF RetiAssumption
<1>4. R(1) \in Registers
  <2>1. instr.opd[1] = Field(Fetched, 22, 3)
    BY <1>1, InstrTyped
  <2>. QED
    BY <2>1, FieldType DEF R
<1>5. Value(1) \in Word
  BY <1>4 DEF Value, MachineTyped
<1>6. SecondOperand(unknown) \in Word
  <2>1. CASE instr.op \in ComputeI
    <3>1. instr.opd[2] \in Word
      BY <2>1, InstrTyped
    <3>2. Low(instr.opd[2], 22) \in Word
      BY <3>1 DEF Low, Word
    <3>3. instr.op \notin ComputeR /\ instr.op \notin ComputeM
      BY <2>1 DEF ComputeI, ComputeR, ComputeM
    <3>. QED
      BY <2>1, <3>1, <3>2, <3>3 DEF SecondOperand
  <2>2. CASE instr.op \in ComputeR
    <3>1. instr.opd[2] = Field(Fetched, 19, 3)
      BY <2>2, InstrTyped
    <3>2. Value(2) \in Word
      BY <3>1, FieldType DEF R, Value, MachineTyped
    <3>3. instr.op \notin ComputeI /\ instr.op \notin ComputeM
      BY <2>2 DEF ComputeI, ComputeR, ComputeM
    <3>. QED
      BY <2>2, <3>2, <3>3 DEF SecondOperand
  <2>3. CASE instr.op \in ComputeM
    <3>1. read_storage(LoadAddress(instr.opd[2]), unknown) \in Word
      BY <1>3, ReadType
    <3>2. instr.op \notin ComputeI /\ instr.op \notin ComputeR
      BY <2>3 DEF ComputeI, ComputeR, ComputeM
    <3>. QED
      BY <2>3, <3>1, <3>2 DEF SecondOperand
  <2>. QED
    BY <1>1, <2>1, <2>2, <2>3
<1>7. Operation(instr.op, Value(1), SecondOperand(unknown)) \in Word
  BY <1>1, <1>5, <1>6, OperationType
<1>. QED
  BY <1>1, <1>2, <1>4, <1>7, OnlyType, RegistersSet DEF StepTyped, Running, MachineTyped

(* Transfer *)
LEMMA TransferTyped ==
    ASSUME MachineTyped, RetiAssumption, Transfer
    PROVE  StepTyped
<1>1. Running /\ instr.op \in {LOAD, LOADIN, LOADI, MOVE} /\ UNCHANGED <<sram, eprom>>
  BY DEF Transfer, Fetch
<1>2. PICK unknown \in Unknown :
          SetRegs(CASE instr.op = LOAD -> Only(R(1), read_storage(LoadAddress(instr.opd[2]), unknown))
                    [] instr.op = LOADIN ->
                         Only(R(2), read_storage(Plus(Value(1), instr.opd[3]), unknown))
                    [] instr.op = LOADI -> Only(R(1), instr.opd[2])
                    [] instr.op = MOVE -> Only(R(2), Value(1)))
  BY DEF Transfer
<1>3. unknown \in Word
  BY DEF RetiAssumption
<1>4. \E r \in Registers, w \in Word : SetRegs(Only(r, w))
  <2>1. CASE instr.op = LOAD
    <3>1. SetRegs(Only(R(1), read_storage(LoadAddress(instr.opd[2]), unknown)))
      BY <1>2, <2>1 DEF LOAD, LOADIN, LOADI, MOVE
    <3>2. instr.opd[1] = Field(Fetched, 22, 3)
      BY <2>1, InstrTyped
    <3>3. R(1) \in Registers
      BY <3>2, FieldType DEF R
    <3>4. read_storage(LoadAddress(instr.opd[2]), unknown) \in Word
      BY <1>3, ReadType
    <3>. QED
      BY <3>1, <3>3, <3>4
  <2>2. CASE instr.op = LOADIN
    <3>1. SetRegs(Only(R(2), read_storage(Plus(Value(1), instr.opd[3]), unknown)))
      BY <1>2, <2>2 DEF LOAD, LOADIN, LOADI, MOVE
    <3>2. instr.opd[2] = Field(Fetched, 22, 3)
      BY <2>2, InstrTyped
    <3>3. R(2) \in Registers
      BY <3>2, FieldType DEF R
    <3>4. read_storage(Plus(Value(1), instr.opd[3]), unknown) \in Word
      BY <1>3, ReadType
    <3>. QED
      BY <3>1, <3>3, <3>4
  <2>3. CASE instr.op = LOADI
    <3>1. SetRegs(Only(R(1), instr.opd[2]))
      BY <1>2, <2>3 DEF LOAD, LOADIN, LOADI, MOVE
    <3>2. instr.opd[1] = Field(Fetched, 22, 3) /\ instr.opd[2] \in Word
      BY <2>3, InstrTyped
    <3>3. R(1) \in Registers
      BY <3>2, FieldType DEF R
    <3>. QED
      BY <3>1, <3>2, <3>3
  <2>4. CASE instr.op = MOVE
    <3>1. SetRegs(Only(R(2), Value(1)))
      BY <1>2, <2>4 DEF LOAD, LOADIN, LOADI, MOVE
    <3>2. instr.opd[1] = Field(Fetched, 25, 3) /\ instr.opd[2] = Field(Fetched, 22, 3)
      BY <2>4, InstrTyped
    <3>3. R(1) \in Registers /\ R(2) \in Registers
      BY <3>2, FieldType DEF R
    <3>4. Value(1) \in Word
      BY <3>3 DEF Value, MachineTyped
    <3>. QED
      BY <3>1, <3>3, <3>4
  <2>. QED
    BY <1>1, <2>1, <2>2, <2>3, <2>4
<1>5. PICK r \in Registers, w \in Word : SetRegs(Only(r, w))
  BY <1>4
<1>. QED
  BY <1>1, <1>5, OnlyType, RegistersSet DEF StepTyped, Running, MachineTyped

(* Store *)
LEMMA StoreTyped ==
    ASSUME MachineTyped, Store
    PROVE  StepTyped
<1>1. Running /\ SetRegs(<<>>)
  BY DEF Store, Fetch
<1>2. \E a, w : w \in Word /\ write_storage(a, w)
  <2>1. CASE instr.op = STORE
    <3>1. write_storage(StoreAddress(instr.opd[2]), Value(1))
      BY <2>1 DEF Store
    <3>2. instr.opd[1] = Field(Fetched, 25, 3)
      BY <2>1, InstrTyped
    <3>3. Value(1) \in Word
      BY <3>2, FieldType DEF R, Value, MachineTyped
    <3>. QED
      BY <3>1, <3>3
  <2>2. CASE instr.op = STOREIN
    <3>1. write_storage(Plus(Value(1), instr.opd[3]), Value(2))
      BY <2>2 DEF Store, STORE, STOREIN
    <3>2. instr.opd[2] = Field(Fetched, 25, 3)
      BY <2>2, InstrTyped
    <3>3. Value(2) \in Word
      BY <3>2, FieldType DEF R, Value, MachineTyped
    <3>. QED
      BY <3>1, <3>3
  <2>. QED
    BY <2>1, <2>2 DEF Store, Fetch
<1>3. (\A c \in DOMAIN sram' : sram'[c] \in Word) /\ (\A k \in DOMAIN eprom' : eprom'[k] \in Word)
  BY <1>2, WriteType
<1>4. DOMAIN <<>> = {}
  OBVIOUS
<1>. QED
  BY <1>1, <1>3, <1>4, RegistersSet DEF StepTyped, Running

(* Jump and Breakpoint *)
LEMMA JumpTyped ==
    ASSUME MachineTyped, Jump \/ Breakpoint
    PROVE  StepTyped
<1>1. Running /\ UNCHANGED <<sram, eprom>> /\ PC \in Registers
  BY DEF Jump, Breakpoint, Fetch, PC, Registers, DS
<1>2. SetRegs(<<>>) \/ (\E w \in Word : SetRegs(Only(PC, w)))
  <2>1. CASE Jump
    <3>1. CASE instr.op # NOP
      <4>1. instr.opd[1] = Immediate(Fetched) /\ Immediate(Fetched) \in Word
        BY <2>1, <3>1, InstrTyped DEF Jump, Fetch
      <4>2. Plus(regs[PC], instr.opd[1]) \in Word
        BY <1>1, <4>1, WordsClosed DEF MachineTyped
      <4>3. SetRegs(<<>>) \/ SetRegs(Only(PC, Plus(regs[PC], instr.opd[1])))
        BY <2>1 DEF Jump
      <4>. QED
        BY <4>2, <4>3
    <3>2. CASE instr.op = NOP
      BY <2>1, <3>2 DEF Jump
    <3>. QED
      BY <3>1, <3>2
  <2>2. CASE Breakpoint
    BY <2>2 DEF Breakpoint
  <2>. QED
    BY <2>1, <2>2
<1>3. DOMAIN <<>> = {}
  OBVIOUS
<1>. QED
  BY <1>1, <1>2, <1>3, OnlyType, RegistersSet DEF StepTyped, Running, MachineTyped

(* Call *)
LEMMA CallTyped ==
    ASSUME MachineTyped, RetiAssumption, Call
    PROVE  StepTyped
<1>1. Running /\ PC \in Registers /\ SP \in Registers
  BY DEF Call, Fetch, PC, SP, Registers, DS
<1>2. PICK unknown \in Unknown :
          SetRegs(Put(Only(SP, Minus(regs[SP], {0})), PC,
                      ReadFrom(eprom', sram', VectorAddress(instr.opd[1]), unknown)))
  BY DEF Call
<1>3. unknown \in Word /\ {0} \in Word
  BY DEF RetiAssumption, Word, Bits
<1>4. (\A c \in DOMAIN sram' : sram'[c] \in Word) /\ (\A k \in DOMAIN eprom' : eprom'[k] \in Word)
  <2>1. write_storage(regs[SP], regs[PC]) /\ regs[PC] \in Word
    BY <1>1 DEF Call, MachineTyped
  <2>. QED
    BY <2>1, WriteType
<1>5. ReadFrom(eprom', sram', VectorAddress(instr.opd[1]), unknown) \in Word
  BY <1>3, <1>4, ReadFromType
<1>6. Minus(regs[SP], {0}) \in Word
  BY <1>1, <1>3, WordsClosed DEF MachineTyped
<1>. QED
  BY <1>1, <1>2, <1>4, <1>5, <1>6, TwoType, RegistersSet DEF StepTyped, Running

(* Return *)
LEMMA ReturnTyped ==
    ASSUME MachineTyped, RetiAssumption, Return
    PROVE  StepTyped
<1>1. Running /\ UNCHANGED <<sram, eprom>> /\ PC \in Registers /\ SP \in Registers
  BY DEF Return, Fetch, PC, SP, Registers, DS
<1>2. PICK unknown \in Unknown :
          SetRegs(Put(Only(SP, Plus(regs[SP], {0})), PC,
                      Plus(read_storage(Plus(regs[SP], {0}), unknown), {0})))
  BY DEF Return
<1>3. unknown \in Word /\ {0} \in Word
  BY DEF RetiAssumption, Word, Bits
<1>4. read_storage(Plus(regs[SP], {0}), unknown) \in Word
  BY <1>3, ReadType
<1>5. Plus(regs[SP], {0}) \in Word /\ Plus(read_storage(Plus(regs[SP], {0}), unknown), {0}) \in Word
  BY <1>1, <1>3, <1>4, WordsClosed DEF MachineTyped
<1>. QED
  BY <1>1, <1>2, <1>5, TwoType, RegistersSet DEF StepTyped, Running, MachineTyped

(* Whatever the CPU executes. *)
LEMMA CpuTyped ==
    ASSUME MachineTyped, RetiAssumption, Cpu
    PROVE  StepTyped
<1>1. CASE Stop
  BY <1>1 DEF Stop, StepTyped, Running, MachineTyped
<1>. QED
  BY <1>1, ComputeTyped, TransferTyped, StoreTyped, JumpTyped, CallTyped, ReturnTyped DEF Cpu

----------------------------------------------------------------------------
\* The loader's invariant.

Entries == {a \in DOMAIN source : IsEntry(source[a])}

\* How far the files have been loaded.  The last entry of the service routines
\* lies before their end.
LoadProgress ==
    /\ i <= SramEnd
    /\ phase = "isrs" => num_instrs_isrs = 0
    /\ phase = "prgrm" => num_instrs_isrs <= i
    /\ phase \notin {"isrs", "failed"} => ivt_max_idx <= num_instrs_isrs

EpromSequence == phase \in {"isrs", "prgrm", "eprom", "generate"} => eprom \in Seq(Word)

\* Only accepted lines are loaded, at the addresses passed so far.
SourceAccepted ==
    \A a \in DOMAIN source :
        a \in Nat /\ a < SramEnd /\ IsLine(source[a]) /\ Accepted(source[a])
SourceBelow == phase \in {"isrs", "prgrm"} => \A a \in DOMAIN source : a < i

\* Until the CPU starts, the words of the lines are in their cells.
SourceWritten ==
    phase \notin {"boot", "run", "stopped"} =>
        \A a \in DOMAIN source :
            FromNat(a) \in DOMAIN sram /\ sram[FromNat(a)] = assembly_to_machine(source[a])

LoaderInv == TypeOK /\ LoadProgress /\ EpromSequence /\ SourceAccepted /\ SourceBelow /\ SourceWritten

(* It holds in the beginning. *)
LEMMA LoaderInvInit == RetiAssumption /\ Init => LoaderInv
<1> SUFFICES ASSUME RetiAssumption, Init PROVE LoaderInv
  OBVIOUS
<1>1. {} \in Word /\ <<>> \in Seq(Word) /\ DOMAIN <<>> = {} /\ MAX_VAL_ISR \in Nat /\ MAX_VAL_ISR > 0
  BY DEF Word, RetiAssumption
<1>2. SramEnd \in Nat
  BY Powers DEF SramEnd
<1>3. TypeOK
  BY <1>1 DEF Init, TypeOK
<1>4. LoadProgress /\ EpromSequence
  BY <1>1, <1>2 DEF Init, LoadProgress, EpromSequence
<1>. QED
  BY <1>1, <1>3, <1>4 DEF Init, LoaderInv, SourceAccepted, SourceBelow, SourceWritten

(* The addresses are numbers that words can hold. *)
LEMMA SramEndValue == SramEnd \in Nat /\ SramEnd = Weight(31) - 1
<1>1. 30 \in 0 .. 30 /\ 30 + 1 = 31
  OBVIOUS
<1>2. Weight(31) = 2 * Weight(30) /\ Weight(30) \in Int /\ Weight(30) > 0
  BY <1>1, Weights
<1>3. SramEnd = Weight(30) + (Weight(30) - 1)
  BY Zenon DEF SramEnd, Weight
<1>. QED
  BY <1>2, <1>3

(* A line is assembled to a word. *)
LEMMA AssembledType ==
    ASSUME NEW line
    PROVE  assembly_to_machine(line) \in Word
<1>1. \A w, n : Shl(w, n) \in Word
  BY DEF Shl, Word
<1>2. {31} \in Word
  BY DEF Word, Bits
<1>3. \A v, w \in Word : v \cup w \in Word
  BY DEF Word
<1>. QED
  BY <1>1, <1>2, <1>3, Zenon DEF assembly_to_machine

(* The operands of the entry of a device. *)
LEMMA DeviceEntry ==
    ASSUME NEW line, IsLine(line), Accepted(line), IsDeviceEntry(line)
    PROVE  /\ line.opd[1] = Im(line.opd[1].im) /\ line.opd[1].im \in Int
           /\ ImInRange(FinalOp(line), line.opd[1].im)
           /\ line.opd[2] = Reg(line.opd[2].reg)
           /\ line.opd[3] = Im(line.opd[3].im) /\ line.opd[3].im \in Int
<1>1. Shape(FinalOp(line)) = <<"im", "reg", "im">> /\ FinalOp(line) = 129
  BY DEF IsDeviceEntry, Shape, IVTEDP, ComputeI, ComputeR, ComputeM, LOAD, LOADI, STORE, MOVE, LOADIN, STOREIN,
         Jumps, INT, IVTE, NOP, RTI, JUMPGT, JUMPEQ, JUMPGE, JUMPLT, JUMPNE, JUMPLE, JUMP
<1>2. /\ DOMAIN line.opd[1] = {"im"} /\ DOMAIN line.opd[2] = {"reg"} /\ DOMAIN line.opd[3] = {"im"}
      /\ ImInRange(FinalOp(line), line.opd[1].im)
  BY <1>1 DEF Accepted, IsIm
<1>3. \A k \in 1 .. 3 : IsOperand(line.opd[k])
  BY DEF IsLine
<1>. QED
  BY <1>1, <1>2, <1>3 DEF IsOperand, IsReg, IsIm, Reg, Im, Empty

(* Loading a line. *)
LEMMA LoadLineInv ==
    ASSUME RetiAssumption, LoaderInv, NEW line \in Lines, LoadLine(line)
    PROVE  LoaderInv'
<1> DEFINE word == assembly_to_machine(line)
<1>1. /\ phase \in {"isrs", "prgrm", "eprom"} /\ Loadable(line) /\ Accepted(line)
      /\ i + 1 <= SramEnd /\ i' = i + 1 /\ isr_num' = NumberedEntries(line)
      /\ UNCHANGED <<options, phase, num_instrs_isrs, num_instrs_prgrm, regs>>
  BY DEF LoadLine, Loading, Loadable, sizes
<1>2. IsLine(line)
  BY <1>1 DEF Lines, RetiAssumption
<1>3. word \in Word
  BY AssembledType
<1>4. i \in Nat /\ SramEnd \in Nat
  BY SramEndValue DEF LoaderInv, TypeOK
<1>5. IF phase = "eprom" THEN eprom' = Append(eprom, word) /\ UNCHANGED <<sram, source>>
      ELSE sram' = Put(sram, FromNat(i), word) /\ source' = Put(source, i, line) /\ UNCHANGED eprom
  BY DEF LoadLine, Write
<1> HIDE DEF word
<1>6. TypeOK'
  <2>1. /\ phase' \in {"isrs", "prgrm", "eprom"} /\ i' \in Nat
        /\ num_instrs_isrs' \in Nat /\ num_instrs_prgrm' \in Nat /\ regs' \in [Registers -> Word]
    BY <1>1, <1>4 DEF LoaderInv, TypeOK
  <2>2. ivt_max_idx' \in -1 .. num_instrs_isrs' + i'
    <3>1. ivt_max_idx' \in {i, ivt_max_idx}
      BY DEF LoadLine
    <3>2. ivt_max_idx \in -1 .. num_instrs_isrs + i /\ num_instrs_isrs \in Nat
      BY DEF LoaderInv, TypeOK
    <3>. QED
      BY <1>1, <1>4, <3>1, <3>2
  <2>3. isr_num \in 0 .. MAX_VAL_ISR - 1 /\ MAX_VAL_ISR \in Nat
    BY DEF LoaderInv, TypeOK, RetiAssumption
  <2>4. isr_num' \in 0 .. MAX_VAL_ISR - 1 /\ isr_num' >= isr_num
        /\ (IsEntry(line) => isr_num' = isr_num + 1)
    BY <1>1, <2>3 DEF Loadable, NumberedEntries
  <2>5. \A n \in DOMAIN isr_to_prio' : n \in 0 .. isr_num' - 1 /\ isr_to_prio'[n] \in 0 .. 255
    <3>1. \A n \in DOMAIN isr_to_prio : n \in 0 .. isr_num - 1 /\ isr_to_prio[n] \in 0 .. 255
      BY DEF LoaderInv, TypeOK
    <3>2. CASE IsDeviceEntry(line)
      <4>1. isr_to_prio' = Put(isr_to_prio, isr_num, line.opd[3].im % 256)
        BY <3>2 DEF LoadLine, AssignDevice, NewIsr
      <4>2. line.opd[3].im \in Int
        BY <1>1, <1>2, <3>2, DeviceEntry
      <4>3. line.opd[3].im % 256 \in 0 .. 255
        BY <4>2
      <4>. QED
        <5>1. isr_num' = isr_num + 1
          BY <2>4, <3>2 DEF IsEntry, IsDeviceEntry
        <5>2. \A n \in DOMAIN isr_to_prio' :
                \/ n = isr_num /\ isr_to_prio'[n] = line.opd[3].im % 256
                \/ n \in DOMAIN isr_to_prio /\ isr_to_prio'[n] = isr_to_prio[n]
          <6> DEFINE prio == line.opd[3].im % 256
          <6>1. isr_to_prio' = Put(isr_to_prio, isr_num, prio)
            BY <4>1
          <6> HIDE DEF prio
          <6>2. \A n \in DOMAIN isr_to_prio' :
                  \/ n = isr_num /\ isr_to_prio'[n] = prio
                  \/ n \in DOMAIN isr_to_prio /\ isr_to_prio'[n] = isr_to_prio[n]
            BY <6>1 DEF Put
          <6>. QED
            BY <6>2 DEF prio
        <5>. QED
          BY <2>3, <3>1, <4>3, <5>1, <5>2
    <3>3. CASE ~ IsDeviceEntry(line)
      <4>1. isr_to_prio' = isr_to_prio
        BY <3>3 DEF LoadLine, AssignDevice, ofDevices
      <4>. QED
        BY <2>3, <2>4, <3>1, <4>1
    <3>. QED
      BY <3>2, <3>3
  <2>6. \A c \in DOMAIN sram' : sram'[c] \in Word
    BY <1>3, <1>5 DEF LoaderInv, TypeOK, Put
  <2>7. \A k \in DOMAIN eprom' : eprom'[k] \in Word
    <3>1. CASE phase = "eprom"
      <4>1. eprom \in Seq(Word) /\ eprom' = Append(eprom, word)
        BY <1>5, <3>1 DEF LoaderInv, EpromSequence
      <4>2. eprom' \in Seq(Word)
        BY <1>3, <4>1
      <4>. QED
        BY <4>2
    <3>2. CASE phase # "eprom"
      BY <1>5, <3>2 DEF LoaderInv, TypeOK
    <3>. QED
      BY <3>1, <3>2
  <2>. QED
    BY <2>1, <2>2, <2>4, <2>5, <2>6, <2>7 DEF TypeOK
<1>7. LoadProgress'
  <2>1. phase # "isrs" => ivt_max_idx' = ivt_max_idx
    BY DEF LoadLine
  <2>2. SramEnd' = SramEnd
    BY DEF SramEnd
  <2>3. num_instrs_isrs \in Nat
    BY DEF LoaderInv, TypeOK
  <2>. QED
    BY <1>1, <1>4, <2>1, <2>2, <2>3 DEF LoaderInv, LoadProgress
<1>8. EpromSequence'
  <2>1. eprom \in Seq(Word)
    BY <1>1 DEF LoaderInv, EpromSequence
  <2>2. eprom' = eprom \/ eprom' = Append(eprom, word)
    BY <1>5
  <2>. QED
    BY <1>3, <2>1, <2>2 DEF EpromSequence
<1>9. SourceAccepted' /\ SourceBelow'
  <2>1. i < SramEnd
    BY <1>1, <1>4
  <2>2. CASE phase = "eprom"
    BY <1>1, <1>5, <2>2 DEF LoaderInv, SourceAccepted, SourceBelow
  <2>3. CASE phase # "eprom"
    <3>1. source' = Put(source, i, line) /\ \A a \in DOMAIN source : a \in Nat /\ a < i
      BY <1>1, <1>5, <2>3 DEF LoaderInv, SourceAccepted, SourceBelow
    <3>2. SourceAccepted'
      BY <1>1, <1>2, <1>4, <2>1, <3>1 DEF LoaderInv, SourceAccepted, Put
    <3>3. SourceBelow'
      BY <1>1, <1>4, <3>1 DEF SourceBelow, Put
    <3>. QED
      BY <3>2, <3>3
  <2>. QED
    BY <2>2, <2>3
<1>10. SourceWritten'
  <2>1. CASE phase = "eprom"
    BY <1>1, <1>5, <2>1 DEF LoaderInv, SourceWritten
  <2>2. CASE phase # "eprom"
    <3>1. source' = Put(source, i, line) /\ sram' = Put(sram, FromNat(i), word)
      BY <1>5, <2>2
    <3>2. ASSUME NEW a \in DOMAIN source
          PROVE  /\ a # i /\ FromNat(a) # FromNat(i)
                 /\ FromNat(a) \in DOMAIN sram /\ sram[FromNat(a)] = assembly_to_machine(source[a])
      <4>1. a \in Nat /\ a < i
        BY <1>1, <2>2 DEF LoaderInv, SourceAccepted, SourceBelow
      <4>2. a \in 0 .. Weight(31) - 1 /\ i \in 0 .. Weight(31) - 1
        BY <1>1, <1>4, <4>1, SramEndValue
      <4>3. a # i
        BY <1>4, <4>1
      <4>4. FromNat(a) # FromNat(i)
        BY <4>2, <4>3, BitsDiffer
      <4>. QED
        BY <1>1, <4>3, <4>4 DEF LoaderInv, SourceWritten
    <3>3. ASSUME NEW a \in DOMAIN source'
          PROVE  FromNat(a) \in DOMAIN sram' /\ sram'[FromNat(a)] = assembly_to_machine(source'[a])
      <4>1. CASE a = i
        BY <3>1, <4>1 DEF Put, word
      <4>2. CASE a # i
        <5>1. a \in DOMAIN source /\ source'[a] = source[a]
          BY <3>1, <3>3, <4>2 DEF Put
        <5>2. FromNat(a) \in DOMAIN sram' /\ sram'[FromNat(a)] = sram[FromNat(a)]
          BY <3>1, <3>2, <5>1 DEF Put
        <5>. QED
          BY <3>2, <5>1, <5>2
      <4>. QED
        BY <4>1, <4>2
    <3>. QED
      BY <3>3 DEF SourceWritten
  <2>. QED
    BY <2>1, <2>2
<1>. QED
  BY <1>6, <1>7, <1>8, <1>9, <1>10 DEF LoaderInv

(* The other steps of the loader leave what was loaded. *)
LEMMA EndInv ==
    ASSUME RetiAssumption, LoaderInv,
           \/ \E line \in Lines : RefuseLine(line)
           \/ PassOver \/ EndIsrs \/ EndPrgrm \/ EndEprom \/ GenerateEprom
           \/ \E n \in Gaps : LoadGap(n)
    PROVE  LoaderInv'
<1>1. /\ i \in Nat /\ i <= SramEnd /\ SramEnd \in Nat /\ SramEnd' = SramEnd
      /\ num_instrs_isrs \in Nat /\ ivt_max_idx \in -1 .. num_instrs_isrs + i
  BY SramEndValue DEF LoaderInv, TypeOK, LoadProgress, SramEnd
<1>2. \A line : assembly_to_machine(line) \in Word
  BY AssembledType
<1>3. UNCHANGED <<source, sram, regs, isr_num, isr_to_prio, ivt_max_idx>>
  BY DEF RefuseLine, PassOver, EndIsrs, EndPrgrm, EndEprom, GenerateEprom, LoadGap, loader, ofDevices
<1>4. \/ phase' = phase /\ i' \in Nat /\ i' >= i /\ i' <= SramEnd /\ UNCHANGED <<eprom, sizes>>
      \/ phase = "isrs" /\ phase' = "prgrm" /\ num_instrs_isrs' = i /\ num_instrs_prgrm' = num_instrs_prgrm
         /\ UNCHANGED <<i, eprom>>
      \/ phase = "prgrm" /\ phase' \in {"eprom", "generate"} /\ i' = 0 /\ num_instrs_prgrm' \in Nat
         /\ UNCHANGED <<num_instrs_isrs, eprom>>
      \/ phase = "eprom" /\ phase' = "boot" /\ UNCHANGED <<i, eprom, sizes>>
      \/ phase \in {"isrs", "prgrm", "eprom", "generate"} /\ phase' = "failed" /\ UNCHANGED <<i, eprom, sizes>>
      \/ phase = "generate" /\ phase' = "boot" /\ (\A k \in DOMAIN eprom' : eprom'[k] \in Word)
         /\ UNCHANGED <<i, sizes>>
  <2>1. CASE \E line \in Lines : RefuseLine(line)
    BY <2>1 DEF RefuseLine, Loading, loader
  <2>2. CASE PassOver
    BY <1>1, <2>2 DEF PassOver
  <2>3. CASE EndIsrs
    BY <2>3 DEF EndIsrs
  <2>4. CASE EndPrgrm
    <3>1. num_instrs_isrs <= i
      BY <2>4 DEF EndPrgrm, LoaderInv, LoadProgress
    <3>. QED
      BY <1>1, <2>4, <3>1 DEF EndPrgrm
  <2>5. CASE EndEprom
    BY <2>5 DEF EndEprom, loader
  <2>6. CASE GenerateEprom
    <3>1. CASE \A k \in DOMAIN StartProgram : Accepted(StartProgram[k])
      <4>1. eprom' = [k \in DOMAIN StartProgram |-> assembly_to_machine(StartProgram[k])]
        BY <2>6, <3>1 DEF GenerateEprom
      <4>2. \A k \in DOMAIN eprom' : eprom'[k] \in Word
        BY <1>2, <4>1
      <4>. QED
        BY <2>6, <3>1, <4>2 DEF GenerateEprom, loader
    <3>2. CASE ~ (\A k \in DOMAIN StartProgram : Accepted(StartProgram[k]))
      BY <2>6, <3>2 DEF GenerateEprom, loader
    <3>. QED
      BY <3>1, <3>2
  <2>7. CASE \E n \in Gaps : LoadGap(n)
    <3>1. PICK n \in Nat : LoadGap(n)
      BY <2>7 DEF RetiAssumption
    <3>. QED
      BY <1>1, <3>1 DEF LoadGap
  <2>. QED
    BY <2>1, <2>2, <2>3, <2>4, <2>5, <2>6, <2>7
<1>5. TypeOK'
  <2>1. num_instrs_isrs' \in Nat /\ num_instrs_prgrm' \in Nat /\ i' \in Nat
        /\ phase' \in {"isrs", "prgrm", "eprom", "generate", "boot", "run", "stopped", "failed"}
    BY <1>1, <1>4 DEF LoaderInv, TypeOK, sizes
  <2>2. ivt_max_idx' \in -1 .. num_instrs_isrs' + i'
    BY <1>1, <1>3, <1>4 DEF LoaderInv, LoadProgress, sizes
  <2>3. \A k \in DOMAIN eprom' : eprom'[k] \in Word
    BY <1>4 DEF LoaderInv, TypeOK
  <2>. QED
    BY <1>3, <2>1, <2>2, <2>3 DEF LoaderInv, TypeOK
<1>6. LoadProgress'
  BY <1>1, <1>3, <1>4 DEF LoaderInv, LoadProgress, sizes
<1>7. EpromSequence'
  BY <1>4 DEF LoaderInv, EpromSequence
<1>8. SourceAccepted' /\ SourceWritten'
  BY <1>1, <1>3, <1>4 DEF LoaderInv, SourceAccepted, SourceWritten
<1>9. SourceBelow'
  <2>1. \A a \in DOMAIN source : a \in Nat
    BY DEF LoaderInv, SourceAccepted
  <2>. QED
    BY <1>1, <1>3, <1>4, <2>1 DEF LoaderInv, SourceBelow
<1>. QED
  BY <1>5, <1>6, <1>7, <1>8, <1>9 DEF LoaderInv

(* The CPU leaves the loader's tables. *)
LEMMA CpuInv ==
    ASSUME RetiAssumption, LoaderInv, Cpu
    PROVE  LoaderInv'
<1>1. StepTyped
  BY CpuTyped DEF LoaderInv, TypeOK, MachineTyped
<1>2. SramEnd' = SramEnd
  BY DEF SramEnd
<1>3. UNCHANGED <<i, items, source, num_instrs_isrs, num_instrs_prgrm, ivt_max_idx, isr_num, isr_to_prio>>
  BY <1>1 DEF StepTyped, loader, sizes, ofDevices
<1>4. TypeOK'
  BY <1>1, <1>3 DEF StepTyped, LoaderInv, TypeOK
<1>5. LoadProgress'
  BY <1>1, <1>2, <1>3 DEF StepTyped, LoaderInv, LoadProgress
<1>6. EpromSequence' /\ SourceBelow' /\ SourceWritten'
  BY <1>1 DEF StepTyped, EpromSequence, SourceBelow, SourceWritten
<1>7. SourceAccepted'
  BY <1>2, <1>3 DEF LoaderInv, SourceAccepted
<1>. QED
  BY <1>4, <1>5, <1>6, <1>7 DEF LoaderInv

(* Every step keeps the invariant. *)
LEMMA LoaderInvStep ==
    ASSUME RetiAssumption, LoaderInv, [Next]_vars
    PROVE  LoaderInv'
<1>1. CASE \E line \in Lines : LoadLine(line)
  BY <1>1, LoadLineInv
<1>2. CASE \/ \E line \in Lines : RefuseLine(line)
           \/ PassOver \/ EndIsrs \/ EndPrgrm \/ EndEprom \/ GenerateEprom
           \/ \E n \in Gaps : LoadGap(n)
  BY <1>2, EndInv
<1>3. CASE Cpu
  BY <1>3, CpuInv
<1>4. CASE UNCHANGED vars
  BY <1>4 DEF vars, options, loader, sizes, ofDevices, LoaderInv, TypeOK, LoadProgress, EpromSequence,
              SourceAccepted, SourceBelow, SourceWritten, SramEnd
<1>. QED
  BY <1>1, <1>2, <1>3, <1>4 DEF Next, Load

(* While the files are loaded and the CPU runs whatever program, the state is *)
(* well typed: in particular interrupt numbers stay below the one that stands *)
(* for none, no vector lies behind the service routines, and no field of an   *)
(* instruction names a register that the CPU has not.                         *)
THEOREM RetiTyped == Spec => []TypeOK
<1>1. Spec => []LoaderInv
  <2>1. Init => LoaderInv
    BY LoaderInvInit, RetiAssumption
  <2>2. LoaderInv /\ [Next]_vars => LoaderInv'
    BY LoaderInvStep, RetiAssumption
  <2>. QED
    BY <2>1, <2>2, PTL DEF Spec
<1>2. LoaderInv => TypeOK
  BY DEF LoaderInv
<1>. QED
  BY <1>1, <1>2, PTL

----------------------------------------------------------------------------
\* DevicesHaveEntries

(* A number that is not negative, cut to the bits of an immediate, is whole. *)
LEMMA ImmediateBits ==
    ASSUME NEW k \in 0 .. 22, NEW n \in 0 .. Weight(k) - 1
    PROVE  FromInt(n) = FromNat(n) /\ Low(FromNat(n), 22) = FromNat(n)
<1>1. k \in 0 .. 31
  OBVIOUS
<1>2. Weight(k) \in Int
  BY <1>1, WeightType
<1>3. \A b \in FromNat(n) : b \in 0 .. 30 /\ b < k
  BY <1>1, BitsBelow
<1>4. FromInt(n) = FromNat(n)
  BY <1>2 DEF FromInt
<1>. QED
  BY <1>3, <1>4 DEF Low

(* Nothing is moved by zero positions. *)
LEMMA ShiftByZero ==
    ASSUME NEW w \in Word
    PROVE  Shl(w, 0) = w
<1>1. \A b \in w : b \in Bits /\ b + 0 = b
  BY DEF Word, Bits
<1>. QED
  BY <1>1 DEF Shl

(* The word of the entry of a device is its vector, as an address in SRAM. *)
LEMMA VectorWord ==
    ASSUME NEW line, IsLine(line), Accepted(line), IsDeviceEntry(line), line.opd[1].im >= 0
    PROVE  assembly_to_machine(line) = {31} \cup FromNat(line.opd[1].im)
<1>1. line.opd[1] = Im(line.opd[1].im) /\ line.opd[1].im \in Int /\ ImInRange(FinalOp(line), line.opd[1].im)
  BY DeviceEntry
<1>2. FinalOp(line) = IVTEDP
  BY DEF IsDeviceEntry
<1>3. PICK n \in Int : n = line.opd[1].im /\ n >= 0
  BY <1>1
<1>4. n \in 0 .. Weight(21) - 1
  <2>1. FinalOp(line) \notin ComputeM \cup {LOAD, STORE}
    BY <1>2 DEF IVTEDP, ComputeM, LOAD, STORE
  <2>2. n \in -Weight(21) .. Weight(21) - 1
    BY <1>1, <1>3, <2>1, Zenon DEF ImInRange, Weight
  <2>3. Weight(21) \in Int
    BY WeightType
  <2>. QED
    BY <1>3, <2>2, <2>3
<1>5. Low(FromInt(n), 22) = FromNat(n)
  BY <1>4, ImmediateBits
<1>6. OperandWord(line.opd[1]) = FromNat(n)
  <2>1. ~ IsReg(line.opd[1]) /\ IsIm(line.opd[1])
    BY <1>1 DEF Im, IsReg, IsIm
  <2>. QED
    BY <1>3, <1>5, <2>1, Zenon DEF OperandWord
<1>7. Positions(IVTEDP)[1] = 0
  BY DEF Positions, IVTEDP, ComputeI, ComputeR, ComputeM, LOAD, LOADI, LOADIN, MOVE, STORE, STOREIN
<1>8. Shl(FromNat(n), 0) = FromNat(n)
  BY NumbersAreWords, ShiftByZero
<1>9. assembly_to_machine(line) = {31} \cup Shl(OperandWord(line.opd[1]), Positions(IVTEDP)[1])
  BY <1>2, Zenon DEF assembly_to_machine
<1>. QED
  BY <1>3, <1>6, <1>7, <1>8, <1>9, Zenon

(* A vector is read from its cell at the start of SRAM. *)
LEMMA VectorRead ==
    ASSUME NEW n, FromNat(n) \in DOMAIN sram
    PROVE  read_storage(VectorAddress(FromNat(n)), {}) = sram[FromNat(n)]
<1> DEFINE a == VectorAddress(FromNat(n))
<1>1. 31 \in a /\ 31 \in {30, 31} \cap a /\ 31 \notin {30}
  BY DEF VectorAddress
<1>2. ~ InEprom(a) /\ ~ InUart(a)
  BY <1>1, Zenon DEF InEprom, InUart
<1>3. Cell(a) = FromNat(n)
  BY DEF Cell, Low, VectorAddress, FromNat
<1>. QED
  BY <1>2, <1>3 DEF read_storage, ReadFrom

\* There are at least as many numbers as entries without a gap.
EntriesCounted == \A m \in Nat : 0 .. m - 1 \subseteq Entries => m <= isr_num

\* The tables of a device's interrupt, without the vector.
DeviceKnown(device, isr) ==
    isr # MAX_VAL_ISR =>
        /\ device_to_isr[device] = isr
        /\ isr \in DOMAIN source /\ isr \in DOMAIN isr_to_prio
        /\ IsDeviceEntry(source[isr])
        /\ source[isr].opd[2] = Reg(device)
        /\ isr_to_prio[isr] = source[isr].opd[3].im % 256

DevicesKnown ==
    TableFirst => /\ DeviceKnown(INTTIMER, isr_of_timer_interrupt)
                  /\ DeviceKnown(KEYPRESS, isr_of_keypress_interrupt)

DeviceInv == DOMAIN device_to_isr = INTTIMER .. KEYPRESS /\ EntriesCounted /\ DevicesKnown

(* With the words in their cells the tables give the property. *)
LEMMA KnownHasEntry ==
    ASSUME LoaderInv, NEW device, NEW isr, DeviceKnown(device, isr)
    PROVE  DeviceHasEntry(device, isr)
<1> SUFFICES ASSUME isr # MAX_VAL_ISR, phase \notin {"boot", "run", "stopped"}, source[isr].opd[1].im >= 0
             PROVE  read_storage(VectorAddress(FromNat(isr)), {}) = {31} \cup FromNat(source[isr].opd[1].im)
  BY Zenon DEF DeviceKnown, DeviceHasEntry
<1>1. isr \in DOMAIN source /\ IsDeviceEntry(source[isr])
  BY DEF DeviceKnown
<1>2. IsLine(source[isr]) /\ Accepted(source[isr])
      /\ FromNat(isr) \in DOMAIN sram /\ sram[FromNat(isr)] = assembly_to_machine(source[isr])
  BY <1>1 DEF LoaderInv, SourceAccepted, SourceWritten
<1>. QED
  BY <1>1, <1>2, VectorWord, VectorRead, Zenon

(* It holds in the beginning. *)
LEMMA DeviceInvInit == RetiAssumption /\ Init => DeviceInv
<1> SUFFICES ASSUME RetiAssumption, Init PROVE DeviceInv
  OBVIOUS
<1>1. DOMAIN <<>> = {}
  OBVIOUS
<1>2. Entries = {} /\ isr_num = 0
  BY <1>1 DEF Init, Entries
<1>3. EntriesCounted
  <2>1. ASSUME NEW m \in Nat, 0 .. m - 1 \subseteq Entries
        PROVE  m <= isr_num
    BY <1>2, <2>1
  <2>. QED
    BY <2>1 DEF EntriesCounted
<1>. QED
  BY <1>3 DEF Init, DeviceInv, DevicesKnown, DeviceKnown

(* A line behind those loaded so far adds at most one entry. *)
LEMMA EntriesGrow ==
    ASSUME LoaderInv, EntriesCounted, NEW line, phase \in {"isrs", "prgrm"},
           source' = Put(source, i, line), isr_num' = NumberedEntries(line)
    PROVE  /\ Entries' = IF IsEntry(line) THEN Entries \cup {i} ELSE Entries
           /\ EntriesCounted'
           /\ \A a \in DOMAIN source : a \in Nat /\ a < i
<1>1. \A a \in DOMAIN source : a \in Nat /\ a < i
  BY DEF LoaderInv, SourceAccepted, SourceBelow
<1>2. i \in Nat /\ isr_num \in Nat
  BY DEF LoaderInv, TypeOK
<1>3. i \notin DOMAIN source /\ DOMAIN source' = DOMAIN source \cup {i} /\ source'[i] = line
      /\ \A a \in DOMAIN source : source'[a] = source[a]
  BY <1>1, <1>2 DEF Put
<1>4. Entries' = IF IsEntry(line) THEN Entries \cup {i} ELSE Entries
  BY <1>3 DEF Entries
<1>5. ASSUME NEW m \in Nat, 0 .. m - 1 \subseteq Entries'
      PROVE  m <= isr_num'
  <2>1. CASE IsEntry(line)
    <3>1. isr_num' = isr_num + 1 /\ Entries' = Entries \cup {i}
      BY <1>4, <2>1 DEF NumberedEntries
    <3>2. CASE m = 0
      BY <1>2, <3>1, <3>2
    <3>3. CASE m > 0
      <4>1. 0 .. (m - 1) - 1 \subseteq Entries
        <5>1. m - 1 \in Nat /\ m - 1 \in 0 .. m - 1 /\ m - 1 \in Entries'
          BY <1>5, <3>3
        <5>2. m - 1 <= i
          BY <1>1, <1>2, <3>1, <5>1 DEF Entries
        <5>3. ASSUME NEW a \in 0 .. (m - 1) - 1
              PROVE  a \in Entries
          <6>1. a \in 0 .. m - 1 /\ a # i
            BY <1>2, <5>1, <5>2
          <6>. QED
            BY <1>5, <3>1, <6>1
        <5>. QED
          BY <5>3
      <4>2. m - 1 \in Nat
        BY <3>3
      <4>3. m - 1 <= isr_num
        BY <4>1, <4>2 DEF EntriesCounted
      <4>. QED
        BY <1>2, <3>1, <4>3
    <3>. QED
      BY <3>2, <3>3
  <2>2. CASE ~ IsEntry(line)
    <3>1. isr_num' = isr_num + 0 /\ Entries' = Entries
      BY <1>4, <2>2 DEF NumberedEntries
    <3>2. m <= isr_num
      BY <1>5, <3>1 DEF EntriesCounted
    <3>. QED
      BY <1>2, <3>1, <3>2
  <2>. QED
    BY <2>1, <2>2
<1>. QED
  BY <1>1, <1>4, <1>5 DEF EntriesCounted

(* If the table still comes first, the number of a new entry is its address. *)
LEMMA NextEntry ==
    ASSUME LoaderInv, EntriesCounted, NEW line, IsEntry(line), phase \in {"isrs", "prgrm"},
           source' = Put(source, i, line), isr_num' = NumberedEntries(line), TableFirst'
    PROVE  i = isr_num /\ TableFirst
<1>1. Entries' = Entries \cup {i} /\ \A a \in Entries : a \in Nat /\ a < i
  BY EntriesGrow DEF Entries
<1>2. i \in Nat /\ isr_num \in Nat /\ isr_num' = isr_num + 1
  BY DEF LoaderInv, TypeOK, NumberedEntries
<1>3. Entries' = 0 .. isr_num
  BY <1>2 DEF TableFirst, Entries
<1>4. i \in 0 .. isr_num /\ isr_num \in Entries \cup {i}
  BY <1>1, <1>2, <1>3
<1>5. i = isr_num
  BY <1>1, <1>2, <1>4
<1>6. Entries = 0 .. isr_num - 1
  <2>1. \A a \in Entries : a \in 0 .. isr_num - 1
    BY <1>1, <1>2, <1>5
  <2>2. ASSUME NEW a \in 0 .. isr_num - 1
        PROVE  a \in Entries
    <3>1. a \in 0 .. isr_num /\ a # i
      BY <1>2, <1>5
    <3>. QED
      BY <1>1, <1>3, <3>1
  <2>. QED
    BY <2>1, <2>2
<1>. QED
  BY <1>5, <1>6 DEF TableFirst, Entries

(* The entry of a device assigns its number to it; the other device keeps its *)
(* own.                                                                       *)
LEMMA DeviceAssigned ==
    ASSUME RetiAssumption, LoaderInv, DeviceInv, NEW line \in Lines, LoadLine(line), TableFirst'
    PROVE  DeviceKnown(INTTIMER, isr_of_timer_interrupt)' /\ DeviceKnown(KEYPRESS, isr_of_keypress_interrupt)'
<1>1. /\ phase \in {"isrs", "prgrm", "eprom"} /\ Loadable(line) /\ Accepted(line)
      /\ isr_num' = NumberedEntries(line) /\ AssignDevice(line)
  BY DEF LoadLine, Loading, Loadable
<1>2. IsLine(line)
  BY <1>1 DEF Lines, RetiAssumption
<1>3. IF phase = "eprom" THEN UNCHANGED source ELSE source' = Put(source, i, line)
  BY DEF LoadLine
<1>4. isr_num \in Nat /\ i \in Nat /\ MAX_VAL_ISR' = MAX_VAL_ISR
  BY DEF LoaderInv, TypeOK
<1>5. EntriesCounted /\ DevicesKnown /\ DOMAIN device_to_isr = INTTIMER .. KEYPRESS
  BY DEF DeviceInv
<1>6. CASE phase = "eprom"
  <2>1. Entries' = Entries
    BY <1>3, <1>6 DEF Entries
  <2>2. ~ IsEntry(line)
    <3>1. SUFFICES ASSUME IsEntry(line) PROVE FALSE
      OBVIOUS
    <3>2. isr_num' = isr_num + 1
      BY <1>1, <3>1 DEF NumberedEntries
    <3>3. 0 .. (isr_num + 1) - 1 \subseteq Entries /\ isr_num + 1 \in Nat
      BY <1>4, <2>1, <3>2 DEF TableFirst, Entries
    <3>4. isr_num + 1 <= isr_num
      BY <1>5, <3>3 DEF EntriesCounted
    <3>. QED
      BY <1>4, <3>4
  <2>3. isr_num' = isr_num /\ UNCHANGED ofDevices
    BY <1>1, <1>4, <2>2 DEF NumberedEntries, AssignDevice, IsEntry, IsDeviceEntry
  <2>4. TableFirst
    BY <1>3, <1>6, <2>3 DEF TableFirst
  <2>. QED
    BY <1>3, <1>5, <1>6, <2>3, <2>4 DEF DevicesKnown, DeviceKnown, ofDevices
<1>7. CASE phase # "eprom"
  <2>1. source' = Put(source, i, line) /\ phase \in {"isrs", "prgrm"}
    BY <1>1, <1>3, <1>7
  <2>2. \A a \in DOMAIN source : a \in Nat /\ a < i
    BY <1>1, <1>5, <2>1, EntriesGrow
  <2>3. \A a \in DOMAIN source : a # i /\ a \in DOMAIN source' /\ source'[a] = source[a]
    BY <1>4, <2>1, <2>2 DEF Put
  <2>4. CASE ~ IsEntry(line)
    <3>1. isr_num' = isr_num /\ UNCHANGED ofDevices
      BY <1>1, <1>4, <2>4 DEF NumberedEntries, AssignDevice, IsEntry, IsDeviceEntry
    <3>2. Entries' = Entries
      BY <1>1, <1>5, <2>1, <2>4, EntriesGrow
    <3>3. TableFirst
      BY <3>1, <3>2 DEF TableFirst, Entries
    <3>. QED
      BY <1>5, <2>3, <3>1, <3>3 DEF DevicesKnown, DeviceKnown, ofDevices
  <2>5. CASE IsEntry(line)
    <3>1. i = isr_num /\ TableFirst
      BY <1>1, <1>5, <2>1, <2>5, NextEntry
    <3>2. DeviceKnown(INTTIMER, isr_of_timer_interrupt) /\ DeviceKnown(KEYPRESS, isr_of_keypress_interrupt)
      BY <1>5, <3>1 DEF DevicesKnown
    <3>3. CASE ~ IsDeviceEntry(line)
      <4>1. UNCHANGED ofDevices
        BY <1>1, <3>3 DEF AssignDevice
      <4>. QED
        BY <2>3, <3>2, <4>1 DEF DeviceKnown, ofDevices
    <3>4. CASE IsDeviceEntry(line)
      <4> DEFINE prio == line.opd[3].im % 256
      <4>1. PICK device \in {INTTIMER, KEYPRESS} : device = line.opd[2].reg
        BY <1>1, <3>4 DEF Loadable
      <4>2. /\ device_to_isr' = [device_to_isr EXCEPT ![device] = isr_num]
            /\ isr_to_prio' = Put(isr_to_prio, isr_num, prio)
        BY <1>1, <3>4, <4>1 DEF AssignDevice, NewIsr
      <4>3. source'[i] = line /\ i \in DOMAIN source' /\ line.opd[2] = Reg(device)
        BY <1>1, <1>2, <2>1, <3>4, <4>1, DeviceEntry DEF Put
      <4> HIDE DEF prio
      <4>4. /\ device_to_isr'[device] = isr_num
            /\ \A d \in {INTTIMER, KEYPRESS} : d # device => device_to_isr'[d] = device_to_isr[d]
        BY <1>5, <4>2 DEF INTTIMER, KEYPRESS
      <4>5. /\ isr_num \in DOMAIN isr_to_prio' /\ isr_to_prio'[isr_num] = prio
            /\ \A n \in DOMAIN isr_to_prio : n # isr_num => n \in DOMAIN isr_to_prio' /\ isr_to_prio'[n] = isr_to_prio[n]
        BY <4>2 DEF Put
      <4>6. prio = source'[isr_num].opd[3].im % 256
        BY <3>1, <4>3 DEF prio
      <4>7. CASE device = INTTIMER
        <5>1. isr_of_timer_interrupt' = isr_num /\ isr_of_keypress_interrupt' = isr_of_keypress_interrupt
          BY <1>1, <3>4, <4>1, <4>7 DEF AssignDevice, NewIsr
        <5>2. DeviceKnown(INTTIMER, isr_of_timer_interrupt)'
          BY <3>1, <3>4, <4>3, <4>4, <4>5, <4>6, <4>7, <5>1 DEF DeviceKnown
        <5>3. KEYPRESS # device
          BY <4>7 DEF INTTIMER, KEYPRESS
        <5>4. DeviceKnown(KEYPRESS, isr_of_keypress_interrupt)'
          BY <2>3, <3>1, <3>2, <4>4, <4>5, <5>1, <5>3 DEF DeviceKnown
        <5>. QED
          BY <5>2, <5>4
      <4>8. CASE device = KEYPRESS
        <5>1. isr_of_keypress_interrupt' = isr_num /\ isr_of_timer_interrupt' = isr_of_timer_interrupt
          BY <1>1, <3>4, <4>1, <4>8 DEF AssignDevice, NewIsr, INTTIMER, KEYPRESS
        <5>2. DeviceKnown(KEYPRESS, isr_of_keypress_interrupt)'
          BY <3>1, <3>4, <4>3, <4>4, <4>5, <4>6, <4>8, <5>1 DEF DeviceKnown
        <5>3. INTTIMER # device
          BY <4>8 DEF INTTIMER, KEYPRESS
        <5>4. DeviceKnown(INTTIMER, isr_of_timer_interrupt)'
          BY <2>3, <3>1, <3>2, <4>4, <4>5, <5>1, <5>3 DEF DeviceKnown
        <5>. QED
          BY <5>2, <5>4
      <4>. QED
        BY <4>1, <4>7, <4>8
    <3>. QED
      BY <3>3, <3>4
  <2>. QED
    BY <2>4, <2>5
<1>. QED
  BY <1>6, <1>7

(* Every step keeps it. *)
LEMMA DeviceInvStep ==
    ASSUME RetiAssumption, LoaderInv, DeviceInv, [Next]_vars
    PROVE  DeviceInv'
<1>1. CASE \E line \in Lines : LoadLine(line)
  <2>1. PICK line \in Lines : LoadLine(line)
    BY <1>1
  <2>2. DOMAIN device_to_isr' = DOMAIN device_to_isr
    BY <2>1 DEF LoadLine, AssignDevice, ofDevices
  <2>3. EntriesCounted'
    <3>1. CASE phase # "eprom"
      <4>1. /\ phase \in {"isrs", "prgrm"} /\ source' = Put(source, i, line)
            /\ isr_num' = NumberedEntries(line)
        BY <2>1, <3>1 DEF LoadLine, Loading
      <4>. QED
        BY <4>1, EntriesGrow DEF DeviceInv
    <3>2. CASE phase = "eprom"
      <4>1. source' = source /\ isr_num' \in {isr_num + 1, isr_num + 0}
        BY <2>1, <3>2 DEF LoadLine, NumberedEntries
      <4>2. isr_num \in Nat /\ Entries' = Entries
        BY <4>1 DEF LoaderInv, TypeOK, Entries
      <4>3. \A m \in Nat : m <= isr_num => m <= isr_num'
        BY <4>1, <4>2
      <4>. QED
        BY <4>2, <4>3 DEF DeviceInv, EntriesCounted
    <3>. QED
      BY <3>1, <3>2
  <2>4. DevicesKnown'
    BY <2>1, DeviceAssigned DEF DevicesKnown
  <2>. QED
    BY <2>2, <2>3, <2>4 DEF DeviceInv
<1>2. CASE UNCHANGED <<source, isr_num, ofDevices>>
  BY <1>2 DEF ofDevices, DeviceInv, EntriesCounted, Entries, DevicesKnown, DeviceKnown, TableFirst
<1>3. CASE \/ \E line \in Lines : RefuseLine(line)
           \/ PassOver \/ EndIsrs \/ EndPrgrm \/ EndEprom \/ GenerateEprom
           \/ \E n \in Gaps : LoadGap(n)
  <2>1. UNCHANGED <<source, isr_num, ofDevices>>
    BY <1>3 DEF RefuseLine, PassOver, EndIsrs, EndPrgrm, EndEprom, GenerateEprom, LoadGap, loader
  <2>. QED
    BY <1>2, <2>1
<1>4. CASE Cpu
  <2>1. StepTyped
    BY <1>4, CpuTyped DEF LoaderInv, TypeOK, MachineTyped
  <2>. QED
    BY <1>2, <2>1 DEF StepTyped, loader
<1>5. CASE UNCHANGED vars
  BY <1>2, <1>5 DEF vars, loader
<1>. QED
  BY <1>1, <1>3, <1>4, <1>5 DEF Next, Load

(* Interrupt numbers are handed out in one place, vectors found by address in *)
(* another and priorities kept in a third: while the table of entries comes   *)
(* first they agree, for service routines and programs of any lines, with     *)
(* entries in any order and number.                                           *)
THEOREM RetiEntries == Spec => []DevicesHaveEntries
<1>1. Spec => [](LoaderInv /\ DeviceInv)
  <2>1. Init => LoaderInv /\ DeviceInv
    BY LoaderInvInit, DeviceInvInit, RetiAssumption
  <2>2. LoaderInv /\ DeviceInv /\ [Next]_vars => (LoaderInv /\ DeviceInv)'
    BY LoaderInvStep, DeviceInvStep, RetiAssumption
  <2>. QED
    BY <2>1, <2>2, PTL DEF Spec
<1>2. LoaderInv /\ DeviceInv => DevicesHaveEntries
  BY KnownHasEntry DEF DeviceInv, DevicesKnown, DevicesHaveEntries
<1>. QED
  BY <1>1, <1>2, PTL

----------------------------------------------------------------------------
\* Steps of the CPU.

(* With the option, LOAD and STORE form the same address from the same        *)
(* parameter, so that a LOAD finds what a STORE with its parameter has put    *)
(* into SRAM.  (Without it they differ: see LoadReadsStored in the run        *)
(* ds_addressing.)                                                            *)
THEOREM RetiStored ==
    ASSUME ds_address_extension
    PROVE  Spec => LoadReadsStored
<1> DEFINE Found == ReadFrom(eprom', sram', LoadAddress(instr.opd[2]), {}) = Value(1)
           Claim == Store /\ instr.op = STORE /\ InSram(StoreAddress(instr.opd[2])) => Found
<1>1. Claim
  <2> DEFINE a == StoreAddress(instr.opd[2])
  <2>1. SUFFICES ASSUME Store, instr.op = STORE, InSram(a)
                 PROVE  Found
    OBVIOUS
  <2>2. LoadAddress(instr.opd[2]) = a
    BY DEF LoadAddress, StoreAddress
  <2>3. ~ InEprom(a) /\ ~ InUart(a)
    BY <2>1 DEF InSram
  <2>4. write_storage(a, Value(1))
    BY <2>1 DEF Store
  <2>5. sram' = Put(sram, Cell(a), Value(1))
    BY <2>3, <2>4 DEF write_storage
  <2>6. Cell(a) \in DOMAIN sram' /\ sram'[Cell(a)] = Value(1)
    <3>1. PICK c, w : c = Cell(a) /\ w = Value(1)
      OBVIOUS
    <3>2. sram' = Put(sram, c, w)
      BY <2>5, <3>1, Zenon
    <3>3. c \in DOMAIN sram' /\ sram'[c] = w
      BY <3>2 DEF Put
    <3>. QED
      BY <3>1, <3>3, Zenon
  <2>. QED
    BY <2>2, <2>3, <2>6, Zenon DEF ReadFrom
<1> HIDE DEF Claim
<1>2. Spec => [][Claim]_vars
  BY <1>1, PTL DEF Spec
<1>. QED
  BY <1>2 DEF Claim, LoadReadsStored

(* For a positive divisor mod() leaves the remainder that is not negative. *)
LEMMA ModuloIs ==
    ASSUME NEW m \in Int, NEW n \in Int, n > 0
    PROVE  Modulo(m, n) = m % n
<1>1. PICK q \in Int : q = m \div n
  OBVIOUS
<1>2. PICK r \in Int : r = m % n
  OBVIOUS
<1>3. m = n * q + r /\ r \in 0 .. n - 1
  BY <1>1, <1>2, Divided
<1>4. Quotient(m, n) = q + IF m < 0 /\ r # 0 THEN 1 ELSE 0
  BY <1>1, <1>2 DEF Quotient, Truncated
<1>5. CASE m < 0 /\ r # 0
  <2>1. Quotient(m, n) = q + 1
    BY <1>4, <1>5
  <2>2. n * (q + 1) = n * q + n
    OBVIOUS
  <2>3. m - n * Quotient(m, n) = r - n
    BY <1>3, <2>1, <2>2
  <2>4. r - n < 0 /\ (r - n) + n = r
    BY <1>3
  <2>. QED
    BY <1>2, <2>3, <2>4 DEF Modulo
<1>6. CASE ~ (m < 0 /\ r # 0)
  <2>1. Quotient(m, n) = q
    BY <1>4, <1>6
  <2>2. m - n * Quotient(m, n) = r
    BY <1>3, <2>1
  <2>. QED
    BY <1>2, <1>3, <2>2 DEF Modulo
<1>. QED
  BY <1>5, <1>6

(* The comment at mod() holds for every dividend and every positive divisor,  *)
(* also where the quotient is rounded towards zero and C's own remainder is   *)
(* negative.                                                                  *)
THEOREM RetiRemainder == Spec => RemainderInRange
<1> DEFINE InRange == ToInt(regs'[R(1)]) = ToInt(Value(1)) % ToInt(SecondOperand({}))
           Claim == Compute /\ instr.op \in {MODI, ADD + MODI} /\ ToInt(SecondOperand({})) > 0 => InRange
<1>1. LoaderInv => Claim
  <2>1. SUFFICES ASSUME LoaderInv, Compute, instr.op \in {MODI, ADD + MODI}, ToInt(SecondOperand({})) > 0
                 PROVE  InRange
    OBVIOUS
  <2>2. MachineTyped /\ {} \in Word
    BY <2>1 DEF LoaderInv, TypeOK, MachineTyped, Word
  <2>3. /\ instr.op \in ComputeI \cup ComputeR /\ instr.op \notin ComputeM /\ instr.op % 8 = 4
        /\ (instr.op \in ComputeI => instr.op \notin ComputeR)
    BY <2>1 DEF ComputeI, ComputeR, ComputeM, MODI, ADD
  <2>4. R(1) \in Registers
    <3>1. instr.opd[1] = Field(Fetched, 22, 3)
      BY <2>2, <2>3, InstrTyped
    <3>. QED
      BY <3>1, FieldType DEF R
  <2>5. PICK v \in Word : v = Value(1)
    BY <2>2, <2>4 DEF Value, MachineTyped
  <2>6. PICK unknown \in Unknown : SetRegs(Only(R(1), Operation(instr.op, Value(1), SecondOperand(unknown))))
    BY <2>1 DEF Compute
  <2>7. SecondOperand(unknown) = SecondOperand({})
    BY <2>3 DEF SecondOperand
  <2>8. PICK w \in Word : w = SecondOperand({})
    <3>1. CASE instr.op \in ComputeI
      <4>1. instr.opd[2] \in Word
        BY <2>2, <3>1, InstrTyped
      <4>2. SecondOperand({}) = instr.opd[2]
        BY <2>1, <2>3, <3>1 DEF SecondOperand, OPLUSI, MODI, ADD, ComputeI
      <4>. QED
        BY <4>1, <4>2
    <3>2. CASE instr.op \in ComputeR
      <4>1. instr.opd[2] = Field(Fetched, 19, 3)
        BY <2>2, <3>2, InstrTyped
      <4>2. Value(2) \in Word
        BY <2>2, <4>1, FieldType DEF R, Value, MachineTyped
      <4>3. SecondOperand({}) = Value(2)
        BY <2>3, <3>2 DEF SecondOperand
      <4>. QED
        BY <4>2, <4>3
    <3>. QED
      BY <2>3, <3>1, <3>2
  <2>9. PICK r, x : r \in Registers /\ r = R(1) /\ x = Operation(instr.op, v, w) /\ SetRegs(Only(r, x))
    BY <2>4, <2>5, <2>6, <2>7, <2>8, Zenon
  <2>10. regs'[r] = x
    BY <2>9 DEF SetRegs, Advanced, Only, Put
  <2>11. x = FromInt(Modulo(ToInt(v), ToInt(w)))
    BY <2>3, <2>9 DEF Operation, ADDI, SUBI, MULTI, DIVI, MODI, OPLUSI, ORI, ANDI
  <2>12. PICK m \in Int, n \in Int : m = ToInt(v) /\ n = ToInt(w) /\ n > 0 /\ n < Weight(31)
    <3>1. ToInt(v) \in Int /\ ToInt(w) \in Int /\ ToInt(w) < Weight(31)
      BY ToIntType
    <3>2. ToInt(w) > 0
      BY <2>1, <2>8, Zenon
    <3>. QED
      BY <3>1, <3>2
  <2>13. m % n \in -Weight(31) .. Weight(31) - 1
    <3>1. PICK q \in Int : q = m \div n
      BY <2>12
    <3>2. PICK s \in Int : s = m % n
      BY <2>12
    <3>3. s \in 0 .. n - 1
      BY <2>12, <3>1, <3>2, Divided
    <3>4. Weight(31) \in Int /\ Weight(31) > 0
      BY WeightType
    <3>5. s \in -Weight(31) .. Weight(31) - 1
      BY <2>12, <3>3, <3>4
    <3>. QED
      BY <3>2, <3>5
  <2>14. Modulo(m, n) = m % n
    BY <2>12, ModuloIs
  <2>15. ToInt(FromInt(m % n)) = m % n
    BY <2>13, IntOfBits
  <2>. QED
    BY <2>5, <2>8, <2>9, <2>10, <2>11, <2>12, <2>14, <2>15, Zenon
<1>2. Spec => []LoaderInv
  <2>1. Init => LoaderInv
    BY LoaderInvInit, RetiAssumption
  <2>2. LoaderInv /\ [Next]_vars => LoaderInv'
    BY LoaderInvStep, RetiAssumption
  <2>. QED
    BY <2>1, <2>2, PTL DEF Spec
<1> HIDE DEF Claim
<1>3. Spec => [][Claim]_vars
  BY <1>1, <1>2, PTL DEF Spec
<1>. QED
  BY <1>3 DEF Claim, RemainderInRange

----------------------------------------------------------------------------
\* LoadedAsWritten, ShownAsAssembled

(* Dividing in two steps. *)
LEMMA QuotientOfQuotient ==
    ASSUME NEW n \in Nat, NEW s \in 0 .. 31
    PROVE  \A b \in 0 .. 31 - s : n \div Weight(b + s) = (n \div Weight(s)) \div Weight(b)
<1> DEFINE S == {b \in 0 .. 31 - s : n \div Weight(b + s) = (n \div Weight(s)) \div Weight(b)}
<1>1. PICK q \in Nat : q = n \div Weight(s)
  BY WeightType, QuotientType
<1>2. 0 \in S
  <2>1. q \div Weight(0) = q /\ 0 + s = s
    BY Halved
  <2>2. n \div Weight(0 + s) = (n \div Weight(s)) \div Weight(0)
    BY <1>1, <2>1, Zenon
  <2>. QED
    BY <2>2
<1>3. ASSUME NEW b \in 0 .. (31 - s) - 1, b \in S
      PROVE  b + 1 \in S
  <2>1. /\ b \in 0 .. 30 /\ b + s \in 0 .. 30 /\ (b + s) + 1 = (b + 1) + s
        /\ b + 1 \in 0 .. 31 - s
    OBVIOUS
  <2>2. n \div Weight((b + s) + 1) = (n \div Weight(b + s)) \div 2
    BY <2>1, Halved
  <2>3. q \div Weight(b + 1) = (q \div Weight(b)) \div 2
    BY <2>1, Halved
  <2>4. n \div Weight(b + s) = q \div Weight(b)
    BY <1>1, <1>3, Zenon
  <2>5. n \div Weight((b + 1) + s) = (n \div Weight(s)) \div Weight(b + 1)
    BY <1>1, <2>1, <2>2, <2>3, <2>4, Zenon
  <2>. QED
    BY <2>1, <2>5
<1> HIDE DEF S
<1>4. 0 .. 31 - s \subseteq S
  <2>1. 31 - s \in Nat
    OBVIOUS
  <2>. QED
    BY <1>2, <1>3, <2>1, UpTo
<1>. QED
  BY <1>4 DEF S

(* No quotient is larger than the number. *)
LEMMA QuotientLess ==
    ASSUME NEW n \in Nat, NEW d \in Int, d > 0, NEW q \in Nat, q = n \div d
    PROVE  q <= n
<1>1. PICK r \in Int : r = n % d
  BY QuotientType
<1>2. n = d * q + r /\ r \in 0 .. d - 1
  BY <1>1, Divided
<1>3. d * q = q + (d - 1) * q
  OBVIOUS
<1>4. (d - 1) * q >= 0
  OBVIOUS
<1>. QED
  BY <1>2, <1>3, <1>4

(* A number shifted to the right is its quotient. *)
LEMMA ShiftedNat ==
    ASSUME NEW n \in Nat, n < 128, NEW s \in 0 .. 5
    PROVE  Shr(FromNat(n), s) = FromNat(n \div Weight(s))
<1>1. Weight(7) = 128
  BY Powers DEF Weight
<1>2. PICK q \in Nat : q = n \div Weight(s)
  BY WeightType, QuotientType
<1>3. q \in 0 .. Weight(7) - 1
  <2>1. Weight(s) \in Int /\ Weight(s) > 0
    BY WeightType
  <2>2. q <= n
    BY <1>2, <2>1, QuotientLess
  <2>. QED
    BY <1>1, <2>2
<1>4. \A b \in FromNat(q) : b \in 0 .. 30 /\ b < 7
  BY <1>3, BitsBelow
<1>5. \A b \in 0 .. 31 - s : n \div Weight(b + s) = q \div Weight(b)
  BY <1>2, QuotientOfQuotient
<1>6. ASSUME NEW b \in 0 .. 25
      PROVE  b \in FromNat(q) <=> b + s \in FromNat(n)
  <2>1. b \in 0 .. 31 - s /\ b \in 0 .. 30 /\ b + s \in 0 .. 30
    OBVIOUS
  <2>2. n \div Weight(b + s) = q \div Weight(b)
    BY <1>5, <2>1
  <2>3. b \in FromNat(q) <=> (q \div Weight(b)) % 2 = 1
    BY <2>1, BitsOf
  <2>4. b + s \in FromNat(n) <=> (n \div Weight(b + s)) % 2 = 1
    BY <2>1, BitsOf
  <2>. QED
    BY <2>2, <2>3, <2>4, Zenon
<1>7. \A b \in FromNat(n) : b \in 0 .. 30 /\ b < 7
  <2>1. n \in 0 .. Weight(7) - 1
    BY <1>1
  <2>. QED
    BY <2>1, BitsBelow
<1>8. Shr(FromNat(n), s) = FromNat(q)
  <2>1. ASSUME NEW b \in Shr(FromNat(n), s)
        PROVE  b \in FromNat(q)
    <3>1. PICK c \in FromNat(n) : c >= s /\ b = c - s
      BY DEF Shr
    <3>2. c \in 0 .. 30 /\ c < 7
      BY <1>7
    <3>3. b \in 0 .. 25 /\ b + s = c
      BY <3>1, <3>2
    <3>. QED
      BY <1>6, <3>3
  <2>2. ASSUME NEW b \in FromNat(q)
        PROVE  b \in Shr(FromNat(n), s)
    <3>1. b \in 0 .. 25
      BY <1>4
    <3>2. b + s \in FromNat(n) /\ b + s >= s /\ b = (b + s) - s
      BY <1>6, <3>1
    <3>. QED
      BY <3>2 DEF Shr
  <2>. QED
    BY <2>1, <2>2
<1>. QED
  BY <1>2, <1>8, Zenon

(* The bits of a field that is moved to its place. *)
LEMMA ShiftedBit ==
    ASSUME NEW m \in 0 .. 6, NEW A \in SUBSET (0 .. m), NEW p \in 0 .. 25, NEW c \in Bits
    PROVE  /\ c \in Shl(A, p) <=> c - p \in A
           /\ c < p \/ c > p + m => c \notin Shl(A, p)
<1>1. c \in Shl(A, p) <=> \E a \in A : c = a + p
  BY DEF Shl
<1>2. \A a \in A : a \in 0 .. m
  OBVIOUS
<1>3. ASSUME NEW a \in A, c = a + p
      PROVE  c - p = a /\ ~ (c < p) /\ ~ (c > p + m)
  BY <1>2, <1>3
<1>4. c - p \in A => c = (c - p) + p
  BY DEF Bits
<1>. QED
  BY <1>1, <1>3, <1>4

(* The fields of a word: an opcode O, a register P next to it or in its lower *)
(* bits, registers Q and R0, and an immediate I.                              *)
Joined(O, P, Q, R0, I) == Shl(O, 25) \cup Shl(P, 25) \cup Shl(Q, 22) \cup Shl(R0, 19) \cup I

(* Each of its bits belongs to one or two of them. *)
LEMMA WordBits ==
    ASSUME NEW O \in SUBSET (0 .. 6), NEW P \in SUBSET (0 .. 2), NEW Q \in SUBSET (0 .. 2),
           NEW R0 \in SUBSET (0 .. 2), NEW I \in SUBSET (0 .. 21), NEW w,
           w = Joined(O, P, Q, R0, I), NEW c \in Bits
    PROVE  /\ c \in 28 .. 31 => (c \in w <=> c - 25 \in O)
           /\ c \in 25 .. 27 => (c \in w <=> c - 25 \in O \cup P)
           /\ c \in 22 .. 24 => (c \in w <=> c - 22 \in Q)
           /\ c \in 19 .. 21 => (c \in w <=> c - 19 \in R0 \/ c \in I)
           /\ c \in 0 .. 18 => (c \in w <=> c \in I)
<1>1. (c \in Shl(O, 25) <=> c - 25 \in O) /\ (c < 25 => c \notin Shl(O, 25))
  BY ShiftedBit
<1>2. /\ c \in Shl(P, 25) <=> c - 25 \in P
      /\ c < 25 \/ c > 27 => c \notin Shl(P, 25)
  <2>1. 2 \in 0 .. 6 /\ 25 \in 0 .. 25 /\ 25 + 2 = 27
    OBVIOUS
  <2>. QED
    BY <2>1, ShiftedBit
<1>3. /\ c \in Shl(Q, 22) <=> c - 22 \in Q
      /\ c < 22 \/ c > 24 => c \notin Shl(Q, 22)
  <2>1. 2 \in 0 .. 6 /\ 22 \in 0 .. 25 /\ 22 + 2 = 24
    OBVIOUS
  <2>. QED
    BY <2>1, ShiftedBit
<1>4. /\ c \in Shl(R0, 19) <=> c - 19 \in R0
      /\ c < 19 \/ c > 21 => c \notin Shl(R0, 19)
  <2>1. 2 \in 0 .. 6 /\ 19 \in 0 .. 25 /\ 19 + 2 = 21
    OBVIOUS
  <2>. QED
    BY <2>1, ShiftedBit
<1>5. c \in I => c \in 0 .. 21
  OBVIOUS
<1>6. c \in w <=> \/ c \in Shl(O, 25) \/ c \in Shl(P, 25)
                  \/ c \in Shl(Q, 22) \/ c \in Shl(R0, 19) \/ c \in I
  BY DEF Joined
<1>7. c \in 0 .. 31
  BY DEF Bits
<1>. QED
  BY <1>1, <1>2, <1>3, <1>4, <1>5, <1>6, <1>7

\* The same, of all bits.
ConsistsOf(w, O, P, Q, R0, I) ==
    /\ \A c \in 28 .. 31 : c \in w <=> c - 25 \in O
    /\ \A c \in 25 .. 27 : c \in w <=> c - 25 \in O \cup P
    /\ \A c \in 22 .. 24 : c \in w <=> c - 22 \in Q
    /\ \A c \in 19 .. 21 : c \in w <=> c - 19 \in R0 \/ c \in I
    /\ \A c \in 0 .. 18 : c \in w <=> c \in I

\* What is read from such a word.
FieldsAre(w, O, P, Q, R0, I) ==
    /\ Shr(w, 30) = Shr(O, 5) /\ Shr(w, 28) = Shr(O, 3)
    /\ P = {} => Shr(w, 25) = O
    /\ (\A b \in O : b > 2) => Field(w, 25, 3) = P
    /\ Field(w, 22, 3) = Q
    /\ I = {} => Field(w, 19, 3) = R0
    /\ R0 = {} => Low(w, 22) = I
    /\ R0 = {} => SignExtended(w) = IF 21 \in I THEN I \cup 22 .. 31 ELSE I

(* Words with the same bits are the same. *)
LEMMA SameBits ==
    ASSUME NEW v \in Word, NEW w \in Word, \A b \in Bits : b \in v <=> b \in w
    PROVE  v = w
BY DEF Word

(* The bits of a word that is shifted to the right. *)
LEMMA ShrBit ==
    ASSUME NEW w \in Word, NEW n \in Nat, NEW b \in Bits
    PROVE  b \in Shr(w, n) <=> b + n \in w
<1>1. b \in Int /\ b >= 0 /\ \A c \in w : c \in Int
  BY DEF Word, Bits
<1>2. ASSUME b + n \in w
      PROVE  b \in Shr(w, n)
  <2>1. b + n >= n /\ b = (b + n) - n
    BY <1>1
  <2>. QED
    BY <1>2, <2>1 DEF Shr
<1>3. ASSUME b \in Shr(w, n)
      PROVE  b + n \in w
  <2>1. PICK c \in w : b = c - n
    BY <1>3 DEF Shr
  <2>2. b + n = c
    BY <1>1, <2>1
  <2>. QED
    BY <2>2
<1>. QED
  BY <1>2, <1>3

(* The code of a register is read from its three bits, *)
LEMMA FieldIs ==
    ASSUME NEW w \in Word, NEW n \in Nat, NEW A \in SUBSET (0 .. 2),
           \A c \in n .. n + 2 : c \in w <=> c - n \in A
    PROVE  Field(w, n, 3) = A
<1>1. A \in Word /\ \A b \in A : b < 3
  BY DEF Word, Bits
<1>2. Field(w, n, 3) \in Word
  <2>1. Shr(w, n) \in Word
    BY WordsClosed
  <2>. QED
    BY <2>1 DEF Field, Low, Word
<1>3. ASSUME NEW b \in Bits
      PROVE  b \in Field(w, n, 3) <=> b \in A
  <2>1. b \in Field(w, n, 3) <=> b < 3 /\ b + n \in w
    BY ShrBit DEF Field, Low
  <2>2. CASE b < 3
    <3>1. b + n \in n .. n + 2 /\ (b + n) - n = b
      BY <2>2 DEF Bits
    <3>2. b + n \in w <=> b \in A
      BY <3>1
    <3>. QED
      BY <2>1, <2>2, <3>2
  <2>3. CASE ~ (b < 3)
    BY <1>1, <2>1, <2>3
  <2>. QED
    BY <2>2, <2>3
<1>. QED
  BY <1>1, <1>2, <1>3, SameBits

(* and so are all fields, if the bits are those of the fields. *)
LEMMA FieldsOfBits ==
    ASSUME NEW O \in SUBSET (0 .. 6), NEW P \in SUBSET (0 .. 2), NEW Q \in SUBSET (0 .. 2),
           NEW R0 \in SUBSET (0 .. 2), NEW I \in SUBSET (0 .. 21), NEW w \in Word,
           ConsistsOf(w, O, P, Q, R0, I)
    PROVE  FieldsAre(w, O, P, Q, R0, I)
<1> /\ \A c \in 28 .. 31 : c \in w <=> c - 25 \in O
    /\ \A c \in 25 .. 27 : c \in w <=> c - 25 \in O \cup P
    /\ \A c \in 22 .. 24 : c \in w <=> c - 22 \in Q
    /\ \A c \in 19 .. 21 : c \in w <=> c - 19 \in R0 \/ c \in I
    /\ \A c \in 0 .. 18 : c \in w <=> c \in I
  BY Zenon DEF ConsistsOf
<1>1. O \in Word /\ P \in Word /\ I \in Word /\ \A b \in Int : b > 6 => b \notin O
  BY DEF Word, Bits
<1>2. \A b \in Bits : b \in Int /\ b >= 0 /\ b <= 31
  BY DEF Bits
<1>3. \A c \in w : c \in 0 .. 31
  BY DEF Word, Bits
<1>4. ASSUME NEW n \in {28, 30}
      PROVE  Shr(w, n) = Shr(O, n - 25)
  <2>1. PICK k \in Nat : k = n - 25
    OBVIOUS
  <2>2. Shr(w, n) \in Word /\ Shr(O, k) \in Word /\ n \in Nat /\ n >= 28
    <3>1. n \in Nat /\ n >= 28
      OBVIOUS
    <3>2. Shr(w, n) \in Word
      BY <3>1, WordsClosed
    <3>3. Shr(O, k) \in Word
      BY <1>1, WordsClosed
    <3>. QED
      BY <3>1, <3>2, <3>3
  <2>3. ASSUME NEW b \in Bits
        PROVE  b \in Shr(w, n) <=> b \in Shr(O, k)
    <3>1. (b \in Shr(w, n) <=> b + n \in w) /\ (b \in Shr(O, k) <=> b + k \in O)
      BY <1>1, <2>1, <2>2, ShrBit
    <3>2. (b + n) - 25 = b + k /\ b + n \in Int /\ b + n >= 28
      BY <1>2, <2>1, <2>2
    <3>3. CASE b + n \in 28 .. 31
      <4>1. b + n \in w <=> (b + n) - 25 \in O
        BY <3>3
      <4>. QED
        BY <3>1, <3>2, <4>1
    <3>4. CASE b + n \notin 28 .. 31
      <4>1. b + n > 31 /\ b + k > 6 /\ b + k \in Int
        BY <3>2, <3>4
      <4>2. b + n \notin w
        BY <1>3, <4>1
      <4>3. b + k \notin O
        BY <1>1, <4>1
      <4>. QED
        BY <3>1, <4>2, <4>3
    <3>. QED
      BY <3>3, <3>4
  <2>. QED
    BY <2>1, <2>2, <2>3, SameBits
<1>5. ASSUME P = {}
      PROVE  Shr(w, 25) = O
  <2>1. Shr(w, 25) \in Word
    BY WordsClosed
  <2>2. ASSUME NEW b \in Bits
        PROVE  b \in Shr(w, 25) <=> b \in O
    <3>1. b \in Shr(w, 25) <=> b + 25 \in w
      BY ShrBit
    <3>2. (b + 25) - 25 = b /\ b + 25 \in Int /\ b + 25 >= 25
      BY <1>2
    <3>3. CASE b + 25 \in 28 .. 31
      <4>1. b + 25 \in w <=> (b + 25) - 25 \in O
        BY <3>3
      <4>. QED
        BY <3>1, <3>2, <4>1
    <3>4. CASE b + 25 \in 25 .. 27
      <4>1. b + 25 \in w <=> (b + 25) - 25 \in O \cup P
        BY <3>4
      <4>. QED
        BY <1>5, <3>1, <3>2, <4>1
    <3>5. CASE b + 25 > 31
      <4>1. b > 6 /\ b \in Int
        BY <1>2, <3>5
      <4>. QED
        BY <1>1, <1>3, <3>1, <3>5, <4>1
    <3>. QED
      BY <3>2, <3>3, <3>4, <3>5
  <2>. QED
    BY <1>1, <2>1, <2>2, SameBits
<1>6. ASSUME \A b \in O : b > 2
      PROVE  Field(w, 25, 3) = P
  <2>1. PICK n \in Nat : n = 25
    OBVIOUS
  <2>2. ASSUME NEW c \in n .. n + 2
        PROVE  c \in w <=> c - n \in P
    <3>1. c \in 25 .. 27 /\ c - 25 \notin O
      BY <1>6, <2>1
    <3>. QED
      BY <2>1, <3>1
  <2>3. Field(w, n, 3) = P
    BY <2>2, FieldIs
  <2>. QED
    BY <2>1, <2>3
<1>7. Field(w, 22, 3) = Q
  <2>1. PICK n \in Nat : n = 22
    OBVIOUS
  <2>2. ASSUME NEW c \in n .. n + 2
        PROVE  c \in w <=> c - n \in Q
    <3>1. c \in 22 .. 24
      BY <2>1
    <3>. QED
      BY <2>1, <3>1
  <2>3. Field(w, n, 3) = Q
    BY <2>2, FieldIs
  <2>. QED
    BY <2>1, <2>3
<1>8. ASSUME I = {}
      PROVE  Field(w, 19, 3) = R0
  <2>1. PICK n \in Nat : n = 19
    OBVIOUS
  <2>2. ASSUME NEW c \in n .. n + 2
        PROVE  c \in w <=> c - n \in R0
    <3>1. c \in 19 .. 21 /\ c \notin I
      BY <1>8, <2>1
    <3>. QED
      BY <2>1, <3>1
  <2>3. Field(w, n, 3) = R0
    BY <2>2, FieldIs
  <2>. QED
    BY <2>1, <2>3
<1>9. ASSUME R0 = {}, NEW c \in 0 .. 21
      PROVE  c \in w <=> c \in I
  <2>1. c \in 19 .. 21 \/ c \in 0 .. 18
    OBVIOUS
  <2>. QED
    BY <1>9, <2>1
<1>10. \A b \in I : b \in 0 .. 21 /\ b < 22
  OBVIOUS
<1>11. ASSUME R0 = {}
       PROVE  Low(w, 22) = I
  <2>1. ASSUME NEW b \in Low(w, 22)
        PROVE  b \in I
    <3>1. b \in w /\ b < 22
      BY DEF Low
    <3>2. b \in 0 .. 21
      BY <1>3, <3>1
    <3>. QED
      BY <1>9, <1>11, <3>1, <3>2
  <2>2. ASSUME NEW b \in I
        PROVE  b \in Low(w, 22)
    <3>1. b \in w
      BY <1>9, <1>10, <1>11
    <3>. QED
      BY <1>10, <3>1 DEF Low
  <2>. QED
    BY <2>1, <2>2
<1>12. ASSUME R0 = {}
       PROVE  SignExtended(w) = IF 21 \in I THEN I \cup 22 .. 31 ELSE I
  <2>1. 21 \in w <=> 21 \in I
    BY <1>9, <1>12
  <2>2. w \cup 22 .. 31 = I \cup 22 .. 31
    <3>1. ASSUME NEW b \in w
          PROVE  b \in 22 .. 31 \/ b \in I
      <4>1. b \in 22 .. 31 \/ b \in 0 .. 21
        BY <1>3
      <4>. QED
        BY <1>9, <1>12, <4>1
    <3>2. \A b \in I : b \in w
      BY <1>9, <1>10, <1>12
    <3>. QED
      BY <3>1, <3>2
  <2>. QED
    BY <1>11, <1>12, <2>1, <2>2, Zenon DEF SignExtended
<1>13. Shr(w, 30) = Shr(O, 5) /\ Shr(w, 28) = Shr(O, 3)
  <2>1. 30 - 25 = 5 /\ 28 - 25 = 3
    OBVIOUS
  <2>. QED
    BY <1>4, <2>1
<1>. QED
  BY <1>5, <1>6, <1>7, <1>8, <1>11, <1>12, <1>13, Zenon DEF FieldsAre

(* The fields of an assembled word. *)
LEMMA WordFields ==
    ASSUME NEW O \in SUBSET (0 .. 6), NEW P \in SUBSET (0 .. 2), NEW Q \in SUBSET (0 .. 2),
           NEW R0 \in SUBSET (0 .. 2), NEW I \in SUBSET (0 .. 21), NEW w,
           w = Joined(O, P, Q, R0, I)
    PROVE  w \in Word /\ FieldsAre(w, O, P, Q, R0, I)
<1>1. w \in Word
  <2>1. \A v, n : Shl(v, n) \in Word
    BY DEF Shl, Word
  <2>2. I \in Word
    BY DEF Word, Bits
  <2>. QED
    BY <2>1, <2>2 DEF Word, Joined
<1>2. ASSUME NEW c \in Bits
      PROVE  /\ c \in 28 .. 31 => (c \in w <=> c - 25 \in O)
             /\ c \in 25 .. 27 => (c \in w <=> c - 25 \in O \cup P)
             /\ c \in 22 .. 24 => (c \in w <=> c - 22 \in Q)
             /\ c \in 19 .. 21 => (c \in w <=> c - 19 \in R0 \/ c \in I)
             /\ c \in 0 .. 18 => (c \in w <=> c \in I)
  BY WordBits
<1>3. \A c \in 28 .. 31 : c \in w <=> c - 25 \in O
  BY <1>2 DEF Bits
<1>4. \A c \in 25 .. 27 : c \in w <=> c - 25 \in O \cup P
  BY <1>2 DEF Bits
<1>5. \A c \in 22 .. 24 : c \in w <=> c - 22 \in Q
  BY <1>2 DEF Bits
<1>6. \A c \in 19 .. 21 : c \in w <=> c - 19 \in R0 \/ c \in I
  BY <1>2 DEF Bits
<1>7. \A c \in 0 .. 18 : c \in w <=> c \in I
  BY <1>2 DEF Bits
<1>8. ConsistsOf(w, O, P, Q, R0, I)
  BY <1>3, <1>4, <1>5, <1>6, <1>7, Zenon DEF ConsistsOf
<1>. QED
  BY <1>1, <1>8, FieldsOfBits, Zenon

(* An immediate is read as the number it was assembled from. *)
LEMMA ImmediateIs ==
    ASSUME NEW n \in Int, NEW I, I = Low(FromInt(n), 22)
    PROVE  /\ I \in SUBSET (0 .. 21)
           /\ n \in 0 .. Weight(22) - 1 => I = FromInt(n)
           /\ n \in -Weight(21) .. Weight(21) - 1 =>
                (IF 21 \in I THEN I \cup 22 .. 31 ELSE I) = FromInt(n)
<1>1. \A b \in FromInt(n) : b \in Bits
  BY NumbersAreWords DEF Word
<1>2. I \in SUBSET (0 .. 21)
  BY <1>1 DEF Low, Bits
<1>3. n \in 0 .. Weight(22) - 1 => I = FromInt(n)
  BY ImmediateBits
<1>4. Weight(21) \in Int /\ Weight(21) > 0
  BY WeightType
<1>5. ASSUME n \in 0 .. Weight(21) - 1
      PROVE  (IF 21 \in I THEN I \cup 22 .. 31 ELSE I) = FromInt(n)
  <2>1. FromInt(n) = FromNat(n) /\ I = FromNat(n)
    BY <1>5, ImmediateBits
  <2>2. \A b \in FromNat(n) : b \in 0 .. 30 /\ b < 21
    BY <1>5, BitsBelow
  <2>3. 21 \notin I
    BY <2>1, <2>2
  <2>. QED
    BY <2>1, <2>3, Zenon
<1>6. ASSUME n \in -Weight(21) .. Weight(21) - 1, n < 0
      PROVE  (IF 21 \in I THEN I \cup 22 .. 31 ELSE I) = FromInt(n)
  <2>1. PICK m \in 0 .. Weight(21) - 1 : m = -n - 1
    BY <1>4, <1>6
  <2>2. FromInt(n) = Not(FromNat(m))
    BY <1>6, <2>1 DEF FromInt
  <2>3. \A b \in FromNat(m) : b \in 0 .. 30 /\ b < 21
    BY BitsBelow
  <2>4. \A b : b \in FromInt(n) <=> b \in Bits /\ b \notin FromNat(m)
    BY <2>2 DEF Not
  <2>5. \A b \in 21 .. 31 : b \in FromInt(n)
    BY <2>3, <2>4 DEF Bits
  <2>6. 21 \in I
    <3>1. 21 \in 21 .. 31 /\ 21 < 22
      OBVIOUS
    <3>. QED
      BY <2>5, <3>1 DEF Low
  <2>7. I \cup 22 .. 31 = FromInt(n)
    <3>1. ASSUME NEW b \in FromInt(n)
          PROVE  b \in I \cup 22 .. 31
      <4>1. b \in 0 .. 31
        BY <1>1 DEF Bits
      <4>2. b < 22 \/ b \in 22 .. 31
        BY <4>1
      <4>. QED
        BY <4>2 DEF Low
    <3>2. ASSUME NEW b \in 22 .. 31
          PROVE  b \in FromInt(n)
      BY <2>5
    <3>3. \A b \in I : b \in FromInt(n)
      BY DEF Low
    <3>. QED
      BY <3>1, <3>2, <3>3
  <2>. QED
    BY <2>6, <2>7, Zenon
<1>7. n \in -Weight(21) .. Weight(21) - 1 => n < 0 \/ n \in 0 .. Weight(21) - 1
  BY <1>4
<1>. QED
  BY <1>2, <1>3, <1>5, <1>6, <1>7, Zenon

\* The instructions whose opcode is followed by a register in the same seven bits.
Transfers == {LOAD, LOADIN, LOADI, STORE, STOREIN, MOVE}

(* The opcode of an assembled word. *)
LEMMA OpcodeIs ==
    ASSUME NEW op \in Opcodes, NEW w \in Word, NEW P, NEW Q, NEW R0, NEW I,
           FieldsAre(w, FromNat(op), P, Q, R0, I), op \notin Transfers => P = {}
    PROVE  OpOf(w) = op
<1>0. /\ Shr(w, 30) = Shr(FromNat(op), 5) /\ Shr(w, 28) = Shr(FromNat(op), 3)
      /\ op \notin Transfers => Shr(w, 25) = FromNat(op)
  BY Zenon DEF FieldsAre
<1>1. op \in Nat /\ op < 128
  BY DEF Opcodes, ComputeI, ComputeR, ComputeM, Jumps, LOAD, LOADIN, LOADI, STORE, STOREIN,
         MOVE, NOP, INT, RTI, JUMPGT, JUMPEQ, JUMPGE, JUMPLT, JUMPNE, JUMPLE, JUMP
<1>2. Weight(5) = 32 /\ Weight(3) = 8 /\ 5 \in 0 .. 5 /\ 3 \in 0 .. 5 /\ 31 \in 0 .. 31
  BY Powers DEF Weight
<1>3. Shr(w, 30) = FromNat(op \div 32) /\ Shr(w, 28) = FromNat(op \div 8)
  BY <1>0, <1>1, <1>2, ShiftedNat
<1>4. 128 <= Weight(31) - 1
  BY Powers DEF Weight
<1>5. Weight(31) \in Int
  BY <1>2, WeightType
<1>6. ASSUME NEW n \in Nat, n < 128
      PROVE  ToNat(FromNat(n)) = n
  <2>1. n \in 0 .. Weight(31) - 1
    BY <1>4, <1>5, <1>6
  <2>. QED
    BY <2>1, NatOfBits
<1>7. PICK q \in Nat, r \in Nat : q = op \div 32 /\ r = op \div 8 /\ q < 128 /\ r < 128
  BY <1>1
<1>8. ToNat(Shr(w, 30)) = q /\ ToNat(Shr(w, 28)) = r
  BY <1>3, <1>6, <1>7
<1>9. CASE op \in Transfers
  <2>1. q \in {1, 2} /\ 8 * r = op
    BY <1>7, <1>9 DEF Transfers, LOAD, LOADIN, LOADI, STORE, STOREIN, MOVE
  <2>. QED
    BY <1>8, <2>1 DEF OpOf
<1>10. CASE op \notin Transfers
  <2>1. op \in 0 .. 23 \/ op \in 96 .. 124
    BY <1>10 DEF Opcodes, ComputeI, ComputeR, ComputeM, Jumps, LOAD, LOADIN, LOADI, STORE, STOREIN,
         MOVE, NOP, INT, RTI, JUMPGT, JUMPEQ, JUMPGE, JUMPLT, JUMPNE, JUMPLE, JUMP, Transfers
  <2>2. q \notin {1, 2}
    BY <1>7, <2>1
  <2>3. ToNat(Shr(w, 25)) = op
    BY <1>0, <1>1, <1>6, <1>10
  <2>. QED
    BY <1>8, <2>2, <2>3 DEF OpOf
<1>. QED
  BY <1>9, <1>10

(* What the kinds of the operands say of an accepted line. *)
LEMMA AcceptedOperand ==
    ASSUME NEW line, IsLine(line), Accepted(line), NEW op, op = FinalOp(line), NEW k \in 1 .. 3
    PROVE  /\ Shape(op)[k] = "reg" =>
                /\ line.opd[k] = Reg(line.opd[k].reg) /\ line.opd[k].reg \in Names
                /\ IsReg(line.opd[k]) /\ ~ IsIm(line.opd[k]) /\ ~ IsEmpty(line.opd[k])
           /\ Shape(op)[k] = "im" =>
                /\ line.opd[k] = Im(line.opd[k].im) /\ line.opd[k].im \in Int
                /\ ImInRange(op, line.opd[k].im)
                /\ ~ IsReg(line.opd[k]) /\ IsIm(line.opd[k]) /\ ~ IsEmpty(line.opd[k])
           /\ Shape(op)[k] = "empty" =>
                /\ line.opd[k] = Empty
                /\ ~ IsReg(line.opd[k]) /\ ~ IsIm(line.opd[k]) /\ IsEmpty(line.opd[k])
<1>1. DOMAIN line.opd[k] = {Shape(op)[k]} /\ (IsIm(line.opd[k]) => ImInRange(op, line.opd[k].im))
  BY Zenon DEF Accepted
<1>2. IsOperand(line.opd[k])
  BY DEF IsLine
<1>. QED
  BY <1>1, <1>2 DEF IsOperand, IsReg, IsIm, IsEmpty, Reg, Im, Empty

(* The kinds of the operands of each instruction, and their places. *)
LEMMA KindsAndPlaces ==
    ASSUME NEW op
    PROVE  /\ op \in ComputeI \cup ComputeM \cup {LOAD, LOADI} =>
                Shape(op) = <<"reg", "im", "empty">> /\ Positions(op) = <<22, 0, 0>>
           /\ op \in ComputeR => Shape(op) = <<"reg", "reg", "empty">> /\ Positions(op) = <<22, 19, 0>>
           /\ op = LOADIN => Shape(op) = <<"reg", "reg", "im">> /\ Positions(op) = <<25, 22, 0>>
           /\ op = STORE => Shape(op) = <<"reg", "im", "empty">> /\ Positions(op) = <<25, 0, 0>>
           /\ op = STOREIN => Shape(op) = <<"reg", "reg", "im">> /\ Positions(op) = <<22, 25, 0>>
           /\ op = MOVE => Shape(op) = <<"reg", "reg", "empty">> /\ Positions(op) = <<25, 22, 0>>
           /\ op \in Jumps \cup {INT} => Shape(op) = <<"im", "empty", "empty">> /\ Positions(op) = <<0, 0, 0>>
           /\ op \in {NOP, RTI} => Shape(op) = <<"empty", "empty", "empty">> /\ Positions(op) = <<0, 0, 0>>
<1>1. ASSUME op \in ComputeI \cup ComputeM \cup {LOAD, LOADI}
      PROVE  Shape(op) = <<"reg", "im", "empty">> /\ Positions(op) = <<22, 0, 0>>
  <2>1. op \notin ComputeR \cup Jumps \cup {LOADIN, STORE, STOREIN, MOVE, INT, NOP, RTI, IVTE, IVTEDP}
    BY <1>1 DEF ComputeI, ComputeR, ComputeM, Jumps, LOAD, LOADIN, LOADI, STORE, STOREIN, IVTE, IVTEDP,
        MOVE, NOP, INT, RTI, JUMPGT, JUMPEQ, JUMPGE, JUMPLT, JUMPNE, JUMPLE, JUMP
  <2>. QED
    BY <1>1, <2>1 DEF Shape, Positions
<1>2. ASSUME op \in ComputeR
      PROVE  Shape(op) = <<"reg", "reg", "empty">> /\ Positions(op) = <<22, 19, 0>>
  <2>1. /\ op \notin ComputeI \cup ComputeM \cup Jumps
        /\ op \notin {LOAD, LOADI, LOADIN, STORE, STOREIN, MOVE, INT, NOP, RTI, IVTE, IVTEDP}
    BY <1>2 DEF ComputeI, ComputeR, ComputeM, Jumps, LOAD, LOADIN, LOADI, STORE, STOREIN, IVTE, IVTEDP,
        MOVE, NOP, INT, RTI, JUMPGT, JUMPEQ, JUMPGE, JUMPLT, JUMPNE, JUMPLE, JUMP
  <2>. QED
    BY <1>2, <2>1 DEF Shape, Positions
<1>3. ASSUME op \in Jumps \cup {INT, NOP, RTI}
      PROVE  /\ op \in Jumps \cup {INT} => Shape(op) = <<"im", "empty", "empty">>
             /\ op \in {NOP, RTI} => Shape(op) = <<"empty", "empty", "empty">>
             /\ Positions(op) = <<0, 0, 0>>
  <2>1. /\ op \notin ComputeI \cup ComputeR \cup ComputeM
        /\ op \notin {LOAD, LOADI, LOADIN, STORE, STOREIN, MOVE, IVTE, IVTEDP}
        /\ op \in {NOP, RTI} => op \notin Jumps \cup {INT}
    BY <1>3 DEF ComputeI, ComputeR, ComputeM, Jumps, LOAD, LOADIN, LOADI, STORE, STOREIN, IVTE, IVTEDP,
        MOVE, NOP, INT, RTI, JUMPGT, JUMPEQ, JUMPGE, JUMPLT, JUMPNE, JUMPLE, JUMP
  <2>. QED
    BY <1>3, <2>1 DEF Shape, Positions
<1> USE DEF ComputeI, ComputeR, ComputeM, Jumps, LOAD, LOADIN, LOADI, STORE, STOREIN, IVTE, IVTEDP,
            MOVE, NOP, INT, RTI, JUMPGT, JUMPEQ, JUMPGE, JUMPLT, JUMPNE, JUMPLE, JUMP
<1>4. op = LOADIN => Shape(op) = <<"reg", "reg", "im">> /\ Positions(op) = <<25, 22, 0>>
  BY DEF Shape, Positions
<1>5. op = STORE => Shape(op) = <<"reg", "im", "empty">> /\ Positions(op) = <<25, 0, 0>>
  BY DEF Shape, Positions
<1>6. op = STOREIN => Shape(op) = <<"reg", "reg", "im">> /\ Positions(op) = <<22, 25, 0>>
  BY DEF Shape, Positions
<1>7. op = MOVE => Shape(op) = <<"reg", "reg", "empty">> /\ Positions(op) = <<25, 22, 0>>
  BY DEF Shape, Positions
<1> HIDE DEF ComputeI, ComputeR, ComputeM, Jumps, LOAD, LOADIN, LOADI, STORE, STOREIN, IVTE, IVTEDP,
            MOVE, NOP, INT, RTI, JUMPGT, JUMPEQ, JUMPGE, JUMPLT, JUMPNE, JUMPLE, JUMP
<1>. QED
  BY <1>1, <1>2, <1>3, <1>4, <1>5, <1>6, <1>7, Zenon

(* The code of a register of the CPU has three bits, *)
LEMMA RegisterBits ==
    ASSUME NEW r \in Registers
    PROVE  FromNat(r) \in SUBSET (0 .. 2)
<1>1. Weight(3) = 8
  BY Powers DEF Weight
<1>2. r \in 0 .. Weight(3) - 1
  BY <1>1 DEF Registers, PC, DS
<1>3. \A b \in FromNat(r) : b \in 0 .. 30 /\ b < 3
  BY <1>2, BitsBelow
<1>. QED
  BY <1>3

(* an opcode seven, of which the lower ones are clear where a register joins *)
(* them.                                                                     *)
LEMMA OpcodeBits ==
    ASSUME NEW op \in Opcodes
    PROVE  /\ FromNat(op) \in SUBSET (0 .. 6)
           /\ op \in {LOADIN, STORE, STOREIN, MOVE} => \A b \in FromNat(op) : b > 2
<1>1. Weight(7) = 128 /\ Weight(0) = 1 /\ Weight(1) = 2 /\ Weight(2) = 4
  BY Powers DEF Weight
<1>2. op \in 0 .. Weight(7) - 1
  BY <1>1 DEF Opcodes, ComputeI, ComputeR, ComputeM, Jumps, LOAD, LOADIN, LOADI, STORE, STOREIN,
         MOVE, NOP, INT, RTI, JUMPGT, JUMPEQ, JUMPGE, JUMPLT, JUMPNE, JUMPLE, JUMP
<1>3. \A b \in FromNat(op) : b \in 0 .. 30 /\ b < 7
  BY <1>2, BitsBelow
<1>4. ASSUME op \in {LOADIN, STORE, STOREIN, MOVE}
      PROVE  0 \notin FromNat(op) /\ 1 \notin FromNat(op) /\ 2 \notin FromNat(op)
  <2>1. (op \div 1) % 2 = 0 /\ (op \div 2) % 2 = 0 /\ (op \div 4) % 2 = 0
    BY <1>4 DEF LOADIN, STORE, STOREIN, MOVE
  <2>2. \A b : b \in FromNat(op) => (op \div Weight(b)) % 2 = 1
    BY BitsOf
  <2>. QED
    BY <1>1, <2>1, <2>2
<1>5. FromNat(op) \in SUBSET (0 .. 6)
  BY <1>3
<1>6. ASSUME op \in {LOADIN, STORE, STOREIN, MOVE}, NEW b \in FromNat(op)
      PROVE  b > 2
  BY <1>3, <1>4, <1>6
<1>. QED
  BY <1>5, <1>6

\* What an instruction consists of.
Sum(a, b, c, d) == a \cup b \cup c \cup d

(* The word of an instruction, before it is known what its operands are. *)
LEMMA AssembledIs ==
    ASSUME NEW line, NEW op \in Opcodes, op = FinalOp(line), NEW p, p = Positions(op)
    PROVE  assembly_to_machine(line) =
             Sum(Shl(FromNat(op), 25), Shl(OperandWord(line.opd[1]), p[1]),
                 Shl(OperandWord(line.opd[2]), p[2]), Shl(OperandWord(line.opd[3]), p[3]))
<1>1. op \notin {IVTE, IVTEDP}
  BY DEF Opcodes, ComputeI, ComputeR, ComputeM, Jumps, LOAD, LOADIN, LOADI, STORE, STOREIN, IVTE, IVTEDP,
         MOVE, NOP, INT, RTI, JUMPGT, JUMPEQ, JUMPGE, JUMPLT, JUMPNE, JUMPLE, JUMP
<1>. QED
  BY <1>1, Zenon DEF assembly_to_machine, Sum

(* An immediate is decoded as it was written. *)
LEMMA ImmediateDecoded ==
    ASSUME NEW op \in Opcodes, NEW w \in Word, OpOf(w) = op, NEW n \in Int, NEW I,
           I = Low(FromInt(n), 22), ImInRange(op, n), op = INT => n >= 0,
           Low(w, 22) = I, SignExtended(w) = IF 21 \in I THEN I \cup 22 .. 31 ELSE I
    PROVE  Immediate(w) = FromInt(n)
<1>1. Weight(21) \in Int /\ Weight(22) \in Int /\ Weight(21) <= Weight(22)
  BY Powers DEF Weight
<1>2. CASE op \in ComputeM \cup {LOAD, STORE}
  <2>1. n \in 0 .. Weight(22) - 1
    BY <1>2, Zenon DEF ImInRange, Weight
  <2>. QED
    BY <1>2, <2>1, ImmediateIs, Zenon DEF Immediate
<1>3. CASE op \notin ComputeM \cup {LOAD, STORE}
  <2>1. n \in -Weight(21) .. Weight(21) - 1
    BY <1>3, Zenon DEF ImInRange, Weight
  <2>2. CASE op = INT
    <3>1. n \in 0 .. Weight(22) - 1
      BY <1>1, <2>1, <2>2
    <3>. QED
      BY <2>2, <3>1, ImmediateIs, Zenon DEF Immediate
  <2>3. CASE op # INT
    <3>1. op \notin ComputeM \cup {LOAD, STORE, INT}
      BY <1>3, <2>3
    <3>. QED
      BY <2>1, <3>1, ImmediateIs, Zenon DEF Immediate
  <2>. QED
    BY <2>2, <2>3
<1>. QED
  BY <1>2, <1>3

\* What an operand says, of which a line's are listed without the empty ones.
OperandSaid(opd) == IF IsReg(opd) THEN FromNat(opd.reg) ELSE FromInt(opd.im)

(* The list, by the number of its operands. *)
LEMMA SaidIs ==
    ASSUME NEW line
    PROVE  /\ IsEmpty(line.opd[1]) /\ IsEmpty(line.opd[2]) /\ IsEmpty(line.opd[3]) =>
                OperandsSaid(line) = <<>>
           /\ ~ IsEmpty(line.opd[1]) /\ IsEmpty(line.opd[2]) /\ IsEmpty(line.opd[3]) =>
                OperandsSaid(line) = <<OperandSaid(line.opd[1])>>
           /\ ~ IsEmpty(line.opd[1]) /\ ~ IsEmpty(line.opd[2]) /\ IsEmpty(line.opd[3]) =>
                OperandsSaid(line) = <<OperandSaid(line.opd[1]), OperandSaid(line.opd[2])>>
           /\ ~ IsEmpty(line.opd[1]) /\ ~ IsEmpty(line.opd[2]) /\ ~ IsEmpty(line.opd[3]) =>
                OperandsSaid(line) = <<OperandSaid(line.opd[1]), OperandSaid(line.opd[2]),
                                       OperandSaid(line.opd[3])>>
<1> DEFINE J == {j \in 1 .. 3 : ~ IsEmpty(line.opd[j])}
<1>1. OperandsSaid(line) = [k \in J |-> OperandSaid(line.opd[k])]
  BY Zenon DEF OperandsSaid, OperandSaid
<1>2. ASSUME IsEmpty(line.opd[1]), IsEmpty(line.opd[2]), IsEmpty(line.opd[3])
      PROVE  OperandsSaid(line) = <<>>
  <2>1. J = {}
    BY <1>2
  <2>. QED
    BY <1>1, <2>1
<1>3. ASSUME ~ IsEmpty(line.opd[1]), IsEmpty(line.opd[2]), IsEmpty(line.opd[3])
      PROVE  OperandsSaid(line) = <<OperandSaid(line.opd[1])>>
  <2>1. J = 1 .. 1
    BY <1>3
  <2>. QED
    BY <1>1, <2>1
<1>4. ASSUME ~ IsEmpty(line.opd[1]), ~ IsEmpty(line.opd[2]), IsEmpty(line.opd[3])
      PROVE  OperandsSaid(line) = <<OperandSaid(line.opd[1]), OperandSaid(line.opd[2])>>
  <2>1. J = 1 .. 2
    BY <1>4
  <2>. QED
    BY <1>1, <2>1
<1>5. ASSUME ~ IsEmpty(line.opd[1]), ~ IsEmpty(line.opd[2]), ~ IsEmpty(line.opd[3])
      PROVE  OperandsSaid(line) = <<OperandSaid(line.opd[1]), OperandSaid(line.opd[2]),
                                    OperandSaid(line.opd[3])>>
  <2>1. J = 1 .. 3
    BY <1>5
  <2>. QED
    BY <1>1, <2>1
<1>. QED
  BY <1>2, <1>3, <1>4, <1>5, Zenon

\* The fields of an instruction.
RegisterFields == SUBSET (0 .. 2)
ImmediateFields == SUBSET (0 .. 21)

(* The opcode and the fields of the word of an instruction. *)
LEMMA JoinedRead ==
    ASSUME NEW op \in Opcodes, NEW P \in RegisterFields, NEW Q \in RegisterFields,
           NEW R0 \in RegisterFields, NEW I \in ImmediateFields, NEW w,
           w = Joined(FromNat(op), P, Q, R0, I), op \notin Transfers => P = {}
    PROVE  /\ w \in Word /\ OpOf(w) = op /\ FieldsAre(w, FromNat(op), P, Q, R0, I)
           /\ machine_to_assembly(w) = [op |-> op, opd |-> machine_to_assembly(w).opd]
<1>1. PICK O \in SUBSET (0 .. 6) : O = FromNat(op)
  BY OpcodeBits
<1>2. w = Joined(O, P, Q, R0, I)
  BY <1>1
<1>3. w \in Word /\ FieldsAre(w, O, P, Q, R0, I)
  BY <1>2, WordFields DEF RegisterFields, ImmediateFields
<1>4. FieldsAre(w, FromNat(op), P, Q, R0, I)
  BY <1>1, <1>3
<1>5. OpOf(w) = op
  BY <1>3, <1>4, OpcodeIs
<1>6. machine_to_assembly(w) = [op |-> op, opd |-> machine_to_assembly(w).opd]
  <2>1. \E operands : machine_to_assembly(w) = [op |-> OpOf(w), opd |-> operands]
    BY Zenon DEF machine_to_assembly
  <2>. QED
    BY <1>5, <2>1
<1>. QED
  BY <1>1, <1>3, <1>5, <1>6, Zenon

(* Nothing stays nothing, wherever it is moved, and the rest of an instruction *)
(* without some of the fields.                                                 *)
LEMMA FieldsLeftOut ==
    ASSUME NEW O, NEW P, NEW Q, NEW I \in Word
    PROVE  /\ \A n : Shl({}, n) = {}
           /\ Sum(Shl(O, 25), Shl(Q, 22), Shl(I, 0), Shl({}, 0)) = Joined(O, {}, Q, {}, I)
           /\ Sum(Shl(O, 25), Shl(P, 25), Shl(Q, 22), Shl(I, 0)) = Joined(O, P, Q, {}, I)
           /\ Sum(Shl(O, 25), Shl(Q, 22), Shl(P, 25), Shl(I, 0)) = Joined(O, P, Q, {}, I)
           /\ Sum(Shl(O, 25), Shl(P, 25), Shl(I, 0), Shl({}, 0)) = Joined(O, P, {}, {}, I)
           /\ Sum(Shl(O, 25), Shl(P, 25), Shl(Q, 22), Shl({}, 0)) = Joined(O, P, Q, {}, {})
           /\ Sum(Shl(O, 25), Shl(I, 0), Shl({}, 0), Shl({}, 0)) = Joined(O, {}, {}, {}, I)
           /\ Sum(Shl(O, 25), Shl({}, 0), Shl({}, 0), Shl({}, 0)) = Joined(O, {}, {}, {}, {})
<1>1. \A n : Shl({}, n) = {}
  BY DEF Shl
<1>2. Shl(I, 0) = I
  BY ShiftByZero
<1>. QED
  BY <1>1, <1>2 DEF Joined, Sum

(* What the operands of an accepted line that names only registers of the CPU *)
(* become.                                                                    *)
LEMMA OperandWords ==
    ASSUME NEW line, IsLine(line), Accepted(line), Plain(line), NEW op, op = FinalOp(line), NEW k \in 1 .. 3
    PROVE  /\ Shape(op)[k] = "reg" =>
                /\ ~ IsEmpty(line.opd[k]) /\ OperandSaid(line.opd[k]) \in RegisterFields
                /\ OperandWord(line.opd[k]) = OperandSaid(line.opd[k])
                /\ \E r \in Registers : line.opd[k] = Reg(r) /\ OperandSaid(line.opd[k]) = FromNat(r)
           /\ Shape(op)[k] = "im" =>
                /\ ~ IsEmpty(line.opd[k])
                /\ \E n \in Int : /\ line.opd[k] = Im(n) /\ OperandSaid(line.opd[k]) = FromInt(n)
                                  /\ OperandWord(line.opd[k]) = Low(FromInt(n), 22) /\ ImInRange(op, n)
           /\ Shape(op)[k] = "empty" => IsEmpty(line.opd[k]) /\ OperandWord(line.opd[k]) = {}
<1>1. ASSUME Shape(op)[k] = "reg"
      PROVE  /\ ~ IsEmpty(line.opd[k]) /\ OperandSaid(line.opd[k]) \in RegisterFields
             /\ OperandWord(line.opd[k]) = OperandSaid(line.opd[k])
             /\ \E r \in Registers : line.opd[k] = Reg(r) /\ OperandSaid(line.opd[k]) = FromNat(r)
  <2>1. line.opd[k] = Reg(line.opd[k].reg) /\ IsReg(line.opd[k]) /\ ~ IsEmpty(line.opd[k])
    BY <1>1, AcceptedOperand
  <2>2. PICK r \in Registers : r = line.opd[k].reg
    BY <2>1 DEF Plain
  <2>3. OperandSaid(line.opd[k]) = FromNat(r) /\ OperandWord(line.opd[k]) = FromNat(r)
    BY <2>1, <2>2, Zenon DEF OperandSaid, OperandWord
  <2>4. FromNat(r) \in RegisterFields
    BY RegisterBits DEF RegisterFields
  <2>. QED
    BY <2>1, <2>2, <2>3, <2>4, Zenon
<1>2. ASSUME Shape(op)[k] = "im"
      PROVE  /\ ~ IsEmpty(line.opd[k])
             /\ \E n \in Int : /\ line.opd[k] = Im(n) /\ OperandSaid(line.opd[k]) = FromInt(n)
                               /\ OperandWord(line.opd[k]) = Low(FromInt(n), 22) /\ ImInRange(op, n)
  <2>1. /\ line.opd[k] = Im(line.opd[k].im) /\ line.opd[k].im \in Int /\ ImInRange(op, line.opd[k].im)
        /\ ~ IsReg(line.opd[k]) /\ IsIm(line.opd[k]) /\ ~ IsEmpty(line.opd[k])
    BY <1>2, AcceptedOperand
  <2>2. PICK n \in Int : n = line.opd[k].im
    BY <2>1
  <2>3. OperandSaid(line.opd[k]) = FromInt(n) /\ OperandWord(line.opd[k]) = Low(FromInt(n), 22)
    BY <2>1, <2>2, Zenon DEF OperandSaid, OperandWord
  <2>. QED
    BY <2>1, <2>2, <2>3, Zenon
<1>3. ASSUME Shape(op)[k] = "empty"
      PROVE  IsEmpty(line.opd[k]) /\ OperandWord(line.opd[k]) = {}
  BY <1>3, AcceptedOperand, Zenon DEF OperandWord
<1>. QED
  BY <1>1, <1>2, <1>3, Zenon

(* A line that is no entry is an instruction of the CPU. *)
LEMMA PlainOpcode ==
    ASSUME NEW line, IsLine(line), Plain(line)
    PROVE  FinalOp(line) \in Opcodes
<1>1. line.op \in (Opcodes \ ComputeM) \cup {IVTE} /\ FinalOp(line) \notin {IVTE, IVTEDP}
  BY DEF IsLine, Plain, IsEntry
<1>2. line.op \in ComputeR => line.op + 8 \in ComputeM
  BY DEF ComputeR, ComputeM
<1>3. ComputeM \subseteq Opcodes
  BY DEF Opcodes
<1>4. FinalOp(line) \in {line.op, IVTEDP} \/ (line.op \in ComputeR /\ FinalOp(line) = line.op + 8)
  BY Zenon DEF FinalOp
<1>. QED
  BY <1>1, <1>2, <1>3, <1>4

(* The disassembler reads what the assembler was told, whatever the fields *)
(* are and wherever they lie.                                              *)
LEMMA RoundTrip ==
    ASSUME NEW line, IsLine(line), Accepted(line), Plain(line),
           NEW op, op = FinalOp(line), NEW w, w = assembly_to_machine(line)
    PROVE  w \in Word /\ machine_to_assembly(w) = [op |-> op, opd |-> OperandsSaid(line)]
<1> DEFINE o1 == OperandSaid(line.opd[1])
           o2 == OperandSaid(line.opd[2])
           o3 == OperandSaid(line.opd[3])
           i1 == OperandWord(line.opd[1])
           i2 == OperandWord(line.opd[2])
           i3 == OperandWord(line.opd[3])
<1>1. op \in Opcodes
  BY PlainOpcode
<1>2. /\ Shape(op)[1] = "reg" => i1 = o1 /\ o1 \in RegisterFields /\ ~ IsEmpty(line.opd[1])
      /\ Shape(op)[2] = "reg" => i2 = o2 /\ o2 \in RegisterFields /\ ~ IsEmpty(line.opd[2])
      /\ Shape(op)[1] = "empty" => i1 = {} /\ IsEmpty(line.opd[1])
      /\ Shape(op)[2] = "empty" => i2 = {} /\ IsEmpty(line.opd[2])
      /\ Shape(op)[3] = "empty" => i3 = {} /\ IsEmpty(line.opd[3])
  <2>1. ASSUME NEW k \in 1 .. 3, Shape(op)[k] = "reg"
        PROVE  /\ OperandWord(line.opd[k]) = OperandSaid(line.opd[k])
               /\ OperandSaid(line.opd[k]) \in RegisterFields /\ ~ IsEmpty(line.opd[k])
    BY <2>1, OperandWords, Zenon
  <2>2. ASSUME NEW k \in 1 .. 3, Shape(op)[k] = "empty"
        PROVE  OperandWord(line.opd[k]) = {} /\ IsEmpty(line.opd[k])
    BY <2>2, OperandWords, Zenon
  <2>3. 1 \in 1 .. 3 /\ 2 \in 1 .. 3 /\ 3 \in 1 .. 3
    OBVIOUS
  <2>. QED
    BY <2>1, <2>2, <2>3, Zenon
<1>3. ASSUME NEW k \in 1 .. 3, Shape(op)[k] = "im"
      PROVE  /\ OperandWord(line.opd[k]) \in ImmediateFields /\ OperandWord(line.opd[k]) \in Word
             /\ ~ IsEmpty(line.opd[k])
             /\ \A P, Q :
                  /\ w \in Word /\ OpOf(w) = op
                  /\ FieldsAre(w, FromNat(op), P, Q, {}, OperandWord(line.opd[k]))
                  /\ k = 1 \/ op # INT
                  => Immediate(w) = OperandSaid(line.opd[k])
  <2>1. ~ IsEmpty(line.opd[k])
    BY <1>3, OperandWords
  <2>2. PICK n \in Int : /\ line.opd[k] = Im(n) /\ OperandSaid(line.opd[k]) = FromInt(n)
                         /\ OperandWord(line.opd[k]) = Low(FromInt(n), 22) /\ ImInRange(op, n)
    BY <1>3, OperandWords, Zenon
  <2>3. PICK I : I = OperandWord(line.opd[k])
    OBVIOUS
  <2>4. I \in ImmediateFields
    BY <2>2, <2>3, ImmediateIs DEF ImmediateFields
  <2>5. I \in Word
    BY <2>4 DEF Word, Bits, ImmediateFields
  <2>6. k = 1 /\ op = INT => n >= 0
    <3>1. FinalOp(line) = INT => line.op = INT
      BY DEF FinalOp, ComputeR, INT, IVTEDP
    <3>. QED
      BY <2>2, <3>1 DEF Plain, Im
  <2>7. ASSUME NEW P, NEW Q, w \in Word, OpOf(w) = op, FieldsAre(w, FromNat(op), P, Q, {}, I),
               k = 1 \/ op # INT
        PROVE  Immediate(w) = FromInt(n)
    <3>1. Low(w, 22) = I /\ SignExtended(w) = IF 21 \in I THEN I \cup 22 .. 31 ELSE I
      BY <2>7, Zenon DEF FieldsAre
    <3>2. I = Low(FromInt(n), 22)
      BY <2>2, <2>3
    <3>3. op = INT => n >= 0
      BY <2>6, <2>7
    <3>. QED
      BY <1>1, <2>2, <2>7, <3>1, <3>2, <3>3, ImmediateDecoded, Zenon
  <2>. QED
    BY <2>1, <2>2, <2>3, <2>4, <2>5, <2>7, Zenon
<1>4. {} \in RegisterFields /\ {} \in ImmediateFields /\ {} \in Word
  BY DEF Word, RegisterFields, ImmediateFields
<1>5. CASE op \in ComputeI \cup ComputeM \cup {LOAD, LOADI}
  <2>1. Shape(op) = <<"reg", "im", "empty">> /\ Positions(op) = <<22, 0, 0>> /\ op # INT
    BY <1>5, KindsAndPlaces DEF ComputeI, ComputeM, LOAD, LOADI, INT
  <2>2. Shape(op)[1] = "reg" /\ Shape(op)[2] = "im" /\ Shape(op)[3] = "empty" /\ 2 \in 1 .. 3
    BY <2>1
  <2>3. w = Sum(Shl(FromNat(op), 25), Shl(i1, 22), Shl(i2, 0), Shl(i3, 0))
    BY <1>1, <2>1, AssembledIs
  <2>4. i2 \in ImmediateFields /\ i2 \in Word /\ i3 = {} /\ i1 = o1 /\ o1 \in RegisterFields
    BY <1>2, <1>3, <2>2
  <2>5. w = Joined(FromNat(op), {}, o1, {}, i2)
    BY <2>3, <2>4, FieldsLeftOut
  <2>6. /\ w \in Word /\ OpOf(w) = op /\ FieldsAre(w, FromNat(op), {}, o1, {}, i2)
        /\ machine_to_assembly(w) = [op |-> op, opd |-> machine_to_assembly(w).opd]
    BY <1>1, <1>4, <2>4, <2>5, JoinedRead
  <2>7. Immediate(w) = o2 /\ Field(w, 22, 3) = o1
    BY <1>3, <2>1, <2>2, <2>6, Zenon DEF FieldsAre
  <2>8. machine_to_assembly(w).opd = <<o1, o2>>
    BY <1>5, <2>6, <2>7, OperandsDecoded, Zenon
  <2>9. OperandsSaid(line) = <<o1, o2>>
    BY <1>2, <1>3, <2>2, SaidIs, Zenon
  <2>. QED
    BY <2>6, <2>8, <2>9, Zenon
<1>6. CASE op \in ComputeR
  <2>1. Shape(op) = <<"reg", "reg", "empty">> /\ Positions(op) = <<22, 19, 0>> /\ op \notin Transfers
    BY <1>6, KindsAndPlaces DEF ComputeR, Transfers, LOAD, LOADI, LOADIN, STORE, STOREIN, MOVE
  <2>2. Shape(op)[1] = "reg" /\ Shape(op)[2] = "reg" /\ Shape(op)[3] = "empty"
    BY <2>1
  <2>3. w = Sum(Shl(FromNat(op), 25), Shl(i1, 22), Shl(i2, 19), Shl(i3, 0))
    BY <1>1, <2>1, AssembledIs
  <2>4. i3 = {} /\ i1 = o1 /\ o1 \in RegisterFields /\ i2 = o2 /\ o2 \in RegisterFields
    BY <1>2, <2>2
  <2>5. w = Joined(FromNat(op), {}, o1, o2, {})
    <3>1. Shl({}, 25) = {} /\ Shl({}, 0) = {}
      BY DEF Shl
    <3>. QED
      BY <2>3, <2>4, <3>1 DEF Joined, Sum
  <2>6. /\ w \in Word /\ OpOf(w) = op /\ FieldsAre(w, FromNat(op), {}, o1, o2, {})
        /\ machine_to_assembly(w) = [op |-> op, opd |-> machine_to_assembly(w).opd]
    BY <1>1, <1>4, <2>4, <2>5, JoinedRead
  <2>7. Field(w, 22, 3) = o1 /\ Field(w, 19, 3) = o2
    BY <2>6, Zenon DEF FieldsAre
  <2>8. machine_to_assembly(w).opd = <<o1, o2>>
    BY <1>6, <2>6, <2>7, OperandsDecoded, Zenon
  <2>9. OperandsSaid(line) = <<o1, o2>>
    BY <1>2, <2>2, SaidIs, Zenon
  <2>. QED
    BY <2>6, <2>8, <2>9, Zenon
<1>7. CASE op = LOADIN
  <2>1. Shape(op) = <<"reg", "reg", "im">> /\ Positions(op) = <<25, 22, 0>> /\ op # INT /\ op \in Transfers
    BY <1>7, KindsAndPlaces DEF LOADIN, INT, Transfers
  <2>2. Shape(op)[1] = "reg" /\ Shape(op)[2] = "reg" /\ Shape(op)[3] = "im" /\ 3 \in 1 .. 3
    BY <2>1
  <2>3. w = Sum(Shl(FromNat(op), 25), Shl(i1, 25), Shl(i2, 22), Shl(i3, 0))
    BY <1>1, <2>1, AssembledIs
  <2>4. /\ i3 \in ImmediateFields /\ i3 \in Word
        /\ i1 = o1 /\ o1 \in RegisterFields /\ i2 = o2 /\ o2 \in RegisterFields
    BY <1>2, <1>3, <2>2
  <2>5. w = Joined(FromNat(op), o1, o2, {}, i3)
    BY <2>3, <2>4, FieldsLeftOut
  <2>6. /\ w \in Word /\ OpOf(w) = op /\ FieldsAre(w, FromNat(op), o1, o2, {}, i3)
        /\ machine_to_assembly(w) = [op |-> op, opd |-> machine_to_assembly(w).opd]
    BY <1>1, <1>4, <2>1, <2>4, <2>5, JoinedRead
  <2>7. Immediate(w) = o3 /\ Field(w, 25, 3) = o1 /\ Field(w, 22, 3) = o2
    BY <1>1, <1>3, <1>7, <2>1, <2>2, <2>6, OpcodeBits, Zenon DEF FieldsAre
  <2>8. machine_to_assembly(w).opd = <<o1, o2, o3>>
    BY <1>7, <2>6, <2>7, OperandsDecoded, Zenon
  <2>9. OperandsSaid(line) = <<o1, o2, o3>>
    BY <1>2, <1>3, <2>2, SaidIs, Zenon
  <2>. QED
    BY <2>6, <2>8, <2>9, Zenon
<1>8. CASE op = STORE
  <2>1. Shape(op) = <<"reg", "im", "empty">> /\ Positions(op) = <<25, 0, 0>> /\ op # INT /\ op \in Transfers
    BY <1>8, KindsAndPlaces DEF STORE, INT, Transfers
  <2>2. Shape(op)[1] = "reg" /\ Shape(op)[2] = "im" /\ Shape(op)[3] = "empty" /\ 2 \in 1 .. 3
    BY <2>1
  <2>3. w = Sum(Shl(FromNat(op), 25), Shl(i1, 25), Shl(i2, 0), Shl(i3, 0))
    BY <1>1, <2>1, AssembledIs
  <2>4. i2 \in ImmediateFields /\ i2 \in Word /\ i3 = {} /\ i1 = o1 /\ o1 \in RegisterFields
    BY <1>2, <1>3, <2>2
  <2>5. w = Joined(FromNat(op), o1, {}, {}, i2)
    BY <2>3, <2>4, FieldsLeftOut
  <2>6. /\ w \in Word /\ OpOf(w) = op /\ FieldsAre(w, FromNat(op), o1, {}, {}, i2)
        /\ machine_to_assembly(w) = [op |-> op, opd |-> machine_to_assembly(w).opd]
    BY <1>1, <1>4, <2>1, <2>4, <2>5, JoinedRead
  <2>7. Immediate(w) = o2 /\ Field(w, 25, 3) = o1
    BY <1>1, <1>3, <1>8, <2>1, <2>2, <2>6, OpcodeBits, Zenon DEF FieldsAre
  <2>8. machine_to_assembly(w).opd = <<o1, o2>>
    BY <1>8, <2>6, <2>7, OperandsDecoded, Zenon
  <2>9. OperandsSaid(line) = <<o1, o2>>
    BY <1>2, <1>3, <2>2, SaidIs, Zenon
  <2>. QED
    BY <2>6, <2>8, <2>9, Zenon
<1>9. CASE op = STOREIN
  <2>1. Shape(op) = <<"reg", "reg", "im">> /\ Positions(op) = <<22, 25, 0>> /\ op # INT /\ op \in Transfers
    BY <1>9, KindsAndPlaces DEF STOREIN, INT, Transfers
  <2>2. Shape(op)[1] = "reg" /\ Shape(op)[2] = "reg" /\ Shape(op)[3] = "im" /\ 3 \in 1 .. 3
    BY <2>1
  <2>3. w = Sum(Shl(FromNat(op), 25), Shl(i1, 22), Shl(i2, 25), Shl(i3, 0))
    BY <1>1, <2>1, AssembledIs
  <2>4. /\ i3 \in ImmediateFields /\ i3 \in Word
        /\ i1 = o1 /\ o1 \in RegisterFields /\ i2 = o2 /\ o2 \in RegisterFields
    BY <1>2, <1>3, <2>2
  <2>5. w = Joined(FromNat(op), o2, o1, {}, i3)
    BY <2>3, <2>4, FieldsLeftOut
  <2>6. /\ w \in Word /\ OpOf(w) = op /\ FieldsAre(w, FromNat(op), o2, o1, {}, i3)
        /\ machine_to_assembly(w) = [op |-> op, opd |-> machine_to_assembly(w).opd]
    BY <1>1, <1>4, <2>1, <2>4, <2>5, JoinedRead
  <2>7. Immediate(w) = o3 /\ Field(w, 25, 3) = o2 /\ Field(w, 22, 3) = o1
    BY <1>1, <1>3, <1>9, <2>1, <2>2, <2>6, OpcodeBits, Zenon DEF FieldsAre
  <2>8. machine_to_assembly(w).opd = <<o1, o2, o3>>
    BY <1>9, <2>6, <2>7, OperandsDecoded, Zenon
  <2>9. OperandsSaid(line) = <<o1, o2, o3>>
    BY <1>2, <1>3, <2>2, SaidIs, Zenon
  <2>. QED
    BY <2>6, <2>8, <2>9, Zenon
<1>10. CASE op = MOVE
  <2>1. Shape(op) = <<"reg", "reg", "empty">> /\ Positions(op) = <<25, 22, 0>> /\ op \in Transfers
    BY <1>10, KindsAndPlaces DEF Transfers
  <2>2. Shape(op)[1] = "reg" /\ Shape(op)[2] = "reg" /\ Shape(op)[3] = "empty"
    BY <2>1
  <2>3. w = Sum(Shl(FromNat(op), 25), Shl(i1, 25), Shl(i2, 22), Shl(i3, 0))
    BY <1>1, <2>1, AssembledIs
  <2>4. i3 = {} /\ i1 = o1 /\ o1 \in RegisterFields /\ i2 = o2 /\ o2 \in RegisterFields
    BY <1>2, <2>2
  <2>5. w = Joined(FromNat(op), o1, o2, {}, {})
    BY <1>4, <2>3, <2>4, FieldsLeftOut
  <2>6. /\ w \in Word /\ OpOf(w) = op /\ FieldsAre(w, FromNat(op), o1, o2, {}, {})
        /\ machine_to_assembly(w) = [op |-> op, opd |-> machine_to_assembly(w).opd]
    BY <1>1, <1>4, <2>1, <2>4, <2>5, JoinedRead
  <2>7. Field(w, 25, 3) = o1 /\ Field(w, 22, 3) = o2
    BY <1>1, <1>10, <2>6, OpcodeBits, Zenon DEF FieldsAre
  <2>8. machine_to_assembly(w).opd = <<o1, o2>>
    BY <1>10, <2>6, <2>7, OperandsDecoded, Zenon
  <2>9. OperandsSaid(line) = <<o1, o2>>
    BY <1>2, <2>2, SaidIs, Zenon
  <2>. QED
    BY <2>6, <2>8, <2>9, Zenon
<1>11. CASE op \in Jumps \cup {INT}
  <2>1. Shape(op) = <<"im", "empty", "empty">> /\ Positions(op) = <<0, 0, 0>>
    BY <1>11, KindsAndPlaces
  <2>2. Shape(op)[1] = "im" /\ Shape(op)[2] = "empty" /\ Shape(op)[3] = "empty" /\ 1 \in 1 .. 3
    BY <2>1
  <2>3. w = Sum(Shl(FromNat(op), 25), Shl(i1, 0), Shl(i2, 0), Shl(i3, 0))
    BY <1>1, <2>1, AssembledIs
  <2>4. i1 \in ImmediateFields /\ i1 \in Word /\ i2 = {} /\ i3 = {}
    BY <1>2, <1>3, <2>2
  <2>5. w = Joined(FromNat(op), {}, {}, {}, i1)
    BY <2>3, <2>4, FieldsLeftOut
  <2>6. /\ w \in Word /\ OpOf(w) = op /\ FieldsAre(w, FromNat(op), {}, {}, {}, i1)
        /\ machine_to_assembly(w) = [op |-> op, opd |-> machine_to_assembly(w).opd]
    BY <1>1, <1>4, <2>4, <2>5, JoinedRead
  <2>7. Immediate(w) = o1
    BY <1>3, <2>2, <2>6, Zenon
  <2>8. machine_to_assembly(w).opd = <<o1>>
    BY <1>11, <2>6, <2>7, OperandsDecoded, Zenon
  <2>9. OperandsSaid(line) = <<o1>>
    BY <1>2, <1>3, <2>2, SaidIs, Zenon
  <2>. QED
    BY <2>6, <2>8, <2>9, Zenon
<1>12. CASE op \in {NOP, RTI}
  <2>1. Shape(op) = <<"empty", "empty", "empty">> /\ Positions(op) = <<0, 0, 0>>
    BY <1>12, KindsAndPlaces
  <2>2. Shape(op)[1] = "empty" /\ Shape(op)[2] = "empty" /\ Shape(op)[3] = "empty"
    BY <2>1
  <2>3. w = Sum(Shl(FromNat(op), 25), Shl(i1, 0), Shl(i2, 0), Shl(i3, 0))
    BY <1>1, <2>1, AssembledIs
  <2>4. w = Joined(FromNat(op), {}, {}, {}, {})
    BY <1>2, <1>4, <2>2, <2>3, FieldsLeftOut
  <2>5. /\ w \in Word /\ OpOf(w) = op
        /\ machine_to_assembly(w) = [op |-> op, opd |-> machine_to_assembly(w).opd]
    BY <1>1, <1>4, <2>4, JoinedRead
  <2>6. machine_to_assembly(w).opd = <<>>
    BY <1>12, <2>5, OperandsDecoded, Zenon
  <2>7. OperandsSaid(line) = <<>>
    BY <1>2, <2>2, SaidIs, Zenon
  <2>. QED
    BY <2>5, <2>6, <2>7, Zenon
<1>. QED
  BY <1>1, <1>5, <1>6, <1>7, <1>8, <1>9, <1>10, <1>11, <1>12, OpcodeCases, Zenon

(* The mnemonic of an instruction is the one it was written with. *)
LEMMA ShownMnemonic ==
    ASSUME NEW line, IsLine(line), Plain(line)
    PROVE  ShownOp(FinalOp(line)) = line.op
<1>1. line.op \in (Opcodes \ ComputeM) \cup {IVTE} /\ FinalOp(line) \notin {IVTE, IVTEDP}
  BY DEF IsLine, Plain, IsEntry
<1>2. CASE FinalOp(line) = line.op
  <2>1. line.op \notin ComputeM
    BY <1>1, <1>2
  <2>. QED
    BY <1>2, <2>1, Zenon DEF ShownOp
<1>3. CASE line.op \in ComputeR /\ FinalOp(line) = line.op + 8
  <2>1. line.op + 8 \in ComputeM /\ (line.op + 8) - 8 = line.op
    BY <1>3 DEF ComputeR, ComputeM
  <2>. QED
    BY <1>3, <2>1, Zenon DEF ShownOp
<1>4. FinalOp(line) \in {line.op, IVTEDP} \/ (line.op \in ComputeR /\ FinalOp(line) = line.op + 8)
  BY Zenon DEF FinalOp
<1>. QED
  BY <1>1, <1>2, <1>3, <1>4

(* So are its operands. *)
LEMMA ShownOperands ==
    ASSUME NEW line, IsLine(line), Accepted(line), Plain(line), NEW op, op = FinalOp(line), NEW k \in 1 .. 3
    PROVE  /\ Shape(op)[k] = "reg" => Reg(ToNat(OperandSaid(line.opd[k]))) = line.opd[k]
           /\ Shape(op)[k] = "im" => Im(ToInt(OperandSaid(line.opd[k]))) = line.opd[k]
           /\ Shape(op)[k] = "empty" => Empty = line.opd[k]
<1>1. 8 <= Weight(31) /\ Weight(22) <= Weight(31) /\ Weight(21) <= Weight(31) /\ Weight(31) \in Int
      /\ Weight(22) \in Int /\ Weight(21) \in Int
  BY Powers DEF Weight
<1>2. ASSUME Shape(op)[k] = "reg"
      PROVE  Reg(ToNat(OperandSaid(line.opd[k]))) = line.opd[k]
  <2>1. PICK r \in Registers : line.opd[k] = Reg(r) /\ OperandSaid(line.opd[k]) = FromNat(r)
    BY <1>2, OperandWords, Zenon
  <2>2. r \in 0 .. Weight(31) - 1
    BY <1>1 DEF Registers, PC, DS
  <2>. QED
    BY <2>1, <2>2, NatOfBits
<1>3. ASSUME Shape(op)[k] = "im"
      PROVE  Im(ToInt(OperandSaid(line.opd[k]))) = line.opd[k]
  <2>1. PICK n \in Int : /\ line.opd[k] = Im(n) /\ OperandSaid(line.opd[k]) = FromInt(n)
                         /\ OperandWord(line.opd[k]) = Low(FromInt(n), 22) /\ ImInRange(op, n)
    BY <1>3, OperandWords, Zenon
  <2>2. n \in 0 .. Weight(22) - 1 \/ n \in -Weight(21) .. Weight(21) - 1
    BY <2>1, Zenon DEF ImInRange, Weight
  <2>3. n \in -Weight(31) .. Weight(31) - 1
    BY <1>1, <2>2
  <2>. QED
    BY <2>1, <2>3, IntOfBits
<1>4. ASSUME Shape(op)[k] = "empty"
      PROVE  Empty = line.opd[k]
  BY <1>4, AcceptedOperand
<1>. QED
  BY <1>2, <1>3, <1>4

\* An operand as the debugger shows it.
Shown(op, said, k) ==
    IF k > Len(said) THEN Empty
    ELSE IF Shape(op)[k] = "reg" THEN Reg(ToNat(said[k]))
    ELSE Im(ToInt(said[k]))

(* So the line that is shown is the one that was assembled. *)
LEMMA ShownIs ==
    ASSUME NEW line, IsLine(line), Accepted(line), Plain(line), NEW op, op = FinalOp(line)
    PROVE  assembly_to_str([op |-> op, opd |-> OperandsSaid(line)]) = line
<1> DEFINE o1 == OperandSaid(line.opd[1])
           o2 == OperandSaid(line.opd[2])
           o3 == OperandSaid(line.opd[3])
<1>1. 1 \in 1 .. 3 /\ 2 \in 1 .. 3 /\ 3 \in 1 .. 3
  OBVIOUS
<1>2. PICK said : said = OperandsSaid(line)
  OBVIOUS
<1>3. assembly_to_str([op |-> op, opd |-> said]) =
        Line(ShownOp(op), Shown(op, said, 1), Shown(op, said, 2), Shown(op, said, 3))
  BY DEF assembly_to_str, Shown
<1>4. ASSUME NEW k \in 1 .. 3
      PROVE  /\ Shape(op)[k] = "reg" => Reg(ToNat(OperandSaid(line.opd[k]))) = line.opd[k]
             /\ Shape(op)[k] = "im" => Im(ToInt(OperandSaid(line.opd[k]))) = line.opd[k]
             /\ Shape(op)[k] = "empty" => Empty = line.opd[k]
             /\ Shape(op)[k] \in {"reg", "im"} => ~ IsEmpty(line.opd[k])
             /\ Shape(op)[k] = "empty" => IsEmpty(line.opd[k])
  <2>1. Shape(op)[k] \in {"reg", "im"} => ~ IsEmpty(line.opd[k])
    BY OperandWords, Zenon
  <2>2. Shape(op)[k] = "empty" => IsEmpty(line.opd[k])
    BY OperandWords, Zenon
  <2>3. /\ Shape(op)[k] = "reg" => Reg(ToNat(OperandSaid(line.opd[k]))) = line.opd[k]
        /\ Shape(op)[k] = "im" => Im(ToInt(OperandSaid(line.opd[k]))) = line.opd[k]
        /\ Shape(op)[k] = "empty" => Empty = line.opd[k]
    BY ShownOperands, Zenon
  <2>. QED
    BY <2>1, <2>2, <2>3, Zenon
<1>5. \/ Shape(op) = <<"empty", "empty", "empty">>
      \/ Shape(op) = <<"im", "empty", "empty">>
      \/ Shape(op) = <<"reg", "im", "empty">> \/ Shape(op) = <<"reg", "reg", "empty">>
      \/ Shape(op) = <<"reg", "reg", "im">>
  <2>1. op \in Opcodes
    BY PlainOpcode
  <2>. QED
    BY <2>1, OpcodeCases, KindsAndPlaces, Zenon
<1>6. Shown(op, said, 1) = line.opd[1] /\ Shown(op, said, 2) = line.opd[2] /\ Shown(op, said, 3) = line.opd[3]
  <2>1. CASE Shape(op) = <<"empty", "empty", "empty">>
    <3>1. Shape(op)[1] = "empty" /\ Shape(op)[2] = "empty" /\ Shape(op)[3] = "empty"
      BY <2>1
    <3>2. said = <<>>
      BY <1>1, <1>2, <1>4, <3>1, SaidIs, Zenon
    <3>3. Len(said) = 0
      BY <3>2
    <3>. QED
      BY <1>1, <1>4, <3>1, <3>3 DEF Shown
  <2>2. CASE Shape(op) = <<"im", "empty", "empty">>
    <3>1. Shape(op)[1] = "im" /\ Shape(op)[2] = "empty" /\ Shape(op)[3] = "empty"
      BY <2>2
    <3>2. said = <<o1>>
      BY <1>1, <1>2, <1>4, <3>1, SaidIs, Zenon
    <3>3. Len(said) = 1 /\ said[1] = o1
      BY <3>2
    <3>. QED
      BY <1>1, <1>4, <3>1, <3>3 DEF Shown
  <2>3. CASE Shape(op) = <<"reg", "im", "empty">> \/ Shape(op) = <<"reg", "reg", "empty">>
    <3>1. Shape(op)[1] = "reg" /\ Shape(op)[2] \in {"reg", "im"} /\ Shape(op)[3] = "empty"
      BY <2>3
    <3>2. said = <<o1, o2>>
      BY <1>1, <1>2, <1>4, <3>1, SaidIs, Zenon
    <3>3. Len(said) = 2 /\ said[1] = o1 /\ said[2] = o2
      BY <3>2
    <3>. QED
      BY <1>1, <1>4, <3>1, <3>3 DEF Shown
  <2>4. CASE Shape(op) = <<"reg", "reg", "im">>
    <3>1. Shape(op)[1] = "reg" /\ Shape(op)[2] = "reg" /\ Shape(op)[3] = "im"
      BY <2>4
    <3>2. said = <<o1, o2, o3>>
      BY <1>1, <1>2, <1>4, <3>1, SaidIs, Zenon
    <3>3. Len(said) = 3 /\ said[1] = o1 /\ said[2] = o2 /\ said[3] = o3
      BY <3>2
    <3>. QED
      BY <1>1, <1>4, <3>1, <3>3 DEF Shown
  <2>. QED
    BY <1>5, <2>1, <2>2, <2>3, <2>4
<1>7. ShownOp(op) = line.op
  BY ShownMnemonic
<1>8. line = Line(line.op, line.opd[1], line.opd[2], line.opd[3])
  BY DEF IsLine
<1>. QED
  BY <1>2, <1>3, <1>6, <1>7, <1>8, Zenon

(* Until the CPU starts, each accepted line of a program that is plain, in any *)
(* SRAM and at any address, is read from its cell with the opcode and the      *)
(* operands it was written with (assembly_to_machine and machine_to_assembly   *)
(* of assemble.c).  Not plain are entries of the table of interrupts, lines    *)
(* with a device name as a register, and INT with a negative number.           *)
THEOREM RetiLoaded == Spec => []LoadedAsWritten
<1>1. LoaderInv => LoadedAsWritten
  <2> SUFFICES ASSUME LoaderInv, phase \in {"isrs", "prgrm"}, NEW a \in DOMAIN source, Plain(source[a])
               PROVE  machine_to_assembly(sram[FromNat(a)]) =
                        [op |-> FinalOp(source[a]), opd |-> OperandsSaid(source[a])]
    BY Zenon DEF LoadedAsWritten
  <2>1. sram[FromNat(a)] = assembly_to_machine(source[a])
    BY DEF LoaderInv, SourceWritten
  <2>2. IsLine(source[a]) /\ Accepted(source[a])
    BY DEF LoaderInv, SourceAccepted
  <2>. QED
    BY <2>1, <2>2, RoundTrip, Zenon
<1>2. Init => LoaderInv
  BY LoaderInvInit, RetiAssumption
<1>3. LoaderInv /\ [Next]_vars => LoaderInv'
  BY LoaderInvStep, RetiAssumption
<1>. QED
  BY <1>1, <1>2, <1>3, PTL DEF Spec

(* The line the debugger shows for the word of a plain line (assembly_to_str) *)
(* is one the assembler accepts, and gives the same word again.  Of INT -1,   *)
(* which is accepted, this is false: it is shown as INT 4194303 (see Plain).  *)
THEOREM RetiShown == Spec => []ShownAsAssembled
<1>1. LoaderInv => ShownAsAssembled
  <2> SUFFICES ASSUME LoaderInv, phase \in {"isrs", "prgrm"}, NEW a \in DOMAIN source, Plain(source[a]),
                      NEW w, w = sram[FromNat(a)],
                      NEW shown, shown = assembly_to_str(machine_to_assembly(w))
               PROVE  Accepted(shown) /\ assembly_to_machine(shown) = w
    BY Zenon DEF ShownAsAssembled
  <2>1. w = assembly_to_machine(source[a])
    BY DEF LoaderInv, SourceWritten
  <2>2. IsLine(source[a]) /\ Accepted(source[a])
    BY DEF LoaderInv, SourceAccepted
  <2>3. machine_to_assembly(w) = [op |-> FinalOp(source[a]), opd |-> OperandsSaid(source[a])]
    BY <2>1, <2>2, RoundTrip, Zenon
  <2>4. shown = source[a]
    BY <2>2, <2>3, ShownIs, Zenon
  <2>. QED
    BY <2>1, <2>2, <2>4, Zenon
<1>2. Init => LoaderInv
  BY LoaderInvInit, RetiAssumption
<1>3. LoaderInv /\ [Next]_vars => LoaderInv'
  BY LoaderInvStep, RetiAssumption
<1>. QED
  BY <1>1, <1>2, <1>3, PTL DEF Spec

----------------------------------------------------------------------------
\* Arithmetic on words, for the start program.

(* Words whose lower bits have the same value have the same lower bits. *)
LEMMA SameValue ==
    ASSUME NEW v, NEW w, NEW k \in 0 .. 31, LowValues(v)[k] = LowValues(w)[k]
    PROVE  \A b \in 0 .. k - 1 : b \in v <=> b \in w
<1> DEFINE S == {m \in 0 .. 31 : LowValues(v)[m] = LowValues(w)[m] =>
                                   \A b \in 0 .. m - 1 : b \in v <=> b \in w}
<1>1. 0 \in S
  OBVIOUS
<1>2. ASSUME NEW m \in 0 .. 30, m \in S
      PROVE  m + 1 \in S
  <2>1. m \in 0 .. 31 /\ m + 1 \in 0 .. 31 /\ \A b \in 0 .. (m + 1) - 1 : b = m \/ b \in 0 .. m - 1
    OBVIOUS
  <2>2. ASSUME LowValues(v)[m + 1] = LowValues(w)[m + 1]
        PROVE  (m \in v <=> m \in w) /\ LowValues(v)[m] = LowValues(w)[m]
    <3>1. PICK p \in Int : p = Weight(m) /\ p > 0
      BY <2>1, WeightType
    <3>2. PICK x \in 0 .. p - 1, y \in 0 .. p - 1 : x = LowValues(v)[m] /\ y = LowValues(w)[m]
      BY <2>1, <3>1, LowValueType
    <3>3. /\ m \in v => LowValues(v)[m + 1] = x + p
          /\ m \notin v => LowValues(v)[m + 1] = x
          /\ m \in w => LowValues(w)[m + 1] = y + p
          /\ m \notin w => LowValues(w)[m + 1] = y
      BY <2>1, <3>1, <3>2, ValueStep
    <3>4. x + p # y /\ y + p # x
      BY <3>1, <3>2
    <3>5. m \in v <=> m \in w
      BY <2>2, <3>3, <3>4
    <3>6. x = y
      BY <2>2, <3>1, <3>2, <3>3, <3>5
    <3>. QED
      BY <3>2, <3>5, <3>6
  <2>3. LowValues(v)[m] = LowValues(w)[m] => \A b \in 0 .. m - 1 : b \in v <=> b \in w
    BY <1>2
  <2>4. ASSUME LowValues(v)[m + 1] = LowValues(w)[m + 1], NEW b \in 0 .. (m + 1) - 1
        PROVE  b \in v <=> b \in w
    BY <2>1, <2>2, <2>3, <2>4
  <2>. QED
    BY <2>1, <2>4
<1> HIDE DEF S
<1>3. 0 .. 31 \subseteq S
  BY <1>1, <1>2, UpTo
<1>. QED
  BY <1>3 DEF S

(* A word without the bit of the sign is the bits of its value, *)
LEMMA BitsOfValue ==
    ASSUME NEW w \in Word, 31 \notin w
    PROVE  ToNat(w) \in 0 .. Weight(31) - 1 /\ FromNat(ToNat(w)) = w
<1>1. \A v : (31 \notin v) => ToNat(v) = LowValues(v)[31] /\ ToNat(v) \in 0 .. Weight(31) - 1
  <2>1. 31 \in 0 .. 31 /\ \A b \in 31 .. 31 : b = 31
    OBVIOUS
  <2>. QED
    BY <2>1, NatBelow
<1>2. PICK n \in 0 .. Weight(31) - 1 : n = ToNat(w)
  BY <1>1
<1>3. FromNat(n) \in Word /\ 31 \notin FromNat(n)
  BY NumbersAreWords
<1>4. LowValues(FromNat(n))[31] = LowValues(w)[31]
  BY <1>1, <1>2, <1>3, NatOfBits
<1>5. \A b \in 0 .. 30 : b \in FromNat(n) <=> b \in w
  <2>1. 31 \in 0 .. 31 /\ 31 - 1 = 30
    OBVIOUS
  <2>. QED
    BY <1>4, <2>1, SameValue
<1>6. \A b \in Bits : b \in 0 .. 30 \/ b = 31
  BY DEF Bits
<1>7. FromNat(n) = w
  BY <1>3, <1>5, <1>6, SameBits
<1>. QED
  BY <1>2, <1>7

(* and every word is the bits of the number it stands for with its sign. *)
LEMMA BitsOfInt ==
    ASSUME NEW w \in Word
    PROVE  FromInt(ToInt(w)) = w
<1>1. CASE 31 \notin w
  <2>1. PICK n \in Nat : n = ToNat(w)
    BY <1>1, BitsOfValue, WeightType
  <2>. QED
    BY <1>1, <2>1, BitsOfValue DEF FromInt, ToInt
<1>2. CASE 31 \in w
  <2>1. Not(w) \in Word /\ 31 \notin Not(w) /\ Not(Not(w)) = w
    BY <1>2 DEF Not, Word, Bits
  <2>2. PICK n \in Nat : n = ToNat(Not(w))
    BY <2>1, BitsOfValue, WeightType
  <2>3. ToInt(w) = -n - 1 /\ -n - 1 < 0 /\ -(-n - 1) - 1 = n
    BY <1>2, <2>2 DEF ToInt
  <2>4. FromInt(-n - 1) = Not(FromNat(n))
    BY <2>3 DEF FromInt
  <2>. QED
    BY <2>1, <2>2, <2>3, <2>4, BitsOfValue
<1>. QED
  BY <1>1, <1>2

(* Where a carry enters. *)
LEMMA CarryStep ==
    ASSUME NEW v \in Word, NEW w \in Word, NEW m \in 0 .. 30
    PROVE  /\ 0 \notin Carry(v, w)
           /\ m + 1 \in Carry(v, w) <=>
                \/ m \in v /\ m \in w
                \/ (m \in v \/ m \in w) /\ m \in Carry(v, w)
<1>1. \A c \in v \cap w : c \in Int /\ c >= 0
  BY DEF Word, Bits
<1>2. 0 \notin Carry(v, w)
  BY <1>1 DEF Carry
<1>3. m + 1 \in Bits /\ m \in Bits /\ m \in Int
  BY DEF Bits
<1>4. ASSUME NEW b \in Bits
      PROVE  b \in Carry(v, w) <=>
               \E c \in v \cap w : c < b /\ \A d \in (c + 1) .. (b - 1) : d \in v \/ d \in w
  BY DEF Carry
<1>5. ASSUME m \in v, m \in w
      PROVE  m + 1 \in Carry(v, w)
  <2>1. \A d \in (m + 1) .. ((m + 1) - 1) : FALSE
    OBVIOUS
  <2>. QED
    BY <1>3, <1>4, <1>5, <2>1
<1>6. ASSUME m \in v \/ m \in w, m \in Carry(v, w)
      PROVE  m + 1 \in Carry(v, w)
  <2>1. PICK c \in v \cap w : c < m /\ \A d \in (c + 1) .. (m - 1) : d \in v \/ d \in w
    BY <1>3, <1>4, <1>6
  <2>2. c < m + 1 /\ c \in Int
    BY <1>1, <2>1
  <2>3. \A d \in (c + 1) .. ((m + 1) - 1) : d = m \/ d \in (c + 1) .. (m - 1)
    BY <2>2
  <2>. QED
    BY <1>3, <1>4, <1>6, <2>1, <2>2, <2>3
<1>7. ASSUME m + 1 \in Carry(v, w), ~ (m \in v /\ m \in w)
      PROVE  (m \in v \/ m \in w) /\ m \in Carry(v, w)
  <2>1. PICK c \in v \cap w : c < m + 1 /\ \A d \in (c + 1) .. ((m + 1) - 1) : d \in v \/ d \in w
    BY <1>3, <1>4, <1>7
  <2>2. c < m /\ c \in Int
    BY <1>1, <1>7, <2>1
  <2>3. m \in (c + 1) .. ((m + 1) - 1) /\ \A d \in (c + 1) .. (m - 1) : d \in (c + 1) .. ((m + 1) - 1)
    BY <2>2
  <2>. QED
    BY <1>3, <1>4, <2>1, <2>2, <2>3
<1>. QED
  BY <1>2, <1>5, <1>6, <1>7

(* The sum of two words, bit by bit. *)
LEMMA PlusBits ==
    ASSUME NEW v \in Word, NEW w \in Word, NEW b \in Bits
    PROVE  b \in Plus(v, w) <=> ((b \in v <=> b \in w) <=> b \in Carry(v, w))
BY DEF Plus, Xor

(* The lower bits of the sum, with the carry, are worth what those of the two *)
(* words are.                                                                 *)
LEMMA SumOfValues ==
    ASSUME NEW v \in Word, NEW w \in Word, NEW k \in 0 .. 31
    PROVE  LowValues(Plus(v, w))[k] + (IF k \in Carry(v, w) THEN Weight(k) ELSE 0)
             = LowValues(v)[k] + LowValues(w)[k]
<1> DEFINE Equal(m) == LowValues(Plus(v, w))[m] + (IF m \in Carry(v, w) THEN Weight(m) ELSE 0)
                         = LowValues(v)[m] + LowValues(w)[m]
           S == {m \in 0 .. 31 : Equal(m)}
<1>1. 0 \in S
  <2>1. 0 \notin Carry(v, w)
    <3>1. 0 \in 0 .. 30
      OBVIOUS
    <3>. QED
      BY <3>1, CarryStep
  <2>. QED
    BY <2>1, ValueStep
<1>2. ASSUME NEW m \in 0 .. 30, m \in S
      PROVE  m + 1 \in S
  <2>1. m \in 0 .. 31 /\ m + 1 \in 0 .. 31
    OBVIOUS
  <2>2. PICK p \in Int : p = Weight(m)
    BY <2>1, WeightType
  <2>3. Weight(m + 1) = 2 * p
    BY <2>2, Weights
  <2>4. PICK x \in Int, y \in Int, z \in Int :
          x = LowValues(v)[m] /\ y = LowValues(w)[m] /\ z = LowValues(Plus(v, w))[m]
    <3>1. Weight(m) \in Int
      BY <2>1, WeightType
    <3>2. \A u : LowValues(u)[m] \in Int
      BY <2>1, <3>1, LowValueType
    <3>. QED
      BY <3>2
  <2>5. /\ m \in v => LowValues(v)[m + 1] = x + p
        /\ m \notin v => LowValues(v)[m + 1] = x
        /\ m \in w => LowValues(w)[m + 1] = y + p
        /\ m \notin w => LowValues(w)[m + 1] = y
        /\ m \in Plus(v, w) => LowValues(Plus(v, w))[m + 1] = z + p
        /\ m \notin Plus(v, w) => LowValues(Plus(v, w))[m + 1] = z
    BY <2>1, <2>2, <2>4, ValueStep
  <2>6. m \in Plus(v, w) <=> ((m \in v <=> m \in w) <=> m \in Carry(v, w))
    <3>1. m \in Bits
      BY DEF Bits
    <3>. QED
      BY <3>1, PlusBits, Zenon
  <2>7. m + 1 \in Carry(v, w) <=>
          \/ m \in v /\ m \in w
          \/ (m \in v \/ m \in w) /\ m \in Carry(v, w)
    BY CarryStep
  <2>8. z + (IF m \in Carry(v, w) THEN p ELSE 0) = x + y
    <3>1. Equal(m)
      BY <1>2
    <3>. QED
      BY <2>2, <2>4, <3>1
  <2>9. LowValues(Plus(v, w))[m + 1] + (IF m + 1 \in Carry(v, w) THEN 2 * p ELSE 0)
          = LowValues(v)[m + 1] + LowValues(w)[m + 1]
    <3>1. CASE m \in v /\ m \in w
      BY <2>5, <2>6, <2>7, <2>8, <3>1
    <3>2. CASE m \in v /\ m \notin w
      BY <2>5, <2>6, <2>7, <2>8, <3>2
    <3>3. CASE m \notin v /\ m \in w
      BY <2>5, <2>6, <2>7, <2>8, <3>3
    <3>4. CASE m \notin v /\ m \notin w
      BY <2>5, <2>6, <2>7, <2>8, <3>4
    <3>. QED
      BY <3>1, <3>2, <3>3, <3>4
  <2>. QED
    BY <2>1, <2>3, <2>9
<1> HIDE DEF S
<1>3. 0 .. 31 \subseteq S
  BY <1>1, <1>2, UpTo
<1>. QED
  BY <1>3 DEF S

(* So the words of two numbers are added as the numbers are, in both halves of *)
(* the addresses.                                                              *)
LEMMA PlusIsSum ==
    ASSUME NEW m \in Nat, NEW n \in Nat, m + n < Weight(31)
    PROVE  /\ Plus(FromNat(m), FromNat(n)) = FromNat(m + n)
           /\ Plus({31} \cup FromNat(m), FromNat(n)) = {31} \cup FromNat(m + n)
<1>1. PICK v \in Word, w \in Word : v = FromNat(m) /\ w = FromNat(n) /\ 31 \notin v /\ 31 \notin w
  BY NumbersAreWords
<1>2. Weight(31) \in Int /\ 31 \in 0 .. 31 /\ 31 \in Bits /\ 0 \in Nat
  BY WeightType DEF Bits
<1>3. m \in 0 .. Weight(31) - 1 /\ n \in 0 .. Weight(31) - 1
  BY <1>2
<1>4. \A u : (31 \notin u) => ToNat(u) = LowValues(u)[31]
  <2>1. \A b \in 31 .. 31 : b = 31
    OBVIOUS
  <2>. QED
    BY <1>2, <2>1, NatBelow
<1>5. LowValues(v)[31] = m /\ LowValues(w)[31] = n
  BY <1>1, <1>3, <1>4, NatOfBits
<1>6. Plus(v, w) \in Word
  BY <1>2, WordsClosed
<1>7. LowValues(Plus(v, w))[31] \in Int /\ LowValues(Plus(v, w))[31] >= 0
  BY <1>2, LowValueType
<1>8. LowValues(Plus(v, w))[31] + (IF 31 \in Carry(v, w) THEN Weight(31) ELSE 0) = m + n
  BY <1>2, <1>5, SumOfValues
<1>9. 31 \notin Carry(v, w) /\ LowValues(Plus(v, w))[31] = m + n
  BY <1>2, <1>7, <1>8
<1>10. 31 \notin Plus(v, w)
  BY <1>1, <1>2, <1>9, PlusBits
<1>11. Plus(v, w) = FromNat(m + n)
  BY <1>4, <1>6, <1>9, <1>10, BitsOfValue
<1>12. Plus({31} \cup v, w) = {31} \cup Plus(v, w)
  <2>1. PICK u \in Word : u = {31} \cup v
    BY <1>2 DEF Word
  <2>2. u \cap w = v \cap w
    BY <1>1, <2>1
  <2>3. ASSUME NEW b \in Bits, NEW c \in v \cap w
        PROVE  (c + 1) .. (b - 1) \subseteq u \cup w <=> (c + 1) .. (b - 1) \subseteq v \cup w
    <3>1. 31 \notin (c + 1) .. (b - 1)
      BY DEF Bits
    <3>. QED
      BY <2>1, <3>1
  <2>4. Carry(u, w) = Carry(v, w)
    BY <2>2, <2>3 DEF Carry
  <2>5. Plus(u, w) \in Word /\ {31} \cup Plus(v, w) \in Word
    BY <1>2, <1>6, WordsClosed DEF Word
  <2>6. ASSUME NEW b \in Bits
        PROVE  b \in Plus(u, w) <=> b \in {31} \cup Plus(v, w)
    <3>1. /\ b \in Plus(u, w) <=> ((b \in u <=> b \in w) <=> b \in Carry(u, w))
          /\ b \in Plus(v, w) <=> ((b \in v <=> b \in w) <=> b \in Carry(v, w))
      BY PlusBits
    <3>2. CASE b = 31
      BY <1>1, <1>9, <2>1, <2>4, <3>1, <3>2
    <3>3. CASE b # 31
      BY <2>1, <2>4, <3>1, <3>3
    <3>. QED
      BY <3>2, <3>3
  <2>. QED
    BY <2>1, <2>5, <2>6, SameBits
<1>. QED
  BY <1>1, <1>11, <1>12

(* Multiplied by 1024, a word is moved by ten positions. *)
LEMMA TimesPower ==
    ASSUME NEW x \in Word
    PROVE  FromInt(1024) = {10} /\ Times(x, {10}) = Shl(x, 10)
<1>1. FromInt(1024) = {10}
  <2>1. PICK n \in Nat : n = 1024
    OBVIOUS
  <2>2. FromInt(n) = FromNat(n)
    BY DEF FromInt
  <2>3. {10} \in Word /\ 31 \notin {10} /\ \A b \in 11 .. 31 : b \notin {10}
    BY DEF Word, Bits
  <2>4. ToNat({10}) = LowValues({10})[11]
    <3>1. 11 \in 0 .. 31
      OBVIOUS
    <3>. QED
      BY <2>3, <3>1, NatBelow
  <2>5. LowValues({10})[10] = 0
    <3> DEFINE S == {m \in 0 .. 10 : LowValues({10})[m] = 0}
    <3>1. 0 \in S
      BY ValueStep
    <3>2. ASSUME NEW m \in 0 .. 10 - 1, m \in S
          PROVE  m + 1 \in S
      <4>1. m \in 0 .. 31 /\ m \notin {10} /\ m + 1 \in 0 .. 10
        OBVIOUS
      <4>2. LowValues({10})[m] = 0
        BY <3>2
      <4>3. LowValues({10})[m + 1] = 0
        BY <4>1, <4>2, ValueStep
      <4>. QED
        BY <4>1, <4>3
    <3> HIDE DEF S
    <3>3. 10 \in Nat
      OBVIOUS
    <3>4. 0 .. 10 \subseteq S
      BY <3>1, <3>2, <3>3, UpTo
    <3>5. 10 \in S
      BY <3>4
    <3>. QED
      BY <3>5 DEF S
  <2>6. LowValues({10})[11] = n
    <3>1. 10 \in 0 .. 31 /\ 10 + 1 = 11 /\ 10 \in {10}
      OBVIOUS
    <3>2. Weight(10) = n
      BY <2>1, Powers DEF Weight
    <3>3. LowValues({10})[10 + 1] = LowValues({10})[10] + Weight(10)
      BY <3>1, ValueStep
    <3>. QED
      BY <2>5, <3>1, <3>2, <3>3
  <2>. QED
    BY <2>1, <2>2, <2>3, <2>4, <2>6, BitsOfValue
<1>2. \A y \in Word : Plus({}, y) = y
  <2>1. ASSUME NEW y \in Word
        PROVE  Plus({}, y) = y
    <3>1. {} \in Word
      BY DEF Word
    <3>2. Carry({}, y) = {}
      BY DEF Carry
    <3>3. Plus({}, y) \in Word
      <4>1. 0 \in Nat
        OBVIOUS
      <4>. QED
        BY <3>1, <4>1, WordsClosed
    <3>4. \A b \in Bits : b \in Plus({}, y) <=> b \in y
      BY <3>1, <3>2, PlusBits
    <3>. QED
      BY <3>3, <3>4, SameBits
  <2>. QED
    BY <2>1
<1>3. PICK y \in Word : y = Shl(x, 10)
  BY DEF Shl, Word
<1> DEFINE S == {m \in 0 .. 32 : LowProducts(x, {10})[m] = IF m <= 10 THEN {} ELSE y}
<1>4. 0 \in S
  BY ProductStep
<1>5. ASSUME NEW m \in 0 .. 32 - 1, m \in S
      PROVE  m + 1 \in S
  <2>1. m \in 0 .. 31 /\ m + 1 \in 0 .. 32
    OBVIOUS
  <2>2. LowProducts(x, {10})[m] = IF m <= 10 THEN {} ELSE y
    BY <1>5
  <2>3. LowProducts(x, {10})[m + 1] =
          IF m \in {10} THEN Plus(LowProducts(x, {10})[m], Shl(x, m)) ELSE LowProducts(x, {10})[m]
    BY <2>1, ProductStep
  <2>4. CASE m = 10
    <3>1. LowProducts(x, {10})[m + 1] = Plus({}, Shl(x, 10))
      BY <2>2, <2>3, <2>4
    <3>2. LowProducts(x, {10})[m + 1] = y
      BY <1>2, <1>3, <3>1
    <3>. QED
      BY <2>1, <2>4, <3>2
  <2>5. CASE m # 10
    <3>1. LowProducts(x, {10})[m + 1] = LowProducts(x, {10})[m]
      BY <2>3, <2>5
    <3>2. m <= 10 <=> m + 1 <= 10
      BY <2>5
    <3>. QED
      BY <2>1, <2>2, <3>1, <3>2
  <2>. QED
    BY <2>4, <2>5
<1> HIDE DEF S
<1>6. 0 .. 32 \subseteq S
  <2>1. 32 \in Nat
    OBVIOUS
  <2>. QED
    BY <1>4, <1>5, <2>1, UpTo
<1>7. 32 \in S
  BY <1>6
<1>8. LowProducts(x, {10})[32] = y
  BY <1>7 DEF S
<1>. QED
  BY <1>1, <1>3, <1>8 DEF Times

(* The two parts of a number in the start program, and what they make. *)
LEMMA NumberParts ==
    ASSUME NEW w \in Word
    PROVE  /\ Upper(w) \in -Weight(21) .. Weight(21) - 1
           /\ FromInt(Upper(w)) = SignExtended(Shr(w, 10))
           /\ Lower(w) \in 0 .. Weight(10) - 1
           /\ FromInt(Lower(w)) = Low(w, 10)
           /\ Shl(SignExtended(Shr(w, 10)), 10) \cup Low(w, 10) = w
<1>1. PICK v \in Word : v = Shr(w, 10)
  <2>1. 10 \in Nat
    OBVIOUS
  <2>. QED
    BY <2>1, WordsClosed
<1>2. PICK x \in Word : x = SignExtended(v)
  <2>1. 10 \in Nat
    OBVIOUS
  <2>. QED
    BY <2>1, WordsClosed
<1>3. FromInt(Upper(w)) = x
  BY <1>1, <1>2, BitsOfInt DEF Upper
<1>4. \A b \in 22 .. 31 : b \notin v
  <2>1. ASSUME NEW b \in 22 .. 31
        PROVE  b \notin v
    <3>1. b \in Bits /\ 10 \in Nat
      BY DEF Bits
    <3>2. b \in v <=> b + 10 \in w
      BY <1>1, <3>1, ShrBit
    <3>3. b + 10 \notin w
      BY DEF Word, Bits
    <3>. QED
      BY <3>2, <3>3
  <2>. QED
    BY <2>1
<1>5. Upper(w) \in -Weight(21) .. Weight(21) - 1
  <2>1. PICK p \in Int : p = Weight(21) /\ p > 0
    BY WeightType
  <2>2. \A u : (\A b \in 21 .. 31 : b \notin u) => ToNat(u) \in 0 .. p - 1
    BY <2>1, NatBelow
  <2>3. CASE 21 \in v
    <3>1. x = v \cup 22 .. 31
      BY <1>2, <2>3, Zenon DEF SignExtended
    <3>2. \A b \in 21 .. 31 : b \in x
      BY <2>3, <3>1
    <3>3. PICK n \in 0 .. p - 1 : n = ToNat(Not(x))
      BY <2>2, <3>2 DEF Not
    <3>4. 31 \in x
      BY <3>2
    <3>5. Upper(w) = -n - 1
      BY <1>1, <1>2, <3>3, <3>4 DEF Upper, ToInt
    <3>. QED
      BY <2>1, <3>5
  <2>4. CASE 21 \notin v
    <3>1. x = Low(v, 22)
      BY <1>2, <2>4, Zenon DEF SignExtended
    <3>2. \A b \in 21 .. 31 : b \notin x
      BY <2>4, <3>1 DEF Low
    <3>3. PICK n \in 0 .. p - 1 : n = ToNat(x)
      BY <2>2, <3>2
    <3>4. Upper(w) = n
      BY <1>1, <1>2, <3>2, <3>3 DEF Upper, ToInt
    <3>. QED
      BY <2>1, <3>4
  <2>. QED
    BY <2>3, <2>4
<1>6. Low(w, 10) \in Word /\ 31 \notin Low(w, 10) /\ \A b \in 10 .. 31 : b \notin Low(w, 10)
  BY DEF Low, Word
<1>7. Lower(w) \in 0 .. Weight(10) - 1
  <2>1. 10 \in 0 .. 31
    OBVIOUS
  <2>. QED
    BY <1>6, <2>1, NatBelow DEF Lower
<1>8. FromInt(Lower(w)) = Low(w, 10)
  <2>1. PICK n \in Nat : n = Lower(w)
    <3>1. Weight(10) \in Int
      BY WeightType
    <3>. QED
      BY <1>7, <3>1
  <2>2. FromNat(n) = Low(w, 10)
    BY <1>6, <2>1, BitsOfValue DEF Lower
  <2>. QED
    BY <2>1, <2>2 DEF FromInt
<1>9. Shl(x, 10) \cup Low(w, 10) = w
  <2>1. Shl(x, 10) \in Word
    BY DEF Shl, Word
  <2>2. \A a \in 0 .. 21 : a \in x <=> a \in v
    BY <1>2 DEF SignExtended, Low
  <2>3. \A b \in Bits : b \in Shl(x, 10) <=> b >= 10 /\ b - 10 \in x
    <3>1. \A a \in x : a \in Int /\ a >= 0
      BY DEF Word, Bits
    <3>2. ASSUME NEW b \in Bits
          PROVE  b \in Shl(x, 10) <=> b >= 10 /\ b - 10 \in x
      <4>1. b \in Shl(x, 10) <=> \E a \in x : b = a + 10
        BY DEF Shl
      <4>2. b \in Int /\ b = (b - 10) + 10
        BY DEF Bits
      <4>3. ASSUME NEW a \in x, b = a + 10
            PROVE  b >= 10 /\ b - 10 = a
        BY <3>1, <4>3
      <4>. QED
        BY <4>1, <4>2, <4>3
    <3>. QED
      BY <3>2
  <2>4. ASSUME NEW b \in Bits
        PROVE  b \in Shl(x, 10) \cup Low(w, 10) <=> b \in w
    <3>1. CASE b >= 10
      <4>1. b - 10 \in 0 .. 21 /\ b - 10 \in Bits /\ (b - 10) + 10 = b /\ 10 \in Nat
        BY <3>1 DEF Bits
      <4>2. b - 10 \in v <=> (b - 10) + 10 \in w
        BY <1>1, <4>1, ShrBit
      <4>3. b \notin Low(w, 10)
        BY <3>1, <4>1 DEF Low
      <4>4. b \in Shl(x, 10) <=> b - 10 \in x
        BY <2>3, <3>1
      <4>5. b - 10 \in x <=> b - 10 \in v
        BY <2>2, <4>1
      <4>. QED
        BY <4>1, <4>2, <4>3, <4>4, <4>5
    <3>2. CASE ~ (b >= 10)
      <4>1. b < 10
        BY <3>2 DEF Bits
      <4>2. b \in Low(w, 10) <=> b \in w
        BY <4>1 DEF Low
      <4>. QED
        BY <2>3, <3>2, <4>2
    <3>. QED
      BY <3>1, <3>2
  <2>. QED
    BY <1>6, <2>1, <2>4, SameBits DEF Word
<1>. QED
  BY <1>1, <1>2, <1>3, <1>5, <1>7, <1>8, <1>9

----------------------------------------------------------------------------
\* BootEntersProgram

\* What the start program puts into the registers.
StackEnd == {31} \cup FromInt(sram_size - 1)
FirstInstr == {31} \cup FromNat(num_instrs_isrs)
ProgramLength == FromNat(num_instrs_prgrm)
DataBegin == {31} \cup FromNat(num_instrs_isrs + num_instrs_prgrm)

(* The elements of two sequences, one after the other. *)
Concatenation(S, s, t, u) ==
    /\ Len(u) = Len(s) + Len(t) /\ u \in Seq(S)
    /\ \A k \in 1 .. Len(s) : u[k] = s[k]
    /\ \A k \in 1 .. Len(t) : u[Len(s) + k] = t[k]
(* So it is. *)
LEMMA Concatenated ==
    \A S : \A s, t \in Seq(S) : Concatenation(S, s, t, s \o t)
BY DEF Concatenation

(* Its lines, *)
LEMMA StartLines ==
    /\ DOMAIN StartProgram = 1 .. 14
    /\ StartProgram[1] = Line(LOADI, Reg(SP), Im(Upper(StackEnd)), Empty)
    /\ StartProgram[2] = Line(MULTI, Reg(SP), Im(1024), Empty)
    /\ StartProgram[3] = Line(ORI, Reg(SP), Im(Lower(StackEnd)), Empty)
    /\ StartProgram[4] = Line(MOVE, Reg(SP), Reg(BAF), Empty)
    /\ StartProgram[5] = Line(LOADI, Reg(CS), Im(Upper(FirstInstr)), Empty)
    /\ StartProgram[6] = Line(MULTI, Reg(CS), Im(1024), Empty)
    /\ StartProgram[7] = Line(ORI, Reg(CS), Im(Lower(FirstInstr)), Empty)
    /\ StartProgram[8] = Line(MOVE, Reg(CS), Reg(DS), Empty)
    /\ StartProgram[9] = Line(LOADI, Reg(ACC), Im(Upper(ProgramLength)), Empty)
    /\ StartProgram[10] = Line(MULTI, Reg(ACC), Im(1024), Empty)
    /\ StartProgram[11] = Line(ORI, Reg(ACC), Im(Lower(ProgramLength)), Empty)
    /\ StartProgram[12] = Line(ADD, Reg(DS), Reg(ACC), Empty)
    /\ StartProgram[13] = Line(LOADI, Reg(ACC), Im(0), Empty)
    /\ StartProgram[14] = Line(MOVE, Reg(CS), Reg(PC), Empty)
<1> DEFINE a == Line(LOADI, Reg(SP), Im(Upper(StackEnd)), Empty)
           b == Line(MULTI, Reg(SP), Im(1024), Empty)
           c == Line(ORI, Reg(SP), Im(Lower(StackEnd)), Empty)
           d == Line(MOVE, Reg(SP), Reg(BAF), Empty)
           e == Line(LOADI, Reg(CS), Im(Upper(FirstInstr)), Empty)
           f == Line(MULTI, Reg(CS), Im(1024), Empty)
           g == Line(ORI, Reg(CS), Im(Lower(FirstInstr)), Empty)
           h == Line(MOVE, Reg(CS), Reg(DS), Empty)
           j == Line(LOADI, Reg(ACC), Im(Upper(ProgramLength)), Empty)
           k == Line(MULTI, Reg(ACC), Im(1024), Empty)
           l == Line(ORI, Reg(ACC), Im(Lower(ProgramLength)), Empty)
           m == Line(ADD, Reg(DS), Reg(ACC), Empty)
           n == Line(LOADI, Reg(ACC), Im(0), Empty)
           o == Line(MOVE, Reg(CS), Reg(PC), Empty)
           t0 == <<a, b, c>>
           t1 == <<d>>
           t2 == <<e, f, g>>
           t3 == <<h>>
           t4 == <<j, k, l>>
           t5 == <<m, n>>
           t6 == <<o>>
           s1 == t0 \o t1
           s2 == s1 \o t2
           s3 == s2 \o t3
           s4 == s3 \o t4
           s5 == s4 \o t5
           s6 == s5 \o t6
<1>1. StartProgram = s6
  BY DEF StartProgram, LoadNumber, Move, StackEnd, FirstInstr, ProgramLength
<1> HIDE DEF a, b, c, d, e, f, g, h, j, k, l, m, n, o
<1>2. PICK S : /\ a \in S /\ b \in S /\ c \in S /\ d \in S /\ e \in S /\ f \in S /\ g \in S
               /\ h \in S /\ j \in S /\ k \in S /\ l \in S /\ m \in S /\ n \in S /\ o \in S
  <2>. WITNESS {a, b, c, d, e, f, g, h, j, k, l, m, n, o}
  <2>. QED
    OBVIOUS
<1>3. t0 \in Seq(S) /\ Len(t0) = 3 /\ t0[1] = a /\ t0[2] = b /\ t0[3] = c
  BY <1>2
<1>4. t1 \in Seq(S) /\ Len(t1) = 1 /\ t1[1] = d
  BY <1>2
<1>5. t2 \in Seq(S) /\ Len(t2) = 3 /\ t2[1] = e /\ t2[2] = f /\ t2[3] = g
  BY <1>2
<1>6. t3 \in Seq(S) /\ Len(t3) = 1 /\ t3[1] = h
  BY <1>2
<1>7. t4 \in Seq(S) /\ Len(t4) = 3 /\ t4[1] = j /\ t4[2] = k /\ t4[3] = l
  BY <1>2
<1>8. t5 \in Seq(S) /\ Len(t5) = 2 /\ t5[1] = m /\ t5[2] = n
  BY <1>2
<1>9. t6 \in Seq(S) /\ Len(t6) = 1 /\ t6[1] = o
  BY <1>2
<1> HIDE DEF t0, t1, t2, t3, t4, t5, t6
<1>20. /\ s1 = t0 \o t1 /\ s2 = s1 \o t2 /\ s3 = s2 \o t3 /\ s4 = s3 \o t4
      /\ s5 = s4 \o t5 /\ s6 = s5 \o t6
  OBVIOUS
<1> HIDE DEF s1, s2, s3, s4, s5, s6
<1>10. /\ s1 \in Seq(S) /\ Len(s1) = 4
      /\ s1[1] = a /\ s1[2] = b /\ s1[3] = c /\ s1[4] = d
  <2>1. Concatenation(S, t0, t1, s1)
    BY <1>3, <1>4, <1>20, Concatenated
  <2>. QED
    BY <1>3, <1>4, <2>1 DEF Concatenation
<1>11. /\ s2 \in Seq(S) /\ Len(s2) = 7
      /\ s2[1] = a /\ s2[2] = b /\ s2[3] = c /\ s2[4] = d /\ s2[5] = e /\ s2[6] = f /\ s2[7] = g
  <2>1. Concatenation(S, s1, t2, s2)
    BY <1>10, <1>5, <1>20, Concatenated
  <2>. QED
    BY <1>10, <1>5, <2>1 DEF Concatenation
<1>12. /\ s3 \in Seq(S) /\ Len(s3) = 8
      /\ s3[1] = a /\ s3[2] = b /\ s3[3] = c /\ s3[4] = d /\ s3[5] = e /\ s3[6] = f /\ s3[7] = g
      /\ s3[8] = h
  <2>1. Concatenation(S, s2, t3, s3)
    BY <1>11, <1>6, <1>20, Concatenated
  <2>. QED
    BY <1>11, <1>6, <2>1 DEF Concatenation
<1>13. /\ s4 \in Seq(S) /\ Len(s4) = 11
      /\ s4[1] = a /\ s4[2] = b /\ s4[3] = c /\ s4[4] = d /\ s4[5] = e /\ s4[6] = f /\ s4[7] = g
      /\ s4[8] = h /\ s4[9] = j /\ s4[10] = k /\ s4[11] = l
  <2>1. Concatenation(S, s3, t4, s4)
    BY <1>12, <1>7, <1>20, Concatenated
  <2>. QED
    BY <1>12, <1>7, <2>1 DEF Concatenation
<1>14. /\ s5 \in Seq(S) /\ Len(s5) = 13
      /\ s5[1] = a /\ s5[2] = b /\ s5[3] = c /\ s5[4] = d /\ s5[5] = e /\ s5[6] = f /\ s5[7] = g
      /\ s5[8] = h /\ s5[9] = j /\ s5[10] = k /\ s5[11] = l /\ s5[12] = m /\ s5[13] = n
  <2>1. Concatenation(S, s4, t5, s5)
    BY <1>13, <1>8, <1>20, Concatenated
  <2>. QED
    BY <1>13, <1>8, <2>1 DEF Concatenation
<1>15. /\ s6 \in Seq(S) /\ Len(s6) = 14
      /\ s6[1] = a /\ s6[2] = b /\ s6[3] = c /\ s6[4] = d /\ s6[5] = e /\ s6[6] = f /\ s6[7] = g
      /\ s6[8] = h /\ s6[9] = j /\ s6[10] = k /\ s6[11] = l /\ s6[12] = m /\ s6[13] = n /\ s6[14] = o
  <2>1. Concatenation(S, s5, t6, s6)
    BY <1>14, <1>9, <1>20, Concatenated
  <2>. QED
    BY <1>14, <1>9, <2>1 DEF Concatenation
<1>16. DOMAIN StartProgram = 1 .. 14
  BY <1>1, <1>15
<1>. QED
  BY <1>1, <1>15, <1>16 DEF a, b, c, d, e, f, g, h, j, k, l, m, n, o

(* an instruction with an immediate *)
LEMMA ImmediateLine ==
    ASSUME NEW op \in {LOADI, MULTI, ORI}, NEW r \in Registers, NEW n \in -Weight(21) .. Weight(21) - 1,
           NEW line, line = Line(op, Reg(r), Im(n), Empty)
    PROVE  /\ IsLine(line) /\ Accepted(line) /\ Plain(line) /\ FinalOp(line) = op
           /\ OperandsSaid(line) = <<FromNat(r), FromInt(n)>>
<1>1. /\ line.op = op /\ line.opd = <<Reg(r), Im(n), Empty>>
      /\ line.opd[1] = Reg(r) /\ line.opd[2] = Im(n) /\ line.opd[3] = Empty
  BY DEF Line
<1>2. /\ op \in ComputeI \cup {LOADI} /\ op \notin ComputeR /\ op \notin ComputeM
      /\ op \in Opcodes /\ op \notin {IVTE, IVTEDP, INT, LOAD, STORE}
  BY DEF Opcodes, ComputeI, ComputeR, ComputeM, LOADI, MULTI, ORI, IVTE, IVTEDP, INT, LOAD, STORE
<1>3. FinalOp(line) = op
  BY <1>1, <1>2 DEF FinalOp
<1>4. n \in Int
  <2>1. Weight(21) \in Int
    BY WeightType
  <2>. QED
    BY <2>1
<1>5. /\ DOMAIN Reg(r) = {"reg"} /\ DOMAIN Im(n) = {"im"} /\ DOMAIN Empty = {"empty"}
      /\ Reg(r).reg = r /\ Im(n).im = n
  BY DEF Reg, Im, Empty
<1>6. \A k \in 1 .. 3 : k = 1 \/ k = 2 \/ k = 3
  OBVIOUS
<1>7. IsLine(line)
  <2>1. IsOperand(Reg(r)) /\ IsOperand(Im(n)) /\ IsOperand(Empty)
    BY <1>4, <1>5 DEF IsOperand, IsReg, IsIm, Registers, Names, PC, DS, KEYPRESS
  <2>2. \A k \in 1 .. 3 : IsOperand(line.opd[k])
    BY <1>1, <1>6, <2>1
  <2>. QED
    BY <1>1, <1>2, <2>2 DEF IsLine
<1>8. Accepted(line)
  <2>1. Shape(op) = <<"reg", "im", "empty">>
    BY <1>2, KindsAndPlaces
  <2>2. Shape(op)[1] = "reg" /\ Shape(op)[2] = "im" /\ Shape(op)[3] = "empty"
    BY <2>1
  <2>3. ImInRange(op, n)
    BY <1>2, Zenon DEF ImInRange, Weight
  <2>4. ~ IsIm(Reg(r)) /\ ~ IsIm(Empty)
    BY <1>5 DEF IsIm
  <2>. QED
    BY <1>1, <1>3, <1>5, <1>6, <2>2, <2>3, <2>4 DEF Accepted
<1>9. IsReg(Reg(r)) /\ ~ IsReg(Im(n)) /\ ~ IsReg(Empty)
  BY <1>5 DEF IsReg
<1>10. Plain(line)
  BY <1>1, <1>2, <1>3, <1>5, <1>6, <1>9 DEF Plain, IsEntry
<1>11. ~ IsEmpty(Reg(r)) /\ ~ IsEmpty(Im(n)) /\ IsEmpty(Empty)
  BY <1>5 DEF IsEmpty
<1>12. OperandsSaid(line) = <<OperandSaid(line.opd[1]), OperandSaid(line.opd[2])>>
  BY <1>1, <1>11, SaidIs
<1>13. OperandSaid(line.opd[1]) = FromNat(r) /\ OperandSaid(line.opd[2]) = FromInt(n)
  BY <1>1, <1>5, <1>9 DEF OperandSaid
<1>. QED
  BY <1>3, <1>7, <1>8, <1>10, <1>12, <1>13

(* or with two registers. *)
LEMMA RegisterLine ==
    ASSUME NEW op \in {ADD, MOVE}, NEW r \in Registers, NEW s \in Registers,
           NEW line, line = Line(op, Reg(r), Reg(s), Empty)
    PROVE  /\ IsLine(line) /\ Accepted(line) /\ Plain(line) /\ FinalOp(line) = op
           /\ OperandsSaid(line) = <<FromNat(r), FromNat(s)>>
<1>1. /\ line.op = op /\ line.opd = <<Reg(r), Reg(s), Empty>>
      /\ line.opd[1] = Reg(r) /\ line.opd[2] = Reg(s) /\ line.opd[3] = Empty
  BY DEF Line
<1>2. /\ op \in ComputeR \cup {MOVE} /\ op \notin ComputeM
      /\ op \in Opcodes /\ op \notin {IVTE, IVTEDP, INT}
  BY DEF Opcodes, ComputeR, ComputeM, ADD, MOVE, IVTE, IVTEDP, INT
<1>3. /\ DOMAIN Reg(r) = {"reg"} /\ DOMAIN Reg(s) = {"reg"} /\ DOMAIN Empty = {"empty"}
      /\ Reg(r).reg = r /\ Reg(s).reg = s
  BY DEF Reg, Empty
<1>4. ~ IsIm(Reg(r)) /\ ~ IsIm(Reg(s)) /\ ~ IsIm(Empty)
  BY <1>3 DEF IsIm
<1>5. FinalOp(line) = op
  BY <1>1, <1>2, <1>4 DEF FinalOp
<1>6. \A k \in 1 .. 3 : k = 1 \/ k = 2 \/ k = 3
  OBVIOUS
<1>7. IsReg(Reg(r)) /\ IsReg(Reg(s)) /\ ~ IsReg(Empty)
  BY <1>3 DEF IsReg
<1>8. IsLine(line)
  <2>1. IsOperand(Reg(r)) /\ IsOperand(Reg(s)) /\ IsOperand(Empty)
    BY <1>3, <1>7 DEF IsOperand, Registers, Names, PC, DS, KEYPRESS
  <2>2. \A k \in 1 .. 3 : IsOperand(line.opd[k])
    BY <1>1, <1>6, <2>1
  <2>. QED
    BY <1>1, <1>2, <2>2 DEF IsLine
<1>9. Accepted(line)
  <2>1. Shape(op) = <<"reg", "reg", "empty">>
    BY <1>2, KindsAndPlaces
  <2>2. Shape(op)[1] = "reg" /\ Shape(op)[2] = "reg" /\ Shape(op)[3] = "empty"
    BY <2>1
  <2>. QED
    BY <1>1, <1>3, <1>4, <1>5, <1>6, <2>2 DEF Accepted
<1>10. Plain(line)
  BY <1>1, <1>2, <1>3, <1>5, <1>6, <1>7 DEF Plain, IsEntry
<1>11. ~ IsEmpty(Reg(r)) /\ ~ IsEmpty(Reg(s)) /\ IsEmpty(Empty)
  BY <1>3 DEF IsEmpty
<1>12. OperandsSaid(line) = <<OperandSaid(line.opd[1]), OperandSaid(line.opd[2])>>
  BY <1>1, <1>11, SaidIs
<1>13. OperandSaid(line.opd[1]) = FromNat(r) /\ OperandSaid(line.opd[2]) = FromNat(s)
  BY <1>1, <1>3, <1>7 DEF OperandSaid
<1>. QED
  BY <1>5, <1>8, <1>9, <1>10, <1>12, <1>13

\* What a line of it is.
Says(line, op, said) ==
    IsLine(line) /\ Accepted(line) /\ Plain(line) /\ FinalOp(line) = op /\ OperandsSaid(line) = said

(* The numbers in it are immediates, whatever the sizes. *)
LEMMA StartSays ==
    /\ Says(StartProgram[1], LOADI, <<FromNat(SP), FromInt(Upper(StackEnd))>>)
    /\ Says(StartProgram[2], MULTI, <<FromNat(SP), FromInt(1024)>>)
    /\ Says(StartProgram[3], ORI, <<FromNat(SP), FromInt(Lower(StackEnd))>>)
    /\ Says(StartProgram[4], MOVE, <<FromNat(SP), FromNat(BAF)>>)
    /\ Says(StartProgram[5], LOADI, <<FromNat(CS), FromInt(Upper(FirstInstr))>>)
    /\ Says(StartProgram[6], MULTI, <<FromNat(CS), FromInt(1024)>>)
    /\ Says(StartProgram[7], ORI, <<FromNat(CS), FromInt(Lower(FirstInstr))>>)
    /\ Says(StartProgram[8], MOVE, <<FromNat(CS), FromNat(DS)>>)
    /\ Says(StartProgram[9], LOADI, <<FromNat(ACC), FromInt(Upper(ProgramLength))>>)
    /\ Says(StartProgram[10], MULTI, <<FromNat(ACC), FromInt(1024)>>)
    /\ Says(StartProgram[11], ORI, <<FromNat(ACC), FromInt(Lower(ProgramLength))>>)
    /\ Says(StartProgram[12], ADD, <<FromNat(DS), FromNat(ACC)>>)
    /\ Says(StartProgram[13], LOADI, <<FromNat(ACC), FromInt(0)>>)
    /\ Says(StartProgram[14], MOVE, <<FromNat(CS), FromNat(PC)>>)
<1>1. StackEnd \in Word /\ FirstInstr \in Word /\ ProgramLength \in Word
  <2>1. {31} \in Word
    BY DEF Word, Bits
  <2>2. /\ FromInt(sram_size - 1) \in Word /\ FromNat(num_instrs_isrs) \in Word
        /\ FromNat(num_instrs_prgrm) \in Word
    BY NumbersAreWords
  <2>. QED
    BY <2>1, <2>2 DEF StackEnd, FirstInstr, ProgramLength, Word
<1> DEFINE Immediates == -Weight(21) .. Weight(21) - 1
           thousand == 1024
<1>2. thousand \in Immediates /\ 0 \in Immediates /\ 0 .. Weight(10) - 1 \subseteq Immediates
  <2>1. Weight(10) = 1024
    BY Powers DEF Weight
  <2>2. Weight(11) = 2 * Weight(10)
    <3>1. Weight(10 + 1) = 2 * Weight(10) /\ 10 + 1 = 11
      BY Weights
    <3>. QED
      BY <3>1
  <2>3. Weight(11) <= Weight(21) /\ Weight(21) \in Int
    BY WeightsGrow, WeightType
  <2>. QED
    BY <2>1, <2>2, <2>3
<1>3. \A w \in Word : Upper(w) \in Immediates /\ Lower(w) \in Immediates
  BY <1>2, NumberParts
<1>4. SP \in Registers /\ BAF \in Registers /\ CS \in Registers /\ DS \in Registers /\ ACC \in Registers /\ PC \in Registers
  BY DEF Registers, PC, SP, BAF, CS, DS, ACC
<1>5. ASSUME NEW op \in {LOADI, MULTI, ORI}, NEW r \in Registers, NEW n \in Immediates
      PROVE  Says(Line(op, Reg(r), Im(n), Empty), op, <<FromNat(r), FromInt(n)>>)
  BY ImmediateLine DEF Says
<1>6. ASSUME NEW op \in {ADD, MOVE}, NEW r \in Registers, NEW s \in Registers
      PROVE  Says(Line(op, Reg(r), Reg(s), Empty), op, <<FromNat(r), FromNat(s)>>)
  BY RegisterLine DEF Says
<1>14. /\ StartProgram[2] = Line(MULTI, Reg(SP), Im(thousand), Empty)
       /\ StartProgram[6] = Line(MULTI, Reg(CS), Im(thousand), Empty)
       /\ StartProgram[10] = Line(MULTI, Reg(ACC), Im(thousand), Empty)
  BY StartLines
<1>15. FromInt(thousand) = FromInt(1024)
  OBVIOUS
<1> HIDE DEF Immediates, thousand
<1>7. /\ Upper(StackEnd) \in Immediates /\ Lower(StackEnd) \in Immediates
      /\ Upper(FirstInstr) \in Immediates /\ Lower(FirstInstr) \in Immediates
      /\ Upper(ProgramLength) \in Immediates /\ Lower(ProgramLength) \in Immediates
  BY <1>1, <1>3
<1>8. LOADI \in {LOADI, MULTI, ORI} /\ MULTI \in {LOADI, MULTI, ORI} /\ ORI \in {LOADI, MULTI, ORI}
  OBVIOUS
<1>9. ADD \in {ADD, MOVE} /\ MOVE \in {ADD, MOVE}
  OBVIOUS
<1>10. /\ Says(StartProgram[1], LOADI, <<FromNat(SP), FromInt(Upper(StackEnd))>>)
       /\ Says(StartProgram[2], MULTI, <<FromNat(SP), FromInt(thousand)>>)
       /\ Says(StartProgram[3], ORI, <<FromNat(SP), FromInt(Lower(StackEnd))>>)
  BY <1>2, <1>4, <1>5, <1>7, <1>8, <1>14, StartLines, Zenon
<1>11. /\ Says(StartProgram[5], LOADI, <<FromNat(CS), FromInt(Upper(FirstInstr))>>)
       /\ Says(StartProgram[6], MULTI, <<FromNat(CS), FromInt(thousand)>>)
       /\ Says(StartProgram[7], ORI, <<FromNat(CS), FromInt(Lower(FirstInstr))>>)
  BY <1>2, <1>4, <1>5, <1>7, <1>8, <1>14, StartLines, Zenon
<1>12. /\ Says(StartProgram[9], LOADI, <<FromNat(ACC), FromInt(Upper(ProgramLength))>>)
       /\ Says(StartProgram[10], MULTI, <<FromNat(ACC), FromInt(thousand)>>)
       /\ Says(StartProgram[11], ORI, <<FromNat(ACC), FromInt(Lower(ProgramLength))>>)
       /\ Says(StartProgram[13], LOADI, <<FromNat(ACC), FromInt(0)>>)
  BY <1>2, <1>4, <1>5, <1>7, <1>8, <1>14, StartLines, Zenon
<1>13. /\ Says(StartProgram[4], MOVE, <<FromNat(SP), FromNat(BAF)>>)
       /\ Says(StartProgram[8], MOVE, <<FromNat(CS), FromNat(DS)>>)
       /\ Says(StartProgram[12], ADD, <<FromNat(DS), FromNat(ACC)>>)
       /\ Says(StartProgram[14], MOVE, <<FromNat(CS), FromNat(PC)>>)
  BY <1>4, <1>6, <1>9, StartLines, Zenon
<1>. QED
  BY <1>10, <1>11, <1>12, <1>13, <1>15

Generated == [k \in DOMAIN StartProgram |-> assembly_to_machine(StartProgram[k])]
StartOps == {LOADI, MULTI, ORI, MOVE, ADD}

(* PC at its line, it is fetched and read as what it says. *)
LEMMA StartFetched ==
    ASSUME NEW k \in 0 .. 13, regs[PC] = FromNat(k), eprom = Generated,
           NEW op \in StartOps, NEW said, Says(StartProgram[k + 1], op, said)
    PROVE  Fetchable /\ Decodable(Fetched) /\ instr = [op |-> op, opd |-> said]
<1> DEFINE a == FromNat(k)
<1>1. k \in 0 .. Weight(4) - 1 /\ k \in 0 .. Weight(31) - 1
  <2>1. Weight(4) = 16
    BY Powers DEF Weight
  <2>2. Weight(4) <= Weight(31) /\ Weight(31) \in Int
    BY WeightsGrow, WeightType
  <2>. QED
    BY <2>1, <2>2
<1>2. \A b \in a : b \in 0 .. 30 /\ b < 4
  <2>1. 4 \in 0 .. 31
    OBVIOUS
  <2>. QED
    BY <1>1, <2>1, BitsBelow
<1>3. InEprom(a)
  BY <1>2 DEF InEprom
<1>4. Low(a, 16) = a
  BY <1>2 DEF Low
<1>5. ToNat(a) = k
  BY <1>1, NatOfBits
<1>6. EpromIndex(a) = k + 1
  BY <1>4, <1>5 DEF EpromIndex
<1>7. k + 1 \in DOMAIN StartProgram
  BY StartLines
<1>8. /\ EpromIndex(a) \in DOMAIN eprom
      /\ eprom[EpromIndex(a)] = assembly_to_machine(StartProgram[k + 1])
  BY <1>6, <1>7 DEF Generated
<1> HIDE DEF a
<1>9. regs[PC] = a
  BY DEF a
<1>10. Fetchable
  BY <1>3, <1>8, <1>9 DEF Fetchable
<1>11. Fetched = assembly_to_machine(StartProgram[k + 1])
  BY <1>3, <1>8, <1>9 DEF Fetched, read_storage, ReadFrom
<1>12. instr = [op |-> op, opd |-> said]
  BY <1>11, RoundTrip DEF Says, instr
<1>13. Decodable(Fetched)
  <2>1. instr.op = OpOf(Fetched)
    BY DEF instr, machine_to_assembly
  <2>2. op \in Opcodes
    BY DEF StartOps, Opcodes, ComputeI, ComputeR, ComputeM, LOADI, MULTI, ORI, MOVE, ADD
  <2>. QED
    BY <1>12, <2>1, <2>2 DEF Decodable
<1>. QED
  BY <1>10, <1>12, <1>13

(* The instructions of the start program set one register. *)
LEMMA StartExecuted ==
    ASSUME Cpu, Fetchable, Decodable(Fetched),
           NEW op \in StartOps, NEW r \in Registers, NEW x, instr = [op |-> op, opd |-> <<FromNat(r), x>>]
    PROVE  /\ UNCHANGED eprom
           /\ op = LOADI => SetRegs(Only(r, x))
           /\ op = MULTI => SetRegs(Only(r, Times(regs[r], x)))
           /\ op = ORI => SetRegs(Only(r, regs[r] \cup Low(x, 22)))
           /\ \A s \in Registers : x = FromNat(s) =>
                /\ op = MOVE => SetRegs(Only(s, regs[r]))
                /\ op = ADD => SetRegs(Only(r, Plus(regs[r], regs[s])))
<1>1. \A s \in Registers : ToNat(FromNat(s)) = s
  <2>1. Weight(3) = 8
    BY Powers DEF Weight
  <2>2. Weight(3) <= Weight(31) /\ Weight(31) \in Int
    BY WeightsGrow, WeightType
  <2>3. \A s \in Registers : s \in 0 .. Weight(31) - 1
    BY <2>1, <2>2 DEF Registers, PC, DS
  <2>. QED
    BY <2>3, NatOfBits
<1>2. instr.op = op /\ instr.opd[1] = FromNat(r) /\ instr.opd[2] = x
  OBVIOUS
<1>3. R(1) = r /\ Value(1) = regs[r] /\ \A s \in Registers : x = FromNat(s) => R(2) = s /\ Value(2) = regs[s]
  BY <1>1, <1>2 DEF R, Value
<1>4. /\ op \notin {STORE, STOREIN} /\ op \notin Jumps \cup {NOP} /\ op \notin {INT} /\ op \notin {RTI}
      /\ op # JUMP /\ op \notin ComputeM /\ op # LOAD /\ op # LOADIN
  BY DEF StartOps, Jumps, STORE, STOREIN, NOP, INT, RTI, JUMP, JUMPGT, JUMPEQ, JUMPGE, JUMPLT, JUMPNE,
         JUMPLE, LOADI, MULTI, ORI, MOVE, ADD, ComputeM, LOAD, LOADIN
<1>5. ~ Store /\ ~ Jump /\ ~ Call /\ ~ Breakpoint /\ ~ Return
  BY <1>2, <1>4 DEF Store, Jump, Call, Breakpoint, Return, Fetch
<1>6. op % 8 \notin {DIVI, MODI} \/ op \notin ComputeI \cup ComputeR \cup ComputeM
  BY DEF StartOps, LOADI, MULTI, ORI, MOVE, ADD, DIVI, MODI, ComputeI, ComputeR, ComputeM
<1>7. ~ Stop
  BY <1>2, <1>4, <1>6 DEF Stop, Divides
<1>8. CASE Transfer
  <2>1. op \in {LOADI, MOVE} /\ UNCHANGED eprom
    BY <1>2, <1>4, <1>8 DEF Transfer, Fetch
  <2>2. op # MULTI /\ op # ORI /\ op # ADD /\ (op = LOADI <=> op # MOVE)
    BY <2>1 DEF LOADI, MULTI, ORI, MOVE, ADD
  <2>3. PICK unknown \in Unknown :
            SetRegs(CASE instr.op = LOAD -> Only(R(1), read_storage(LoadAddress(instr.opd[2]), unknown))
                      [] instr.op = LOADIN ->
                           Only(R(2), read_storage(Plus(Value(1), instr.opd[3]), unknown))
                      [] instr.op = LOADI -> Only(R(1), instr.opd[2])
                      [] instr.op = MOVE -> Only(R(2), Value(1)))
    BY <1>8 DEF Transfer
  <2>4. op = LOADI => SetRegs(Only(R(1), instr.opd[2]))
    BY <1>2, <2>3 DEF LOAD, LOADIN, LOADI, MOVE
  <2>5. op = MOVE => SetRegs(Only(R(2), Value(1)))
    BY <1>2, <2>3 DEF LOAD, LOADIN, LOADI, MOVE
  <2>. QED
    BY <1>2, <1>3, <2>1, <2>2, <2>4, <2>5
<1>9. CASE Compute
  <2>1. op \in {MULTI, ORI, ADD} /\ UNCHANGED eprom
    BY <1>2, <1>9 DEF Compute, Fetch, StartOps, LOADI, MOVE, ComputeI, ComputeR, ComputeM
  <2>2. op # LOADI /\ op # MOVE
    BY <2>1 DEF LOADI, MULTI, ORI, MOVE, ADD
  <2>3. PICK unknown \in Unknown : SetRegs(Only(R(1), Operation(op, Value(1), SecondOperand(unknown))))
    BY <1>2, <1>9 DEF Compute
  <2>4. op \in ComputeI <=> op # ADD
    BY <2>1 DEF ComputeI, MULTI, ORI, ADD
  <2>5. op \in ComputeR <=> op = ADD
    BY <2>1 DEF ComputeR, MULTI, ORI, ADD
  <2>6. op = MULTI => SecondOperand(unknown) = x
    BY <1>2, <1>4, <2>4, <2>5 DEF SecondOperand, OPLUSI, MULTI, ADD
  <2>7. op = ORI => SecondOperand(unknown) = Low(x, 22)
    BY <1>2, <1>4, <2>4, <2>5 DEF SecondOperand, OPLUSI, ORI, ADD
  <2>8. op = ADD => SecondOperand(unknown) = Value(2)
    BY <1>2, <1>4, <2>4, <2>5 DEF SecondOperand
  <2>9. \A v, w : /\ Operation(MULTI, v, w) = Times(v, w) /\ Operation(ORI, v, w) = v \cup w
                  /\ Operation(ADD, v, w) = Plus(v, w)
    BY DEF Operation, ADDI, SUBI, MULTI, DIVI, MODI, OPLUSI, ORI, ANDI, ADD
  <2>. QED
    BY <1>3, <2>1, <2>2, <2>3, <2>6, <2>7, <2>8, <2>9
<1>. QED
  BY <1>5, <1>7, <1>8, <1>9 DEF Cpu

(* Then PC is at the next one, unless it is PC that is set. *)
LEMMA StartAdvanced ==
    ASSUME regs \in [Registers -> Word], NEW k \in 0 .. 13, regs[PC] = FromNat(k), phase = "boot",
           NEW r \in Registers, NEW w \in Word, SetRegs(Only(r, w))
    PROVE  /\ UNCHANGED <<options, loader>>
           /\ regs' \in [Registers -> Word] /\ regs'[r] = w
           /\ r # PC => regs'[PC] = FromNat(k + 1) /\ phase' = "boot"
           /\ \A q \in Registers : q # r /\ q # PC => regs'[q] = regs[q]
           /\ r = PC /\ 31 \in w => phase' = "run"
<1>1. Plus(FromNat(k), {0}) = FromNat(k + 1) /\ FromNat(k + 1) \in Word /\ 31 \notin FromNat(k + 1)
  <2>1. Weight(4) = 16 /\ Weight(0) = 1 /\ Weight(1) = 2
    BY Powers DEF Weight
  <2>2. Weight(4) <= Weight(31) /\ Weight(31) \in Int
    BY WeightsGrow, WeightType
  <2>3. FromNat(1) = {0}
    <3>1. ToNat({0}) = 1
      <4>1. {0} \in Word /\ \A b \in 1 .. 31 : b \notin {0}
        BY DEF Word, Bits
      <4>2. ToNat({0}) = LowValues({0})[1]
        BY <4>1, NatBelow
      <4>3. LowValues({0})[1] = LowValues({0})[0] + Weight(0)
        BY ValueStep
      <4>4. LowValues({0})[0] = 0
        BY ValueStep
      <4>. QED
        BY <2>1, <4>2, <4>3, <4>4
    <3>2. {0} \in Word /\ 31 \notin {0}
      BY DEF Word, Bits
    <3>. QED
      BY <3>1, <3>2, BitsOfValue
  <2>4. k \in Nat /\ 1 \in Nat /\ k + 1 < Weight(31)
    BY <2>1, <2>2
  <2>5. Plus(FromNat(k), FromNat(1)) = FromNat(k + 1)
    BY <2>4, PlusIsSum
  <2>. QED
    BY <2>3, <2>5, NumbersAreWords
<1>2. PC \in Registers /\ DOMAIN Only(r, w) = {r} /\ Only(r, w)[r] = w
  BY DEF PC, Registers, DS, Only
<1>3. CASE r = PC
  <2>1. Advanced(Only(r, w)) = Only(r, w)
    BY <1>2, <1>3 DEF Advanced
  <2>. QED
    BY <1>2, <1>3, <2>1 DEF SetRegs
<1>4. CASE r # PC
  <2>1. Advanced(Only(r, w)) = Put(Only(r, w), PC, FromNat(k + 1))
    BY <1>1, <1>2, <1>4 DEF Advanced
  <2>2. /\ DOMAIN Put(Only(r, w), PC, FromNat(k + 1)) = {r, PC}
        /\ Put(Only(r, w), PC, FromNat(k + 1))[PC] = FromNat(k + 1)
        /\ Put(Only(r, w), PC, FromNat(k + 1))[r] = w
    BY <1>2, <1>4 DEF Put
  <2>. QED
    BY <1>1, <1>2, <1>4, <2>1, <2>2 DEF SetRegs
<1>. QED
  BY <1>3, <1>4

\* What three instructions load, after j of them.
LoadedBy(w, j) ==
    IF j <= 0 THEN {}
    ELSE IF j = 1 THEN FromInt(Upper(w))
    ELSE IF j = 2 THEN Shl(FromInt(Upper(w)), 10)
    ELSE w

\* The registers, after k instructions of the start program.
Booted(k) ==
    /\ regs[PC] = IF k = 14 THEN FirstInstr ELSE FromNat(k)
    /\ regs[SP] = LoadedBy(StackEnd, k)
    /\ regs[BAF] = IF k >= 4 THEN StackEnd ELSE {}
    /\ regs[CS] = LoadedBy(FirstInstr, k - 4)
    /\ regs[DS] = IF k >= 12 THEN DataBegin ELSE IF k >= 8 THEN FirstInstr ELSE {}
    /\ regs[ACC] = IF k >= 13 THEN {} ELSE LoadedBy(ProgramLength, k - 8)
    /\ regs[IN1] = {} /\ regs[IN2] = {}

(* A number is put together from its parts by multiplying and by a union. *)
LEMMA LoadedParts ==
    ASSUME NEW w \in Word
    PROVE  /\ Times(FromInt(Upper(w)), FromInt(1024)) = Shl(FromInt(Upper(w)), 10)
           /\ Shl(FromInt(Upper(w)), 10) \cup Low(FromInt(Lower(w)), 22) = w
<1>1. FromInt(Upper(w)) \in Word
  BY NumbersAreWords
<1>2. Times(FromInt(Upper(w)), FromInt(1024)) = Shl(FromInt(Upper(w)), 10)
  BY <1>1, TimesPower
<1>3. Low(Low(w, 10), 22) = Low(w, 10)
  <2>1. \A b \in w : b < 10 => b < 22
    BY DEF Word, Bits
  <2>. QED
    BY <2>1 DEF Low
<1>. QED
  BY <1>2, <1>3, NumberParts

(* The number 0 has no bits. *)
LEMMA ZeroBits == FromNat(0) = {}
<1>1. 0 \in 0 .. 31 /\ 0 \in 0 .. Weight(0) - 1
  BY WeightZero
<1>2. \A b \in FromNat(0) : b \in 0 .. 30 /\ b < 0
  BY <1>1, BitsBelow
<1>. QED
  BY <1>2

(* What the sizes of the program stand for. *)
LEMMA StartNumbers ==
    ASSUME num_instrs_isrs \in Nat, num_instrs_prgrm \in Nat,
           num_instrs_isrs + num_instrs_prgrm <= SramEnd
    PROVE  /\ StackEnd \in Word /\ FirstInstr \in Word /\ ProgramLength \in Word /\ DataBegin \in Word
           /\ 31 \in FirstInstr /\ Plus(FirstInstr, ProgramLength) = DataBegin /\ FromInt(0) = {}
<1>1. /\ FromInt(sram_size - 1) \in Word /\ FromNat(num_instrs_isrs) \in Word
      /\ FromNat(num_instrs_prgrm) \in Word /\ FromNat(num_instrs_isrs + num_instrs_prgrm) \in Word
  BY NumbersAreWords
<1>2. \A w \in Word : {31} \cup w \in Word
  BY DEF Word, Bits
<1>3. Plus(FirstInstr, ProgramLength) = DataBegin
  <2>1. num_instrs_isrs + num_instrs_prgrm < Weight(31)
    BY SramEndValue, WeightType
  <2>. QED
    BY <2>1, PlusIsSum DEF FirstInstr, ProgramLength, DataBegin
<1>4. FromInt(0) = {}
  BY ZeroBits DEF FromInt
<1>. QED
  BY <1>1, <1>2, <1>3, <1>4 DEF StackEnd, FirstInstr, ProgramLength, DataBegin

(* The register and the number that instruction k + 1 sets. *)
LEMMA StartSets ==
    ASSUME num_instrs_isrs \in Nat, num_instrs_prgrm \in Nat,
           num_instrs_isrs + num_instrs_prgrm <= SramEnd,
           NEW k \in 0 .. 13, Booted(k), eprom = Generated, Cpu
    PROVE  /\ UNCHANGED eprom
           /\ k = 0 => SetRegs(Only(SP, FromInt(Upper(StackEnd))))
           /\ k = 1 => SetRegs(Only(SP, Shl(FromInt(Upper(StackEnd)), 10)))
           /\ k = 2 => SetRegs(Only(SP, StackEnd))
           /\ k = 3 => SetRegs(Only(BAF, StackEnd))
           /\ k = 4 => SetRegs(Only(CS, FromInt(Upper(FirstInstr))))
           /\ k = 5 => SetRegs(Only(CS, Shl(FromInt(Upper(FirstInstr)), 10)))
           /\ k = 6 => SetRegs(Only(CS, FirstInstr))
           /\ k = 7 => SetRegs(Only(DS, FirstInstr))
           /\ k = 8 => SetRegs(Only(ACC, FromInt(Upper(ProgramLength))))
           /\ k = 9 => SetRegs(Only(ACC, Shl(FromInt(Upper(ProgramLength)), 10)))
           /\ k = 10 => SetRegs(Only(ACC, ProgramLength))
           /\ k = 11 => SetRegs(Only(DS, DataBegin))
           /\ k = 12 => SetRegs(Only(ACC, {}))
           /\ k = 13 => SetRegs(Only(PC, FirstInstr))
<1>1. /\ StackEnd \in Word /\ FirstInstr \in Word /\ ProgramLength \in Word
      /\ Plus(FirstInstr, ProgramLength) = DataBegin /\ FromInt(0) = {}
  BY StartNumbers
<1>2. /\ PC \in Registers /\ SP \in Registers /\ BAF \in Registers /\ CS \in Registers
      /\ DS \in Registers /\ ACC \in Registers
  BY DEF Registers, PC, SP, BAF, CS, DS, ACC
<1>3. regs[PC] = FromNat(k)
  BY DEF Booted
<1>4. LOADI \in StartOps /\ MULTI \in StartOps /\ ORI \in StartOps /\ MOVE \in StartOps /\ ADD \in StartOps
  BY DEF StartOps
<1>5. ASSUME NEW op \in StartOps, NEW r \in Registers, NEW x,
             Says(StartProgram[k + 1], op, <<FromNat(r), x>>)
      PROVE  /\ UNCHANGED eprom
             /\ op = LOADI => SetRegs(Only(r, x))
             /\ op = MULTI => SetRegs(Only(r, Times(regs[r], x)))
             /\ op = ORI => SetRegs(Only(r, regs[r] \cup Low(x, 22)))
             /\ \A s \in Registers : x = FromNat(s) =>
                  /\ op = MOVE => SetRegs(Only(s, regs[r]))
                  /\ op = ADD => SetRegs(Only(r, Plus(regs[r], regs[s])))
  <2>1. Fetchable /\ Decodable(Fetched) /\ instr = [op |-> op, opd |-> <<FromNat(r), x>>]
    BY <1>3, <1>5, StartFetched
  <2>. QED
    BY <2>1, StartExecuted
<1> DEFINE thousand == FromInt(1024)
<1>21. thousand = FromInt(1024)
  OBVIOUS
<1> HIDE DEF thousand
<1>6. CASE k = 0
  <2>1. Says(StartProgram[k + 1], LOADI, <<FromNat(SP), FromInt(Upper(StackEnd))>>)
    BY <1>6, StartSays
  <2>2. UNCHANGED eprom /\ SetRegs(Only(SP, FromInt(Upper(StackEnd))))
    BY <1>2, <1>4, <1>5, <2>1
  <2>3. FromInt(Upper(StackEnd)) = FromInt(Upper(StackEnd))
    BY <1>1, <1>6 DEF Booted, LoadedBy
  <2>4. SetRegs(Only(SP, FromInt(Upper(StackEnd))))
    BY <2>2, <2>3, Zenon
  <2>. QED
    BY <1>6, <2>2, <2>4
<1>7. CASE k = 1
  <2>1. Says(StartProgram[k + 1], MULTI, <<FromNat(SP), thousand>>)
    BY <1>7, <1>21, StartSays
  <2>2. UNCHANGED eprom /\ SetRegs(Only(SP, Times(regs[SP], thousand)))
    BY <1>2, <1>4, <1>5, <2>1
  <2>3. Times(regs[SP], thousand) = Shl(FromInt(Upper(StackEnd)), 10)
    <3>1. regs[SP] = FromInt(Upper(StackEnd))
      BY <1>7 DEF Booted, LoadedBy
    <3>. QED
      BY <1>1, <1>21, <3>1, LoadedParts
  <2>4. SetRegs(Only(SP, Shl(FromInt(Upper(StackEnd)), 10)))
    BY <2>2, <2>3, Zenon
  <2>. QED
    BY <1>7, <2>2, <2>4
<1>8. CASE k = 2
  <2>1. Says(StartProgram[k + 1], ORI, <<FromNat(SP), FromInt(Lower(StackEnd))>>)
    BY <1>8, StartSays
  <2>2. UNCHANGED eprom /\ SetRegs(Only(SP, regs[SP] \cup Low(FromInt(Lower(StackEnd)), 22)))
    BY <1>2, <1>4, <1>5, <2>1
  <2>3. regs[SP] \cup Low(FromInt(Lower(StackEnd)), 22) = StackEnd
    <3>1. regs[SP] = Shl(FromInt(Upper(StackEnd)), 10)
      BY <1>8 DEF Booted, LoadedBy
    <3>. QED
      BY <1>1, <3>1, LoadedParts
  <2>4. SetRegs(Only(SP, StackEnd))
    BY <2>2, <2>3, Zenon
  <2>. QED
    BY <1>8, <2>2, <2>4
<1>9. CASE k = 3
  <2>1. Says(StartProgram[k + 1], MOVE, <<FromNat(SP), FromNat(BAF)>>)
    BY <1>9, StartSays
  <2>2. UNCHANGED eprom /\ SetRegs(Only(BAF, regs[SP]))
    BY <1>2, <1>4, <1>5, <2>1
  <2>3. regs[SP] = StackEnd
    BY <1>1, <1>9 DEF Booted, LoadedBy
  <2>4. SetRegs(Only(BAF, StackEnd))
    BY <2>2, <2>3, Zenon
  <2>. QED
    BY <1>9, <2>2, <2>4
<1>10. CASE k = 4
  <2>1. Says(StartProgram[k + 1], LOADI, <<FromNat(CS), FromInt(Upper(FirstInstr))>>)
    BY <1>10, StartSays
  <2>2. UNCHANGED eprom /\ SetRegs(Only(CS, FromInt(Upper(FirstInstr))))
    BY <1>2, <1>4, <1>5, <2>1
  <2>3. FromInt(Upper(FirstInstr)) = FromInt(Upper(FirstInstr))
    BY <1>1, <1>10 DEF Booted, LoadedBy
  <2>4. SetRegs(Only(CS, FromInt(Upper(FirstInstr))))
    BY <2>2, <2>3, Zenon
  <2>. QED
    BY <1>10, <2>2, <2>4
<1>11. CASE k = 5
  <2>1. Says(StartProgram[k + 1], MULTI, <<FromNat(CS), thousand>>)
    BY <1>11, <1>21, StartSays
  <2>2. UNCHANGED eprom /\ SetRegs(Only(CS, Times(regs[CS], thousand)))
    BY <1>2, <1>4, <1>5, <2>1
  <2>3. Times(regs[CS], thousand) = Shl(FromInt(Upper(FirstInstr)), 10)
    <3>1. regs[CS] = FromInt(Upper(FirstInstr))
      BY <1>11 DEF Booted, LoadedBy
    <3>. QED
      BY <1>1, <1>21, <3>1, LoadedParts
  <2>4. SetRegs(Only(CS, Shl(FromInt(Upper(FirstInstr)), 10)))
    BY <2>2, <2>3, Zenon
  <2>. QED
    BY <1>11, <2>2, <2>4
<1>12. CASE k = 6
  <2>1. Says(StartProgram[k + 1], ORI, <<FromNat(CS), FromInt(Lower(FirstInstr))>>)
    BY <1>12, StartSays
  <2>2. UNCHANGED eprom /\ SetRegs(Only(CS, regs[CS] \cup Low(FromInt(Lower(FirstInstr)), 22)))
    BY <1>2, <1>4, <1>5, <2>1
  <2>3. regs[CS] \cup Low(FromInt(Lower(FirstInstr)), 22) = FirstInstr
    <3>1. regs[CS] = Shl(FromInt(Upper(FirstInstr)), 10)
      BY <1>12 DEF Booted, LoadedBy
    <3>. QED
      BY <1>1, <3>1, LoadedParts
  <2>4. SetRegs(Only(CS, FirstInstr))
    BY <2>2, <2>3, Zenon
  <2>. QED
    BY <1>12, <2>2, <2>4
<1>13. CASE k = 7
  <2>1. Says(StartProgram[k + 1], MOVE, <<FromNat(CS), FromNat(DS)>>)
    BY <1>13, StartSays
  <2>2. UNCHANGED eprom /\ SetRegs(Only(DS, regs[CS]))
    BY <1>2, <1>4, <1>5, <2>1
  <2>3. regs[CS] = FirstInstr
    BY <1>1, <1>13 DEF Booted, LoadedBy
  <2>4. SetRegs(Only(DS, FirstInstr))
    BY <2>2, <2>3, Zenon
  <2>. QED
    BY <1>13, <2>2, <2>4
<1>14. CASE k = 8
  <2>1. Says(StartProgram[k + 1], LOADI, <<FromNat(ACC), FromInt(Upper(ProgramLength))>>)
    BY <1>14, StartSays
  <2>2. UNCHANGED eprom /\ SetRegs(Only(ACC, FromInt(Upper(ProgramLength))))
    BY <1>2, <1>4, <1>5, <2>1
  <2>3. FromInt(Upper(ProgramLength)) = FromInt(Upper(ProgramLength))
    BY <1>1, <1>14 DEF Booted, LoadedBy
  <2>4. SetRegs(Only(ACC, FromInt(Upper(ProgramLength))))
    BY <2>2, <2>3, Zenon
  <2>. QED
    BY <1>14, <2>2, <2>4
<1>15. CASE k = 9
  <2>1. Says(StartProgram[k + 1], MULTI, <<FromNat(ACC), thousand>>)
    BY <1>15, <1>21, StartSays
  <2>2. UNCHANGED eprom /\ SetRegs(Only(ACC, Times(regs[ACC], thousand)))
    BY <1>2, <1>4, <1>5, <2>1
  <2>3. Times(regs[ACC], thousand) = Shl(FromInt(Upper(ProgramLength)), 10)
    <3>1. regs[ACC] = FromInt(Upper(ProgramLength))
      BY <1>15 DEF Booted, LoadedBy
    <3>. QED
      BY <1>1, <1>21, <3>1, LoadedParts
  <2>4. SetRegs(Only(ACC, Shl(FromInt(Upper(ProgramLength)), 10)))
    BY <2>2, <2>3, Zenon
  <2>. QED
    BY <1>15, <2>2, <2>4
<1>16. CASE k = 10
  <2>1. Says(StartProgram[k + 1], ORI, <<FromNat(ACC), FromInt(Lower(ProgramLength))>>)
    BY <1>16, StartSays
  <2>2. UNCHANGED eprom /\ SetRegs(Only(ACC, regs[ACC] \cup Low(FromInt(Lower(ProgramLength)), 22)))
    BY <1>2, <1>4, <1>5, <2>1
  <2>3. regs[ACC] \cup Low(FromInt(Lower(ProgramLength)), 22) = ProgramLength
    <3>1. regs[ACC] = Shl(FromInt(Upper(ProgramLength)), 10)
      BY <1>16 DEF Booted, LoadedBy
    <3>. QED
      BY <1>1, <3>1, LoadedParts
  <2>4. SetRegs(Only(ACC, ProgramLength))
    BY <2>2, <2>3, Zenon
  <2>. QED
    BY <1>16, <2>2, <2>4
<1>17. CASE k = 11
  <2>1. Says(StartProgram[k + 1], ADD, <<FromNat(DS), FromNat(ACC)>>)
    BY <1>17, StartSays
  <2>2. UNCHANGED eprom /\ SetRegs(Only(DS, Plus(regs[DS], regs[ACC])))
    BY <1>2, <1>4, <1>5, <2>1
  <2>3. Plus(regs[DS], regs[ACC]) = DataBegin
    BY <1>1, <1>17 DEF Booted, LoadedBy
  <2>4. SetRegs(Only(DS, DataBegin))
    BY <2>2, <2>3, Zenon
  <2>. QED
    BY <1>17, <2>2, <2>4
<1>18. CASE k = 12
  <2>1. Says(StartProgram[k + 1], LOADI, <<FromNat(ACC), FromInt(0)>>)
    BY <1>18, StartSays
  <2>2. UNCHANGED eprom /\ SetRegs(Only(ACC, FromInt(0)))
    BY <1>2, <1>4, <1>5, <2>1
  <2>3. FromInt(0) = {}
    BY <1>1, <1>18 DEF Booted, LoadedBy
  <2>4. SetRegs(Only(ACC, {}))
    BY <2>2, <2>3, Zenon
  <2>. QED
    BY <1>18, <2>2, <2>4
<1>19. CASE k = 13
  <2>1. Says(StartProgram[k + 1], MOVE, <<FromNat(CS), FromNat(PC)>>)
    BY <1>19, StartSays
  <2>2. UNCHANGED eprom /\ SetRegs(Only(PC, regs[CS]))
    BY <1>2, <1>4, <1>5, <2>1
  <2>3. regs[CS] = FirstInstr
    BY <1>1, <1>19 DEF Booted, LoadedBy
  <2>4. SetRegs(Only(PC, FirstInstr))
    BY <2>2, <2>3, Zenon
  <2>. QED
    BY <1>19, <2>2, <2>4
<1>20. \/ k = 0 \/ k = 1 \/ k = 2 \/ k = 3 \/ k = 4 \/ k = 5 \/ k = 6
       \/ k = 7 \/ k = 8 \/ k = 9 \/ k = 10 \/ k = 11 \/ k = 12 \/ k = 13
  OBVIOUS
<1>. QED
  BY <1>6, <1>7, <1>8, <1>9, <1>10, <1>11, <1>12, <1>13, <1>14, <1>15, <1>16, <1>17, <1>18, <1>19, <1>20

(* One instruction of the start program after the other. *)
LEMMA StartStep ==
    ASSUME regs \in [Registers -> Word], phase = "boot",
           num_instrs_isrs \in Nat, num_instrs_prgrm \in Nat,
           num_instrs_isrs + num_instrs_prgrm <= SramEnd,
           NEW k \in 0 .. 13, Booted(k), eprom = Generated, Cpu
    PROVE  /\ UNCHANGED <<options, loader, eprom>>
           /\ Booted(k + 1)'
           /\ phase' = IF k = 13 THEN "run" ELSE "boot"
<1>1. /\ StackEnd \in Word /\ FirstInstr \in Word /\ ProgramLength \in Word /\ DataBegin \in Word
      /\ 31 \in FirstInstr /\ {} \in Word
  BY StartNumbers DEF Word
<1>2. /\ PC \in Registers /\ SP \in Registers /\ BAF \in Registers /\ CS \in Registers
      /\ DS \in Registers /\ ACC \in Registers /\ IN1 \in Registers /\ IN2 \in Registers
  BY DEF Registers, PC, IN1, IN2, SP, BAF, CS, DS, ACC
<1>3. regs[PC] = FromNat(k)
  BY DEF Booted
<1>4. \A w : FromInt(Upper(w)) \in Word /\ Shl(FromInt(Upper(w)), 10) \in Word
  BY NumbersAreWords, WordsClosed
<1>5. UNCHANGED eprom
  BY StartSets
<1>6. ASSUME NEW r \in Registers, NEW w \in Word, SetRegs(Only(r, w))
      PROVE  /\ StackEnd' = StackEnd /\ FirstInstr' = FirstInstr
             /\ ProgramLength' = ProgramLength /\ DataBegin' = DataBegin
             /\ UNCHANGED <<options, loader>>
             /\ regs'[r] = w
             /\ r # PC => regs'[PC] = FromNat(k + 1) /\ phase' = "boot"
             /\ \A q \in Registers : q # r /\ q # PC => regs'[q] = regs[q]
             /\ r = PC /\ 31 \in w => phase' = "run"
  <2>1. UNCHANGED <<options, loader>>
    BY <1>3, <1>6, StartAdvanced
  <2>2. /\ StackEnd' = StackEnd /\ FirstInstr' = FirstInstr
        /\ ProgramLength' = ProgramLength /\ DataBegin' = DataBegin
    BY <2>1 DEF options, loader, sizes, StackEnd, FirstInstr, ProgramLength, DataBegin
  <2>. QED
    BY <1>3, <1>6, <2>1, <2>2, StartAdvanced
<1>7. CASE k = 0
  <2>1. SetRegs(Only(SP, FromInt(Upper(StackEnd))))
    BY <1>7, StartSets
  <2>2. FromInt(Upper(StackEnd)) \in Word
    BY <1>1, <1>4
  <2>3. /\ StackEnd' = StackEnd /\ FirstInstr' = FirstInstr
        /\ ProgramLength' = ProgramLength /\ DataBegin' = DataBegin
        /\ UNCHANGED <<options, loader>>
        /\ regs'[SP] = FromInt(Upper(StackEnd))
        /\ regs'[PC] = FromNat(k + 1) /\ phase' = "boot"
        /\ regs'[BAF] = regs[BAF] /\ regs'[CS] = regs[CS] /\ regs'[DS] = regs[DS]
        /\ regs'[ACC] = regs[ACC] /\ regs'[IN1] = regs[IN1] /\ regs'[IN2] = regs[IN2]
    BY <1>1, <1>2, <1>6, <2>1, <2>2 DEF PC, IN1, IN2, SP, BAF, CS, DS, ACC
  <2>4. Booted(k + 1)'
    BY <1>7, <2>3 DEF Booted, LoadedBy
  <2>. QED
    BY <1>5, <1>7, <2>3, <2>4
<1>8. CASE k = 1
  <2>1. SetRegs(Only(SP, Shl(FromInt(Upper(StackEnd)), 10)))
    BY <1>8, StartSets
  <2>2. Shl(FromInt(Upper(StackEnd)), 10) \in Word
    BY <1>1, <1>4
  <2>3. /\ StackEnd' = StackEnd /\ FirstInstr' = FirstInstr
        /\ ProgramLength' = ProgramLength /\ DataBegin' = DataBegin
        /\ UNCHANGED <<options, loader>>
        /\ regs'[SP] = Shl(FromInt(Upper(StackEnd)), 10)
        /\ regs'[PC] = FromNat(k + 1) /\ phase' = "boot"
        /\ regs'[BAF] = regs[BAF] /\ regs'[CS] = regs[CS] /\ regs'[DS] = regs[DS]
        /\ regs'[ACC] = regs[ACC] /\ regs'[IN1] = regs[IN1] /\ regs'[IN2] = regs[IN2]
    BY <1>1, <1>2, <1>6, <2>1, <2>2 DEF PC, IN1, IN2, SP, BAF, CS, DS, ACC
  <2>4. Booted(k + 1)'
    BY <1>8, <2>3 DEF Booted, LoadedBy
  <2>. QED
    BY <1>5, <1>8, <2>3, <2>4
<1>9. CASE k = 2
  <2>1. SetRegs(Only(SP, StackEnd))
    BY <1>9, StartSets
  <2>2. StackEnd \in Word
    BY <1>1, <1>4
  <2>3. /\ StackEnd' = StackEnd /\ FirstInstr' = FirstInstr
        /\ ProgramLength' = ProgramLength /\ DataBegin' = DataBegin
        /\ UNCHANGED <<options, loader>>
        /\ regs'[SP] = StackEnd
        /\ regs'[PC] = FromNat(k + 1) /\ phase' = "boot"
        /\ regs'[BAF] = regs[BAF] /\ regs'[CS] = regs[CS] /\ regs'[DS] = regs[DS]
        /\ regs'[ACC] = regs[ACC] /\ regs'[IN1] = regs[IN1] /\ regs'[IN2] = regs[IN2]
    BY <1>1, <1>2, <1>6, <2>1, <2>2 DEF PC, IN1, IN2, SP, BAF, CS, DS, ACC
  <2>4. Booted(k + 1)'
    BY <1>9, <2>3 DEF Booted, LoadedBy
  <2>. QED
    BY <1>5, <1>9, <2>3, <2>4
<1>10. CASE k = 3
  <2>1. SetRegs(Only(BAF, StackEnd))
    BY <1>10, StartSets
  <2>2. StackEnd \in Word
    BY <1>1, <1>4
  <2>3. /\ StackEnd' = StackEnd /\ FirstInstr' = FirstInstr
        /\ ProgramLength' = ProgramLength /\ DataBegin' = DataBegin
        /\ UNCHANGED <<options, loader>>
        /\ regs'[BAF] = StackEnd
        /\ regs'[PC] = FromNat(k + 1) /\ phase' = "boot"
        /\ regs'[SP] = regs[SP] /\ regs'[CS] = regs[CS] /\ regs'[DS] = regs[DS]
        /\ regs'[ACC] = regs[ACC] /\ regs'[IN1] = regs[IN1] /\ regs'[IN2] = regs[IN2]
    BY <1>1, <1>2, <1>6, <2>1, <2>2 DEF PC, IN1, IN2, SP, BAF, CS, DS, ACC
  <2>4. Booted(k + 1)'
    BY <1>10, <2>3 DEF Booted, LoadedBy
  <2>. QED
    BY <1>5, <1>10, <2>3, <2>4
<1>11. CASE k = 4
  <2>1. SetRegs(Only(CS, FromInt(Upper(FirstInstr))))
    BY <1>11, StartSets
  <2>2. FromInt(Upper(FirstInstr)) \in Word
    BY <1>1, <1>4
  <2>3. /\ StackEnd' = StackEnd /\ FirstInstr' = FirstInstr
        /\ ProgramLength' = ProgramLength /\ DataBegin' = DataBegin
        /\ UNCHANGED <<options, loader>>
        /\ regs'[CS] = FromInt(Upper(FirstInstr))
        /\ regs'[PC] = FromNat(k + 1) /\ phase' = "boot"
        /\ regs'[SP] = regs[SP] /\ regs'[BAF] = regs[BAF] /\ regs'[DS] = regs[DS]
        /\ regs'[ACC] = regs[ACC] /\ regs'[IN1] = regs[IN1] /\ regs'[IN2] = regs[IN2]
    BY <1>1, <1>2, <1>6, <2>1, <2>2 DEF PC, IN1, IN2, SP, BAF, CS, DS, ACC
  <2>4. Booted(k + 1)'
    BY <1>11, <2>3 DEF Booted, LoadedBy
  <2>. QED
    BY <1>5, <1>11, <2>3, <2>4
<1>12. CASE k = 5
  <2>1. SetRegs(Only(CS, Shl(FromInt(Upper(FirstInstr)), 10)))
    BY <1>12, StartSets
  <2>2. Shl(FromInt(Upper(FirstInstr)), 10) \in Word
    BY <1>1, <1>4
  <2>3. /\ StackEnd' = StackEnd /\ FirstInstr' = FirstInstr
        /\ ProgramLength' = ProgramLength /\ DataBegin' = DataBegin
        /\ UNCHANGED <<options, loader>>
        /\ regs'[CS] = Shl(FromInt(Upper(FirstInstr)), 10)
        /\ regs'[PC] = FromNat(k + 1) /\ phase' = "boot"
        /\ regs'[SP] = regs[SP] /\ regs'[BAF] = regs[BAF] /\ regs'[DS] = regs[DS]
        /\ regs'[ACC] = regs[ACC] /\ regs'[IN1] = regs[IN1] /\ regs'[IN2] = regs[IN2]
    BY <1>1, <1>2, <1>6, <2>1, <2>2 DEF PC, IN1, IN2, SP, BAF, CS, DS, ACC
  <2>4. Booted(k + 1)'
    BY <1>12, <2>3 DEF Booted, LoadedBy
  <2>. QED
    BY <1>5, <1>12, <2>3, <2>4
<1>13. CASE k = 6
  <2>1. SetRegs(Only(CS, FirstInstr))
    BY <1>13, StartSets
  <2>2. FirstInstr \in Word
    BY <1>1, <1>4
  <2>3. /\ StackEnd' = StackEnd /\ FirstInstr' = FirstInstr
        /\ ProgramLength' = ProgramLength /\ DataBegin' = DataBegin
        /\ UNCHANGED <<options, loader>>
        /\ regs'[CS] = FirstInstr
        /\ regs'[PC] = FromNat(k + 1) /\ phase' = "boot"
        /\ regs'[SP] = regs[SP] /\ regs'[BAF] = regs[BAF] /\ regs'[DS] = regs[DS]
        /\ regs'[ACC] = regs[ACC] /\ regs'[IN1] = regs[IN1] /\ regs'[IN2] = regs[IN2]
    BY <1>1, <1>2, <1>6, <2>1, <2>2 DEF PC, IN1, IN2, SP, BAF, CS, DS, ACC
  <2>4. Booted(k + 1)'
    BY <1>13, <2>3 DEF Booted, LoadedBy
  <2>. QED
    BY <1>5, <1>13, <2>3, <2>4
<1>14. CASE k = 7
  <2>1. SetRegs(Only(DS, FirstInstr))
    BY <1>14, StartSets
  <2>2. FirstInstr \in Word
    BY <1>1, <1>4
  <2>3. /\ StackEnd' = StackEnd /\ FirstInstr' = FirstInstr
        /\ ProgramLength' = ProgramLength /\ DataBegin' = DataBegin
        /\ UNCHANGED <<options, loader>>
        /\ regs'[DS] = FirstInstr
        /\ regs'[PC] = FromNat(k + 1) /\ phase' = "boot"
        /\ regs'[SP] = regs[SP] /\ regs'[BAF] = regs[BAF] /\ regs'[CS] = regs[CS]
        /\ regs'[ACC] = regs[ACC] /\ regs'[IN1] = regs[IN1] /\ regs'[IN2] = regs[IN2]
    BY <1>1, <1>2, <1>6, <2>1, <2>2 DEF PC, IN1, IN2, SP, BAF, CS, DS, ACC
  <2>4. Booted(k + 1)'
    BY <1>14, <2>3 DEF Booted, LoadedBy
  <2>. QED
    BY <1>5, <1>14, <2>3, <2>4
<1>15. CASE k = 8
  <2>1. SetRegs(Only(ACC, FromInt(Upper(ProgramLength))))
    BY <1>15, StartSets
  <2>2. FromInt(Upper(ProgramLength)) \in Word
    BY <1>1, <1>4
  <2>3. /\ StackEnd' = StackEnd /\ FirstInstr' = FirstInstr
        /\ ProgramLength' = ProgramLength /\ DataBegin' = DataBegin
        /\ UNCHANGED <<options, loader>>
        /\ regs'[ACC] = FromInt(Upper(ProgramLength))
        /\ regs'[PC] = FromNat(k + 1) /\ phase' = "boot"
        /\ regs'[SP] = regs[SP] /\ regs'[BAF] = regs[BAF] /\ regs'[CS] = regs[CS]
        /\ regs'[DS] = regs[DS] /\ regs'[IN1] = regs[IN1] /\ regs'[IN2] = regs[IN2]
    BY <1>1, <1>2, <1>6, <2>1, <2>2 DEF PC, IN1, IN2, SP, BAF, CS, DS, ACC
  <2>4. Booted(k + 1)'
    BY <1>15, <2>3 DEF Booted, LoadedBy
  <2>. QED
    BY <1>5, <1>15, <2>3, <2>4
<1>16. CASE k = 9
  <2>1. SetRegs(Only(ACC, Shl(FromInt(Upper(ProgramLength)), 10)))
    BY <1>16, StartSets
  <2>2. Shl(FromInt(Upper(ProgramLength)), 10) \in Word
    BY <1>1, <1>4
  <2>3. /\ StackEnd' = StackEnd /\ FirstInstr' = FirstInstr
        /\ ProgramLength' = ProgramLength /\ DataBegin' = DataBegin
        /\ UNCHANGED <<options, loader>>
        /\ regs'[ACC] = Shl(FromInt(Upper(ProgramLength)), 10)
        /\ regs'[PC] = FromNat(k + 1) /\ phase' = "boot"
        /\ regs'[SP] = regs[SP] /\ regs'[BAF] = regs[BAF] /\ regs'[CS] = regs[CS]
        /\ regs'[DS] = regs[DS] /\ regs'[IN1] = regs[IN1] /\ regs'[IN2] = regs[IN2]
    BY <1>1, <1>2, <1>6, <2>1, <2>2 DEF PC, IN1, IN2, SP, BAF, CS, DS, ACC
  <2>4. Booted(k + 1)'
    BY <1>16, <2>3 DEF Booted, LoadedBy
  <2>. QED
    BY <1>5, <1>16, <2>3, <2>4
<1>17. CASE k = 10
  <2>1. SetRegs(Only(ACC, ProgramLength))
    BY <1>17, StartSets
  <2>2. ProgramLength \in Word
    BY <1>1, <1>4
  <2>3. /\ StackEnd' = StackEnd /\ FirstInstr' = FirstInstr
        /\ ProgramLength' = ProgramLength /\ DataBegin' = DataBegin
        /\ UNCHANGED <<options, loader>>
        /\ regs'[ACC] = ProgramLength
        /\ regs'[PC] = FromNat(k + 1) /\ phase' = "boot"
        /\ regs'[SP] = regs[SP] /\ regs'[BAF] = regs[BAF] /\ regs'[CS] = regs[CS]
        /\ regs'[DS] = regs[DS] /\ regs'[IN1] = regs[IN1] /\ regs'[IN2] = regs[IN2]
    BY <1>1, <1>2, <1>6, <2>1, <2>2 DEF PC, IN1, IN2, SP, BAF, CS, DS, ACC
  <2>4. Booted(k + 1)'
    BY <1>17, <2>3 DEF Booted, LoadedBy
  <2>. QED
    BY <1>5, <1>17, <2>3, <2>4
<1>18. CASE k = 11
  <2>1. SetRegs(Only(DS, DataBegin))
    BY <1>18, StartSets
  <2>2. DataBegin \in Word
    BY <1>1, <1>4
  <2>3. /\ StackEnd' = StackEnd /\ FirstInstr' = FirstInstr
        /\ ProgramLength' = ProgramLength /\ DataBegin' = DataBegin
        /\ UNCHANGED <<options, loader>>
        /\ regs'[DS] = DataBegin
        /\ regs'[PC] = FromNat(k + 1) /\ phase' = "boot"
        /\ regs'[SP] = regs[SP] /\ regs'[BAF] = regs[BAF] /\ regs'[CS] = regs[CS]
        /\ regs'[ACC] = regs[ACC] /\ regs'[IN1] = regs[IN1] /\ regs'[IN2] = regs[IN2]
    BY <1>1, <1>2, <1>6, <2>1, <2>2 DEF PC, IN1, IN2, SP, BAF, CS, DS, ACC
  <2>4. Booted(k + 1)'
    BY <1>18, <2>3 DEF Booted, LoadedBy
  <2>. QED
    BY <1>5, <1>18, <2>3, <2>4
<1>19. CASE k = 12
  <2>1. SetRegs(Only(ACC, {}))
    BY <1>19, StartSets
  <2>2. {} \in Word
    BY <1>1, <1>4
  <2>3. /\ StackEnd' = StackEnd /\ FirstInstr' = FirstInstr
        /\ ProgramLength' = ProgramLength /\ DataBegin' = DataBegin
        /\ UNCHANGED <<options, loader>>
        /\ regs'[ACC] = {}
        /\ regs'[PC] = FromNat(k + 1) /\ phase' = "boot"
        /\ regs'[SP] = regs[SP] /\ regs'[BAF] = regs[BAF] /\ regs'[CS] = regs[CS]
        /\ regs'[DS] = regs[DS] /\ regs'[IN1] = regs[IN1] /\ regs'[IN2] = regs[IN2]
    BY <1>1, <1>2, <1>6, <2>1, <2>2 DEF PC, IN1, IN2, SP, BAF, CS, DS, ACC
  <2>4. Booted(k + 1)'
    BY <1>19, <2>3 DEF Booted, LoadedBy
  <2>. QED
    BY <1>5, <1>19, <2>3, <2>4
<1>20. CASE k = 13
  <2>1. SetRegs(Only(PC, FirstInstr))
    BY <1>20, StartSets
  <2>2. FirstInstr \in Word
    BY <1>1, <1>4
  <2>3. /\ StackEnd' = StackEnd /\ FirstInstr' = FirstInstr
        /\ ProgramLength' = ProgramLength /\ DataBegin' = DataBegin
        /\ UNCHANGED <<options, loader>>
        /\ regs'[PC] = FirstInstr
        /\ phase' = "run"
        /\ regs'[SP] = regs[SP] /\ regs'[BAF] = regs[BAF] /\ regs'[CS] = regs[CS]
        /\ regs'[DS] = regs[DS] /\ regs'[ACC] = regs[ACC] /\ regs'[IN1] = regs[IN1] /\ regs'[IN2] = regs[IN2]
    BY <1>1, <1>2, <1>6, <2>1, <2>2 DEF PC, IN1, IN2, SP, BAF, CS, DS, ACC
  <2>4. Booted(k + 1)'
    BY <1>20, <2>3 DEF Booted, LoadedBy
  <2>. QED
    BY <1>5, <1>20, <2>3, <2>4
<1>21. \/ k = 0 \/ k = 1 \/ k = 2 \/ k = 3 \/ k = 4 \/ k = 5 \/ k = 6
       \/ k = 7 \/ k = 8 \/ k = 9 \/ k = 10 \/ k = 11 \/ k = 12 \/ k = 13
  OBVIOUS
<1>. QED
  BY <1>7, <1>8, <1>9, <1>10, <1>11, <1>12, <1>13, <1>14, <1>15, <1>16, <1>17, <1>18, <1>19, <1>20, <1>21

\* The start program is made when no EPROM program is given; the service
\* routines and the program end in SRAM then.
EpromSource == (phase = "eprom" => eprom_given) /\ (phase = "generate" => ~ eprom_given)
ProgramFits ==
    phase \in {"generate", "boot"} /\ ~ eprom_given => num_instrs_isrs + num_instrs_prgrm <= SramEnd

\* Until the CPU starts, its registers are 0.
RegistersClear == phase \in {"isrs", "prgrm", "generate"} => regs = [r \in Registers |-> {}]

\* The CPU is at some instruction of the start program, which is intact, and
\* the ones before it have done their work.
Booting ==
    phase = "boot" /\ ~ eprom_given => eprom = Generated /\ \E k \in 0 .. 13 : Booted(k)

BootInv == EpromSource /\ ProgramFits /\ RegistersClear /\ Booting

(* It holds in the beginning. *)
LEMMA BootInvInit == Init => BootInv
BY DEF Init, BootInv, EpromSource, ProgramFits, RegistersClear, Booting

(* The CPU does not go back to the start program. *)
LEMMA CpuRuns ==
    ASSUME Cpu, phase = "run"
    PROVE  phase' # "boot"
<1>1. CASE \E new : SetRegs(new)
  BY <1>1 DEF SetRegs
<1>2. CASE Stop
  BY <1>2 DEF Stop
<1>3. Compute => \E new : SetRegs(new)
  BY DEF Compute
<1>4. Transfer => \E new : SetRegs(new)
  BY Zenon DEF Transfer
<1>5. Store => \E new : SetRegs(new)
  BY DEF Store
<1>6. Jump => \E new : SetRegs(new)
  BY Zenon DEF Jump
<1>7. Call => \E new : SetRegs(new)
  BY DEF Call
<1>8. Breakpoint => \E new : SetRegs(new)
  BY DEF Breakpoint
<1>9. Return => \E new : SetRegs(new)
  BY DEF Return
<1>. QED
  BY <1>1, <1>2, <1>3, <1>4, <1>5, <1>6, <1>7, <1>8, <1>9 DEF Cpu

(* The start program is assembled, not refused. *)
LEMMA StartAccepted == \A k \in DOMAIN StartProgram : Accepted(StartProgram[k])
<1>1. \A k \in 1 .. 14 : \/ k = 1 \/ k = 2 \/ k = 3 \/ k = 4 \/ k = 5 \/ k = 6 \/ k = 7
                         \/ k = 8 \/ k = 9 \/ k = 10 \/ k = 11 \/ k = 12 \/ k = 13 \/ k = 14
  OBVIOUS
<1>2. \A line, op, said : Says(line, op, said) => Accepted(line)
  BY DEF Says
<1>3. /\ Accepted(StartProgram[1]) /\ Accepted(StartProgram[2]) /\ Accepted(StartProgram[3])
      /\ Accepted(StartProgram[4]) /\ Accepted(StartProgram[5]) /\ Accepted(StartProgram[6])
      /\ Accepted(StartProgram[7]) /\ Accepted(StartProgram[8]) /\ Accepted(StartProgram[9])
      /\ Accepted(StartProgram[10]) /\ Accepted(StartProgram[11]) /\ Accepted(StartProgram[12])
      /\ Accepted(StartProgram[13]) /\ Accepted(StartProgram[14])
  BY <1>2, StartSays
<1>. QED
  BY <1>1, <1>3, StartLines

(* So the emulator goes on to the CPU, all registers 0. *)
LEMMA GenerateBoots ==
    ASSUME RegistersClear, GenerateEprom
    PROVE  /\ phase' = "boot" /\ UNCHANGED <<options, loader>>
           /\ eprom' = Generated' /\ Booted(0)'
<1>1. phase = "generate" /\ phase' = "boot" /\ UNCHANGED <<options, loader, regs>> /\ eprom' = Generated
  BY StartAccepted DEF GenerateEprom, Generated
<1>2. StartProgram' = StartProgram
  BY <1>1 DEF options, loader, sizes, StartProgram, LoadNumber, Move
<1>3. Generated' = Generated
  BY <1>2 DEF Generated
<1>4. FromNat(0) = {}
  BY ZeroBits
<1>5. \A r \in Registers : regs'[r] = {}
  BY <1>1 DEF RegistersClear
<1>6. Booted(0)'
  BY <1>4, <1>5 DEF Booted, LoadedBy, Registers, PC, IN1, IN2, ACC, SP, BAF, CS, DS
<1>. QED
  BY <1>1, <1>3, <1>6

(* Until the start program ends, every step of the CPU is one of its *)
(* instructions.                                                     *)
LEMMA CpuBoots ==
    ASSUME RetiAssumption, LoaderInv, BootInv, Cpu
    PROVE  /\ BootInv'
           /\ phase = "boot" /\ ~ eprom_given /\ phase' = "run" => Booted(14)' /\ UNCHANGED <<options, loader>>
<1>1. StepTyped
  BY CpuTyped DEF LoaderInv, TypeOK, MachineTyped
<1>2. EpromSource' /\ RegistersClear'
  BY <1>1 DEF StepTyped, EpromSource, RegistersClear
<1>3. /\ UNCHANGED <<eprom_given, num_instrs_isrs, num_instrs_prgrm>> /\ SramEnd' = SramEnd
      /\ UNCHANGED <<options, loader>>
  BY <1>1 DEF StepTyped, options, loader, sizes, SramEnd
<1>4. CASE phase = "boot" /\ ~ eprom_given
  <2>1. /\ regs \in [Registers -> Word]
        /\ num_instrs_isrs \in Nat /\ num_instrs_prgrm \in Nat
        /\ num_instrs_isrs + num_instrs_prgrm <= SramEnd /\ eprom = Generated
    BY <1>4 DEF LoaderInv, TypeOK, BootInv, ProgramFits, Booting
  <2>2. PICK k \in 0 .. 13 : Booted(k)
    BY <1>4 DEF BootInv, Booting
  <2>3. UNCHANGED eprom /\ Booted(k + 1)' /\ phase' = IF k = 13 THEN "run" ELSE "boot"
    BY <1>4, <2>1, <2>2, StartStep
  <2>4. Generated' = Generated
    BY <1>3 DEF options, loader, sizes, Generated, StartProgram, LoadNumber, Move
  <2>5. ProgramFits'
    BY <1>3, <2>1 DEF ProgramFits
  <2>6. CASE k = 13
    <3>1. k + 1 = 14
      BY <2>6
    <3>2. Booted(14)'
      BY <2>3, <3>1, Zenon
    <3>. QED
      BY <1>2, <1>3, <2>3, <2>5, <2>6, <3>2 DEF BootInv, Booting
  <2>7. CASE k # 13
    <3>1. k + 1 \in 0 .. 13 /\ phase' = "boot"
      BY <2>3, <2>7
    <3>2. \E j \in 0 .. 13 : Booted(j)'
      BY <2>3, <3>1, Zenon
    <3>3. Booting'
      BY <2>1, <2>3, <2>4, <3>2 DEF Booting
    <3>. QED
      BY <1>2, <2>5, <3>1, <3>3 DEF BootInv
  <2>. QED
    BY <2>6, <2>7
<1>5. CASE ~ (phase = "boot" /\ ~ eprom_given)
  <2>1. phase' = "boot" => eprom_given'
    BY <1>1, <1>3, <1>5, CpuRuns DEF StepTyped
  <2>2. ProgramFits' /\ Booting'
    BY <1>1, <2>1 DEF StepTyped, ProgramFits, Booting
  <2>. QED
    BY <1>2, <1>5, <2>2 DEF BootInv
<1>. QED
  BY <1>4, <1>5

(* Every step keeps the invariant. *)
LEMMA BootInvStep ==
    ASSUME RetiAssumption, LoaderInv, BootInv, [Next]_vars
    PROVE  BootInv'
<1>1. SramEnd' = SramEnd
  BY DEF SramEnd
<1>2. /\ i \in Nat /\ i <= SramEnd /\ num_instrs_isrs \in Nat
      /\ phase = "prgrm" => num_instrs_isrs <= i
  BY DEF LoaderInv, TypeOK, LoadProgress
<1>3. CASE \/ \E line \in Lines : LoadLine(line)
           \/ PassOver \/ \E n \in Gaps : LoadGap(n)
  <2>1. phase \in {"isrs", "prgrm", "eprom"} /\ UNCHANGED <<phase, options, regs>>
    BY <1>3 DEF LoadLine, PassOver, LoadGap, Loading
  <2>. QED
    BY <2>1 DEF BootInv, EpromSource, ProgramFits, RegistersClear, Booting, options
<1>4. CASE \E line \in Lines : RefuseLine(line)
  BY <1>4 DEF RefuseLine, BootInv, EpromSource, ProgramFits, RegistersClear, Booting
<1>5. CASE EndIsrs
  BY <1>5 DEF EndIsrs, BootInv, EpromSource, ProgramFits, RegistersClear, Booting
<1>6. CASE EndPrgrm
  <2>1. num_instrs_isrs' + num_instrs_prgrm' = i
    BY <1>2, <1>6 DEF EndPrgrm
  <2>. QED
    BY <1>1, <1>2, <1>6, <2>1 DEF EndPrgrm, BootInv, EpromSource, ProgramFits, RegistersClear, Booting, options
<1>7. CASE EndEprom
  BY <1>7 DEF EndEprom, BootInv, EpromSource, ProgramFits, RegistersClear, Booting, options
<1>8. CASE GenerateEprom
  <2>1. /\ phase' = "boot" /\ UNCHANGED <<options, loader>>
        /\ eprom' = Generated' /\ Booted(0)' /\ phase = "generate"
    BY <1>8, GenerateBoots DEF BootInv, GenerateEprom
  <2>2. EpromSource' /\ ProgramFits' /\ RegistersClear'
    BY <1>1, <2>1 DEF BootInv, EpromSource, ProgramFits, RegistersClear, options, loader, sizes
  <2>3. \E k \in 0 .. 13 : Booted(k)'
    <3>1. 0 \in 0 .. 13
      OBVIOUS
    <3>. QED
      BY <2>1, <3>1, Zenon
  <2>4. Booting'
    BY <2>1, <2>3 DEF Booting
  <2>. QED
    BY <2>2, <2>4 DEF BootInv
<1>9. CASE Cpu
  BY <1>9, CpuBoots
<1>10. CASE UNCHANGED vars
  BY <1>10 DEF vars, options, loader, sizes, BootInv, EpromSource, ProgramFits, RegistersClear, Booting,
               SramEnd, Generated, StartProgram, LoadNumber, Move, Booted, StackEnd, FirstInstr,
               ProgramLength, DataBegin
<1>. QED
  BY <1>3, <1>4, <1>5, <1>6, <1>7, <1>8, <1>9, <1>10 DEF Next, Load

(* Whatever the sizes of SRAM, of the service routines and of the program,    *)
(* the generated start program is made of numbers in their range and, when it *)
(* has run, leaves the CPU at the first instruction of the program, the data  *)
(* segment behind it, the stack at the end of SRAM and the other registers 0. *)
THEOREM RetiBoots == Spec => BootEntersProgram
<1> DEFINE Claim == /\ phase = "generate" => phase' = "boot"
                    /\ phase = "boot" /\ phase' = "run" /\ ~ eprom_given =>
                         /\ regs'[PC] = {31} \cup FromNat(num_instrs_isrs)
                         /\ regs'[CS] = regs'[PC]
                         /\ regs'[DS] = {31} \cup FromNat(num_instrs_isrs + num_instrs_prgrm)
                         /\ regs'[SP] = {31} \cup FromInt(sram_size - 1)
                         /\ regs'[BAF] = regs'[SP]
                         /\ regs'[ACC] = {} /\ regs'[IN1] = {} /\ regs'[IN2] = {}
<1>1. LoaderInv /\ BootInv /\ Next => Claim
  <2>1. SUFFICES ASSUME LoaderInv, BootInv, Next PROVE Claim
    OBVIOUS
  <2>2. ASSUME phase = "generate"
        PROVE  phase' = "boot"
    <3>1. GenerateEprom
      <4>1. ~ Cpu
        BY <2>2, CpuTyped, RetiAssumption, <2>1 DEF LoaderInv, TypeOK, MachineTyped, StepTyped
      <4>. QED
        BY <2>1, <2>2, <4>1 DEF Next, Load, Loading, PassOver, LoadGap, EndIsrs, EndPrgrm, EndEprom
    <3>. QED
      BY <2>1, <3>1, GenerateBoots DEF BootInv
  <2>3. ASSUME phase = "boot", phase' = "run", ~ eprom_given
        PROVE  Booted(14)' /\ UNCHANGED <<options, loader>>
    <3>1. Cpu
      BY <2>1, <2>3 DEF Next, Load, Loading, PassOver, LoadGap, EndIsrs, EndPrgrm, EndEprom, GenerateEprom
    <3>. QED
      BY <2>1, <2>3, <3>1, CpuBoots, RetiAssumption
  <2>4. ASSUME Booted(14)', UNCHANGED <<options, loader>>
        PROVE  /\ regs'[PC] = FirstInstr /\ regs'[SP] = StackEnd /\ regs'[BAF] = StackEnd
               /\ regs'[CS] = FirstInstr /\ regs'[DS] = DataBegin
               /\ regs'[ACC] = {} /\ regs'[IN1] = {} /\ regs'[IN2] = {}
    <3>1. StackEnd' = StackEnd /\ FirstInstr' = FirstInstr /\ DataBegin' = DataBegin
      BY <2>4 DEF options, loader, sizes, StackEnd, FirstInstr, DataBegin
    <3>. QED
      BY <2>4, <3>1 DEF Booted, LoadedBy
  <2>. QED
    BY <2>2, <2>3, <2>4 DEF StackEnd, FirstInstr, DataBegin
<1>2. Spec => [](LoaderInv /\ BootInv)
  <2>1. Init => LoaderInv /\ BootInv
    BY LoaderInvInit, BootInvInit, RetiAssumption
  <2>2. LoaderInv /\ BootInv /\ [Next]_vars => LoaderInv' /\ BootInv'
    BY LoaderInvStep, BootInvStep, RetiAssumption
  <2>. QED
    BY <2>1, <2>2, PTL DEF Spec
<1> HIDE DEF Claim
<1>3. Spec => [][Claim]_vars
  BY <1>1, <1>2, PTL DEF Spec
<1>. QED
  BY <1>3 DEF Claim, BootEntersProgram
=============================================================================
