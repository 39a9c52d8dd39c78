------------------------ MODULE ControllerHeap_proofs ------------------------
(***************************************************************************)
(* Proofs about the array heap and the controller on top of it, for every  *)
(* set of interrupts, every assignment of priorities and every capacity.   *)
(* First the heap alone: its types, its order, that its root is a highest  *)
(* interrupt, and that it implements the bag of PriorityQueue; then the    *)
(* controller, which implements InterruptController.                       *)
(***************************************************************************)
EXTENDS ControllerHeap, LeastElement

(* The index arithmetic of the tree: a parent lies strictly before its     *)
(* children, and the children of slot p are 2p + 1 and 2p + 2.             *)
LEMMA ParentIndex ==
    ASSUME NEW i \in Nat, i > 0
    PROVE  /\ Parent(i) \in Nat
           /\ Parent(i) < i
           /\ \A p \in Nat : Parent(i) = p <=> i = 2 * p + 1 \/ i = 2 * p + 2
BY DEF Parent

(* What the priority of a slot is, as a number that can be compared.       *)
LEMMA PriorityType ==
    ASSUME TypeOK, NEW i \in Slots
    PROVE  Prio(i) \in Nat
BY HeapAssumption DEF TypeOK, Prio

(* In the body of heapify_down the indices of both children stay below     *)
(* 256: an index that wrapped around would make a parent its own child.    *)
LEMMA ChildrenDoNotWrap ==
    ASSUME TypeOK, 2 * idx + 1 < heap_size
    PROVE  Left = 2 * idx + 1 /\ Right = 2 * idx + 2
<1>1. idx \in Nat /\ heap_size \in Nat /\ HEAP_SIZE \in Nat /\ heap_size <= HEAP_SIZE
  BY HeapAssumption DEF TypeOK, Slots
<1>2. \A n \in Nat : n <= HEAP_SIZE => U8(n) = n
  BY <1>1 DEF U8
<1>. QED  BY <1>1, <1>2 DEF Left, Right

(* heapify_down chooses a child that no child of idx outranks and that     *)
(* outranks idx itself, or stays where it is because neither child does.   *)
LEMMA LargestIsLargest ==
    ASSUME TypeOK, 2 * idx + 1 < heap_size
    PROVE  /\ Largest \in {idx, 2 * idx + 1, 2 * idx + 2}
           /\ Largest \in Slots
           /\ Largest # idx => Largest < heap_size /\ Prio(Largest) > Prio(idx)
           /\ Prio(2 * idx + 1) <= Prio(Largest)
           /\ 2 * idx + 2 < heap_size => Prio(2 * idx + 2) <= Prio(Largest)
           /\ Prio(idx) <= Prio(Largest)
<1>1. /\ idx \in Nat /\ heap_size \in Nat /\ HEAP_SIZE \in Nat /\ heap_size <= HEAP_SIZE
      /\ idx \in Slots /\ Slots = 0 .. HEAP_SIZE - 1
  BY HeapAssumption DEF TypeOK, Slots
<1>2. Left = 2 * idx + 1 /\ Right = 2 * idx + 2
  BY ChildrenDoNotWrap
<1>. DEFINE l == 2 * idx + 1
            r == 2 * idx + 2
<1>3. l \in Slots /\ l < heap_size /\ l # idx /\ r # idx /\ l # r /\ r \in Nat
  BY <1>1
<1>4. r < heap_size => r \in Slots
  BY <1>1
<1>5. Prio(idx) \in Nat /\ Prio(l) \in Nat /\ (r < heap_size => Prio(r) \in Nat)
  BY <1>1, <1>3, <1>4, PriorityType
<1>. DEFINE m == Larger(l, idx)
<1>6. /\ m \in {idx, l} /\ m \in Slots /\ Prio(m) \in Nat
      /\ m = l => Prio(l) > Prio(idx)
      /\ Prio(idx) <= Prio(m) /\ Prio(l) <= Prio(m)
  <2>. HIDE DEF l, r
  <2>. QED  BY <1>1, <1>3, <1>5 DEF Larger
<1>7. Largest = Larger(r, m)
  BY <1>2 DEF Largest
<1>8. Largest = IF r < heap_size /\ Prio(r) > Prio(m) THEN r ELSE m
  <2>. HIDE DEF l, r, m
  <2>. QED  BY <1>7 DEF Larger
<1>. HIDE DEF l, r, m
<1>9. CASE r < heap_size /\ Prio(r) > Prio(m)
  BY <1>1, <1>3, <1>4, <1>5, <1>6, <1>8, <1>9 DEF l, r
<1>10. CASE ~(r < heap_size /\ Prio(r) > Prio(m))
  BY <1>1, <1>3, <1>4, <1>5, <1>6, <1>8, <1>10 DEF l, r
<1>. QED  BY <1>9, <1>10

(* Exchanging two slots exchanges their priorities and leaves the others.  *)
LEMMA SwappedPriorities ==
    ASSUME TypeOK, NEW i \in Slots, NEW j \in Slots, isr_heap' = Swapped(i, j)
    PROVE  /\ isr_heap' \in [Slots -> Isrs]
           /\ Prio(i)' = Prio(j)
           /\ Prio(j)' = Prio(i)
           /\ \A k \in Slots \ {i, j} : Prio(k)' = Prio(k)
BY HeapAssumption DEF TypeOK, Swapped, Prio

(* No step of the heap leaves the types: the indices stay within the       *)
(* array, and heap_size + 1 and --heap_size stay within 0 and UINT8_MAX.   *)
LEMMA HeapTypeStep == TypeOK /\ [Next]_vars => TypeOK'
<1>. SUFFICES ASSUME TypeOK, [Next]_vars PROVE TypeOK'
  OBVIOUS
<1>1. /\ HEAP_SIZE \in Nat \ {0} /\ Slots = 0 .. HEAP_SIZE - 1
      /\ heap_size \in 0 .. HEAP_SIZE /\ idx \in Slots
      /\ isr_heap \in [Slots -> Isrs]
  BY HeapAssumption DEF TypeOK, Slots
<1>2. ASSUME NEW isr \in Isrs, Insert(isr) PROVE TypeOK'
  BY <1>1, <1>2 DEF Insert, TypeOK
<1>3. CASE UpSwap
  <2>1. idx \in Nat /\ idx > 0 /\ Parent(idx) \in Nat /\ Parent(idx) < idx
    BY <1>1, <1>3, ParentIndex DEF UpSwap, AboveParent
  <2>2. isr_heap' \in [Slots -> Isrs]
    BY <1>1, <1>3, <2>1, SwappedPriorities DEF UpSwap
  <2>. QED  BY <1>1, <1>3, <2>1, <2>2 DEF UpSwap, TypeOK
<1>4. CASE UpDone
  <2>1. U8(heap_size + 1) = heap_size + 1
    BY <1>1, <1>4 DEF UpDone, TypeOK, U8
  <2>. QED  BY <1>1, <1>4, <2>1 DEF UpDone, TypeOK
<1>5. CASE Pop
  BY <1>1, <1>5 DEF Pop, TypeOK
<1>6. CASE DownSwap
  <2>1. Largest \in Slots
    BY <1>6, LargestIsLargest DEF DownSwap, BelowChild
  <2>2. isr_heap' \in [Slots -> Isrs]
    BY <1>1, <1>6, <2>1, SwappedPriorities DEF DownSwap
  <2>. QED  BY <1>1, <1>6, <2>1, <2>2 DEF DownSwap, TypeOK
<1>7. CASE DownDone
  BY <1>1, <1>7 DEF DownDone, TypeOK
<1>8. CASE UNCHANGED vars
  BY <1>8 DEF vars, TypeOK, Slots
<1>. QED  BY <1>2, <1>3, <1>4, <1>5, <1>6, <1>7, <1>8 DEF Next

(* The slots in use are slots of the array, and with a slot its parent is  *)
(* in use.                                                                 *)
LEMMA OccupiedSlots ==
    ASSUME TypeOK
    PROVE  /\ Occupied \subseteq Slots
           /\ Slots \subseteq Nat
           /\ \A i \in Occupied \ {0} :
                  i \in Nat /\ i > 0 /\ Parent(i) \in Occupied /\ Parent(i) < i
           /\ loop = "up" => Occupied = 0 .. heap_size
           /\ loop # "up" => Occupied = 0 .. heap_size - 1
<1>1. /\ HEAP_SIZE \in Nat \ {0} /\ Slots = 0 .. HEAP_SIZE - 1
      /\ heap_size \in 0 .. HEAP_SIZE /\ (loop = "up" => heap_size < HEAP_SIZE)
  BY HeapAssumption DEF TypeOK, Slots
<1>2. Occupied \subseteq Slots /\ Slots \subseteq Nat
  BY <1>1 DEF Occupied
<1>3. ASSUME NEW i \in Occupied \ {0}
      PROVE  i \in Nat /\ i > 0 /\ Parent(i) \in Occupied /\ Parent(i) < i
  <2>1. i \in Nat /\ i > 0
    BY <1>2
  <2>2. Parent(i) \in Nat /\ Parent(i) < i
    BY <2>1, ParentIndex
  <2>. QED  BY <1>1, <2>1, <2>2 DEF Occupied
<1>. QED  BY <1>2, <1>3 DEF Occupied

(* Between two calls of the heap every parent outranks its children; the   *)
(* position idx of the last call no longer matters.                        *)
LEMMA OrderWhenReady ==
    ASSUME TypeOK, HeapOrder, loop = "ready"
    PROVE  \A i \in Occupied \ {0} : Prio(Parent(i)) >= Prio(i)
BY DEF HeapOrder, Ordered

(* An insertion stores its interrupt behind the others: it alone can       *)
(* outrank its parent, and it has no children yet.                         *)
LEMMA InsertKeepsOrder ==
    ASSUME TypeOK, HeapOrder, NEW isr \in Isrs, Insert(isr)
    PROVE  HeapOrder'
<1>1. /\ heap_size \in Nat /\ heap_size < HEAP_SIZE /\ HEAP_SIZE \in Nat
      /\ loop' = "up" /\ idx' = heap_size /\ heap_size' = heap_size
      /\ Occupied = 0 .. heap_size - 1
      /\ Occupied' = 0 .. heap_size
  BY HeapAssumption, OccupiedSlots DEF TypeOK, Insert, Occupied
<1>2. TypeOK'
  BY HeapTypeStep DEF Next
<1>3. \A k \in Occupied : Prio(k)' = Prio(k)
  BY <1>1, OccupiedSlots DEF TypeOK, Insert, Prio
<1>4. SUFFICES ASSUME NEW i \in Occupied' \ {0}, i # idx'
               PROVE  Prio(Parent(i))' >= Prio(i)' /\ Parent(i) # idx'
  <2>1. ASSUME NEW i \in Occupied' \ {0}, i = idx' PROVE Parent(i) # idx'
    BY <1>1, <2>1, ParentIndex
  <2>. QED  BY <1>1, <1>4, <2>1 DEF HeapOrder, Ordered
<1>5. i \in Occupied \ {0} /\ Parent(i) \in Occupied /\ Parent(i) < heap_size
  BY <1>1, <1>4, OccupiedSlots
<1>6. Prio(Parent(i)) >= Prio(i)
  BY <1>5, OrderWhenReady DEF Insert
<1>7. Prio(Parent(i))' = Prio(Parent(i)) /\ Prio(i)' = Prio(i)
  BY <1>3, <1>5 DEF Parent
<1>. QED  BY <1>1, <1>5, <1>6, <1>7

(* An iteration of heapify_up moves the one exception to the parent: the   *)
(* children of both slots stay below what now stands above them.           *)
LEMMA UpSwapKeepsOrder ==
    ASSUME TypeOK, HeapOrder, UpSwap
    PROVE  HeapOrder'
<1>1. PICK x \in Nat, p \in Nat : x = idx /\ p = Parent(x) /\ x > 0 /\ p < x
  BY OccupiedSlots, ParentIndex DEF UpSwap, AboveParent, TypeOK
<1>2. /\ loop = "up" /\ loop' = "up" /\ idx' = p /\ Occupied' = Occupied
      /\ Prio(x) > Prio(p) /\ isr_heap' = Swapped(x, p)
  BY <1>1 DEF UpSwap, AboveParent, Occupied
<1>3. /\ Occupied \subseteq Slots /\ Slots \subseteq Nat
      /\ x \in Occupied /\ p \in Occupied
      /\ \A i \in Occupied \ {0} : Parent(i) \in Occupied /\ Parent(i) < i
  BY <1>1, <1>2, OccupiedSlots DEF TypeOK
<1>4. /\ Prio(x)' = Prio(p) /\ Prio(p)' = Prio(x)
      /\ \A k \in Occupied \ {x, p} : Prio(k)' = Prio(k)
  BY <1>2, <1>3, SwappedPriorities
<1>5. \A k \in Occupied : Prio(k) \in Nat
  BY <1>3, PriorityType
<1>6. \A i \in Occupied \ {0} :
          /\ i = x \/ Prio(Parent(i)) >= Prio(i)
          /\ Parent(i) = x => Prio(p) >= Prio(i)
  BY <1>1, <1>2 DEF HeapOrder, Ordered
<1>7. ASSUME NEW i \in Occupied \ {0}, NEW q \in Occupied, q = Parent(i)
      PROVE  i = p \/ Prio(q)' >= Prio(i)'
  <2>1. CASE i = x
    BY <1>1, <1>2, <1>3, <1>4, <1>5, <1>7, <2>1
  <2>2. CASE i # x /\ q = x
    BY <1>1, <1>2, <1>3, <1>4, <1>5, <1>6, <1>7, <2>2
  <2>3. CASE i # x /\ q = p
    <3>1. i \notin {x, p}
      <4>1. i \in Nat /\ p < i
        BY <1>3, <1>7, <2>3
      <4>. QED  BY <2>3, <4>1
    <3>2. Prio(i)' = Prio(i) /\ Prio(q)' = Prio(x) /\ Prio(p) >= Prio(i)
      BY <1>4, <1>6, <1>7, <2>3, <3>1
    <3>. QED  BY <1>2, <1>3, <1>5, <3>2
  <2>4. CASE i # x /\ q \notin {x, p}
    BY <1>3, <1>4, <1>6, <1>7, <2>4
  <2>. QED  BY <2>1, <2>2, <2>3, <2>4
<1>8. ASSUME NEW i \in Occupied \ {0}, NEW q \in Occupied, p > 0, Parent(i) = p, q = Parent(p)
      PROVE  Prio(q)' >= Prio(i)'
  <2>1. q < p /\ p < i /\ p < x /\ p \in Occupied \ {0}
    BY <1>1, <1>3, <1>8
  <2>2. Prio(p) >= Prio(i) \/ i = x
    BY <1>3, <1>4, <1>6, <1>8, <2>1
  <2>3. Prio(q)' = Prio(q) /\ Prio(q) >= Prio(p)
    BY <1>3, <1>4, <1>6, <1>8, <2>1
  <2>4. Prio(i)' = IF i = x THEN Prio(p) ELSE Prio(i)
    BY <1>3, <1>4, <2>1
  <2>. QED  BY <1>5, <1>8, <2>1, <2>2, <2>3, <2>4
<1>. QED
  <2>1. ASSUME NEW i \in Occupied \ {0}
        PROVE  /\ i = p \/ Ordered(Parent(i), i)'
               /\ Parent(i) = p /\ p > 0 => Ordered(Parent(p), i)'
    <3>1. Parent(i) \in Occupied /\ (p > 0 => Parent(p) \in Occupied)
      BY <1>3
    <3>. QED  BY <1>7, <1>8, <3>1 DEF Ordered, Parent
  <2>. QED  BY <1>2, <2>1 DEF HeapOrder, Ordered, Parent

(* A pop puts the last interrupt into the root, which alone may now be     *)
(* outranked by its children.                                              *)
LEMMA PopKeepsOrder ==
    ASSUME TypeOK, HeapOrder, Pop
    PROVE  HeapOrder'
<1>1. /\ loop = "ready" /\ loop' = "down" /\ idx' = 0
      /\ heap_size' = heap_size - 1 /\ heap_size \in Nat
      /\ Occupied' \subseteq Occupied
  BY HeapAssumption DEF TypeOK, Pop, Occupied
<1>2. \A k \in Occupied \ {0} : Prio(k)' = Prio(k)
  BY <1>1, OccupiedSlots DEF TypeOK, Pop, Prio
<1>3. SUFFICES ASSUME NEW i \in Occupied' \ {0}, Parent(i) # 0
               PROVE  Ordered(Parent(i), i)'
  BY <1>1 DEF HeapOrder
<1>4. i \in Occupied \ {0} /\ Parent(i) \in Occupied \ {0}
  BY <1>1, <1>3, OccupiedSlots
<1>5. Prio(Parent(i)) >= Prio(i)
  BY <1>1, <1>4, OrderWhenReady
<1>6. Prio(Parent(i))' = Prio(Parent(i)) /\ Prio(i)' = Prio(i)
  BY <1>2, <1>4 DEF Parent
<1>. QED  BY <1>5, <1>6 DEF Ordered

(* An iteration of heapify_down moves the exception to the child that was  *)
(* exchanged: the largest child stands above its sibling and above the     *)
(* slot that sinks, and the grandchildren stay below their grandparent.    *)
LEMMA DownSwapKeepsOrder ==
    ASSUME TypeOK, HeapOrder, DownSwap
    PROVE  HeapOrder'
<1>1. PICK x \in Nat, c \in Nat : x = idx /\ c = Largest
  BY LargestIsLargest, OccupiedSlots DEF DownSwap, BelowChild, TypeOK
<1>2. /\ loop = "down" /\ loop' = "down" /\ idx' = c /\ Occupied' = Occupied
      /\ 2 * x + 1 < heap_size /\ c # x
      /\ isr_heap' = Swapped(x, c)
      /\ heap_size \in Nat
  BY <1>1, HeapAssumption DEF DownSwap, BelowChild, Occupied, TypeOK
<1>3. /\ c = 2 * x + 1 \/ c = 2 * x + 2
      /\ c \in Slots /\ c < heap_size /\ Prio(c) > Prio(x)
      /\ Prio(2 * x + 1) <= Prio(c)
      /\ 2 * x + 2 < heap_size => Prio(2 * x + 2) <= Prio(c)
  BY <1>1, <1>2, LargestIsLargest
<1>4. /\ Occupied \subseteq Slots /\ Slots \subseteq Nat
      /\ Occupied = 0 .. heap_size - 1
      /\ \A i \in Occupied \ {0} : i > 0 /\ Parent(i) \in Occupied /\ Parent(i) < i
  BY <1>2, OccupiedSlots
<1>5. x \in Occupied /\ c \in Occupied /\ c > x /\ c > 0 /\ Parent(c) = x
  BY <1>2, <1>3, <1>4, ParentIndex
<1>6. /\ Prio(x)' = Prio(c) /\ Prio(c)' = Prio(x)
      /\ \A k \in Occupied \ {x, c} : Prio(k)' = Prio(k)
  BY <1>2, <1>4, <1>5, SwappedPriorities
<1>7. \A k \in Occupied : Prio(k) \in Nat
  BY <1>4, PriorityType
<1>8. \A i \in Occupied \ {0} :
          /\ Parent(i) = x \/ Prio(Parent(i)) >= Prio(i)
          /\ Parent(i) = x /\ x > 0 => Prio(Parent(x)) >= Prio(i)
  BY <1>1, <1>2 DEF HeapOrder, Ordered
<1>9. \A i \in Occupied \ {0} : Parent(i) = x => Prio(i) <= Prio(c)
  <2>1. SUFFICES ASSUME NEW i \in Occupied \ {0}, Parent(i) = x
                 PROVE  Prio(i) <= Prio(c)
    OBVIOUS
  <2>2. i = 2 * x + 1 \/ i = 2 * x + 2
    BY <1>4, <2>1, ParentIndex
  <2>3. i < heap_size
    BY <1>2, <1>4
  <2>. QED  BY <1>3, <2>2, <2>3
<1>10. ASSUME NEW i \in Occupied \ {0}, NEW q \in Occupied, q = Parent(i), q # c
       PROVE  Prio(q)' >= Prio(i)'
  <2>0. q < i /\ i \in Nat
    BY <1>4, <1>10
  <2>1. CASE i = c
    <3>1. q = x
      BY <1>5, <1>10, <2>1
    <3>2. Prio(i)' = Prio(x) /\ Prio(q)' = Prio(c)
      BY <1>6, <2>1, <3>1
    <3>. QED  BY <1>3, <1>5, <1>7, <3>2
  <2>2. CASE i = x
    <3>1. q \notin {x, c}
      BY <1>10, <2>0, <2>2
    <3>2. x > 0
      BY <2>0, <2>2, <1>4
    <3>3. Prio(q) >= Prio(c)
      BY <1>5, <1>8, <1>10, <2>2, <3>2
    <3>4. Prio(i)' = Prio(c) /\ Prio(q)' = Prio(q)
      BY <1>6, <2>2, <3>1
    <3>. QED  BY <3>3, <3>4
  <2>3. CASE i \notin {x, c} /\ q = x
    <3>1. Prio(i) <= Prio(c) /\ Prio(i)' = Prio(i) /\ Prio(q)' = Prio(c)
      BY <1>6, <1>9, <1>10, <2>3
    <3>. QED  BY <1>5, <1>7, <3>1
  <2>4. CASE i \notin {x, c} /\ q # x
    BY <1>6, <1>8, <1>10, <2>4
  <2>. QED  BY <2>1, <2>2, <2>3, <2>4
<1>11. ASSUME NEW i \in Occupied \ {0}, Parent(i) = c
       PROVE  Prio(x)' >= Prio(i)'
  <2>1. i > c /\ i \notin {x, c}
    BY <1>4, <1>5, <1>11
  <2>2. Prio(c) >= Prio(i) /\ Prio(i)' = Prio(i)
    BY <1>5, <1>6, <1>8, <1>11, <2>1
  <2>. QED  BY <1>6, <2>2
<1>. QED
  <2>1. ASSUME NEW i \in Occupied \ {0}
        PROVE  /\ Parent(i) = c \/ Ordered(Parent(i), i)'
               /\ Parent(i) = c => Ordered(Parent(c), i)'
    <3>1. Parent(i) \in Occupied
      BY <1>4
    <3>. QED  BY <1>5, <1>10, <1>11, <3>1 DEF Ordered, Parent
  <2>. QED  BY <1>2, <2>1 DEF HeapOrder, Ordered, Parent

(* heapify_up and heapify_down stop only when the exception is gone.       *)
LEMMA SiftEndKeepsOrder ==
    ASSUME TypeOK, HeapOrder, UpDone \/ DownDone
    PROVE  HeapOrder'
<1>1. /\ loop' = "ready" /\ idx' = 0 /\ UNCHANGED isr_heap
      /\ heap_size \in 0 .. HEAP_SIZE /\ HEAP_SIZE \in Nat /\ idx \in Nat
  BY HeapAssumption DEF UpDone, DownDone, TypeOK, Slots
<1>2. /\ Occupied' = Occupied
      /\ \A i \in Occupied \ {0} : Parent(i) \in Occupied /\ i \in Nat /\ i > 0
      /\ \A k \in Occupied : Prio(k) \in Nat
  <2>1. UpDone => U8(heap_size + 1) = heap_size + 1
    BY <1>1 DEF UpDone, TypeOK, U8
  <2>2. Occupied' = Occupied
    BY <1>1, <2>1 DEF UpDone, DownDone, Occupied
  <2>. QED  BY <2>2, OccupiedSlots, PriorityType
<1>3. \A i \in Occupied \ {0} : Prio(Parent(i)) >= Prio(i)
  <2>1. SUFFICES ASSUME NEW i \in Occupied \ {0} PROVE Prio(Parent(i)) >= Prio(i)
    OBVIOUS
  <2>2. CASE UpDone
    <3>1. i # idx \/ Prio(Parent(i)) >= Prio(i)
      BY <1>2, <2>2 DEF UpDone, AboveParent
    <3>. QED  BY <2>2, <3>1 DEF UpDone, HeapOrder, Ordered
  <2>3. CASE DownDone /\ Parent(i) = idx
    <3>1. i = 2 * idx + 1 \/ i = 2 * idx + 2
      BY <1>1, <1>2, <2>3, ParentIndex
    <3>2. i < heap_size
      BY <1>1, <2>3 DEF DownDone, Occupied
    <3>3. 2 * idx + 1 < heap_size
      BY <1>1, <3>1, <3>2
    <3>4. Largest = idx
      BY <2>3, <3>3 DEF DownDone, BelowChild
    <3>. QED  BY <2>3, <3>1, <3>2, <3>3, <3>4, LargestIsLargest
  <2>4. CASE DownDone /\ Parent(i) # idx
    BY <2>4 DEF DownDone, HeapOrder, Ordered
  <2>. QED  BY <2>2, <2>3, <2>4
<1>. QED  BY <1>1, <1>2, <1>3 DEF HeapOrder, Ordered, Prio

(* No step of the heap breaks its order.                                   *)
LEMMA HeapOrderStep == TypeOK /\ HeapOrder /\ [Next]_vars => HeapOrder'
<1>. SUFFICES ASSUME TypeOK, HeapOrder, [Next]_vars PROVE HeapOrder'
  OBVIOUS
<1>1. CASE UNCHANGED vars
  BY <1>1 DEF vars, HeapOrder, Ordered, Occupied, Prio
<1>. QED
  BY <1>1, InsertKeepsOrder, UpSwapKeepsOrder, PopKeepsOrder, DownSwapKeepsOrder,
     SiftEndKeepsOrder DEF Next

(* The empty array is ordered. *)
LEMMA HeapInit == Init => TypeOK /\ HeapOrder
<1>. SUFFICES ASSUME Init PROVE TypeOK /\ HeapOrder
  OBVIOUS
<1>1. HEAP_SIZE \in Nat \ {0} /\ 0 \in Slots /\ 0 \in Isrs
  BY HeapAssumption DEF Slots
<1>2. Occupied = {}
  BY DEF Init, Occupied
<1>. QED  BY <1>1, <1>2 DEF Init, TypeOK, HeapOrder, Slots

----------------------------------------------------------------------------
(* Interrupt 0 fills the empty array and every step of the controller is a *)
(* step of the heap or leaves it alone.                                    *)
LEMMA ControllerUsesHeap ==
    /\ ControllerHeapInit => Init
    /\ [ControllerHeapNext]_controllerVars => [Next]_vars
BY DEF ControllerHeapInit, ControllerHeapNext, controllerVars, control, Next, Sift,
       RequestGranted, RequestQueued, RequestDropped, RtiQueueEmpty, RtiTakes,
       OfferGranted, OfferPutBack

(* In the controller's hands the heap takes only its own steps. *)
LEMMA ControllerHeapIsHeap == ControllerHeapSpec => Spec
BY ControllerUsesHeap, PTL DEF ControllerHeapSpec, Spec

(* The array and its indices keep their types, whatever the controller and *)
(* the devices do: no access is outside the array and no uint8_t wraps.    *)
THEOREM HeapTypeCorrect == ControllerHeapSpec => []TypeOK
<1>1. TypeOK /\ [Next]_vars => TypeOK'
  BY HeapTypeStep
<1>2. Spec => []TypeOK
  BY <1>1, HeapInit, PTL DEF Spec
<1>. QED  BY <1>2, ControllerHeapIsHeap, PTL

(* The array is a heap, but for the one place the running loop repairs.    *)
THEOREM HeapOrderHolds == ControllerHeapSpec => []HeapOrder
<1>1. TypeOK /\ HeapOrder /\ [Next]_vars => (TypeOK /\ HeapOrder)'
  BY HeapTypeStep, HeapOrderStep
<1>2. Spec => [](TypeOK /\ HeapOrder)
  BY <1>1, HeapInit, PTL DEF Spec
<1>. QED  BY <1>2, ControllerHeapIsHeap, PTL

(* When no loop runs heap[0] is an interrupt of the highest priority: the  *)
(* first slot that outranked the root would outrank its own parent too.    *)
LEMMA RootIsHighest ==
    ASSUME TypeOK, HeapOrder, loop = "ready"
    PROVE  \A i \in Occupied : Prio(i) <= Prio(0)
<1>. DEFINE Above == {i \in Occupied : Prio(i) > Prio(0)}
<1>1. /\ Occupied \subseteq Slots /\ Slots \subseteq Nat /\ 0 \in Slots
      /\ \A i \in Occupied \ {0} : i \in Nat /\ Parent(i) \in Occupied /\ Parent(i) < i
  BY OccupiedSlots, HeapAssumption DEF Slots
<1>2. \A i \in Slots : Prio(i) \in Nat
  BY PriorityType
<1>3. SUFFICES ASSUME Above # {} PROVE FALSE
  BY <1>1, <1>2
<1>4. PICK i \in Above : \A j \in Above : i <= j
  BY <1>1, <1>3, LeastNatural
<1>5. i \in Occupied \ {0} /\ Parent(i) \in Occupied /\ Parent(i) < i /\ Prio(i) > Prio(0)
  BY <1>1, <1>2, <1>4
<1>6. Prio(Parent(i)) >= Prio(i)
  BY <1>5, OrderWhenReady
<1>7. Prio(Parent(i)) > Prio(0)
  <2>1. Prio(Parent(i)) \in Nat /\ Prio(i) \in Nat /\ Prio(0) \in Nat
    BY <1>1, <1>2, <1>5
  <2>. QED  BY <1>5, <1>6, <2>1
<1>8. Parent(i) \in Above
  BY <1>5, <1>7
<1>9. i <= Parent(i)
  <2>. HIDE DEF Above
  <2>. QED  BY <1>4, <1>8, Zenon
<1>10. i \in Nat /\ Parent(i) \in Nat /\ Parent(i) < i
  BY <1>1, <1>5
<1>. QED  BY <1>9, <1>10

----------------------------------------------------------------------------
\* The slots of S that hold interrupt i in the array h.
Holding(S, h, i) == {s \in S : h[s] = i}

(* A finite set keeps its size when one element is replaced by a new one.  *)
LEMMA ReplacingElement ==
    ASSUME NEW T, IsFiniteSet(T), NEW a \in T, NEW b, b \notin T
    PROVE  Cardinality((T \ {a}) \cup {b}) = Cardinality(T)
<1>1. /\ IsFiniteSet(T \ {a}) /\ Cardinality(T \ {a}) = Cardinality(T) - 1
      /\ Cardinality(T) \in Nat
  BY FS_RemoveElement, FS_CardinalityType
<1>2. b \notin T \ {a}
  OBVIOUS
<1>3. Cardinality((T \ {a}) \cup {b}) = Cardinality(T \ {a}) + 1
  <2>. DEFINE R == T \ {a}
  <2>. HIDE DEF R
  <2>. SUFFICES Cardinality(R \cup {b}) = Cardinality(R) + 1
    BY DEF R
  <2>. QED  BY <1>1, <1>2, FS_AddElement DEF R
<1>. QED  BY <1>1, <1>3

(* Exchanging two of the slots that are counted changes no count.          *)
LEMMA SwapKeepsCount ==
    ASSUME NEW S \in SUBSET Slots, IsFiniteSet(S), NEW h \in [Slots -> Isrs],
           NEW i \in S, NEW j \in S, NEW k
    PROVE  Cardinality(Holding(S, [h EXCEPT ![i] = h[j], ![j] = h[i]], k))
           = Cardinality(Holding(S, h, k))
<1>. DEFINE g == [h EXCEPT ![i] = h[j], ![j] = h[i]]
            T == {s \in S : h[s] = k}
            U == {s \in S : g[s] = k}
<1>. SUFFICES Cardinality(U) = Cardinality(T)
  BY DEF Holding
<1>1. IsFiniteSet(T) /\ Cardinality(T) \in Nat
  BY FS_Subset, FS_CardinalityType
<1>2. g[i] = h[j] /\ g[j] = h[i] /\ \A s \in S \ {i, j} : g[s] = h[s]
  OBVIOUS
<1>3. CASE h[i] = h[j] \/ (h[i] # k /\ h[j] # k)
  BY <1>2, <1>3
<1>4. CASE h[i] = k /\ h[j] # k
  <2>1. U = (T \ {i}) \cup {j} /\ i \in T /\ j \notin T
    BY <1>2, <1>4
  <2>. HIDE DEF T, U
  <2>. QED  BY <1>1, <2>1, ReplacingElement
<1>5. CASE h[i] # k /\ h[j] = k
  <2>1. U = (T \ {j}) \cup {i} /\ j \in T /\ i \notin T
    BY <1>2, <1>5
  <2>. HIDE DEF T, U
  <2>. QED  BY <1>1, <2>1, ReplacingElement
<1>. QED  BY <1>3, <1>4, <1>5

(* Moving the last of the slots into slot 0 takes one interrupt out: the   *)
(* one that stood in slot 0.                                               *)
LEMMA PopRemovesRoot ==
    ASSUME NEW n \in Nat, 0 .. n \subseteq Slots, NEW h \in [Slots -> Isrs], NEW k
    PROVE  Cardinality(Holding(0 .. n - 1, [h EXCEPT ![0] = h[n]], k))
           = Cardinality(Holding(0 .. n, h, k)) - (IF k = h[0] THEN 1 ELSE 0)
<1>. DEFINE g == [h EXCEPT ![0] = h[n]]
            T == {s \in 0 .. n : h[s] = k}
            U == {s \in 0 .. n - 1 : g[s] = k}
<1>. SUFFICES Cardinality(U) = Cardinality(T) - (IF k = h[0] THEN 1 ELSE 0)
  BY DEF Holding
<1>1. IsFiniteSet(T) /\ Cardinality(T) \in Nat
  <2>1. IsFiniteSet(0 .. n) /\ T \in SUBSET (0 .. n)
    BY FS_Interval
  <2>. HIDE DEF T
  <2>. QED  BY <2>1, FS_Subset, FS_CardinalityType
<1>2. 0 \in Slots /\ g[0] = h[n] /\ \A s \in 1 .. n : g[s] = h[s]
  OBVIOUS
<1>3. CASE h[n] = k /\ h[0] = k
  <2>1. U = T \ {n} /\ n \in T
    BY <1>2, <1>3
  <2>. HIDE DEF T, U
  <2>. QED  BY <1>1, <1>3, <2>1, FS_RemoveElement
<1>4. CASE h[n] # k /\ h[0] = k
  <2>1. U = T \ {0} /\ 0 \in T
    BY <1>2, <1>4
  <2>. HIDE DEF T, U
  <2>. QED  BY <1>1, <1>4, <2>1, FS_RemoveElement
<1>5. CASE h[n] = k /\ h[0] # k
  <2>1. U = (T \ {n}) \cup {0} /\ n \in T /\ 0 \notin T
    BY <1>2, <1>5
  <2>. HIDE DEF T, U
  <2>2. Cardinality(U) = Cardinality(T)
    BY <1>1, <2>1, ReplacingElement
  <2>. QED  BY <1>1, <1>5, <2>2
<1>6. CASE h[n] # k /\ h[0] # k
  <2>1. U = T
    BY <1>2, <1>6
  <2>. HIDE DEF T, U
  <2>. QED  BY <1>1, <1>6, <2>1
<1>. QED  BY <1>3, <1>4, <1>5, <1>6

----------------------------------------------------------------------------
(* The number of slots with an interrupt is a number. *)
LEMMA CountIsNatural ==
    ASSUME NEW S, IsFiniteSet(S), NEW h, NEW i
    PROVE  Cardinality(Holding(S, h, i)) \in Nat
<1>1. Holding(S, h, i) \in SUBSET S
  BY DEF Holding
<1>. QED  BY <1>1, FS_Subset, FS_CardinalityType

(* How many slots in use hold an interrupt.                                *)
LEMMA CountType ==
    ASSUME TypeOK
    PROVE  /\ IsFiniteSet(Occupied) /\ Cardinality(Occupied) \in Nat
           /\ pendingCount \in [Isrs -> Nat]
           /\ \A i \in Isrs : pendingCount[i] = Cardinality(Holding(Occupied, isr_heap, i))
           /\ \A i \in Isrs : pendingCount[i] > 0 <=> \E s \in Occupied : isr_heap[s] = i
           /\ loop = "up" => Cardinality(Occupied) = heap_size + 1
           /\ loop # "up" => Cardinality(Occupied) = heap_size
<1>1. heap_size \in Nat
  BY HeapAssumption DEF TypeOK
<1>2. /\ IsFiniteSet(Occupied) /\ Cardinality(Occupied) \in Nat
      /\ loop = "up" => Cardinality(Occupied) = heap_size + 1
      /\ loop # "up" => Cardinality(Occupied) = heap_size
  BY <1>1, OccupiedSlots, FS_Interval
<1>3. ASSUME NEW i \in Isrs
      PROVE  /\ Cardinality(Holding(Occupied, isr_heap, i)) \in Nat
             /\ Cardinality(Holding(Occupied, isr_heap, i)) > 0
                <=> \E s \in Occupied : isr_heap[s] = i
  <2>. DEFINE T == Holding(Occupied, isr_heap, i)
  <2>1. T \in SUBSET Occupied /\ (T # {} <=> \E s \in Occupied : isr_heap[s] = i)
    BY DEF Holding
  <2>. HIDE DEF T
  <2>2. IsFiniteSet(T)
    BY <1>2, <2>1, FS_Subset
  <2>3. Cardinality(T) \in Nat /\ (Cardinality(T) > 0 <=> T # {})
    BY <2>2, FS_CardinalityType, FS_EmptySet
  <2>. QED  BY <2>1, <2>3 DEF T
<1>. QED  BY <1>2, <1>3 DEF pendingCount, Holding

(* The loops of heapify_up and heapify_down neither lose nor duplicate an  *)
(* interrupt: seen from outside nothing has happened.                      *)
LEMMA SiftKeepsCount ==
    ASSUME TypeOK, UpSwap \/ UpDone \/ DownSwap \/ DownDone
    PROVE  pendingCount' = pendingCount /\ Occupied' = Occupied
<1>1. CASE UpSwap \/ DownSwap
  <2>1. Occupied' = Occupied
    BY <1>1 DEF UpSwap, DownSwap, Occupied
  <2>2. PICK x \in Occupied, y \in Occupied : isr_heap' = Swapped(x, y)
    <3>1. CASE UpSwap
      <4>1. idx \in Occupied \ {0} /\ Parent(idx) \in Occupied
        BY <3>1, OccupiedSlots DEF UpSwap, AboveParent, TypeOK
      <4>. QED  BY <3>1, <4>1 DEF UpSwap
    <3>2. CASE DownSwap
      <4>1. Largest < heap_size /\ idx < heap_size /\ Largest \in Slots /\ idx \in Slots
        BY <3>2, HeapAssumption, LargestIsLargest DEF DownSwap, BelowChild, TypeOK, Slots
      <4>. QED  BY <3>2, <4>1, HeapAssumption DEF DownSwap, Occupied, Slots, TypeOK
    <3>. QED  BY <1>1, <3>1, <3>2
  <2>3. /\ IsFiniteSet(Occupied) /\ Occupied \subseteq Slots
        /\ isr_heap \in [Slots -> Isrs]
    BY CountType, OccupiedSlots DEF TypeOK
  <2>4. ASSUME NEW i \in Isrs
        PROVE  Cardinality(Holding(Occupied, isr_heap', i))
               = Cardinality(Holding(Occupied, isr_heap, i))
    <3>1. isr_heap' = [isr_heap EXCEPT ![x] = isr_heap[y], ![y] = isr_heap[x]]
      BY <2>2 DEF Swapped
    <3>. QED  BY <2>3, <3>1, SwapKeepsCount
  <2>. QED  BY <2>1, <2>4 DEF pendingCount, Holding
<1>2. CASE UpDone \/ DownDone
  <2>1. UpDone => U8(heap_size + 1) = heap_size + 1
    BY HeapAssumption DEF UpDone, TypeOK, U8
  <2>2. Occupied' = Occupied /\ isr_heap' = isr_heap
    BY <1>2, <2>1, HeapAssumption DEF UpDone, DownDone, Occupied, TypeOK
  <2>. QED  BY <2>2 DEF pendingCount
<1>. QED  BY <1>1, <1>2

(* An insertion adds its interrupt once.                                   *)
LEMMA InsertAddsOne ==
    ASSUME TypeOK, NEW isr \in Isrs, Insert(isr)
    PROVE  /\ pendingCount' = [pendingCount EXCEPT ![isr] = @ + 1]
           /\ Cardinality(Occupied)' = Cardinality(Occupied) + 1
           /\ Cardinality(Occupied) < HEAP_SIZE
<1>1. /\ heap_size \in Nat /\ heap_size < HEAP_SIZE /\ HEAP_SIZE \in Nat
      /\ loop = "ready" /\ loop' = "up" /\ heap_size' = heap_size
      /\ isr_heap' = [isr_heap EXCEPT ![heap_size] = isr]
      /\ isr_heap \in [Slots -> Isrs] /\ heap_size \in Slots
      /\ Occupied = 0 .. heap_size - 1
      /\ Occupied' = 0 .. heap_size
  BY HeapAssumption, OccupiedSlots DEF TypeOK, Insert, Occupied, Slots
<1>2. TypeOK'
  BY HeapTypeStep DEF Next
<1>3. Cardinality(Occupied) = heap_size /\ Cardinality(Occupied)' = heap_size + 1
  BY <1>1, FS_Interval
<1>4. ASSUME NEW i \in Isrs
      PROVE  Cardinality(Holding(0 .. heap_size, isr_heap', i))
             = Cardinality(Holding(Occupied, isr_heap, i)) + (IF i = isr THEN 1 ELSE 0)
  <2>. DEFINE T == {s \in Occupied : isr_heap[s] = i}
              U == {s \in 0 .. heap_size : isr_heap'[s] = i}
  <2>. SUFFICES Cardinality(U) = Cardinality(T) + (IF i = isr THEN 1 ELSE 0)
    BY DEF Holding
  <2>1. IsFiniteSet(T) /\ Cardinality(T) \in Nat
    <3>1. IsFiniteSet(Occupied) /\ T \in SUBSET Occupied
      BY CountType
    <3>. HIDE DEF T
    <3>. QED  BY <3>1, FS_Subset, FS_CardinalityType
  <2>2. /\ isr_heap'[heap_size] = isr
        /\ \A s \in Occupied : isr_heap'[s] = isr_heap[s]
        /\ heap_size \notin T
        /\ 0 .. heap_size = Occupied \cup {heap_size}
    BY <1>1, OccupiedSlots
  <2>3. U = IF i = isr THEN T \cup {heap_size} ELSE T
    BY <2>2
  <2>. HIDE DEF T, U
  <2>4. CASE i = isr
    <3>1. Cardinality(T \cup {heap_size}) = Cardinality(T) + 1
      BY <2>1, <2>2, FS_AddElement
    <3>. QED  BY <2>3, <2>4, <3>1
  <2>5. CASE i # isr
    BY <2>1, <2>3, <2>5
  <2>. QED  BY <2>4, <2>5
<1>5. \A i \in Isrs : pendingCount'[i] = pendingCount[i] + (IF i = isr THEN 1 ELSE 0)
  BY <1>1, <1>4 DEF pendingCount, Holding
<1>6. pendingCount \in [Isrs -> Nat] /\ pendingCount' \in [Isrs -> Nat]
  <2>1. IsFiniteSet(Occupied')
    BY <1>1, FS_Interval
  <2>2. \A i \in Isrs : Cardinality(Holding(Occupied', isr_heap', i)) \in Nat
    BY <2>1, CountIsNatural
  <2>. QED  BY <2>2, CountType DEF pendingCount, Holding
<1>. QED  BY <1>1, <1>3, <1>5, <1>6

(* A pop takes the interrupt of the root out once, and the root is an      *)
(* interrupt of the highest priority that waits.                           *)
LEMMA PopTakesHighest ==
    ASSUME TypeOK, HeapOrder, Pop
    PROVE  /\ isr_heap[0] \in Isrs
           /\ pendingCount[isr_heap[0]] > 0
           /\ pendingCount' = [pendingCount EXCEPT ![isr_heap[0]] = @ - 1]
           /\ Cardinality(Occupied)' = Cardinality(Occupied) - 1
           /\ Cardinality(Occupied) > 0
           /\ \A i \in Isrs : pendingCount[i] > 0 => isr_to_prio[i] <= isr_to_prio[isr_heap[0]]
<1>1. PICK n \in Nat : n = heap_size - 1
  BY HeapAssumption DEF TypeOK, Pop
<1>2. /\ loop = "ready" /\ loop' = "down" /\ heap_size' = n /\ heap_size = n + 1
      /\ isr_heap' = [isr_heap EXCEPT ![0] = isr_heap[n]]
      /\ isr_heap \in [Slots -> Isrs]
      /\ 0 .. n \subseteq Slots
      /\ Occupied = 0 .. n
      /\ Occupied' = 0 .. n - 1
  BY <1>1, HeapAssumption DEF TypeOK, Pop, Occupied, Slots
<1>3. TypeOK'
  BY HeapTypeStep DEF Next
<1>4. isr_heap[0] \in Isrs
  BY <1>2
<1>5. Cardinality(Occupied) = n + 1 /\ Cardinality(Occupied)' = n
  BY <1>2, FS_Interval
<1>6. ASSUME NEW i \in Isrs
      PROVE  pendingCount'[i] = pendingCount[i] - (IF i = isr_heap[0] THEN 1 ELSE 0)
  <2>1. pendingCount'[i] = Cardinality(Holding(0 .. n - 1, [isr_heap EXCEPT ![0] = isr_heap[n]], i))
    BY <1>2 DEF pendingCount, Holding
  <2>2. pendingCount[i] = Cardinality(Holding(0 .. n, isr_heap, i))
    BY <1>2 DEF pendingCount, Holding
  <2>3. isr_heap \in [Slots -> Isrs] /\ 0 .. n \subseteq Slots /\ n \in Nat
    BY <1>2
  <2>4. Cardinality(Holding(0 .. n - 1, [isr_heap EXCEPT ![0] = isr_heap[n]], i))
        = Cardinality(Holding(0 .. n, isr_heap, i)) - (IF i = isr_heap[0] THEN 1 ELSE 0)
    BY <2>3, PopRemovesRoot
  <2>. QED  BY <2>1, <2>2, <2>4
<1>7. pendingCount \in [Isrs -> Nat] /\ pendingCount' \in [Isrs -> Nat]
  <2>1. IsFiniteSet(Occupied')
    BY <1>2, FS_Interval
  <2>2. \A i \in Isrs : Cardinality(Holding(Occupied', isr_heap', i)) \in Nat
    BY <2>1, CountIsNatural
  <2>. QED  BY <2>2, CountType DEF pendingCount, Holding
<1>8. pendingCount' = [pendingCount EXCEPT ![isr_heap[0]] = @ - 1]
  BY <1>6, <1>7
<1>9. pendingCount[isr_heap[0]] > 0
  BY <1>2, <1>4, CountType
<1>10. ASSUME NEW i \in Isrs, pendingCount[i] > 0
       PROVE  isr_to_prio[i] <= isr_to_prio[isr_heap[0]]
  <2>1. PICK s \in Occupied : isr_heap[s] = i
    BY <1>10, CountType
  <2>. QED  BY <1>2, <2>1, RootIsHighest DEF Prio
<1>. QED  BY <1>4, <1>5, <1>8, <1>9, <1>10

(* A step of the array is a step of the bag, or changes nothing of it.     *)
LEMMA HeapStepIsQueueStep ==
    TypeOK /\ HeapOrder /\ [Next]_vars => [Queue!QueueNext]_Queue!QueueVars
<1>. SUFFICES ASSUME TypeOK, HeapOrder, [Next]_vars
              PROVE  [Queue!QueueNext]_Queue!QueueVars
  OBVIOUS
<1>1. ASSUME NEW isr \in Isrs, Insert(isr) PROVE Queue!Enqueue(isr)
  BY <1>1, InsertAddsOne DEF Queue!Enqueue
<1>2. CASE UpSwap \/ UpDone \/ DownSwap \/ DownDone
  BY <1>2, SiftKeepsCount DEF Queue!QueueVars
<1>3. CASE Pop
  <2>. DEFINE root == isr_heap[0]
  <2>1. /\ root \in Isrs
        /\ pendingCount[root] > 0
        /\ pendingCount' = [pendingCount EXCEPT ![root] = @ - 1]
        /\ Cardinality(Occupied)' = Cardinality(Occupied) - 1
        /\ Cardinality(Occupied) > 0
        /\ \A i \in Isrs : pendingCount[i] > 0 => isr_to_prio[i] <= isr_to_prio[root]
    BY <1>3, PopTakesHighest
  <2>. HIDE DEF root
  <2>2. Queue!Dequeue(root)
    BY <2>1 DEF Queue!Dequeue, Queue!HighestPending
  <2>. QED  BY <2>1, <2>2 DEF Queue!QueueNext
<1>4. CASE UNCHANGED vars
  BY <1>4 DEF vars, Queue!QueueVars, pendingCount, Occupied
<1>. QED  BY <1>1, <1>2, <1>3, <1>4 DEF Next, Queue!QueueNext

(* The array implements the bounded bag from which an interrupt of the     *)
(* highest priority is taken.                                              *)
THEOREM HeapImplementsQueue == ControllerHeapSpec => ImplementsQueue
<1>1. Init => Queue!QueueInit
  <2>1. SUFFICES ASSUME Init PROVE Queue!QueueInit
    OBVIOUS
  <2>2. TypeOK /\ Occupied = {} /\ Cardinality(Occupied) = 0
    BY <2>1, HeapInit, FS_EmptySet DEF Init, Occupied
  <2>3. \A i \in Isrs : Holding(Occupied, isr_heap, i) = {}
    BY <2>2 DEF Holding
  <2>4. \A i \in Isrs : pendingCount[i] = 0
    BY <2>2, <2>3, CountType, FS_EmptySet
  <2>. QED  BY <2>2, <2>4 DEF Queue!QueueInit, pendingCount
<1>2. TypeOK /\ HeapOrder /\ [Next]_vars => (TypeOK /\ HeapOrder)'
  BY HeapTypeStep, HeapOrderStep
<1>3. Spec => ImplementsQueue
  BY <1>1, <1>2, HeapInit, HeapStepIsQueueStep, PTL DEF Spec, ImplementsQueue, Queue!QueueSpec
<1>. QED  BY <1>3, ControllerHeapIsHeap, PTL

----------------------------------------------------------------------------
(* While RTI offers the interrupt it took: none that still waits outranks  *)
(* it, RTI has popped the priority stack, and its slot is still free.      *)
OfferInv ==
    /\ taken # {} =>
          \E isr \in Isrs :
              /\ taken = {isr}
              /\ \A other \in Isrs :
                    pendingCount[other] > 0 => isr_to_prio[other] <= isr_to_prio[isr]
              /\ isr_priority_stack = Popped
              /\ loop # "up"
              /\ heap_size < HEAP_SIZE

ControllerHeapInv == TypeOK /\ HeapOrder /\ OfferInv

(* While an interrupt is taken out, the array has a free slot. *)
LEMMA OfferStep ==
    ControllerHeapInv /\ [ControllerHeapNext]_controllerVars => OfferInv'
<1>. SUFFICES ASSUME ControllerHeapInv, [ControllerHeapNext]_controllerVars, taken' # {}
              PROVE  OfferInv'
  BY DEF OfferInv
<1>. USE DEF ControllerHeapInv
<1>1. CASE RtiTakes
  <2>. DEFINE root == isr_heap[0]
  <2>1. /\ root \in Isrs /\ taken' = {root}
        /\ \A i \in Isrs : pendingCount[i] > 0 => isr_to_prio[i] <= isr_to_prio[root]
        /\ pendingCount' = [pendingCount EXCEPT ![root] = @ - 1]
    BY <1>1, PopTakesHighest DEF RtiTakes
  <2>2. pendingCount \in [Isrs -> Nat] /\ isr_to_prio \in [Isrs -> Nat]
    BY CountType, HeapAssumption
  <2>3. ASSUME NEW i \in Isrs, pendingCount'[i] > 0
        PROVE  isr_to_prio[i] <= isr_to_prio[root]
    <3>. HIDE DEF root
    <3>1. i = root \/ pendingCount[i] > 0
      BY <2>1, <2>2, <2>3
    <3>. QED  BY <2>1, <2>2, <3>1
  <2>4. stackOutside = isr_priority_stack /\ stackOutside' = isr_priority_stack
    BY <1>1, <2>1 DEF RtiTakes, Idle, stackOutside
  <2>5. isr_priority_stack' = Popped'
    BY <1>1, <2>4 DEF RtiTakes, Popped
  <2>6. loop' # "up" /\ heap_size' < HEAP_SIZE
    BY <1>1, HeapAssumption DEF RtiTakes, Pop, TypeOK
  <2>. HIDE DEF root
  <2>. QED  BY <2>1, <2>3, <2>5, <2>6 DEF OfferInv
<1>2. CASE Sift
  <2>1. pendingCount' = pendingCount /\ UNCHANGED <<isr_priority_stack, taken, found>>
    BY <1>2, SiftKeepsCount DEF Sift, control
  <2>2. loop # "up" => loop' # "up" /\ heap_size' = heap_size
    BY <1>2 DEF Sift, UpSwap, UpDone, DownSwap, DownDone
  <2>3. Popped' = Popped
    BY <2>1 DEF Popped, stackOutside
  <2>. QED  BY <2>1, <2>2, <2>3 DEF OfferInv
<1>3. CASE UNCHANGED controllerVars
  BY <1>3 DEF controllerVars, vars, control, OfferInv, Popped, stackOutside, pendingCount, Occupied
<1>. QED
  BY <1>1, <1>2, <1>3 DEF ControllerHeapNext, Idle, RequestGranted, RequestQueued, control,
     RequestDropped, controllerVars, RtiQueueEmpty, OfferGranted, OfferPutBack, OfferInv

(* The invariant of the array and of the interrupt that is taken out. *)
LEMMA ControllerHeapInvariant == ControllerHeapSpec => []ControllerHeapInv
<1>1. ControllerHeapInit => ControllerHeapInv
  BY HeapInit, ControllerUsesHeap DEF ControllerHeapInit, ControllerHeapInv, OfferInv
<1>2. ControllerHeapInv /\ [ControllerHeapNext]_controllerVars => ControllerHeapInv'
  BY HeapTypeStep, HeapOrderStep, OfferStep, ControllerUsesHeap DEF ControllerHeapInv
<1>. QED  BY <1>1, <1>2, PTL DEF ControllerHeapSpec

(* An interrupt that RTI took out of the queue always finds room when it   *)
(* has to go back: handle_interrupt, which drops a request that finds the  *)
(* queue full, never drops this one.                                       *)
THEOREM RoomToPutBack == ControllerHeapSpec => [](taken # {} => heap_size < HEAP_SIZE)
<1>1. ControllerHeapInv => (taken # {} => heap_size < HEAP_SIZE)
  BY DEF ControllerHeapInv, OfferInv
<1>. QED  BY <1>1, ControllerHeapInvariant, PTL

(* What is seen of the queue while no interrupt is taken out, and while    *)
(* one is.                                                                 *)
Seen ==
    /\ pendingCount \in [Isrs -> Nat]
    /\ pendingOutside \in [Isrs -> Nat]
    /\ \A i \in Isrs : pendingOutside[i] = pendingCount[i] + (IF i \in taken THEN 1 ELSE 0)
    /\ Cardinality(Occupied) \in Nat
    /\ taken = {} => Cardinality(taken) = 0 /\ stackOutside = isr_priority_stack
    /\ \A isr \in Isrs : taken = {isr} => Cardinality(taken) = 1 /\ stackOutside = found

(* The queue as the controller on the bag sees it, in this state *)
LEMMA SeenOutside == ControllerHeapInv => Seen
<1>. SUFFICES ASSUME ControllerHeapInv PROVE Seen
  OBVIOUS
<1>1. pendingCount \in [Isrs -> Nat] /\ Cardinality(Occupied) \in Nat
  BY CountType DEF ControllerHeapInv
<1>2. /\ pendingOutside \in [Isrs -> Nat]
      /\ \A i \in Isrs : pendingOutside[i] = pendingCount[i] + (IF i \in taken THEN 1 ELSE 0)
  BY <1>1 DEF pendingOutside
<1>. QED  BY <1>1, <1>2, FS_EmptySet, FS_Singleton DEF stackOutside, Seen

(* and in the next one. *)
LEMMA SeenOutsideNext == ControllerHeapInv' => Seen'
BY SeenOutside, PTL

(* The array, the loops and the removal before the decision, seen as the   *)
(* controller of InterruptController: what they change in its variables.   *)
LEMMA ControllerHeapStep ==
    ControllerHeapInv /\ ControllerHeapInv' /\ [ControllerHeapNext]_controllerVars
      => [ControllerNext]_ControllerVars
<1>. SUFFICES ASSUME ControllerHeapInv, ControllerHeapInv', [ControllerHeapNext]_controllerVars
              PROVE  [ControllerNext]_ControllerVars
  OBVIOUS
<1>0. TypeOK /\ HeapOrder /\ OfferInv
  BY DEF ControllerHeapInv
<1>1. Seen
  BY SeenOutside
<1>2. Seen'
  BY SeenOutsideNext
<1>. USE DEF Seen
<1>3. UNCHANGED vars => pendingCount' = pendingCount /\ Occupied' = Occupied
  BY DEF vars, pendingCount, Occupied
<1>4. ASSUME NEW isr \in Isrs, RequestGranted(isr) PROVE Grant(isr)
  BY <1>1, <1>2, <1>3, <1>4 DEF RequestGranted, Idle, Grant, QueueVars, Outranks, Pushed
<1>5. ASSUME NEW isr \in Isrs, RequestQueued(isr) PROVE Defer(isr)
  <2>1. /\ taken = {} /\ taken' = {} /\ isr_priority_stack' = isr_priority_stack
        /\ ~Outranks(isr, isr_priority_stack) /\ Insert(isr)
    BY <1>5 DEF RequestQueued, Idle, control
  <2>. QED  BY <1>0, <1>1, <1>2, <2>1, InsertAddsOne DEF Defer, Enqueue
<1>6. ASSUME NEW isr \in Isrs, RequestDropped(isr) PROVE UNCHANGED ControllerVars
  BY <1>6 DEF RequestDropped, controllerVars, vars, control, ControllerVars, pendingOutside,
     stackOutside, pendingCount, Occupied
<1>7. ASSUME Sift PROVE UNCHANGED ControllerVars
  <2>1. pendingCount' = pendingCount /\ Occupied' = Occupied
    BY <1>0, <1>7, SiftKeepsCount DEF Sift
  <2>. QED  BY <1>7, <2>1 DEF Sift, control, ControllerVars, pendingOutside, stackOutside
<1>8. ASSUME RtiQueueEmpty PROVE Resume
  <2>1. \A isr \in Isrs : ~(pendingCount[isr] > 0)
    <3>1. Occupied = {}
      BY <1>8 DEF RtiQueueEmpty, Idle, Occupied
    <3>. QED  BY <1>0, <3>1, CountType
  <2>. QED  BY <1>1, <1>2, <1>3, <1>8, <2>1 DEF RtiQueueEmpty, Idle, Resume, QueueVars
<1>9. ASSUME RtiTakes PROVE UNCHANGED ControllerVars
  <2>. DEFINE root == isr_heap[0]
  <2>1. /\ root \in Isrs /\ taken = {} /\ taken' = {root} /\ found' = isr_priority_stack
        /\ pendingCount' = [pendingCount EXCEPT ![root] = @ - 1]
        /\ Cardinality(Occupied)' = Cardinality(Occupied) - 1
    BY <1>0, <1>9, PopTakesHighest DEF RtiTakes, Idle
  <2>. HIDE DEF root
  <2>2. pendingOutside' = pendingOutside
    BY <1>1, <1>2, <2>1
  <2>3. stackOutside' = stackOutside
    BY <1>1, <1>2, <2>1
  <2>4. (Cardinality(Occupied) + Cardinality(taken))' = Cardinality(Occupied) + Cardinality(taken)
    <3>1. Cardinality(taken) = 0 /\ Cardinality(Occupied) \in Nat
      BY <1>1, <2>1
    <3>2. Cardinality(taken)' = 1
      BY <1>2, <2>1
    <3>. QED  BY <2>1, <3>1, <3>2
  <2>. QED  BY <2>2, <2>3, <2>4 DEF ControllerVars
<1>10. ASSUME NEW isr \in Isrs, isr \in taken
       PROVE  /\ taken = {isr}
              /\ isr_priority_stack = Popped
              /\ HighestPending(isr)
  <2>1. /\ taken = {isr} /\ isr_priority_stack = Popped
        /\ \A other \in Isrs :
               pendingCount[other] > 0 => isr_to_prio[other] <= isr_to_prio[isr]
    BY <1>0, <1>10 DEF OfferInv
  <2>2. \A i \in Isrs : pendingOutside[i] > 0 => i = isr \/ pendingCount[i] > 0
    BY <1>1, <2>1
  <2>3. isr_to_prio \in [Isrs -> Nat]
    BY HeapAssumption
  <2>4. HighestPending(isr)
    BY <1>1, <2>1, <2>2, <2>3 DEF HighestPending
  <2>. QED  BY <2>1, <2>4
<1>11. ASSUME NEW isr \in Isrs, OfferGranted(isr) PROVE Dispatch(isr)
  <2>1. /\ taken = {isr} /\ isr_priority_stack = Popped
        /\ HighestPending(isr)
        /\ Outranks(isr, isr_priority_stack) /\ taken' = {} /\ UNCHANGED vars
        /\ isr_priority_stack' = Pushed(isr, isr_priority_stack)
    BY <1>10, <1>11 DEF OfferGranted, Offered
  <2>2. pendingOutside' = [pendingOutside EXCEPT ![isr] = @ - 1]
    BY <1>1, <1>2, <1>3, <2>1
  <2>3. /\ (Cardinality(Occupied) + Cardinality(taken))' = (Cardinality(Occupied) + Cardinality(taken)) - 1
        /\ Cardinality(Occupied) + Cardinality(taken) > 0
    <3>1. Cardinality(taken) = 1 /\ Cardinality(Occupied) \in Nat
      BY <1>1, <2>1
    <3>2. Cardinality(taken)' = 0 /\ Cardinality(Occupied)' = Cardinality(Occupied)
      BY <1>2, <1>3, <2>1
    <3>. QED  BY <3>1, <3>2
  <2>4. stackOutside' = Pushed(isr, Popped)
    <3>1. stackOutside' = isr_priority_stack'
      BY <1>2, <2>1
    <3>. QED  BY <2>1, <3>1 DEF Pushed
  <2>5. Dequeue(isr)
    BY <2>1, <2>2, <2>3 DEF Dequeue
  <2>. QED  BY <2>1, <2>4, <2>5 DEF Dispatch
<1>12. ASSUME NEW isr \in Isrs, OfferPutBack(isr) PROVE Resume
  <2>1. /\ taken = {isr} /\ isr_priority_stack = Popped
        /\ HighestPending(isr)
        /\ ~Outranks(isr, isr_priority_stack) /\ taken' = {} /\ Insert(isr)
        /\ isr_priority_stack' = isr_priority_stack
    BY <1>10, <1>12 DEF OfferPutBack, Offered
  <2>2. /\ pendingCount' = [pendingCount EXCEPT ![isr] = @ + 1]
        /\ Cardinality(Occupied)' = Cardinality(Occupied) + 1
    BY <1>0, <2>1, InsertAddsOne
  <2>3. pendingOutside' = pendingOutside
    BY <1>1, <1>2, <2>1, <2>2
  <2>4. (Cardinality(Occupied) + Cardinality(taken))' = Cardinality(Occupied) + Cardinality(taken)
    <3>1. Cardinality(taken) = 1 /\ Cardinality(Occupied) \in Nat
      BY <1>1, <2>1
    <3>2. Cardinality(taken)' = 0
      BY <1>2, <2>1
    <3>. QED  BY <2>2, <3>1, <3>2
  <2>5. stackOutside' = Popped
    BY <1>2, <2>1
  <2>6. ASSUME NEW other \in Isrs, pendingOutside[other] > 0 /\ HighestPending(other)
        PROVE  ~Outranks(other, Popped)
    <3>1. isr_to_prio[other] = isr_to_prio[isr]
      BY <2>1, <2>6, HeapAssumption DEF HighestPending
    <3>. QED  BY <2>1, <3>1 DEF Outranks
  <2>. QED  BY <2>3, <2>4, <2>5, <2>6 DEF Resume, QueueVars
<1>13. ASSUME UNCHANGED controllerVars PROVE UNCHANGED ControllerVars
  BY <1>13 DEF controllerVars, vars, control, ControllerVars, pendingOutside,
     stackOutside, pendingCount, Occupied
<1>. QED
  BY <1>4, <1>5, <1>6, <1>7, <1>8, <1>9, <1>11, <1>12, <1>13
     DEF ControllerHeapNext, ControllerNext

(* The controller on the array implements the controller on the bag: each  *)
(* RTI starts a most urgent waiting interrupt or leaves the queue alone,   *)
(* and no request that was queued is lost on the way.                      *)
THEOREM ArrayImplementsController == ControllerHeapSpec => ImplementsController
<1>1. ControllerHeapInit => ControllerInit
  <2>1. SUFFICES ASSUME ControllerHeapInit PROVE ControllerInit
    OBVIOUS
  <2>2. ControllerHeapInv /\ taken = {} /\ isr_priority_stack = <<>> /\ Occupied = {}
    BY <2>1, HeapInit, ControllerUsesHeap
       DEF ControllerHeapInit, ControllerHeapInv, OfferInv, Init, Occupied
  <2>3. \A i \in Isrs : pendingCount[i] = 0
    BY <2>2, CountType DEF ControllerHeapInv
  <2>4. pendingOutside = [i \in Isrs |-> 0] /\ stackOutside = <<>>
    BY <2>2, <2>3 DEF pendingOutside, stackOutside
  <2>. QED  BY <2>2, <2>4, FS_EmptySet DEF ControllerInit, QueueInit
<1>. QED
  BY <1>1, ControllerHeapStep, ControllerHeapInvariant, PTL
     DEF ControllerHeapSpec, ImplementsController, ControllerSpec
=============================================================================
