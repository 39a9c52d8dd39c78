-------------------------- MODULE DebugView_proofs --------------------------
(***************************************************************************)
(* Proofs about what the debugger shows: which picture is on the screen    *)
(* when it waits for a command, that the lines of a box are one window of  *)
(* its memory, and that the watched cell is among them, for memories,      *)
(* programs, terminals and radii of any size.                              *)
(***************************************************************************)
EXTENDS DebugView, SequenceTheorems, TLAPS

----------------------------------------------------------------------------
\* Words, and the two bounds of a window.

(* What is below the divisor is its own remainder. *)
LEMMA BelowDivisor ==
    ASSUME NEW d \in Nat, NEW x \in 0 .. d - 1
    PROVE  x \div d = 0 /\ x % d = x
OBVIOUS

(* The division of a word in the upper half of a memory map of two halves. *)
LEMMA UpperHalf ==
    ASSUME NEW d \in Nat, NEW x \in d .. 2 * d - 1
    PROVE  x \div d = 1 /\ x % d = x - d
OBVIOUS

(* Max and Min of the library, which choose, on the two bounds of a loop. *)
LEMMA LargerOfTwo ==
    ASSUME NEW a \in Int, NEW b \in Int
    PROVE  Max({a, b}) = IF a >= b THEN a ELSE b
<1> DEFINE larger == IF a >= b THEN a ELSE b
<1>1. larger \in {a, b} /\ \A y \in {a, b} : larger >= y
  OBVIOUS
<1>2. \A x \in {a, b} : (\A y \in {a, b} : x >= y) => x = larger
  OBVIOUS
<1>. QED
  BY <1>1, <1>2 DEF Max

(* The same of the smaller one. *)
LEMMA SmallerOfTwo ==
    ASSUME NEW a \in Int, NEW b \in Int
    PROVE  Min({a, b}) = IF a <= b THEN a ELSE b
<1> DEFINE smaller == IF a <= b THEN a ELSE b
<1>1. smaller \in {a, b} /\ \A y \in {a, b} : smaller =< y
  OBVIOUS
<1>2. \A x \in {a, b} : (\A y \in {a, b} : x =< y) => x = smaller
  OBVIOUS
<1>. QED
  BY <1>1, <1>2 DEF Min

(* INDEX and the sizes are positive numbers. *)
LEMMA Sizes ==
    /\ INDEX \in Nat \ {0} /\ EPROM_SIZE \in Nat \ {0} /\ sram_size \in Nat \ {0}
    /\ num_instrs_start_prgrm \in Nat \ {0} /\ num_instrs_start_prgrm < EPROM_SIZE
    /\ num_instrs \in Nat \ {0} /\ num_instrs <= sram_size
    /\ ivt_size \in Nat /\ ivt_size < num_instrs
    /\ radius_option \in Nat
BY ViewAssumption

(* The EPROM's cells can be counted in uint16_t, not all of its addresses. *)
LEMMA CountedInU16 ==
    U16_SIZE \in Nat \ {0} /\ EPROM_SIZE < U16_SIZE /\ U16_SIZE <= INDEX
BY ViewAssumption

----------------------------------------------------------------------------
\* The lines of a box are one window.

Cell == [idx : Int, as : {"instruction", "number"}]

\* s lists the cells from .. to of a box, in order and as what they hold.
IsWindow(s, box, from, to) ==
    /\ s \in Seq(Cell)
    /\ Len(s) = IF from <= to THEN to - from + 1 ELSE 0
    /\ \A i \in 1 .. Len(s) :
         /\ s[i].idx = from + i - 1
         /\ s[i].as = "instruction" <=> HoldsInstruction(box, s[i].idx)

(* One loop lists a window, if its cells hold what it prints them as. *)
LEMMA CellsAreWindow ==
    ASSUME NEW box, NEW from \in Int, NEW to \in Int, NEW as \in {"instruction", "number"},
           \A idx \in from .. to : as = "instruction" <=> HoldsInstruction(box, idx)
    PROVE  IsWindow(Cells(from, to, as), box, from, to)
<1> DEFINE n == IF from <= to THEN to - from + 1 ELSE 0
           f == [i \in 1 .. n |-> [idx |-> from + i - 1, as |-> as]]
<1>1. Max({0, to - from + 1}) = n
  BY LargerOfTwo
<1>2. n \in Nat /\ \A i \in 1 .. n : from + i - 1 \in from .. to
  OBVIOUS
<1> HIDE DEF n
<1>3. Cells(from, to, as) = f
  BY <1>1, Zenon DEF Cells
<1>4. \A i \in 1 .. n : f[i].idx = from + i - 1 /\ f[i].as = as
  <2>1. ASSUME NEW i \in 1 .. n
        PROVE  f[i] = [idx |-> from + i - 1, as |-> as]
    OBVIOUS
  <2>. QED
    BY <2>1
<1>5. f \in Seq(Cell) /\ Len(f) = n
  <2>1. ASSUME NEW i \in 1 .. n
        PROVE  [idx |-> from + i - 1, as |-> as] \in Cell
    <3>1. from + i - 1 \in Int
      BY <1>2
    <3>. QED
      BY <3>1 DEF Cell
  <2>2. f \in [1 .. n -> Cell]
    BY <2>1
  <2>3. DOMAIN f = 1 .. n
    OBVIOUS
  <2> HIDE DEF f
  <2>4. f \in Seq(Cell)
    BY <1>2, <2>2, SeqDef
  <2>5. Len(f) \in Nat /\ 1 .. Len(f) = 1 .. n
    BY <2>3, <2>4, LenProperties
  <2>. QED
    BY <1>2, <2>4, <2>5
<1>. QED
  BY <1>2, <1>3, <1>4, <1>5 DEF IsWindow, n

(* What two loops list, of which the second one takes up the memory where  *)
(* the first one leaves it.                                                *)
LEMMA WindowsJoin ==
    ASSUME NEW box, NEW low \in Int, NEW mid \in Int, NEW high \in Int,
           low <= mid, mid <= high, NEW from \in Int, NEW to \in Int, NEW s, NEW t,
           IsWindow(s, box, Max({low, from}), Min({to, mid - 1})),
           IsWindow(t, box, Max({mid, from}), Min({to, high - 1}))
    PROVE  IsWindow(s \o t, box, Max({low, from}), Min({to, high - 1}))
<1> DEFINE a == Max({low, from})
           b == Min({to, mid - 1})
           c == Max({mid, from})
           d == Min({to, high - 1})
<1>1. /\ a = IF low >= from THEN low ELSE from
      /\ b = IF to <= mid - 1 THEN to ELSE mid - 1
      /\ c = IF mid >= from THEN mid ELSE from
      /\ d = IF to <= high - 1 THEN to ELSE high - 1
  BY LargerOfTwo, SmallerOfTwo
<1>2. a \in Int /\ b \in Int /\ c \in Int /\ d \in Int
  BY <1>1
<1>3. /\ a <= b /\ c <= d => c = b + 1
      /\ a <= b /\ d < c => d = b
      /\ b < a /\ c <= d => c = a
      /\ b < a /\ d < c => d < a
  BY <1>1
<1>4. /\ s \in Seq(Cell) /\ Len(s) = IF a <= b THEN b - a + 1 ELSE 0
      /\ t \in Seq(Cell) /\ Len(t) = IF c <= d THEN d - c + 1 ELSE 0
      /\ \A i \in 1 .. Len(s) :
           /\ s[i].idx = a + i - 1
           /\ s[i].as = "instruction" <=> HoldsInstruction(box, s[i].idx)
      /\ \A i \in 1 .. Len(t) :
           /\ t[i].idx = c + i - 1
           /\ t[i].as = "instruction" <=> HoldsInstruction(box, t[i].idx)
  BY DEF IsWindow
<1> HIDE DEF a, b, c, d
<1>5. /\ s \o t \in Seq(Cell)
      /\ Len(s \o t) = Len(s) + Len(t)
      /\ \A i \in 1 .. Len(s) + Len(t) :
           (s \o t)[i] = IF i <= Len(s) THEN s[i] ELSE t[i - Len(s)]
  BY <1>4, ConcatProperties
<1>6. Len(s \o t) = IF a <= d THEN d - a + 1 ELSE 0
  BY <1>2, <1>3, <1>4, <1>5
<1>7. ASSUME NEW i \in 1 .. Len(s \o t)
      PROVE  /\ (s \o t)[i].idx = a + i - 1
             /\ (s \o t)[i].as = "instruction" <=> HoldsInstruction(box, (s \o t)[i].idx)
  <2>1. Len(s) \in Nat /\ Len(t) \in Nat
    BY <1>4, LenProperties
  <2>2. CASE i <= Len(s)
    BY <2>1, <2>2, <1>4, <1>5
  <2>3. CASE i > Len(s)
    <3>1. i - Len(s) \in 1 .. Len(t) /\ (s \o t)[i] = t[i - Len(s)]
      BY <2>1, <2>3, <1>5
    <3>2. Len(t) > 0 /\ c <= d
      BY <2>1, <3>1, <1>2, <1>4
    <3>3. a + Len(s) = c
      BY <3>2, <1>2, <1>3, <1>4
    <3>4. c + (i - Len(s)) - 1 = a + i - 1
      BY <3>3, <2>1, <1>2
    <3>. QED
      BY <3>1, <3>4, <1>4
  <2>. QED
    BY <2>1, <2>2, <2>3
<1>. QED
  BY <1>5, <1>6, <1>7 DEF IsWindow, a, d

(* The two loops of the EPROM, whose start program comes first; they begin *)
(* where they should if that is a number of uint16_t.                      *)
LEMMA EpromSectionsAreWindow ==
    ASSUME NEW from \in Int, NEW to \in Int, from < U16_SIZE
    PROVE  IsWindow(EpromSections(from, to), "EPROM", Max({0, from}), Min({to, EPROM_SIZE - 1}))
<1>1. /\ Max({0, from}) \in Int /\ Max({0, from}) >= 0
      /\ Max({num_instrs_start_prgrm, from}) \in Int
      /\ Max({num_instrs_start_prgrm, from}) >= num_instrs_start_prgrm
      /\ Min({to, num_instrs_start_prgrm - 1}) \in Int
      /\ Min({to, num_instrs_start_prgrm - 1}) < num_instrs_start_prgrm
      /\ Min({to, EPROM_SIZE - 1}) \in Int
  BY Sizes, LargerOfTwo, SmallerOfTwo
<1>2. IsWindow(Cells(Max({0, from}), Min({to, num_instrs_start_prgrm - 1}), "instruction"),
               "EPROM", Max({0, from}), Min({to, num_instrs_start_prgrm - 1}))
  <2>1. \A idx \in Max({0, from}) .. Min({to, num_instrs_start_prgrm - 1}) :
           "instruction" = "instruction" <=> HoldsInstruction("EPROM", idx)
    BY <1>1, Sizes DEF HoldsInstruction
  <2>. QED
    BY <1>1, <2>1, CellsAreWindow
<1>3. IsWindow(Cells(Max({num_instrs_start_prgrm, from}), Min({to, EPROM_SIZE - 1}), "number"),
               "EPROM", Max({num_instrs_start_prgrm, from}), Min({to, EPROM_SIZE - 1}))
  <2>1. \A idx \in Max({num_instrs_start_prgrm, from}) .. Min({to, EPROM_SIZE - 1}) :
           "number" = "instruction" <=> HoldsInstruction("EPROM", idx)
    BY <1>1, Sizes DEF HoldsInstruction
  <2>. QED
    BY <1>1, <2>1, CellsAreWindow
<1>4. /\ U16(Max({0, from})) = Max({0, from})
      /\ U16(Max({num_instrs_start_prgrm, from})) = Max({num_instrs_start_prgrm, from})
  <2>1. /\ Max({0, from}) \in 0 .. U16_SIZE - 1
        /\ Max({num_instrs_start_prgrm, from}) \in 0 .. U16_SIZE - 1
    BY Sizes, CountedInU16, LargerOfTwo
  <2>. QED
    BY <2>1, CountedInU16, BelowDivisor DEF U16
<1>. QED
  BY <1>2, <1>3, <1>4, Sizes, WindowsJoin DEF EpromSections

(* The three loops of the SRAM: vectors, instructions, data. *)
LEMMA SramSectionsAreWindow ==
    ASSUME NEW box, box # "EPROM", NEW from \in Int, NEW to \in Int
    PROVE  IsWindow(SramSections(from, to), box, Max({0, from}), Min({to, sram_size - 1}))
<1> DEFINE vectors == Cells(Max({0, from}), Min({to, ivt_size - 1}), "number")
           code == Cells(Max({ivt_size, from}), Min({to, num_instrs - 1}), "instruction")
           data == Cells(Max({num_instrs, from}), Min({to, sram_size - 1}), "number")
<1>1. /\ Max({0, from}) \in Int /\ Max({0, from}) >= 0
      /\ Max({ivt_size, from}) \in Int /\ Max({ivt_size, from}) >= ivt_size
      /\ Max({num_instrs, from}) \in Int /\ Max({num_instrs, from}) >= num_instrs
      /\ Min({to, ivt_size - 1}) \in Int /\ Min({to, ivt_size - 1}) < ivt_size
      /\ Min({to, num_instrs - 1}) \in Int /\ Min({to, num_instrs - 1}) < num_instrs
      /\ Min({to, sram_size - 1}) \in Int
  BY Sizes, LargerOfTwo, SmallerOfTwo
<1>2. IsWindow(vectors, box, Max({0, from}), Min({to, ivt_size - 1}))
  <2>1. \A idx \in Max({0, from}) .. Min({to, ivt_size - 1}) :
           "number" = "instruction" <=> HoldsInstruction(box, idx)
    BY <1>1, Sizes DEF HoldsInstruction
  <2>. QED
    BY <1>1, <2>1, CellsAreWindow
<1>3. IsWindow(code, box, Max({ivt_size, from}), Min({to, num_instrs - 1}))
  <2>1. \A idx \in Max({ivt_size, from}) .. Min({to, num_instrs - 1}) :
           "instruction" = "instruction" <=> HoldsInstruction(box, idx)
    BY <1>1, Sizes DEF HoldsInstruction
  <2>. QED
    BY <1>1, <2>1, CellsAreWindow
<1>4. IsWindow(data, box, Max({num_instrs, from}), Min({to, sram_size - 1}))
  <2>1. \A idx \in Max({num_instrs, from}) .. Min({to, sram_size - 1}) :
           "number" = "instruction" <=> HoldsInstruction(box, idx)
    BY <1>1, Sizes DEF HoldsInstruction
  <2>. QED
    BY <1>1, <2>1, CellsAreWindow
<1> HIDE DEF vectors, code, data
<1>5. IsWindow(vectors \o code, box, Max({0, from}), Min({to, num_instrs - 1}))
  BY <1>2, <1>3, Sizes, WindowsJoin
<1>6. IsWindow((vectors \o code) \o data, box, Max({0, from}), Min({to, sram_size - 1}))
  BY <1>4, <1>5, Sizes, WindowsJoin
<1>. QED
  BY <1>6 DEF SramSections, vectors, code, data

----------------------------------------------------------------------------
\* The invariant.

\* A picture that draw_tui can have put on the screen.
IsPicture(p) ==
    /\ p.regs \in [Registers -> 0 .. 4 * INDEX - 1]
    /\ p.height \in Heights
    /\ p.title \in [Boxes -> Registers \cup {ADDRESS}]
    /\ \A box \in Boxes :
         /\ p.value[box] \in Nat
         /\ p.title[box] # ADDRESS => p.value[box] = p.regs[p.title[box]]

ScreenTyped == IsPicture(screen)

\* The watchobjects are those of the assignments that were accepted.
WatchesAssigned ==
    \A box \in Boxes : watchobject[box] = Decision(assigned[box].object)

\* Of registers only a picture is up to date: a typed address that was
\* refused stays in watchobject_addr, and an earlier one may be lost there.
OfRegisters == \A box \in Boxes : watchobject[box] # ADDRESS
RegistersShown == at = "command" /\ OfRegisters => screen = Picture

ViewInv == TypeOK /\ ScreenTyped /\ WatchesAssigned /\ RegistersShown

DrawsNow == Drawable(watchobject, watchobject_addr)
PictureIsPicture == IsPicture(Picture)

(* The value of a watchobject is a number when draw_tui goes on. *)
LEMMA DrawnIsPicture == TypeOK /\ DrawsNow => PictureIsPicture
<1> SUFFICES ASSUME TypeOK, DrawsNow
             PROVE  IsPicture(Picture)
  BY DEF PictureIsPicture
<1> USE DEF TypeOK
<1>1. /\ Picture.regs = regs /\ Picture.height = term_height /\ Picture.title = watchobject
  BY DEF Picture
<1>2. ASSUME NEW box \in Boxes
      PROVE  /\ Picture.value[box] \in Nat
             /\ watchobject[box] # ADDRESS => Picture.value[box] = regs[watchobject[box]]
  <2>1. Picture.value[box] = IF watchobject[box] # ADDRESS THEN regs[watchobject[box]]
                             ELSE watchobject_addr + IF box = "EPROM" THEN 0 ELSE 2 * INDEX
    BY DEF Picture
  <2>2. CASE watchobject[box] # ADDRESS
    <3>1. regs[watchobject[box]] \in 0 .. 4 * INDEX - 1
      BY <2>2
    <3>. QED
      BY <2>1, <2>2, <3>1, Sizes
  <2>3. CASE watchobject[box] = ADDRESS
    <3>1. watchobject_addr # Invalid
      BY <2>3 DEF DrawsNow, Drawable
    <3>2. watchobject_addr \in 0 .. 4 * INDEX - 1
      BY <3>1, ViewAssumption
    <3>. QED
      BY <2>1, <2>3, <3>2, Sizes
  <2>. QED
    BY <2>2, <2>3
<1>. QED
  BY <1>1, <1>2 DEF IsPicture

(* The same of the next state. *)
LEMMA DrawnIsPictureNext == TypeOK' /\ DrawsNow' => PictureIsPicture'
BY DrawnIsPicture, PTL

(* Register watchobjects can always be drawn. *)
LEMMA RegistersAreDrawn == OfRegisters => DrawsNow
BY DEF OfRegisters, DrawsNow, Drawable

(* The same of the next state. *)
LEMMA RegistersAreDrawnNext == OfRegisters' => DrawsNow'
BY RegistersAreDrawn, PTL

(* draw_tui leaves a picture on the screen, and the present one if the     *)
(* watchobjects are registers.                                             *)
LEMMA DrawKeeps ==
    ASSUME TypeOK', ScreenTyped, draw_tui
    PROVE  ScreenTyped' /\ RegistersShown'
<1>1. CASE DrawsNow'
  <2>1. screen' = Picture'
    BY <1>1 DEF draw_tui, DrawsNow
  <2>2. IsPicture(Picture')
    BY <1>1, DrawnIsPictureNext DEF PictureIsPicture
  <2>. QED
    BY <2>1, <2>2 DEF ScreenTyped, RegistersShown
<1>2. CASE ~ DrawsNow'
  <2>1. screen' = screen
    BY <1>2 DEF draw_tui, DrawsNow
  <2>2. ~ OfRegisters'
    BY <1>2, RegistersAreDrawnNext
  <2>. QED
    BY <2>1, <2>2 DEF ScreenTyped, RegistersShown
<1>. QED
  BY <1>1, <1>2

(* The first picture. *)
LEMMA ViewInit == Init => ViewInv
<1> SUFFICES ASSUME Init
             PROVE  ViewInv
  OBVIOUS
<1> USE DEF Init
<1>1. FirstWatchobject \in [Boxes -> Registers] /\ \A box \in Boxes : FirstWatchobject[box] # ADDRESS
  BY DEF FirstWatchobject, Boxes, Registers, ADDRESS
<1>2. TypeOK
  <2>1. 0 \in 0 .. 4 * INDEX - 1
    BY Sizes
  <2>. QED
    BY <1>1, <2>1 DEF TypeOK
<1>3. ScreenTyped
  <2>1. DrawsNow
    BY <1>1 DEF DrawsNow, Drawable
  <2>. QED
    BY <1>2, <2>1, DrawnIsPicture DEF PictureIsPicture, ScreenTyped
<1>4. WatchesAssigned
  <2>1. \A box \in Boxes : FirstWatchobject[box] # "IN2"
    BY DEF FirstWatchobject, Boxes
  <2>. QED
    BY <1>1, <2>1 DEF WatchesAssigned, Decision
<1>5. RegistersShown
  BY DEF RegistersShown
<1>. QED
  BY <1>2, <1>3, <1>4, <1>5 DEF ViewInv

(* The assignments and the watchobjects, which most actions leave alone. *)
LEMMA WatchesKept ==
    ASSUME WatchesAssigned, UNCHANGED <<legacy_debug_tui, watchobject, assigned>>
    PROVE  WatchesAssigned'
BY DEF WatchesAssigned, Decision

(* Each action keeps the invariant. *)
LEMMA ViewStep == ViewInv /\ [Next]_vars => ViewInv'
<1> SUFFICES ASSUME ViewInv, [Next]_vars
             PROVE  ViewInv'
  OBVIOUS
<1>0. TypeOK /\ ScreenTyped /\ WatchesAssigned /\ RegistersShown
  BY DEF ViewInv
<1>1. ASSUME NEW drawing \in BOOLEAN, Run(drawing)
      PROVE  ViewInv'
  <2>1. TypeOK'
    BY <1>0, <1>1, ViewAssumption DEF Run, TypeOK
  <2>2. WatchesAssigned'
    BY <1>0, <1>1, WatchesKept DEF Run
  <2>3. RegistersShown'
    BY <1>1 DEF Run, RegistersShown
  <2>4. ScreenTyped'
    <3>1. CASE drawing
      BY <1>0, <1>1, <2>1, <3>1, DrawKeeps DEF Run
    <3>2. CASE ~ drawing
      BY <1>0, <1>1, <3>2 DEF Run, ScreenTyped
    <3>. QED
      BY <3>1, <3>2
  <2>. QED
    BY <2>1, <2>2, <2>3, <2>4 DEF ViewInv
<1>2. ASSUME ShowDebugger
      PROVE  ViewInv'
  <2>1. TypeOK' /\ draw_tui
    BY <1>0, <1>2 DEF ShowDebugger, TypeOK
  <2>2. WatchesAssigned'
    BY <1>0, <1>2, WatchesKept DEF ShowDebugger
  <2>. QED
    BY <1>0, <2>1, <2>2, DrawKeeps DEF ViewInv
<1>3. ASSUME KeyGo
      PROVE  ViewInv'
  <2>1. TypeOK'
    BY <1>0, <1>3 DEF KeyGo, TypeOK
  <2>2. WatchesAssigned'
    BY <1>0, <1>3, WatchesKept DEF KeyGo
  <2>3. ScreenTyped' /\ RegistersShown'
    BY <1>0, <1>3 DEF KeyGo, ScreenTyped, RegistersShown
  <2>. QED
    BY <2>1, <2>2, <2>3 DEF ViewInv
<1>4. ASSUME KeyRestart
      PROVE  ViewInv'
  <2>1. 0 \in 0 .. 4 * INDEX - 1
    BY Sizes
  <2>2. TypeOK' /\ draw_tui
    BY <1>0, <1>4, <2>1 DEF KeyRestart, TypeOK
  <2>3. WatchesAssigned'
    BY <1>0, <1>4, WatchesKept DEF KeyRestart
  <2>. QED
    BY <1>0, <2>2, <2>3, DrawKeeps DEF ViewInv
<1>5. ASSUME KeyTrigger
      PROVE  ViewInv'
  <2>1. regs' \in [Registers -> 0 .. 4 * INDEX - 1]
    BY <1>0, <1>5, ViewAssumption DEF KeyTrigger, TypeOK, Registers
  <2>2. TypeOK' /\ draw_tui
    BY <1>0, <1>5, <2>1 DEF KeyTrigger, TypeOK
  <2>3. WatchesAssigned'
    BY <1>0, <1>5, WatchesKept DEF KeyTrigger
  <2>. QED
    BY <1>0, <2>2, <2>3, DrawKeeps DEF ViewInv
<1>6. ASSUME AssignCancelled
      PROVE  ViewInv'
  <2>1. TypeOK' /\ draw_tui
    BY <1>0, <1>6 DEF AssignCancelled, TypeOK
  <2>2. WatchesAssigned'
    BY <1>0, <1>6, WatchesKept DEF AssignCancelled
  <2>. QED
    BY <1>0, <2>1, <2>2, DrawKeeps DEF ViewInv
<1>7. ASSUME NEW box \in Boxes, NEW named \in Registers \cup {ADDRESS},
             NEW typed \in IF named = ADDRESS THEN Typed \cup {Invalid} ELSE {Invalid},
             Assigning(named, typed)
      PROVE  /\ typed \in Typed \cup {Invalid}
             /\ watchobject_addr' \in Typed \cup {Invalid}
             /\ Decision(named) \in Registers \cup {ADDRESS}
             /\ Proposed(box, named) \in [Boxes -> Registers \cup {ADDRESS}]
  <2>1. typed \in Typed \cup {Invalid}
    OBVIOUS
  <2>2. Decision(named) \in Registers \cup {ADDRESS}
    BY DEF Decision, Registers
  <2>. QED
    BY <1>0, <1>7, <2>1, <2>2 DEF Assigning, TypeOK, Proposed
<1>8. ASSUME NEW box \in Boxes, NEW named \in Registers \cup {ADDRESS},
             NEW typed \in IF named = ADDRESS THEN Typed \cup {Invalid} ELSE {Invalid},
             Assign(box, named, typed)
      PROVE  ViewInv'
  <2>1. Assigning(named, typed) /\ watchobject' = Proposed(box, named) /\ draw_tui
    BY <1>8 DEF Assign
  <2>2. assigned' = [assigned EXCEPT ![box] = [object |-> named, typed |-> typed]]
    BY <1>8 DEF Assign
  <2>3. /\ typed \in Typed \cup {Invalid}
        /\ watchobject_addr' \in Typed \cup {Invalid}
        /\ watchobject' \in [Boxes -> Registers \cup {ADDRESS}]
    BY <1>7, <2>1
  <2>4. [object |-> named, typed |-> typed]
            \in [object : Registers \cup {ADDRESS}, typed : Typed \cup {Invalid}]
    BY <2>3
  <2>5. TypeOK'
    BY <1>0, <2>1, <2>2, <2>3, <2>4 DEF Assigning, TypeOK
  <2>6. WatchesAssigned'
    <3>1. legacy_debug_tui' = legacy_debug_tui
      BY <2>1 DEF Assigning
    <3>2. ASSUME NEW b \in Boxes
          PROVE  watchobject'[b] = Decision(assigned'[b].object)
      <4>1. CASE b = box
        BY <4>1, <1>0, <2>1, <2>2 DEF Proposed, TypeOK
      <4>2. CASE b # box
        BY <4>2, <1>0, <2>1, <2>2 DEF Proposed, TypeOK, WatchesAssigned
      <4>. QED
        BY <4>1, <4>2
    <3>. QED
      BY <3>1, <3>2 DEF WatchesAssigned, Decision
  <2>. QED
    BY <1>0, <2>1, <2>5, <2>6, DrawKeeps DEF ViewInv
<1>9. ASSUME NEW box \in Boxes, NEW named \in Registers \cup {ADDRESS},
             NEW typed \in IF named = ADDRESS THEN Typed \cup {Invalid} ELSE {Invalid},
             AssignRefused(box, named, typed)
      PROVE  ViewInv'
  <2>1. /\ Assigning(named, typed)
        /\ UNCHANGED <<legacy_debug_tui, at, regs, term_height, watchobject, screen, assigned>>
    BY <1>9 DEF AssignRefused, Assigning
  <2>2. watchobject_addr' \in Typed \cup {Invalid}
    BY <1>7, <2>1
  <2>3. TypeOK'
    BY <1>0, <2>1, <2>2 DEF TypeOK
  <2>4. WatchesAssigned'
    BY <1>0, <2>1, WatchesKept
  <2>5. OfRegisters' => OfRegisters /\ Picture' = Picture
    BY <2>1 DEF OfRegisters, Picture
  <2>6. ScreenTyped' /\ RegistersShown'
    BY <1>0, <2>1, <2>5 DEF ScreenTyped, RegistersShown
  <2>. QED
    BY <2>3, <2>4, <2>6 DEF ViewInv
<1>10. ASSUME UNCHANGED vars
       PROVE  ViewInv'
  <2>1. TypeOK' /\ ScreenTyped'
    BY <1>0, <1>10 DEF vars, TypeOK, ScreenTyped
  <2>2. WatchesAssigned'
    BY <1>0, <1>10, WatchesKept DEF vars
  <2>3. RegistersShown'
    BY <1>0, <1>10 DEF vars, RegistersShown, OfRegisters, Picture
  <2>. QED
    BY <2>1, <2>2, <2>3 DEF ViewInv
<1>. QED
  BY <1>1, <1>2, <1>3, <1>4, <1>5, <1>6, <1>8, <1>9, <1>10 DEF Next

(* The invariant holds in every reachable state of the debugger's view. *)
THEOREM ViewInvariant == Spec => []ViewInv
BY ViewInit, ViewStep, PTL DEF Spec

(* Whatever is assigned, refused or cancelled, the watchobjects are names  *)
(* that determine_watchobject_value knows, and the address is one that was *)
(* typed or no number.                                                     *)
THEOREM ViewTypeCorrect == Spec => []TypeOK
<1>1. ViewInv => TypeOK
  BY DEF ViewInv
<1>. QED
  BY <1>1, ViewInvariant, PTL

(* While the debugger waits for a command the screen shows the registers   *)
(* as they are and the watchobjects that were accepted last, though the    *)
(* dialogue of 'a' writes its proposal first and takes it back when        *)
(* draw_tui fails, though a refused address stays behind, and though       *)
(* drawing is left out while the program runs.                             *)
THEOREM ScreenShowsAssignments == Spec => []ScreenIsCurrent
<1>1. ViewInv => ScreenIsCurrent
  <2> SUFFICES ASSUME ViewInv, at = "command",
                      \A box \in Boxes : assigned[box].object # ADDRESS
                                         /\ Nameable(assigned[box].object)
               PROVE  screen = Expected
    BY DEF ScreenIsCurrent
  <2>1. \A box \in Boxes : watchobject[box] = assigned[box].object /\ watchobject[box] # ADDRESS
    BY DEF ViewInv, WatchesAssigned, Decision, Nameable
  <2>2. screen = Picture
    BY <2>1 DEF ViewInv, RegistersShown, OfRegisters
  <2>3. watchobject = [box \in Boxes |-> assigned[box].object]
    BY <2>1 DEF ViewInv, TypeOK
  <2>. QED
    BY <2>1, <2>2, <2>3 DEF Picture, Expected
<1>. QED
  BY <1>1, ViewInvariant, PTL

----------------------------------------------------------------------------
\* The lines of the boxes.

(* The first n cells of a window are one. *)
LEMMA WindowCut ==
    ASSUME NEW s, NEW box, NEW from \in Int, NEW to \in Int, IsWindow(s, box, from, to),
           NEW n \in 0 .. Len(s)
    PROVE  IsWindow(SubSeq(s, 1, n), box, from, from + n - 1)
<1>1. s \in Seq(Cell) /\ Len(s) \in Nat /\ n \in Nat
  BY LenProperties DEF IsWindow
<1>2. \A i \in 1 .. n : s[i] \in Cell
  BY <1>1, ElementOfSeq
<1>3. /\ SubSeq(s, 1, n) \in Seq(Cell)
      /\ Len(SubSeq(s, 1, n)) = IF 1 <= n THEN n - 1 + 1 ELSE 0
      /\ \A i \in 1 .. n - 1 + 1 : SubSeq(s, 1, n)[i] = s[1 + i - 1]
  BY <1>1, <1>2, SubSeqProperties
<1>4. Len(SubSeq(s, 1, n)) = n /\ from + n - 1 \in Int
  BY <1>1, <1>3
<1>5. ASSUME NEW i \in 1 .. n
      PROVE  SubSeq(s, 1, n)[i] = s[i] /\ i \in 1 .. Len(s)
  BY <1>1, <1>3
<1>6. n = IF from <= from + n - 1 THEN (from + n - 1) - from + 1 ELSE 0
  BY <1>1
<1>. QED
  BY <1>3, <1>4, <1>5, <1>6 DEF IsWindow

(* No cells are a window, too. *)
LEMMA NothingIsWindow == ASSUME NEW box PROVE IsWindow(<<>>, box, 0, -1)
<1>1. <<>> \in Seq(Cell) /\ Len(<<>>) = 0
  BY EmptySeq
<1>. QED
  BY <1>1 DEF IsWindow

(* The numbers of lines, which are kept in a byte. *)
LEMMA Bytes == \A n \in Int : U8(n) \in 0 .. 255 /\ (n \in 0 .. 255 => U8(n) = n)
BY DEF U8

(* A box's height and the radius that follows from it. *)
LEMMA HeightAndRadius ==
    ASSUME TypeOK, ScreenTyped, NEW box \in Boxes
    PROVE  /\ BoxHeight(box) \in 0 .. 255
           /\ BoxHeight(box) = screen.height - IF box = "EPROM" THEN 22 ELSE 1
           /\ screen.height \in 24 .. 200
           /\ Radius(box) \in Int
           /\ legacy_debug_tui => Radius(box) = radius_option
           /\ ~ legacy_debug_tui => Radius(box) = (BoxHeight(box) - 2) \div 2
<1>1. screen.height \in 24 .. 200
  BY ViewAssumption DEF ScreenTyped, IsPicture
<1>2. /\ BoxHeight(box) \in 0 .. 255
      /\ BoxHeight(box) = screen.height - IF box = "EPROM" THEN 22 ELSE 1
  BY <1>1, Bytes DEF BoxHeight
<1>. QED
  BY <1>1, <1>2, Sizes DEF Radius, TypeOK

(* How far a window is lengthened. *)
LEMMA Lengthened ==
    ASSUME NEW x \in Nat, NEW r \in Int
    PROVE  Lower(x, r) \in 0 .. 255 /\ Upper(x, r) \in 0 .. 255
BY Sizes, Bytes DEF Lower, Upper

\* The bounds of a box's window, before they are cut at the memory's ends.
Center(box) == IF box = "EPROM" THEN screen.value[box] ELSE screen.value[box] % (2 * INDEX)
From(box) ==
    IF box = "EPROM" THEN Center(box) - Radius(box) - Upper(Center(box), Radius(box))
    ELSE SramFrom(Center(box), Radius(box))
To(box) ==
    Center(box) + Radius(box)
    + IF box # "EPROM" /\ legacy_debug_tui THEN 0 ELSE Lower(Center(box), Radius(box))
First(box) == Max({0, From(box)})
Last(box) == Min({To(box), MemorySize(box) - 1})

\* Whether the watchobject stands for an address of the box's memory.
Selected(box) ==
    IF box = "EPROM" THEN screen.value[box] \div INDEX = 0
    ELSE (screen.value[box] \div (2 * INDEX)) % 2 # 0

Listed(box) ==
    IF box = "EPROM" THEN EpromCells(screen.value[box], Radius(box))
    ELSE SramCells(screen.value[box], Radius(box))

(* The bounds are numbers, cut at both ends of the memory. *)
LEMMA Bounds ==
    ASSUME TypeOK, ScreenTyped, NEW box \in Boxes
    PROVE  /\ Center(box) \in Nat /\ From(box) \in Int /\ To(box) \in Int
           /\ First(box) = IF From(box) <= 0 THEN 0 ELSE From(box)
           /\ Last(box) = IF To(box) <= MemorySize(box) - 1 THEN To(box) ELSE MemorySize(box) - 1
           /\ First(box) \in Nat /\ Last(box) \in Int /\ MemorySize(box) \in Nat
<1>1. screen.value[box] \in Nat
  BY DEF ScreenTyped, IsPicture
<1>2. Center(box) \in Nat
  BY <1>1, Sizes DEF Center
<1>3. /\ Radius(box) \in Int /\ screen.height \in Int
      /\ Lower(Center(box), Radius(box)) \in Int /\ Upper(Center(box), Radius(box)) \in Int
  <2>1. Radius(box) \in Int /\ screen.height \in Int
    BY HeightAndRadius
  <2>. QED
    BY <1>2, <2>1, Lengthened
<1>4. From(box) \in Int /\ To(box) \in Int
  BY <1>2, <1>3 DEF From, To, SramFrom
<1>5. MemorySize(box) \in Nat
  BY Sizes DEF MemorySize
<1>6. /\ First(box) = IF From(box) <= 0 THEN 0 ELSE From(box)
      /\ Last(box) = IF To(box) <= MemorySize(box) - 1 THEN To(box) ELSE MemorySize(box) - 1
  BY <1>4, <1>5, LargerOfTwo, SmallerOfTwo DEF First, Last
<1>. QED
  BY <1>2, <1>4, <1>5, <1>6

(* An address of the EPROM's box that is not truncated is a number of      *)
(* uint16_t, and so is the beginning of its window.                        *)
LEMMA EpromFrom ==
    ASSUME TypeOK, ScreenTyped, Selected("EPROM"), ~ Truncated("EPROM")
    PROVE  From("EPROM") < U16_SIZE
<1> DEFINE x == screen.value["EPROM"]
           r == Radius("EPROM")
<1>1. "EPROM" \in Boxes
  BY DEF Boxes
<1>2. x \in Nat /\ Center("EPROM") = x
  BY <1>1 DEF ScreenTyped, IsPicture, Center
<1>3. x < U16_SIZE
  BY <1>2, Sizes, CountedInU16 DEF Selected, Truncated
<1>4. r \in Nat
  <2>1. CASE legacy_debug_tui
    BY <1>1, <2>1, HeightAndRadius, Sizes
  <2>2. CASE ~ legacy_debug_tui
    <3>1. BoxHeight("EPROM") \in 2 .. 178 /\ r = (BoxHeight("EPROM") - 2) \div 2
      BY <1>1, <2>2, HeightAndRadius
    <3> HIDE DEF r
    <3>. QED
      BY <3>1
  <2>. QED
    BY <2>1, <2>2
<1>5. Upper(x, r) \in 0 .. 255
  <2>1. x \in Nat /\ r \in Int
    BY <1>2, <1>4
  <2> HIDE DEF x, r
  <2>. QED
    BY <2>1, Lengthened
<1>6. From("EPROM") = x - r - Upper(x, r)
  BY <1>2 DEF From
<1>. QED
  BY <1>2, <1>3, <1>4, <1>5, <1>6, CountedInU16

(* What the two or three loops of a box print. *)
LEMMA ListedIsWindow ==
    ASSUME TypeOK, ScreenTyped, NEW box \in Boxes, ~ Truncated(box)
    PROVE  IF Selected(box) THEN IsWindow(Listed(box), box, First(box), Last(box))
           ELSE Listed(box) = <<>>
<1>1. From(box) \in Int /\ To(box) \in Int
  BY Bounds
<1>2. CASE box = "EPROM"
  <2>1. Listed(box) = IF Selected(box) THEN EpromSections(From(box), To(box)) ELSE <<>>
    BY <1>2 DEF Listed, EpromCells, Selected, From, To, Center
  <2>2. Selected(box) => IsWindow(EpromSections(From(box), To(box)), box, First(box), Last(box))
    BY <1>1, <1>2, EpromFrom, EpromSectionsAreWindow DEF First, Last, MemorySize
  <2>. QED
    BY <2>1, <2>2
<1>3. CASE box # "EPROM"
  <2>1. Listed(box) = IF Selected(box) THEN SramSections(From(box), To(box)) ELSE <<>>
    BY <1>3 DEF Listed, SramCells, Selected, From, To, Center
  <2>2. IsWindow(SramSections(From(box), To(box)), box, First(box), Last(box))
    BY <1>1, <1>3, SramSectionsAreWindow DEF First, Last, MemorySize
  <2>. QED
    BY <2>1, <2>2
<1>. QED
  BY <1>2, <1>3

\* The number of lines that write_text_into_box has room for.
Room(box) == IF BoxHeight(box) >= 2 THEN BoxHeight(box) - 2 ELSE 0

(* What fits the box is the beginning of the window. *)
LEMMA LinesAreWindow ==
    ASSUME TypeOK, ScreenTyped, NEW box \in Boxes, Selected(box), ~ Truncated(box)
    PROVE  \E to \in Int :
             /\ IsWindow(Lines(box), box, First(box), to)
             /\ to <= Last(box) \/ to < First(box)
             /\ legacy_debug_tui => to = Last(box)
             /\ ~ legacy_debug_tui =>
                  \A idx \in First(box) .. Last(box) : idx < First(box) + Room(box) => idx <= to
<1> DEFINE n == Min({Len(Listed(box)), Max({0, BoxHeight(box) - 2})})
<1>1. First(box) \in Nat /\ Last(box) \in Int /\ BoxHeight(box) \in Nat
  BY Bounds, HeightAndRadius
<1>2. IsWindow(Listed(box), box, First(box), Last(box))
  BY ListedIsWindow
<1>3. Lines(box) = IF legacy_debug_tui THEN Listed(box) ELSE SubSeq(Listed(box), 1, n)
  BY DEF Lines, Listed
<1>4. CASE legacy_debug_tui
  BY <1>1, <1>2, <1>3, <1>4
<1>5. CASE ~ legacy_debug_tui
  <2>1. /\ Len(Listed(box)) = IF First(box) <= Last(box) THEN Last(box) - First(box) + 1 ELSE 0
        /\ Len(Listed(box)) \in Nat
    BY <1>1, <1>2 DEF IsWindow
  <2>2. Max({0, BoxHeight(box) - 2}) = Room(box) /\ Room(box) \in Nat
    BY <1>1, LargerOfTwo DEF Room
  <2>3. n = IF Len(Listed(box)) <= Room(box) THEN Len(Listed(box)) ELSE Room(box)
    <3>1. Min({Len(Listed(box)), Room(box)}) =
              IF Len(Listed(box)) <= Room(box) THEN Len(Listed(box)) ELSE Room(box)
      BY <2>1, <2>2, SmallerOfTwo
    <3>. QED
      BY <2>2, <3>1
  <2>4. n \in 0 .. Len(Listed(box))
    BY <2>1, <2>2, <2>3
  <2> HIDE DEF n
  <2>5. IsWindow(SubSeq(Listed(box), 1, n), box, First(box), First(box) + n - 1)
    BY <1>1, <1>2, <2>4, WindowCut
  <2>6. First(box) + n - 1 <= Last(box) \/ First(box) + n - 1 < First(box)
    BY <1>1, <2>1, <2>4
  <2>7. \A idx \in First(box) .. Last(box) : idx < First(box) + Room(box) => idx <= First(box) + n - 1
    BY <1>1, <2>1, <2>2, <2>3
  <2>. QED
    BY <1>1, <1>3, <1>5, <2>4, <2>5, <2>6, <2>7
<1>. QED
  BY <1>4, <1>5

(* Of a watchobject outside its memory no cells are shown. *)
LEMMA NothingShown ==
    ASSUME TypeOK, ScreenTyped, NEW box \in Boxes, ~ Selected(box)
    PROVE  Lines(box) = <<>>
<1>1. Listed(box) = <<>> /\ Len(Listed(box)) = 0
  BY EmptySeq DEF Listed, EpromCells, SramCells, Selected
<1>2. Min({0, Max({0, BoxHeight(box) - 2})}) = 0
  <2>1. BoxHeight(box) - 2 \in Int
    BY HeightAndRadius
  <2>2. Max({0, BoxHeight(box) - 2}) \in Nat
    BY <2>1, LargerOfTwo
  <2>. QED
    BY <2>2, SmallerOfTwo
<1>3. SubSeq(<<>>, 1, 0) = <<>>
  BY SubSeqEmpty
<1>. QED
  BY <1>1, <1>2, <1>3 DEF Lines, Listed

(* What a box shows is one window of its memory: the loops that print it   *)
(* leave nothing out, repeat nothing, stay within the memory and print     *)
(* instructions as instructions, for every size of the sections, every     *)
(* height of the terminal and every position of the watched address,       *)
(* except addresses of 2^16 and above in the EPROM's box (see Truncated).  *)
THEOREM BoxesShowWindows == Spec => []WindowsAreWhole
<1>1. ViewInv => WindowsAreWhole
  <2> SUFFICES ASSUME TypeOK, ScreenTyped, NEW box \in Boxes, ~ Truncated(box),
                      NEW i \in 1 .. Len(Lines(box))
               PROVE  /\ Lines(box)[i].idx \in 0 .. MemorySize(box) - 1
                      /\ Lines(box)[i].as = "instruction" <=> HoldsInstruction(box, Lines(box)[i].idx)
                      /\ i > 1 => Lines(box)[i].idx = Lines(box)[i - 1].idx + 1
    BY Zenon DEF ViewInv, WindowsAreWhole
  <2>1. Selected(box)
    <3> SUFFICES ASSUME ~ Selected(box)
                 PROVE  FALSE
      OBVIOUS
    <3>1. Len(Lines(box)) = 0
      BY NothingShown, EmptySeq
    <3>. QED
      BY <3>1
  <2>2. PICK to \in Int : /\ IsWindow(Lines(box), box, First(box), to)
                          /\ to <= Last(box) \/ to < First(box)
    BY <2>1, LinesAreWindow
  <2>3. /\ Len(Lines(box)) = IF First(box) <= to THEN to - First(box) + 1 ELSE 0
        /\ Lines(box)[i].idx = First(box) + i - 1
        /\ i > 1 => Lines(box)[i - 1].idx = First(box) + (i - 1) - 1
        /\ Lines(box)[i].as = "instruction" <=> HoldsInstruction(box, Lines(box)[i].idx)
    <3>1. Len(Lines(box)) \in Nat
      BY <2>2, Bounds DEF IsWindow
    <3>2. i > 1 => i - 1 \in 1 .. Len(Lines(box))
      BY <3>1
    <3>. QED
      BY <2>2, <3>2 DEF IsWindow
  <2>4. First(box) \in Nat /\ Last(box) \in Int /\ Last(box) <= MemorySize(box) - 1
        /\ MemorySize(box) \in Nat
    BY Bounds
  <2>5. i \in Nat /\ First(box) + i - 1 <= to /\ First(box) <= to
    BY <2>2, <2>3, <2>4
  <2>6. Lines(box)[i].idx \in 0 .. MemorySize(box) - 1
    BY <2>2, <2>3, <2>4, <2>5
  <2>7. i > 1 => Lines(box)[i].idx = Lines(box)[i - 1].idx + 1
    BY <2>3, <2>4, <2>5
  <2>. QED
    BY <2>3, <2>6, <2>7
<1>. QED
  BY <1>1, ViewInvariant, PTL

----------------------------------------------------------------------------
\* The watched cell.

(* The cell that a word of the box's memory addresses. *)
LEMMA CenterIsAddressed ==
    ASSUME NEW box \in Boxes, screen.value[box] \in 0 .. 4 * INDEX - 1,
           InBox(box, screen.value[box])
    PROVE  /\ Selected(box) /\ ~ Truncated(box)
           /\ Center(box) \in 0 .. MemorySize(box) - 1
           /\ screen.value[box] % (2 * INDEX) = Center(box)
           /\ IF box = "EPROM"
              THEN screen.value[box] \div INDEX = 0 /\ screen.value[box] % INDEX = Center(box)
              ELSE screen.value[box] \div INDEX \in {2, 3}
<1> DEFINE word == screen.value[box]
<1>1. CASE box = "EPROM"
  <2>1. word \in 0 .. EPROM_SIZE - 1 /\ word \in 0 .. INDEX - 1 /\ word \in 0 .. 2 * INDEX - 1
    BY <1>1, ViewAssumption DEF InBox
  <2>2. word \div INDEX = 0 /\ word % INDEX = word
    BY <2>1, Sizes, BelowDivisor
  <2>3. word % (2 * INDEX) = word
    <3>1. 2 * INDEX \in Nat
      BY Sizes
    <3>. QED
      BY <2>1, <3>1, BelowDivisor
  <2>. QED
    <3>1. ~ Truncated(box)
      BY <2>1, Sizes, CountedInU16 DEF Truncated
    <3>. QED
      BY <1>1, <2>1, <2>2, <2>3, <3>1 DEF Selected, Center, MemorySize
<1>2. CASE box # "EPROM"
  <2>1. word \in 2 * INDEX .. 2 * (2 * INDEX) - 1 /\ word - 2 * INDEX \in 0 .. sram_size - 1
    BY <1>2, ViewAssumption DEF InBox
  <2>2. word \div (2 * INDEX) = 1 /\ word % (2 * INDEX) = word - 2 * INDEX
    <3>1. 2 * INDEX \in Nat
      BY Sizes
    <3>. QED
      BY <2>1, <3>1, UpperHalf
  <2>3. word \div INDEX \in {2, 3}
    BY <2>1, Sizes
  <2>. QED
    BY <1>2, <2>1, <2>2, <2>3 DEF Selected, Truncated, Center, MemorySize
<1>. QED
  BY <1>1, <1>2

(* The plain interface prints the whole window, which has the watched cell *)
(* in it for every radius.                                                 *)
LEMMA CenterInPlainWindow ==
    ASSUME TypeOK, ScreenTyped, NEW box \in Boxes, legacy_debug_tui
    PROVE  From(box) <= Center(box) /\ Center(box) <= To(box)
<1>1. Center(box) \in Nat
  BY Bounds
<1>2. Radius(box) \in Nat
  BY HeightAndRadius, Sizes
<1>3. Lower(Center(box), Radius(box)) \in 0 .. 255 /\ Upper(Center(box), Radius(box)) \in 0 .. 255
  BY <1>1, <1>2, Lengthened
<1>. QED
  BY <1>1, <1>2, <1>3 DEF From, To, SramFrom

(* With windows the watched cell is above the lower border of its box: at  *)
(* the end of the memory, where the window begins earlier, it moves down   *)
(* by less than the lines below it.                                        *)
LEMMA CenterInBox ==
    ASSUME TypeOK, ScreenTyped, NEW box \in Boxes, ~ legacy_debug_tui,
           Center(box) < MemorySize(box), BoxHeight(box) > 2
    PROVE  /\ From(box) <= Center(box) /\ Center(box) <= To(box)
           /\ Center(box) < From(box) + Room(box)
<1> DEFINE c == Center(box)
           r == Radius(box)
           h == BoxHeight(box)
<1>1. c \in Nat
  BY Bounds
<1>2. /\ h \in 3 .. 199 /\ r = (h - 2) \div 2 /\ Room(box) = h - 2
      /\ h = screen.height - IF box = "EPROM" THEN 22 ELSE 1
      /\ screen.height \in 24 .. 200
  BY HeightAndRadius DEF Room
<1>3. r \in 0 .. 98 /\ 2 * r <= h - 2 /\ h - 2 <= 2 * r + 1
  <2>1. h \in 3 .. 199 /\ r = (h - 2) \div 2
    BY <1>2
  <2> HIDE DEF r, h
  <2>. QED
    BY <2>1
<1>4. h % 2 = 1 => h - 2 = 2 * r + 1
  <2>1. h \in 3 .. 199 /\ r = (h - 2) \div 2
    BY <1>2
  <2> HIDE DEF r, h
  <2>. QED
    BY <2>1
<1>5. Lower(c, r) \in 0 .. 255 /\ Upper(c, r) \in 0 .. 255
  <2>1. r \in Int
    BY <1>3
  <2>. QED
    BY <1>1, <2>1, Lengthened
<1>6. c <= sram_size - 1 /\ (box = "EPROM" => c <= sram_size - 2)
  <2>1. MemorySize(box) \in Nat /\ MemorySize(box) <= sram_size
    BY Sizes, ViewAssumption DEF MemorySize
  <2>2. box = "EPROM" => MemorySize(box) <= sram_size - 1
    BY ViewAssumption DEF MemorySize
  <2>3. c < MemorySize(box)
    OBVIOUS
  <2> HIDE DEF c
  <2>. QED
    BY <1>1, <2>1, <2>2, <2>3, Sizes
<1>7. Upper(c, r) = IF c + r > sram_size - 1 THEN c + r - (sram_size - 1) ELSE 0
  <2>1. c <= sram_size - 1
    BY <1>6
  <2>2. c + r > sram_size - 1 => c + r - (sram_size - 1) \in 0 .. 255
    <3> HIDE DEF c, r
    <3>. QED
      BY <1>1, <1>3, <2>1, Sizes
  <2>. QED
    BY <2>2, Bytes DEF Upper
<1>8. CASE box = "EPROM"
  <2>1. c <= sram_size - 2
    BY <1>8, <1>6
  <2>2. From(box) = c - r - Upper(c, r) /\ To(box) = c + r + Lower(c, r)
    BY <1>8 DEF From, To
  <2>3. Upper(c, r) = 0 \/ Upper(c, r) <= r - 1
    BY <1>1, <1>3, <1>7, <2>1, Sizes
  <2>4. h \in 3 .. 199 /\ Room(box) = h - 2
    BY <1>2
  <2> HIDE DEF c, r, h
  <2>5. From(box) <= c /\ c <= To(box)
    BY <1>1, <1>3, <1>5, <2>2
  <2>6. r + Upper(c, r) < h - 2
    BY <1>3, <1>5, <2>3, <2>4
  <2>7. c < From(box) + (h - 2)
    BY <1>1, <1>3, <1>5, <2>2, <2>4, <2>6
  <2>. QED
    BY <2>4, <2>5, <2>7 DEF c
<1>9. CASE box # "EPROM"
  <2>1. c <= sram_size - 1
    BY <1>6
  <2>2. /\ From(box) = c - r - (Upper(c, r) - (screen.height % 2))
        /\ To(box) = c + r + Lower(c, r)
    BY <1>9 DEF From, To, SramFrom
  <2>3. h = screen.height - 1 /\ screen.height \in 24 .. 200
    BY <1>2, <1>9
  <2>4. screen.height % 2 = IF h % 2 = 1 THEN 0 ELSE 1
    <3> HIDE DEF h
    <3>. QED
      BY <2>3
  <2>5. Upper(c, r) <= r
    BY <1>1, <1>3, <1>7, <2>1, Sizes
  <2>6. h \in 3 .. 199 /\ Room(box) = h - 2
    BY <1>2
  <2> HIDE DEF c, r, h
  <2> DEFINE even == screen.height % 2
  <2>7. even \in 0 .. 1 /\ (even = 0 => h - 2 = 2 * r + 1) /\ (even = 1 => r >= 1)
    BY <1>3, <1>4, <2>4, <2>6
  <2> HIDE DEF even
  <2>8. From(box) = c - r - (Upper(c, r) - even)
    BY <2>2 DEF even
  <2>9. From(box) <= c /\ c <= To(box)
    BY <1>1, <1>3, <1>5, <2>2, <2>7, <2>8
  <2>10. r + Upper(c, r) - even < h - 2
    BY <1>3, <1>5, <2>5, <2>6, <2>7
  <2>11. c < From(box) + (h - 2)
    BY <1>1, <1>3, <1>5, <2>6, <2>7, <2>8, <2>10
  <2>. QED
    BY <2>6, <2>9, <2>11 DEF c
<1>. QED
  BY <1>8, <1>9

(* The cell that a register addresses is among the lines of each box that  *)
(* watches the register, and the line has the register's arrow, wherever   *)
(* the cell is in the memory and whatever the height of the terminal; with *)
(* the plain interface for every radius.                                   *)
THEOREM RegistersCellShown == Spec => []WatchedCellShown
<1>1. ViewInv => WatchedCellShown
  <2> SUFFICES ASSUME TypeOK, ScreenTyped, NEW box \in Boxes,
                      screen.title[box] # ADDRESS, InBox(box, screen.value[box]),
                      legacy_debug_tui \/ BoxHeight(box) > 2
               PROVE  \E i \in 1 .. Len(Lines(box)) :
                         /\ Lines(box)[i].idx = screen.value[box] % (2 * INDEX)
                         /\ screen.title[box] \in Arrows(box, Lines(box)[i].idx)
    BY Zenon DEF ViewInv, WatchedCellShown
  <2> DEFINE c == Center(box)
             reg == screen.title[box]
  <2>1. /\ reg \in Registers /\ screen.value[box] = screen.regs[reg]
        /\ screen.value[box] \in 0 .. 4 * INDEX - 1
    BY DEF ScreenTyped, IsPicture
  <2>2. /\ Selected(box) /\ ~ Truncated(box)
        /\ c \in 0 .. MemorySize(box) - 1
        /\ screen.value[box] % (2 * INDEX) = c
        /\ IF box = "EPROM"
           THEN screen.value[box] \div INDEX = 0 /\ screen.value[box] % INDEX = c
           ELSE screen.value[box] \div INDEX \in {2, 3}
    BY <2>1, CenterIsAddressed
  <2>3. reg \in Arrows(box, c)
    BY <2>1, <2>2 DEF Arrows
  <2>4. /\ c \in Nat /\ From(box) \in Int /\ To(box) \in Int
        /\ First(box) = IF From(box) <= 0 THEN 0 ELSE From(box)
        /\ Last(box) = IF To(box) <= MemorySize(box) - 1 THEN To(box) ELSE MemorySize(box) - 1
        /\ First(box) \in Nat /\ Last(box) \in Int /\ MemorySize(box) \in Nat
    BY Bounds
  <2>5. PICK to \in Int :
             /\ IsWindow(Lines(box), box, First(box), to)
             /\ legacy_debug_tui => to = Last(box)
             /\ ~ legacy_debug_tui =>
                  \A idx \in First(box) .. Last(box) : idx < First(box) + Room(box) => idx <= to
    BY <2>2, LinesAreWindow
  <2>6. c <= to /\ First(box) <= c
    <3>1. CASE legacy_debug_tui
      BY <3>1, <2>2, <2>4, <2>5, CenterInPlainWindow
    <3>2. CASE ~ legacy_debug_tui
      <4>1. c < MemorySize(box) /\ BoxHeight(box) > 2
        BY <3>2, <2>2, <2>4
      <4>2. /\ From(box) <= c /\ c <= To(box)
            /\ c < From(box) + Room(box)
        BY <3>2, <4>1, CenterInBox
      <4>3. Room(box) \in Int
        BY HeightAndRadius DEF Room
      <4>4. c \in First(box) .. Last(box) /\ c < First(box) + Room(box)
        BY <2>2, <2>4, <4>2, <4>3
      <4>. QED
        BY <3>2, <4>4, <2>4, <2>5
    <3>. QED
      BY <3>1, <3>2
  <2>7. c - First(box) + 1 \in 1 .. Len(Lines(box))
    BY <2>4, <2>5, <2>6 DEF IsWindow
  <2>8. Lines(box)[c - First(box) + 1].idx = First(box) + (c - First(box) + 1) - 1
    BY <2>5, <2>7 DEF IsWindow
  <2>9. Lines(box)[c - First(box) + 1].idx = c
    BY <2>4, <2>8
  <2>. QED
    BY <2>2, <2>3, <2>7, <2>9
<1>. QED
  BY <1>1, ViewInvariant, PTL
=============================================================================
