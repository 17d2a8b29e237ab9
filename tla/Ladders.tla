------------------------------ MODULE Ladders ------------------------------
(***************************************************************************)
(* The two multiplications of ge.c: ge_scalarmult_base, a * B with signed  *)
(* radix-16 digits and a table of multiples of B, each picked without a    *)
(* secret index; and ge_double_scalarmult_vartime, a * A + b * B with the  *)
(* sliding windows of both scalars interleaved.  The recodings, toRadix16  *)
(* and slide, run a digit, a bit and a carry at a time.                    *)
(* (GroupElement's scalarMultiply and doubleScalarMultiplyVariableTime are *)
(* the same loops.)                                                        *)
(*                                                                         *)
(* A point is its pair of multiples of A and B: what the loops compute in  *)
(* the free commutative group on A and B they compute in every one.        *)
(***************************************************************************)
EXTENDS Recoding

CONSTANTS
  BaseScalars,  \* what ge_scalarmult_base is given: a[31] <= 127
  ScalarPairs,  \* what ge_double_scalarmult_vartime is given
  Word          \* how many values the words of equal and negative have

ASSUME LaddersAssumption ==
  /\ BaseScalars \subseteq 0 .. Two[NumBits - 1] - 1
  /\ ScalarPairs \subseteq (0 .. Two[NumBits] - 1) \X (0 .. Two[NumBits] - 1)
  /\ Word \in Nat /\ Word % 2 = 0 /\ Word >= 512

VARIABLES
  task,   \* the function and its scalars
  pc,
  e,      \* ge_scalarmult_base: the digits of a ...
  carry,  \* ... and the carry into the next
  slides, \* ge_double_scalarmult_vartime: aslide and bslide ...
  w,      \* ... the one that slide is called for ...
  b,      \* ... how far above its digit the window has got ...
  k,      \* ... and where the carry is
  i,      \* the loop counter
  h       \* the result so far

vars == <<task, pc, e, carry, slides, w, b, k, i, h>>

Plus(P, Q)    == <<P[1] + Q[1], P[2] + Q[2]>>
Opposite(P)   == <<-P[1], -P[2]>>
Twice(P)      == Plus(P, P)
Neutral       == <<0, 0>>

Odds  == {j \in DigitPositions : j % 2 = 1}
Evens == {j \in DigitPositions : j % 2 = 0}

-----------------------------------------------------------------------------
(* Lookup without a branch, in machine words. *)

UnsignedByte(x) == x % 256

\* x ^ c is 0 just when the bytes agree; 0 - 1 then has its top bit set.
equal(x, c) ==
  LET y == IF UnsignedByte(x) = UnsignedByte(c) THEN 0 ELSE 1
  IN  ((y - 1) % Word) \div (Word \div 2)

negative(x) == (x % Word) \div (Word \div 2)

cmov(t, u, c) == IF c = 1 THEN u ELSE t

\* base[pos][j] = (j+1)*256^pos*B
base(pos, j) == <<0, (j + 1) * Two[8 * pos]>>

\* Mutant of select: the cmov for 8 is missing.
selectSeven(pos, x) ==
  LET babs == UnsignedByte(x - 2 * (negative(x) * x))
      Pick(t, j) == cmov(t, base(pos, j), equal(babs, j + 1))
      t == Pick(Pick(Pick(Pick(Pick(Pick(Pick(Neutral, 0), 1), 2), 3), 4), 5), 6)
  IN  cmov(t, Opposite(t), negative(x))

\* |x| * 256^pos * B, from one cmov per table entry, negated if x is.
select(pos, x) ==
  LET babs == UnsignedByte(x - 2 * (negative(x) * x))
      Pick(t, j) == cmov(t, base(pos, j), equal(babs, j + 1))
      t == Pick(Pick(Pick(Pick(Pick(Pick(Pick(Pick(Neutral, 0), 1), 2), 3), 4), 5), 6), 7)
  IN  cmov(t, Opposite(t), negative(x))

-----------------------------------------------------------------------------
(* The tables of the double multiplication. *)

\* A, 3A, 5A, ..., 15A, built by adding 2A.
Ai[j \in 0 .. 7] == IF j = 0 THEN <<1, 0>> ELSE Plus(<<2, 0>>, Ai[j - 1])

\* B, 3B, 5B, ..., 15B: base2.h.
Bi == [j \in 0 .. 7 |-> <<0, 2 * j + 1>>]

\* Adds or subtracts the table entry of a digit.
AddDigit(P, table, x) ==
  IF x > 0 THEN Plus(P, table[x \div 2])
  ELSE IF x < 0 THEN Plus(P, Opposite(table[(-x) \div 2]))
  ELSE P

-----------------------------------------------------------------------------

Tasks == [fn : {"ge_scalarmult_base"}, a : BaseScalars]
         \cup [fn : {"ge_double_scalarmult_vartime"}, scalars : ScalarPairs]

\* The arrays are written before they are read.
Init ==
  /\ task \in Tasks
  /\ e = [j \in DigitPositions |-> 0] /\ carry = 0
  /\ slides = [x \in 1 .. 2 |-> [j \in Positions |-> 0]]
  /\ w = 1 /\ b = 0 /\ k = 0 /\ i = 0 /\ h = Neutral
  /\ pc = IF task.fn = "ge_scalarmult_base" THEN "nibbles" ELSE "bits"

-----------------------------------------------------------------------------
(* ge_scalarmult_base: toRadix16. *)

SplitNibbles ==
  /\ pc = "nibbles"
  /\ e' = Nibbles(task.a) /\ carry' = 0 /\ i' = 0 /\ pc' = "carry"
  /\ UNCHANGED <<task, slides, w, b, k, h>>

\* One round of the carry loop; >> rounds down.
CarryDigit ==
  /\ pc = "carry" /\ i < NumDigits - 1
  /\ carry' = (e[i] + carry + 8) \div 16
  /\ e' = [e EXCEPT ![i] = @ + carry - 16 * carry']
  /\ i' = i + 1
  /\ UNCHANGED <<task, pc, slides, w, b, k, h>>

\* Mutant of LastDigit: the last carry is dropped.
LastDigitDropsCarry ==
  /\ pc = "carry" /\ i = NumDigits - 1
  /\ i' = 1 /\ pc' = "odd"
  /\ UNCHANGED <<task, e, carry, slides, w, b, k, h>>

\* The last digit is not split again.
LastDigit ==
  /\ pc = "carry" /\ i = NumDigits - 1
  /\ e' = [e EXCEPT ![i] = @ + carry]
  /\ i' = 1 /\ pc' = "odd"
  /\ UNCHANGED <<task, carry, slides, w, b, k, h>>

-----------------------------------------------------------------------------
(* ge_scalarmult_base: the multiplication. *)

\* h += e[i] * 16^(i-1) * B for the odd i.
Odd ==
  /\ pc = "odd" /\ i < NumDigits
  /\ h' = Plus(h, select(i \div 2, e[i]))
  /\ i' = i + 2
  /\ UNCHANGED <<task, pc, e, carry, slides, w, b, k>>

\* Four doublings.
Double ==
  /\ pc = "odd" /\ i >= NumDigits
  /\ h' = Twice(Twice(Twice(Twice(h))))
  /\ i' = 0 /\ pc' = "even"
  /\ UNCHANGED <<task, e, carry, slides, w, b, k>>

\* h += e[i] * 16^i * B for the even i.
Even ==
  /\ pc = "even" /\ i < NumDigits
  /\ h' = Plus(h, select(i \div 2, e[i]))
  /\ i' = i + 2
  /\ UNCHANGED <<task, pc, e, carry, slides, w, b, k>>

-----------------------------------------------------------------------------
(* slide. *)

r == slides[w]

SplitBits ==
  /\ pc = "bits"
  /\ slides' = [slides EXCEPT ![w] = Bits(task.scalars[w])]
  /\ i' = 0 /\ pc' = "window"
  /\ UNCHANGED <<task, e, carry, w, b, k, h>>

SkipZero ==
  /\ pc = "window" /\ i < NumBits /\ r[i] = 0
  /\ i' = i + 1
  /\ UNCHANGED <<task, pc, e, carry, slides, w, b, k, h>>

OpenWindow ==
  /\ pc = "window" /\ i < NumBits /\ r[i] # 0
  /\ b' = 1 /\ pc' = "absorb"
  /\ UNCHANGED <<task, e, carry, slides, w, k, i, h>>

\* The bit b places above digit i, in units of that digit.
Bit == r[i + b] * Two[b]

InWindow    == pc = "absorb" /\ b <= 6 /\ i + b < NumBits
CanAdd      == r[i] + Bit <= 15
CanSubtract == r[i] - Bit >= -15

PassBit ==
  /\ InWindow /\ r[i + b] = 0
  /\ b' = b + 1
  /\ UNCHANGED <<task, pc, e, carry, slides, w, k, i, h>>

AddBit ==
  /\ InWindow /\ r[i + b] # 0 /\ CanAdd
  /\ slides' = [slides EXCEPT ![w][i] = @ + Bit, ![w][i + b] = 0]
  /\ b' = b + 1
  /\ UNCHANGED <<task, pc, e, carry, w, k, i, h>>

\* Mutant of SubtractBit: the bit is cleared, without a carry.
SubtractBitOnly ==
  /\ InWindow /\ r[i + b] # 0 /\ ~CanAdd /\ CanSubtract
  /\ slides' = [slides EXCEPT ![w][i] = @ - Bit, ![w][i + b] = 0]
  /\ b' = b + 1
  /\ UNCHANGED <<task, pc, e, carry, w, k, i, h>>

\* Subtracting the bit counts for twice the bit too little: 1 is added at
\* its position.
SubtractBit ==
  /\ InWindow /\ r[i + b] # 0 /\ ~CanAdd /\ CanSubtract
  /\ slides' = [slides EXCEPT ![w][i] = @ - Bit]
  /\ k' = i + b /\ pc' = "ripple"
  /\ UNCHANGED <<task, e, carry, w, b, i, h>>

RippleOn ==
  /\ pc = "ripple" /\ k < NumBits /\ r[k] # 0
  /\ slides' = [slides EXCEPT ![w][k] = 0]
  /\ k' = k + 1
  /\ UNCHANGED <<task, pc, e, carry, w, b, i, h>>

\* At the first zero, or at the end of the array, where the carry is lost.
RippleEnd ==
  /\ pc = "ripple"
  /\ \/ k < NumBits /\ r[k] = 0 /\ slides' = [slides EXCEPT ![w][k] = 1]
     \/ k >= NumBits /\ UNCHANGED slides
  /\ b' = b + 1 /\ pc' = "absorb"
  /\ UNCHANGED <<task, e, carry, w, k, i, h>>

\* The window is as wide as it gets, or its digit (break).
CloseWindow ==
  /\ pc = "absorb"
  /\ ~(InWindow /\ (r[i + b] = 0 \/ CanAdd \/ CanSubtract))
  /\ i' = i + 1 /\ pc' = "window"
  /\ UNCHANGED <<task, e, carry, slides, w, b, k, h>>

SlideReturn ==
  /\ pc = "window" /\ i >= NumBits
  /\ IF w = 1 THEN w' = 2 /\ pc' = "bits" /\ UNCHANGED i
              ELSE i' = NumBits - 1 /\ pc' = "skip" /\ UNCHANGED w
  /\ UNCHANGED <<task, e, carry, slides, b, k, h>>

-----------------------------------------------------------------------------
(* ge_double_scalarmult_vartime: the multiplication. *)

\* The positions where both digits are zero, down to the first where one
\* is not; there may be none.
Skip ==
  /\ pc = "skip"
  /\ IF i >= 0 /\ slides[1][i] = 0 /\ slides[2][i] = 0
     THEN i' = i - 1 /\ UNCHANGED pc
     ELSE pc' = "add" /\ UNCHANGED i
  /\ UNCHANGED <<task, e, carry, slides, w, b, k, h>>

DoubleAndAdd ==
  /\ pc = "add" /\ i >= 0
  /\ h' = AddDigit(AddDigit(Twice(h), Ai, slides[1][i]), Bi, slides[2][i])
  /\ i' = i - 1
  /\ UNCHANGED <<task, pc, e, carry, slides, w, b, k>>

Return ==
  /\ \/ pc = "even" /\ i >= NumDigits
     \/ pc = "add" /\ i < 0
  /\ pc' = "done"
  /\ UNCHANGED <<task, e, carry, slides, w, b, k, i, h>>

BaseNext  == SplitNibbles \/ CarryDigit \/ LastDigit \/ Odd \/ Double \/ Even
SlideNext == \/ SplitBits \/ SkipZero \/ OpenWindow \/ PassBit \/ AddBit \/ SubtractBit
             \/ RippleOn \/ RippleEnd \/ CloseWindow \/ SlideReturn
Next == BaseNext \/ SlideNext \/ Skip \/ DoubleAndAdd \/ Return

Spec == Init /\ [][Next]_vars

-----------------------------------------------------------------------------

\* A digit of slide: zero, or odd and at most 15 in absolute value, with
\* zeros in the four places above it.
SlideDigit(d, j) ==
  d[j] # 0 => /\ d[j] % 2 = 1 /\ d[j] \in -15 .. 15
              /\ \A above \in j + 1 .. j + 4 : above \in Positions => d[above] = 0

(***************************************************************************)
(* What the tables and the loops rely on.  For ge_scalarmult_base, the     *)
(* comments of ge.c: each e[i] is between 0 and 15 and the last between 0  *)
(* and 7 before the carries; after them the digits stand for a and are     *)
(* between -8 and 8, where only the last can be 8, and only because        *)
(* a[31] <= 127.  For the double multiplication, eight entries each: a     *)
(* digit is zero or odd and at most 15 in absolute value, two others are   *)
(* at least five places apart, and those of a scalar below 2^255 stand for *)
(* it.  (What the Java comments say instead is below.)                     *)
(***************************************************************************)
Digits ==
  /\ pc = "carry" /\ i = 0 => /\ \A j \in DigitPositions : e[j] \in 0 .. 15
                              /\ e[NumDigits - 1] \in 0 .. 7
  /\ pc \in {"odd", "even"} =>
       /\ Radix16Value(e) = task.a
       /\ \A j \in DigitPositions : e[j] \in -8 .. 8
       /\ \A j \in DigitPositions \ {NumDigits - 1} : e[j] # 8
  /\ pc \in {"skip", "add"} =>
       \A x \in 1 .. 2 :
         /\ task.scalars[x] < Two[NumBits - 1] => SlideValue(slides[x]) = task.scalars[x]
         /\ \A j \in Positions : SlideDigit(slides[x], j)

(***************************************************************************)
(* What h holds at each turn of the loops: of ge_scalarmult_base, the      *)
(* digits added so far, the odd ones a factor 16 short until the four      *)
(* doublings; of the other, Horner's rule, the digits from position i + 1  *)
(* up, scaled.                                                             *)
(***************************************************************************)
LadderInvariant ==
  /\ pc = "odd" => 16 * h[2] = Value(e, 4, {j \in Odds : j < i})
  /\ pc = "even" => h[2] = Value(e, 4, Odds \cup {j \in Evens : j < i})
  /\ pc \in {"skip", "add"} =>
       \A x \in 1 .. 2 :
         Value(slides[x], 1, {j \in Positions : j > i}) = h[x] * Two[i + 1]

(***************************************************************************)
(* At the end h = a * B, for every scalar a with a[31] <= 127; or          *)
(* h = a * A + b * B, as far as the scalars are below 2^255.  Of a larger  *)
(* one nothing is said here: see DocumentedDouble.                         *)
(***************************************************************************)
Computes ==
  pc = "done" =>
    IF task.fn = "ge_scalarmult_base" THEN h = <<0, task.a>>
    ELSE \A x \in 1 .. 2 : task.scalars[x] < Two[NumBits - 1] => h[x] = task.scalars[x]

(***************************************************************************)
(* toRadix16 of GroupElement, "each e[i] is between -8 and 7".  (Violated: *)
(* the last digit takes a carry without being split, and may be 8.)        *)
(***************************************************************************)
DocumentedDigits == pc \in {"odd", "even"} => \A j \in DigitPositions : e[j] \in -8 .. 7

(***************************************************************************)
(* ge_double_scalarmult_vartime: "r = a * A + b * B", for any a and b of   *)
(* 32 bytes.  (Violated: from 2^255 on a carry may leave slide's array, so *)
(* that its digits stand for 2^256 less and do not satisfy "a = r0 * 2^0 + *)
(* r1 * 2^1 + ... + r255 * 2^255", as slide's comment says they do.  Both  *)
(* verifications reduce the one scalar; ge.c's callers bound the other,    *)
(* Java's does not.)                                                       *)
(***************************************************************************)
DocumentedDouble ==
  pc = "done" /\ task.fn = "ge_double_scalarmult_vartime" => h = task.scalars
=============================================================================
