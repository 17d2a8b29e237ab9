------------------------------ MODULE Recoding ------------------------------
(***************************************************************************)
(* Scalars, as the multiplications of ge.c and GroupElement.java cut them  *)
(* up: into bits and into nibbles, and the numbers that signed digits      *)
(* stand for.  A scalar has NumBits bits (256 in the code), its digits are *)
(* a function from positions.                                              *)
(***************************************************************************)
EXTENDS Integers

CONSTANT NumBits

\* The carry loop and the table rows take two nibbles, a byte, at a time.
ASSUME NumBitsAssumption == NumBits \in Nat /\ NumBits > 0 /\ NumBits % 8 = 0

\* The positions of digits of so many bits.
Places(width) == 0 .. NumBits \div width - 1

Positions      == Places(1)
DigitPositions == Places(4)
NumDigits      == NumBits \div 4

\* Two[k] = 2^k
Two[k \in 0 .. NumBits] == IF k = 0 THEN 1 ELSE 2 * Two[k - 1]

\* t[0] + ... + t[n - 1]
Sum(t, n) ==
  LET s[k \in 0 .. n] == IF k = 0 THEN 0 ELSE s[k - 1] + t[k - 1]
  IN  s[n]

\* What those of the digits d that are in ps count for; a digit counts
\* 2^width times as much as the one below it.
Terms(d, width, ps) ==
  [j \in Places(width) |-> IF j \in ps THEN d[j] * Two[width * j] ELSE 0]

Value(d, width, ps) == Sum(Terms(d, width, ps), NumBits \div width)

Radix16Value(e) == Value(e, 4, DigitPositions)
SlideValue(r)   == Value(r, 1, Positions)

Bits(a)    == [j \in Positions |-> (a \div Two[j]) % 2]
Nibbles(a) == [j \in DigitPositions |-> (a \div Two[4 * j]) % 16]
=============================================================================
