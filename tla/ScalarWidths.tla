---------------------------- MODULE ScalarWidths ----------------------------
(***************************************************************************)
(* sc_reduce and sc_muladd with the widths they have: limbs of 21 bits in  *)
(* 64-bit integers.  Numbers are beyond TLC's integers; what is said of    *)
(* them here is proved in Widths_proofs, and ScalarLimbs has the same code *)
(* for TLC, with narrower limbs, and Java's variant of it.                 *)
(***************************************************************************)
EXTENDS Words

VARIABLES
  reduction,  \* the function and its arguments
  limb,       \* s0 ... s23
  pass,       \* 0 before the loads, 1 to 12 for the passes over the limbs, 13 at the end
  at          \* the limb that is next

scalarVars == <<reduction, limb, pass, at>>

Places == 0 .. 23
Radix  == 2097152  \* 2^21
Half   == 1048576  \* 1 << 20

-----------------------------------------------------------------------------
(* What is loaded. *)

\* n limbs of 21 bits; the last one has what is left of the string.
Loaded(n, top) ==
  {x \in [0 .. n - 1 -> Nat] : \A j \in 0 .. n - 1 : x[j] < IF j = n - 1 THEN top ELSE Radix}

Wides   == Loaded(24, 536870912)  \* 64 bytes
Scalars == Loaded(12, 33554432)   \* 32 bytes

Twelve(t) == t[0] + t[1] + t[2] + t[3] + t[4] + t[5] + t[6] + t[7] + t[8] + t[9] + t[10] + t[11]

\* s0 = c0 + a0*b0; ... s22 = a11*b11; s23 = 0;
MulAdd(a, b, c) ==
  [k \in Places |->
     (IF k < 12 THEN c[k] ELSE 0)
     + Twelve([j \in 0 .. 11 |-> IF k - j \in 0 .. 11 THEN a[j] * b[k - j] ELSE 0])]

Reductions == [fn : {"sc_reduce"}, x : Wides]
              \cup [fn : {"sc_muladd"}, a : Scalars, b : Scalars, c : Scalars]

-----------------------------------------------------------------------------
(* The passes: rounds over every other limb, folds from the top down,      *)
(* floors over all.                                                        *)

Over(op, from, by, to) == [op |-> op, from |-> from, by |-> by, to |-> to]

Passes ==
  << Over("round", 0, 2, 22), Over("round", 1, 2, 21),
     Over("fold", 23, -1, 18), Over("round", 6, 2, 16), Over("round", 7, 2, 15),
     Over("fold", 17, -1, 12), Over("round", 0, 2, 10), Over("round", 1, 2, 11),
     Over("fold", 12, -1, 12), Over("floor", 0, 1, 11),
     Over("fold", 12, -1, 12), Over("floor", 0, 1, 10) >>

\* 2^252 is the number of these digits, modulo L.
Coefs == <<666643, 470296, 654183, -997805, 136657, -683901>>

\* s11 += s23 * 666643; ... s16 -= s23 * 683901; s23 = 0;
Folded(x, k) ==
  [j \in Places |->
     IF j = k THEN 0
     ELSE IF j - k + 12 \in 0 .. 5 THEN x[j] + x[k] * Coefs[j - k + 13]
     ELSE x[j]]

\* carry = (s + (1<<20)) >> 21; carry = s >> 21;
Rounded21(x) == (x + Half) \div Radix
Floored21(x) == x \div Radix

\* s7 += carry6; s6 -= carry6 << 21;
CarriedUp(x, k, carry) == [x EXCEPT ![k] = x[k] - Radix * carry, ![k + 1] = x[k + 1] + carry]

-----------------------------------------------------------------------------

ScalarInit ==
  /\ reduction \in Reductions
  /\ limb \in [Places -> Int64] /\ pass = 0 /\ at = 0

\* sc_reduce has no first two passes.
Load ==
  /\ pass = 0 /\ UNCHANGED reduction
  /\ \/ /\ reduction.fn = "sc_reduce"
        /\ limb' = reduction.x /\ pass' = 3 /\ at' = 23
     \/ /\ reduction.fn = "sc_muladd"
        /\ limb' = MulAdd(reduction.a, reduction.b, reduction.c) /\ pass' = 1 /\ at' = 0

Pass(op) == pass \in 1 .. 12 /\ Passes[pass].op = op /\ UNCHANGED reduction

Advance ==
  IF at # Passes[pass].to THEN at' = at + Passes[pass].by /\ UNCHANGED pass
  ELSE pass' = pass + 1 /\ at' = IF pass = 12 THEN 0 ELSE Passes[pass + 1].from

Fold       == Pass("fold")  /\ limb' = Folded(limb, at) /\ Advance
RoundCarry == Pass("round") /\ limb' = CarriedUp(limb, at, Rounded21(limb[at])) /\ Advance
FloorCarry == Pass("floor") /\ limb' = CarriedUp(limb, at, Floored21(limb[at])) /\ Advance

ScalarNext == Load \/ Fold \/ RoundCarry \/ FloorCarry

ScalarSpec == ScalarInit /\ [][ScalarNext]_scalarVars

-----------------------------------------------------------------------------

(***************************************************************************)
(* Nothing leaves 64 bits.  The terms of a b + c are not negative, so no   *)
(* partial sum is larger than the sum; of a fold, the products and what    *)
(* they are added to; of a carry, the rounding, what is taken from the     *)
(* limb and what the next one becomes.                                     *)
(***************************************************************************)
ScalarsFit ==
  /\ pass = 0 /\ reduction.fn = "sc_muladd" =>
       \A k \in Places : MulAdd(reduction.a, reduction.b, reduction.c)[k] \in Int64 \cap Nat
  /\ pass # 0 => \A k \in Places : limb[k] \in Int64
  /\ pass \in 1 .. 12 =>
       CASE Passes[pass].op = "fold" ->
              \A n \in 1 .. 6 : {limb[at] * Magnitude(Coefs[n]),
                                 limb[at + n - 13] + limb[at] * Coefs[n]} \subseteq Int64
         [] Passes[pass].op = "round" ->
              {limb[at] + Half, Radix * Rounded21(limb[at]),
               limb[at + 1] + Rounded21(limb[at])} \subseteq Int64
         [] Passes[pass].op = "floor" ->
              {Radix * Floored21(limb[at]), limb[at + 1] + Floored21(limb[at])} \subseteq Int64

-----------------------------------------------------------------------------
(* What limbs denote. *)

\* Twelve limbs from the m-th, and what is above them:
\* x[m] + 2^21 x[m + 1] + ... + 2^231 x[m + 11] + 2^252 rest
Number12(x, m, rest) ==
  x[m] + Radix * (x[m + 1] + Radix * (x[m + 2] + Radix * (x[m + 3] + Radix * (x[m + 4] +
    Radix * (x[m + 5] + Radix * (x[m + 6] + Radix * (x[m + 7] + Radix * (x[m + 8] +
      Radix * (x[m + 9] + Radix * (x[m + 10] + Radix * (x[m + 11] + Radix * rest)))))))))))

Denoted(x) == Number12(x, 0, Number12(x, 12, 0))

\* 2^252 + 27742317777372353535851937790883648493
L == 7237005577332262213973186563042994240857116359379907606001950938285454250989

Meant ==
  IF reduction.fn = "sc_reduce" THEN Denoted(reduction.x)
  ELSE Number12(reduction.a, 0, 0) * Number12(reduction.b, 0, 0) + Number12(reduction.c, 0, 0)

(***************************************************************************)
(* The limbs denote the number meant, modulo L, after the loads and after  *)
(* every fold and carry.                                                   *)
(***************************************************************************)
ScalarCongruent ==
  pass # 0 => \E q \in Int : Meant = Denoted(limb) + L * q

(***************************************************************************)
(* "s mod l" and "(ab+c) mod l": the result is the representative below L, *)
(* in limbs that do not overlap when they are packed into bytes (only s11  *)
(* may be 2^21).                                                           *)
(***************************************************************************)
ScalarReduced ==
  pass = 13 =>
    /\ Denoted(limb) = Meant % L
    /\ \A k \in Places : IF k < 11 THEN limb[k] \in 0 .. Radix - 1
                         ELSE IF k = 11 THEN limb[k] \in 0 .. Radix ELSE limb[k] = 0
=============================================================================
