---------------------------- MODULE FieldElement ----------------------------
(***************************************************************************)
(* A field element of fe.h, and of Ed25519FieldElement.java: ten limbs of  *)
(* 26 and 25 bits, what they denote, and the carry with rounding that is   *)
(* taken between them.                                                     *)
(***************************************************************************)
EXTENDS Words

Limbs   == 0 .. 9
Wide    == 67108864   \* 2^26
Narrow  == 33554432   \* 2^25
Size(i) == IF i % 2 = 0 THEN Wide ELSE Narrow

-----------------------------------------------------------------------------
(* What limbs denote. *)

\* x0 + 2^26 x1 + 2^51 x2 + 2^77 x3 + 2^102 x4 + ... + 2^230 x9
Number(x0, x1, x2, x3, x4, x5, x6, x7, x8, x9) ==
  x0 + Wide * (x1 + Narrow * (x2 + Wide * (x3 + Narrow * (x4 + Wide * (x5 +
    Narrow * (x6 + Wide * (x7 + Narrow * (x8 + Wide * x9))))))))

Value(x) == Number(x[0], x[1], x[2], x[3], x[4], x[5], x[6], x[7], x[8], x[9])

\* 2^255 - 19
p == 57896044618658097711785492504343953926634992332820282019728792003956564819949

-----------------------------------------------------------------------------
(* Carries. *)

\* (hi + (1 << 25)) >> 26, or a bit less at odd limbs
Rounded(x, i) == (x + Size(i) \div 2) \div Size(i)

Above(i) == IF i = 9 THEN 0 ELSE i + 1

\* What is added to the limb above; beyond the last one 2^255 counts as 19.
Carried(x, i) == IF i = 9 THEN 19 * Rounded(x, i) ELSE Rounded(x, i)

\* h1 += carry0; h0 -= carry0 << 26; and so on.
RoundedAt(x, i) ==
  [x EXCEPT ![i] = x[i] - Size(i) * Rounded(x[i], i), ![Above(i)] = x[Above(i)] + Carried(x[i], i)]
=============================================================================
