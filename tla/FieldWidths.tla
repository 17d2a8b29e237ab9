---------------------------- MODULE FieldWidths ----------------------------
(***************************************************************************)
(* fe_mul, fe_sq and fe_sq2 of fe.c, and multiply, square and              *)
(* squareAndDouble of Ed25519FieldElement.java, with the widths they have: *)
(* ten limbs of 26 and 25 bits, 32-bit operands and 64-bit sums.  Numbers  *)
(* are beyond TLC's integers; what is said of them here is proved in       *)
(* Widths_proofs, and FieldLimbs has the same code for TLC with fewer and  *)
(* narrower limbs.                                                         *)
(***************************************************************************)
EXTENDS FieldElement

VARIABLES
  fn,      \* the function that runs
  f, g,    \* its operands; the squares have one
  h,       \* the sums h0 ... h9
  pc       \* 0 before the products, k before the k-th carry, 13 at the end

vars == <<fn, f, g, h, pc>>

Functions == {"fe_mul", "fe_sq", "fe_sq2"}

\* Preconditions: |f| bounded by 1.65*2^26,1.65*2^25,1.65*2^26,1.65*2^25,etc.
Allowed(i) == IF i % 2 = 0 THEN 110729625 ELSE 55364812
Operands   == {x \in [Limbs -> Int] : \A i \in Limbs : Magnitude(x[i]) <= Allowed(i)}

-----------------------------------------------------------------------------
(* The products. *)

Sum(t) == t[0] + t[1] + t[2] + t[3] + t[4] + t[5] + t[6] + t[7] + t[8] + t[9]

\* Limb i of one operand meets this limb of the other in the sum k.
Partner(i, k) == IF i > k THEN k - i + 10 ELSE k - i

\* Two odd limbs meet a bit higher, and 2^255 counts as 19.
Doubles(i, j) == IF i % 2 = 1 /\ j % 2 = 1 THEN 2 ELSE 1
Wraps(i, k)   == IF i > k THEN 19 ELSE 1

Product(x, y, i, k) ==
  Wraps(i, k) * (Doubles(i, Partner(i, k)) * (x[i] * y[Partner(i, k)]))

\* h0 ... h9 of fe_mul
Multiplied(x, y) == [k \in Limbs |-> Sum([i \in Limbs |-> Product(x, y, i, k)])]

\* h0 ... h9 of fe_sq: each product once, doubled when its limbs differ
Squared(x) ==
  [k \in Limbs |-> Sum([i \in Limbs |->
     IF i > Partner(i, k) THEN 0
     ELSE IF i = Partner(i, k) THEN Product(x, x, i, k) ELSE 2 * Product(x, x, i, k)])]

Times == IF fn = "fe_sq2" THEN 2 ELSE 1

-----------------------------------------------------------------------------

Init ==
  /\ fn \in Functions /\ f \in Operands /\ g \in Operands
  /\ fn # "fe_mul" => g = f
  /\ h \in [Limbs -> Int64] /\ pc = 0

\* The products and their sums; fe_sq2 doubles these (h0 += h0).
Multiply ==
  /\ pc = 0 /\ pc' = 1
  /\ h' = [k \in Limbs |->
             IF fn = "fe_mul" THEN Multiplied(f, g)[k] ELSE Times * Squared(f)[k]]
  /\ UNCHANGED <<fn, f, g>>

\* The limbs whose carries are taken, in order.
Order == <<0, 4, 1, 5, 2, 6, 3, 7, 4, 8, 9, 0>>

Carry ==
  /\ pc \in 1 .. 12 /\ pc' = pc + 1
  /\ h' = RoundedAt(h, Order[pc])
  /\ UNCHANGED <<fn, f, g>>

Next == Multiply \/ Carry

Spec == Init /\ [][Next]_vars

-----------------------------------------------------------------------------

TypeOK ==
  /\ fn \in Functions /\ f \in Operands /\ g \in Operands
  /\ fn # "fe_mul" => g = f
  /\ h \in [Limbs -> Int] /\ pc \in 0 .. 13

(***************************************************************************)
(* The limbs multiplied beforehand fit their 32 bits (fe.c:355-368 and     *)
(* 635-647), and whatever the signs of the products, no partial sum of     *)
(* them leaves 64 bits (469-478).                                          *)
(***************************************************************************)
ProductsFit ==
  /\ \A i \in Limbs : /\ {2 * f[i], 19 * f[i], 19 * g[i]} \subseteq Int32
                      /\ i % 2 = 1 => 38 * f[i] \in Int32
  /\ \A k \in Limbs : Times * Sum([i \in Limbs |-> Magnitude(Product(f, g, i, k))]) \in Int64

(***************************************************************************)
(* No carry leaves 64 bits: neither the rounding, nor what is taken from   *)
(* its limb, nor what the limb above becomes, 19 times the carry included. *)
(***************************************************************************)
CarriesFit ==
  pc \in 1 .. 12 =>
    LET i == Order[pc]
    IN  {h[i], h[i] + Size(i) \div 2, Size(i) * Rounded(h[i], i), Carried(h[i], i),
         h[Above(i)] + Carried(h[i], i)} \subseteq Int64

\* What the comments of fe_mul (490-538) say of the limbs before carry k, or at
\* the end (13). n is 2 for fe_sq2, whose sums are doubled.
Commented(x, n, k) ==
  LET E == n * 1614090106449585766   \* 1.4*2^60
      O == n * 979983278915819929    \* 1.7*2^59
      e == n * 1625619321495654236   \* 1.41*2^60
      o == n * 985747886438854164    \* 1.71*2^59
      m == n * 29549374996           \* 1.72*2^34
      w == n * 604731395276          \* 1.1*2^39
      s == 33554432                  \* 2^25
      a == 16777216                  \* 2^24
      t == 16944988                  \* 1.01*2^24
  IN  /\ Within(x[0], IF k = 1 THEN E ELSE IF k = 12 THEN w ELSE s)
      /\ Within(x[1], IF k = 1 THEN O ELSE IF k <= 3 THEN o ELSE IF k <= 12 THEN a ELSE t)
      /\ Within(x[2], IF k <= 3 THEN E ELSE IF k <= 5 THEN e ELSE s)
      /\ Within(x[3], IF k <= 5 THEN O ELSE IF k <= 7 THEN o ELSE a)
      /\ Within(x[4], IF k <= 2 THEN E ELSE IF k \in {8, 9} THEN m ELSE s)
      /\ Within(x[5], IF k <= 2 THEN O ELSE IF k <= 4 THEN o ELSE IF k <= 9 THEN a ELSE t)
      /\ Within(x[6], IF k <= 4 THEN E ELSE IF k <= 6 THEN e ELSE s)
      /\ Within(x[7], IF k <= 6 THEN O ELSE IF k <= 8 THEN o ELSE a)
      /\ Within(x[8], IF k <= 8 THEN E ELSE IF k <= 10 THEN e ELSE s)
      /\ Within(x[9], IF k <= 10 THEN O ELSE IF k = 11 THEN o ELSE a)

(***************************************************************************)
(* The bounds that the comments of fe_mul state hold where they are        *)
(* written, and twice them in fe_sq2, whose code has no comments.          *)
(***************************************************************************)
CommentsHold == pc # 0 => Commented(h, Times, pc)

(***************************************************************************)
(* fe.c:305-311, 612-617: "|h| bounded by 1.01*2^25,1.01*2^24,...", for    *)
(* all operands within 1.65*2^26, 1.65*2^25; so the limbs fit 32 bits.     *)
(***************************************************************************)
Reduced ==
  pc = 13 => \A i \in Limbs : Within(h[i], IF i % 2 = 0 THEN 33889976 ELSE 16944988)

(***************************************************************************)
(* h = f * g, and 2 * f * f for fe_sq2, modulo 2^255 - 19: after the       *)
(* products and after every carry.                                         *)
(***************************************************************************)
Congruent ==
  pc # 0 => \E q \in Int : Times * (Value(f) * Value(g)) = Value(h) + p * q
=============================================================================
