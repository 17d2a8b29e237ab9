------------------------------ MODULE PointOps ------------------------------
(***************************************************************************)
(* The formulas of PointFormulas run one field operation at a time, over a *)
(* small field: Prime stands for 2^255 - 19.  Two things are tracked of a  *)
(* variable: its value, and a bound on its limbs that follows from the     *)
(* operations that made it.  What a formula should compute is said with    *)
(* affine coordinates.                                                     *)
(***************************************************************************)
EXTENDS Integers, TLC, PointFormulas

CONSTANTS
  Prime,    \* the field
  CurveD,   \* -x^2 + y^2 = 1 + CurveD x^2 y^2
  SqrtM1,   \* a square root of -1
  Scales,   \* the Z coordinates that points are given with
  Ys        \* the y coordinates that strings hold; they may exceed Prime

Field == 0 .. Prime - 1

\* What is assumed of the constants.
CurveParameters ==
  /\ Prime \in Nat /\ Prime % 8 = 5 /\ \A k \in 2 .. Prime - 1 : Prime % k # 0
  /\ CurveD \in Field /\ \A x \in Field : (x * x) % Prime # CurveD
  /\ SqrtM1 \in Field /\ (SqrtM1 * SqrtM1) % Prime = Prime - 1
  /\ Scales \subseteq Field \ {0} /\ Ys \subseteq Nat

VARIABLES
  task,   \* the formula, its operands and how they are scaled
  code,   \* the calls that remain
  val,    \* variable -> its value
  bound,  \* variable -> bound on its limbs, in hundredths of 2^25 (2^24 for odd limbs)
  pc

vars == <<task, code, val, bound, pc>>

-----------------------------------------------------------------------------
(* Field operations. *)

Power(x, n) == LET p[k \in 0 .. n] == IF k = 0 THEN 1 ELSE (p[k - 1] * x) % Prime
               IN  p[n]

Value(c) ==
  LET f == val[c.f]
      g == val[c.g]
  IN  CASE c.fn = "fe_add"      -> (f + g) % Prime
        [] c.fn = "fe_sub"      -> (f - g) % Prime
        [] c.fn = "fe_neg"      -> (-f) % Prime
        [] c.fn = "fe_copy"     -> f
        [] c.fn = "fe_mul"      -> (f * g) % Prime
        [] c.fn = "fe_sq"       -> (f * f) % Prime
        [] c.fn = "fe_sq2"      -> (2 * f * f) % Prime
        [] c.fn = "fe_invert"   -> Power(f, Prime - 2)
        [] c.fn = "fe_pow22523" -> Power(f, (Prime - 5) \div 8)

Carried == 101   \* what fe_mul, fe_sq, fe_sq2 and fe_frombytes leave: 1.01*2^25
SumLimit == 110  \* what fe_add and fe_sub ask for: 1.1*2^25
MulLimit == 330  \* what fe_mul, fe_sq and fe_sq2 can take: 1.65*2^26
TestLimit == 220 \* what fe_tobytes can take: 1.1*2^26
Width == 6400    \* 2^31

Sums2 == {"fe_add", "fe_sub"}
Moves == {"fe_neg", "fe_copy"}

Bound(c) ==
  CASE c.fn \in Sums2 -> bound[c.f] + bound[c.g]
    [] c.fn \in Moves -> bound[c.f]
    [] OTHER          -> Carried

-----------------------------------------------------------------------------
(* The curve, in affine coordinates. *)

Inverse1(x) == CHOOSE y \in Field : (x * y) % Prime = 1 % Prime

OnCurve(x, y) == (y * y - x * x) % Prime = (1 + CurveD * ((x * x * y * y) % Prime)) % Prime

Points == {P \in Field \X Field : OnCurve(P[1], P[2])}

Opposite(P) == <<(-P[1]) % Prime, P[2]>>

\* The addition law for a = -1.
Add(P, Q) ==
  LET e == (CurveD * ((P[1] * Q[1] * P[2] * Q[2]) % Prime)) % Prime
  IN  << ((P[1] * Q[2] + Q[1] * P[2]) * Inverse1((1 + e) % Prime)) % Prime,
         ((P[2] * Q[2] + P[1] * Q[1]) * Inverse1((1 - e) % Prime)) % Prime >>

\* s holds P: X = x Z, Y = y Z, and in a ge_p3 also T Z = X Y.
Holds(s, P) ==
  /\ val[Z(s)] # 0
  /\ val[X(s)] = (P[1] * val[Z(s)]) % Prime
  /\ val[Y(s)] = (P[2] * val[Z(s)]) % Prime
  /\ T(s) \in DOMAIN val => (val[T(s)] * val[Z(s)]) % Prime = (val[X(s)] * val[Y(s)]) % Prime

-----------------------------------------------------------------------------
(* The tasks. *)

Binary == {"ge_add", "ge_sub", "ge_madd", "ge_msub", "select", "loop",
           "add", "sub", "madd", "msub"}
Unary  == {"ge_p3_dbl", "dbl", "negate", "ge_tobytes"}
Decode == {"ge_frombytes_negate_vartime", "GroupElement"}

Program(fn) ==
  CASE fn = "ge_add"    -> ge_p3_to_cached("c", "q") \o ge_add("t", "p", "c") \o ge_p1p1_to_p3("r", "t")
    [] fn = "ge_sub"    -> ge_p3_to_cached("c", "q") \o ge_sub("t", "p", "c") \o ge_p1p1_to_p3("r", "t")
    [] fn = "ge_madd"   -> ge_madd("t", "p", "table") \o ge_p1p1_to_p3("r", "t")
    [] fn = "ge_msub"   -> ge_msub("t", "p", "table") \o ge_p1p1_to_p3("r", "t")
    [] fn = "select"    -> minust("m", "table") \o ge_madd("t", "p", "m") \o ge_p1p1_to_p3("r", "t")
    [] fn = "loop"      -> ge_p3_to_cached("c", "q")
                           \o ge_p2_dbl("t", "p") \o ge_p1p1_to_p3("u", "t")
                           \o ge_add("t", "u", "c") \o ge_p1p1_to_p3("u", "t")
                           \o ge_madd("t", "u", "table") \o ge_p1p1_to_p2("r", "t")
    [] fn = "ge_p3_dbl" -> ge_p3_dbl("t", "p") \o ge_p1p1_to_p3("r", "t")
    [] fn = "ge_tobytes" -> ge_tobytes(Local("x"), Local("y"), "p")
    [] fn = "add"       -> toCached("c", "q") \o add("t", "p", "c") \o toP3("r", "t")
    [] fn = "sub"       -> toCached("c", "q") \o sub("t", "p", "c") \o toP3("r", "t")
    [] fn = "madd"      -> precomp("e", "q") \o madd("t", "p", "e") \o toP3("r", "t")
    [] fn = "msub"      -> precomp("e", "q") \o msub("t", "p", "e") \o toP3("r", "t")
    [] fn = "dbl"       -> dbl("t", "p") \o toP3("r", "t")
    [] fn = "negate"    -> negate("r", "p")
    [] fn \in Decode    -> Candidate("h")

\* What the task should leave in r.
Expected ==
  LET P == task.p
      Q == task.q
      fn == task.fn
  IN  CASE fn \in {"ge_add", "ge_madd", "add", "madd"}           -> Add(P, Q)
        [] fn \in {"ge_sub", "ge_msub", "select", "sub", "msub"} -> Add(P, Opposite(Q))
        [] fn = "loop"                                           -> Add(Add(P, P), Add(Q, Q))
        [] fn \in {"ge_p3_dbl", "dbl"}                           -> Add(P, P)
        [] fn = "negate"                                         -> Opposite(P)

\* A point as a ge_p3 with Z = z, and as an entry of base or Bi.
P3(s, P, z) ==
  X(s) :> (P[1] * z) % Prime @@ Y(s) :> (P[2] * z) % Prime
  @@ Z(s) :> z @@ T(s) :> (((P[1] * P[2]) % Prime) * z) % Prime

Entry(s, P) ==
  YplusX(s) :> (P[2] + P[1]) % Prime @@ YminusX(s) :> (P[2] - P[1]) % Prime
  @@ xy2d(s) :> (2 * CurveD * ((P[1] * P[2]) % Prime)) % Prime

Constants == d :> CurveD @@ d2 :> (2 * CurveD) % Prime @@ one :> 1 @@ sqrtm1 :> SqrtM1

Neutral == <<0, 1>>

Tasks ==
  [fn : Binary, p : Points, q : Points, z : Scales]
  \cup [fn : Unary, p : Points, q : {Neutral}, z : Scales]
  \cup [fn : Decode, y : Ys, sign : 0 .. 1]

\* Operands are what fe_mul or fe_frombytes left, or table entries.
Given(k) ==
  Constants @@
  IF k.fn \in Decode THEN Y("h") :> k.y % Prime
  ELSE P3("p", k.p, k.z) @@ P3("q", k.q, k.z) @@ Entry("table", k.q)
       @@ P3("zero", Neutral, 1)

-----------------------------------------------------------------------------

Init ==
  /\ task \in Tasks
  /\ code = Program(task.fn)
  /\ val = Given(task)
  /\ bound = [v \in DOMAIN val |-> IF v = one THEN 1 ELSE Carried]
  /\ pc = IF task.fn \in Decode THEN "candidate" ELSE "formula"

\* The next call; reading a variable that nothing was written to is an error.
Run(fns) ==
  /\ code # <<>> /\ Head(code).fn \in fns
  /\ val' = Head(code).h :> Value(Head(code)) @@ val
  /\ bound' = Head(code).h :> Bound(Head(code)) @@ bound
  /\ code' = Tail(code)
  /\ UNCHANGED <<task, pc>>

AddOrSubtract == Run(Sums2)
Move          == Run(Moves)
Multiply      == Run({"fe_mul", "fe_sq", "fe_sq2"})
Exponentiate  == Run({"fe_invert", "fe_pow22523"})

Continue(to, calls) ==
  /\ code = <<>>
  /\ pc' = to /\ code' = calls
  /\ UNCHANGED <<task, val, bound>>

\* Mutant of Test: a candidate that is off by sqrt(-1) is refused.
TestOnce ==
  /\ pc = "candidate" /\ code = <<>>
  /\ IF val[Local("check")] # 0 THEN Continue("refused", <<>>) ELSE Continue("sign", <<>>)

\* v x^2 = u, or else v x^2 = -u ...
Test ==
  /\ pc = "candidate" /\ code = <<>>
  /\ IF val[Local("check")] # 0 THEN Continue("alternative", Alternative)
                                ELSE Continue("sign", <<>>)

\* ... or the string is no point.
TestAgain ==
  /\ pc = "alternative" /\ code = <<>>
  /\ IF val[Local("check")] # 0 THEN Continue("refused", <<>>)
                                ELSE Continue("sign", Rotate("h"))

\* fe_isnegative, of the value reduced below Prime.
Negative(v) == val[v] % 2

\* The C function returns -A, the Java constructor A.
Sign ==
  /\ pc = "sign" /\ code = <<>>
  /\ LET flip == IF task.fn = "GroupElement" THEN Negative(X("h")) # task.sign
                                             ELSE Negative(X("h")) = task.sign
     IN  Continue("finish", (IF flip THEN Flip("h") ELSE <<>>) \o Finish("h"))

Return == pc \in {"formula", "finish"} /\ Continue("done", <<>>)

Next == \/ AddOrSubtract \/ Move \/ Multiply \/ Exponentiate
        \/ Test \/ TestAgain \/ Sign \/ Return

Spec == Init /\ [][Next]_vars

-----------------------------------------------------------------------------

(***************************************************************************)
(* The formulas are complete: for every pair of points, equal, opposite or *)
(* neutral, and every scaling, r is what the addition law says, in the     *)
(* representation the next formula expects.                                *)
(***************************************************************************)
FormulasComplete ==
  pc = "done" /\ task.fn \notin Decode \cup {"ge_tobytes"} => Holds("r", Expected)

\* The point a string denotes: its y, and an x of its sign if there is one.
Denoted == {P \in Points : P[2] = task.y % Prime /\ (P[1] % 2 = task.sign \/ P[1] = 0)}

(***************************************************************************)
(* Decoding refuses a string exactly when no point has its y, and          *)
(* otherwise finds the point of its sign (ge_frombytes_negate_vartime its  *)
(* negative); encoding gives the affine coordinates back.                  *)
(***************************************************************************)
DecodesExactly ==
  /\ pc = "refused" => Denoted = {}
  /\ pc = "done" /\ task.fn \in Decode =>
       \E P \in Denoted : Holds("h", IF task.fn = "GroupElement" THEN P ELSE Opposite(P))
  /\ pc = "done" /\ task.fn = "ge_tobytes" =>
       <<val[Local("x")], val[Local("y")]>> = task.p

(***************************************************************************)
(* No multiplication is given limbs above 1.65*2^26, and no zero test or   *)
(* encoding limbs above 1.1*2^26, the preconditions of fe_mul, fe_sq,      *)
(* fe_sq2, fe_isnonzero and fe_isnegative in fe.c.  Those are what these   *)
(* functions compute right for; what fe_add and fe_sub ask for is          *)
(* DocumentedSums.                                                         *)
(***************************************************************************)
LimbsBounded ==
  /\ code # <<>> /\ Head(code).fn \in {"fe_mul", "fe_sq", "fe_sq2"} =>
       bound[Head(code).f] <= MulLimit /\ bound[Head(code).g] <= MulLimit
  /\ code = <<>> /\ pc \in {"candidate", "alternative"} => bound[Local("check")] <= TestLimit
  /\ code = <<>> /\ pc = "sign" => bound[X("h")] <= TestLimit
  /\ pc = "done" /\ task.fn = "ge_tobytes" =>
       bound[Local("x")] <= TestLimit /\ bound[Local("y")] <= TestLimit

(***************************************************************************)
(* fe_add and fe_sub: "|f| bounded by 1.1*2^25,1.1*2^24, ..." and so |g|.  *)
(* (Violated: the formulas add to sums and differences of carried limbs,   *)
(* as for X3 in ge_p2_dbl.  The result has room enough, see LimbsBounded.) *)
(***************************************************************************)
DocumentedSums ==
  code # <<>> /\ Head(code).fn \in Sums2 =>
    bound[Head(code).f] <= SumLimit /\ bound[Head(code).g] <= SumLimit
=============================================================================
