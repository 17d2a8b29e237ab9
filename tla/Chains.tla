------------------------------- MODULE Chains -------------------------------
(***************************************************************************)
(* The addition chains that raise a field element to a fixed power:       *)
(* fe_invert (pow225521.h) and fe_pow22523 (pow22523.h) of the C code, and *)
(* invert and pow22523 of Ed25519FieldElement.java.                        *)
(*                                                                         *)
(* A temporary holds a power of z and is modelled by the exponent.         *)
(* Exponents have up to 255 bits, so they are sets of bit positions.  Each *)
(* line of a chain carries the exponent that the comment in the source     *)
(* says its result has: z_10_5 is z to the power 2^10 - 2^5.               *)
(***************************************************************************)
EXTENDS Integers, Sequences

VARIABLES
  chain,  \* the function that runs
  out,    \* where its result goes; the caller may have passed z itself
  line,   \* the line it is at
  i,      \* the loop counter of a line of squarings
  t       \* variable -> exponent of the z that was passed

vars == <<chain, out, line, i, t>>

\* 2^hi - 2^lo, and sums of powers of 2.
Between(hi, lo) == lo .. hi - 1

RECURSIVE Sum(_, _)
Sum(e, f) ==
  IF e \cap f = {} THEN e \cup f
  ELSE Sum((e \cup f) \ (e \cap f), {b + 1 : b \in e \cap f})

\* fe_sq(h,f); for (i = 1;i < n;++i) fe_sq(h,h);      fe_mul(h,f,g);
Squarings(h, f, n, is) == [h |-> h, f |-> f, g |-> f, squarings |-> n, is |-> is]
Product(h, f, g, is)   == [h |-> h, f |-> f, g |-> g, squarings |-> 0, is |-> is]

InvertHead ==
  << Squarings("t0", "z", 1,    {1}),
     Squarings("t1", "t0", 2,   {3}),
     Product("t1", "z", "t1",   {0, 3}),
     Product("t0", "t0", "t1",  {0, 1, 3}),
     Squarings("t2", "t0", 1,   {1, 2, 4}),
     Product("t1", "t1", "t2",  Between(5, 0)),
     Squarings("t2", "t1", 5,   Between(10, 5)),
     Product("t1", "t2", "t1",  Between(10, 0)),
     Squarings("t2", "t1", 10,  Between(20, 10)),
     Product("t2", "t2", "t1",  Between(20, 0)),
     Squarings("t3", "t2", 20,  Between(40, 20)),
     Product("t2", "t3", "t2",  Between(40, 0)),
     Squarings("t2", "t2", 10,  Between(50, 10)),
     Product("t1", "t2", "t1",  Between(50, 0)),
     Squarings("t2", "t1", 50,  Between(100, 50)),
     Product("t2", "t2", "t1",  Between(100, 0)),
     Squarings("t3", "t2", 100, Between(200, 100)),
     Product("t2", "t3", "t2",  Between(200, 0)),
     Squarings("t2", "t2", 50,  Between(250, 50)),
     Product("t1", "t2", "t1",  Between(250, 0)) >>

\* Mutant of fe_invert: the last squarings are one short.
fe_invertShort(o) ==
  InvertHead \o << Squarings("t1", "t1", 4, Between(254, 4)),
                   Product(o, "t1", "t0",   Between(254, 4) \cup {0, 1, 3}) >>

fe_invert(o) ==
  InvertHead \o << Squarings("t1", "t1", 5, Between(255, 5)),
                   Product(o, "t1", "t0",   Between(255, 5) \cup {0, 1, 3}) >>

fe_pow22523(o) ==
  << Squarings("t0", "z", 1,    {1}),
     Squarings("t1", "t0", 2,   {3}),
     Product("t1", "z", "t1",   {0, 3}),
     Product("t0", "t0", "t1",  {0, 1, 3}),
     Squarings("t0", "t0", 1,   {1, 2, 4}),
     Product("t0", "t1", "t0",  Between(5, 0)),
     Squarings("t1", "t0", 5,   Between(10, 5)),
     Product("t0", "t1", "t0",  Between(10, 0)),
     Squarings("t1", "t0", 10,  Between(20, 10)),
     Product("t1", "t1", "t0",  Between(20, 0)),
     Squarings("t2", "t1", 20,  Between(40, 20)),
     Product("t1", "t2", "t1",  Between(40, 0)),
     Squarings("t1", "t1", 10,  Between(50, 10)),
     Product("t0", "t1", "t0",  Between(50, 0)),
     Squarings("t1", "t0", 50,  Between(100, 50)),
     Product("t1", "t1", "t0",  Between(100, 0)),
     Squarings("t2", "t1", 100, Between(200, 100)),
     Product("t1", "t2", "t1",  Between(200, 0)),
     Squarings("t1", "t1", 50,  Between(250, 50)),
     Product("t0", "t1", "t0",  Between(250, 0)),
     Squarings("t0", "t0", 2,   Between(252, 2)),
     Product(o, "t0", "z",      Between(252, 2) \cup {0}) >>

\* The Java methods take the same steps; their result is a new object.
invert   == fe_invert("result")
pow22523 == fe_pow22523("result")

Java  == {"invert", "pow22523"}
Names == {"fe_invert", "fe_pow22523"} \cup Java

Lines == CASE chain = "fe_invert"   -> fe_invert(out)
           [] chain = "fe_pow22523" -> fe_pow22523(out)
           [] chain = "invert"      -> invert
           [] chain = "pow22523"    -> pow22523
Now   == Lines[line]

-----------------------------------------------------------------------------

\* fe_invert(recip,h->Z), fe_pow22523(h->X,h->X); a Java result is new.
Init ==
  /\ chain \in Names
  /\ out \in IF chain \in Java THEN {"result"} ELSE {"out", "z"}
  /\ line = 1 /\ i = 0 /\ t = [v \in {"z"} |-> {0}]

Assign(h, e) == t' = [v \in DOMAIN t \cup {h} |-> IF v = h THEN e ELSE t[v]]

\* fe_sq(h,f), which starts a line of squarings.
Square ==
  /\ line <= Len(Lines) /\ Now.squarings > 0 /\ i = 0
  /\ Assign(Now.h, Sum(t[Now.f], t[Now.f]))
  /\ i' = 1
  /\ UNCHANGED <<chain, out, line>>

\* One more squaring of what the line has so far.
Loop ==
  /\ i > 0 /\ i < Now.squarings
  /\ Assign(Now.h, Sum(t[Now.h], t[Now.h]))
  /\ i' = i + 1
  /\ UNCHANGED <<chain, out, line>>

NextLine ==
  /\ i > 0 /\ i >= Now.squarings
  /\ i' = 0 /\ line' = line + 1
  /\ UNCHANGED <<chain, out, t>>

Multiply ==
  /\ line <= Len(Lines) /\ Now.squarings = 0
  /\ Assign(Now.h, Sum(t[Now.f], t[Now.g]))
  /\ line' = line + 1
  /\ UNCHANGED <<chain, out, i>>

Next == Square \/ Loop \/ NextLine \/ Multiply

Spec == Init /\ [][Next]_vars

-----------------------------------------------------------------------------

(***************************************************************************)
(* Every line leaves the exponent its comment names (qhasm comments in C,  *)
(* "// 2^10 - 2^5" in Java), and the last one z^(2^255 - 21) (1/z, as      *)
(* q = 2^255 - 19) or z^(2^252 - 3) (z^((q-5)/8)), also when out and z are *)
(* one variable, as in fe_pow22523(h->X,h->X).                             *)
(***************************************************************************)
RaisesToPower ==
  /\ \A k \in 1 .. line - 1 :
       (\A later \in k + 1 .. line - 1 : Lines[later].h # Lines[k].h) /\ (i = 0 \/ Now.h # Lines[k].h)
       => t[Lines[k].h] = Lines[k].is
  /\ line > Len(Lines) =>
       Sum(t[Lines[Len(Lines)].h],
           IF chain \in {"fe_invert", "invert"} THEN {0, 2, 4} ELSE {0, 1})
       = IF chain \in {"fe_invert", "invert"} THEN {255} ELSE {252}
=============================================================================
