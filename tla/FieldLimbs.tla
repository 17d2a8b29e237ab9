----------------------------- MODULE FieldLimbs -----------------------------
(***************************************************************************)
(* The functions of fe.c, and their twins in Ed25519FieldElement.java and  *)
(* Ed25519LittleEndianEncoding.java, one carry at a time.                  *)
(*                                                                         *)
(* A field element is N signed limbs, of W+1 bits at even and W bits at    *)
(* odd positions (10 limbs of 26 and 25 bits in the code), and the modulus *)
(* is 2^(all bits) - C (C = 19).  A string is the number it denotes in     *)
(* little-endian, in units of Byte bits.                                   *)
(***************************************************************************)
EXTENDS Integers, Sequences, FiniteSetsExt

CONSTANTS
  N, W, C, Byte,
  Operands,   \* the limbs that elements are given with
  Pairs,      \* the pairs of them that are given together
  Strings,    \* the strings that are decoded
  Functions   \* the functions that are called

Bin  == {"fe_add", "fe_sub", "fe_mul", "fe_cmov", "multiply"}
Un   == {"fe_neg", "fe_sq", "fe_sq2", "square", "squareAndDouble", "fe_tobytes", "encode"}
From == {"fe_frombytes", "decode"}

\* What is assumed of the constants.
FieldParameters ==
  /\ N \in Nat /\ N % 2 = 0 /\ N >= 4 /\ W \in Nat \ {0} /\ C \in Nat /\ Byte \in Nat \ {0}
  /\ Operands \subseteq [0 .. N - 1 -> Int] /\ Strings \subseteq Nat
  /\ Pairs \subseteq [f : [0 .. N - 1 -> Int], g : [0 .. N - 1 -> Int]]
  /\ Functions \subseteq Bin \cup Un \cup From

Limbs    == 0 .. N - 1
Bits(i)  == IF i % 2 = 0 THEN W + 1 ELSE W
At(i)    == (i * (2 * W + 1) + 1) \div 2       \* where limb i starts
p        == 2 ^ At(N) - C

VARIABLES
  task,   \* the function and its arguments
  pc,
  h,      \* the limbs of the result
  todo,   \* the limbs whose carry remains to be taken
  q,      \* fe_tobytes: the quotient
  top     \* fe_tobytes: carry9

vars == <<task, pc, h, todo, q, top>>

-----------------------------------------------------------------------------
(* The value that limbs stand for, modulo p. *)

Residue(f) ==
  LET v[i \in 0 .. N] == IF i = N THEN 0 ELSE (f[i] + 2 ^ Bits(i) * v[i + 1]) % p
  IN  v[0] % p

-----------------------------------------------------------------------------
(* The coefficients of products. *)

\* Limbs i and j meet at (i + j) % N; two odd ones half a bit above each,
\* and beyond the last limb 2^255 counts as C.
Factor(i, j) == (IF i % 2 = 1 /\ j % 2 = 1 THEN 2 ELSE 1) * (IF i + j >= N THEN C ELSE 1)

\* Mutant of multiplied: the products of two odd limbs are not doubled.
multipliedOnce(f, g) ==
  [k \in Limbs |-> MapThenSumSet(
     LAMBDA i : (IF i > k THEN C ELSE 1) * f[i] * g[(k - i) % N], Limbs)]

\* h0 ... h9 of fe_mul.
multiplied(f, g) ==
  [k \in Limbs |-> MapThenSumSet(
     LAMBDA i : Factor(i, (k - i) % N) * f[i] * g[(k - i) % N], Limbs)]

\* h0 ... h9 of fe_sq: each product of two limbs once, doubled if they differ.
squared(f) ==
  [k \in Limbs |-> MapThenSumSet(
     LAMBDA i : LET j == (k - i) % N
                IN  IF i > j THEN 0
                    ELSE (IF i < j THEN 2 ELSE 1) * Factor(i, j) * f[i] * f[j], Limbs)]

Doubled(f) == [k \in Limbs |-> f[k] + f[k]]

\* The methods of Ed25519FieldElement have the same products.
multiply(f, g)     == multiplied(f, g)
square(f)          == squared(f)
squareAndDouble(f) == Doubled(squared(f))

-----------------------------------------------------------------------------
(* Loading bytes. *)

\* Limb i is loaded from the byte where it starts or the next one.
Load(i) == IF i = N THEN At(N) ELSE Byte * ((At(i) + Byte - 1) \div Byte)

\* h0 ... h9 of fe_frombytes; the bits above the last limb are masked.
Loaded(s) == [i \in Limbs |-> ((s \div 2 ^ Load(i)) % 2 ^ (Load(i + 1) - Load(i)))
                              * 2 ^ (Load(i) - At(i))]

\* Ed25519LittleEndianEncoding: load_3 and load_4 read the bytes unsigned.
decode(s) == Loaded(s)

-----------------------------------------------------------------------------
(* The orders in which carries are taken. *)

Half == N \div 2

\* 0 4, 1 5, 2 6, 3 7, 4 8, 9, 0
Interleaved ==
  [k \in 1 .. N |-> IF k % 2 = 1 THEN k \div 2 ELSE Half - 2 + k \div 2] \o <<N - 1, 0>>

\* 9 1 3 5 7, 0 2 4 6 8
OddThenEven ==
  <<N - 1>> \o [k \in 1 .. Half - 1 |-> 2 * k - 1] \o [k \in 1 .. Half |-> 2 * k - 2]

\* 0 1 ... 9
Ascending == [k \in 1 .. N |-> k - 1]

\* The quotient that fe_tobytes subtracts.
Quotient(f) ==
  LET est[i \in 0 .. N] ==
        IF i = 0 THEN (C * f[N - 1] + 2 ^ (W - 1)) \div 2 ^ W
        ELSE (f[i - 1] + est[i - 1]) \div 2 ^ Bits(i - 1)
  IN  est[N]

encode(f) == Quotient(f)

\* The disjunction of the bytes of x, which is what they differ from zero in.
OrOfBytes(x) ==
  MapThenSumSet(LAMBDA b : 2 ^ b,
                {b \in 0 .. 7 : \E k \in 0 .. At(N) \div 8 : (x \div 2 ^ (8 * k + b)) % 2 = 1})

\* Mutant of crypto_verify_32: the borrow is looked for in the lowest bit.
crypto_verify_32Unshifted(differentbits) == (((differentbits - 1) % 2 ^ 16) % 2) - 1

\* (1 & ((differentbits - 1) >> 8)) - 1 on unsigned ints: 0 or -1.
crypto_verify_32(differentbits) == ((((differentbits - 1) % 2 ^ 16) \div 2 ^ 8) % 2) - 1

-----------------------------------------------------------------------------

Tasks ==
  {[fn |-> n, f |-> x.f, g |-> x.g, b |-> c] : n \in Functions \cap Bin, x \in Pairs, c \in 0 .. 1}
  \cup [fn : Functions \cap Un, f : Operands]
  \cup [fn : Functions \cap From, s : Strings]

Init ==
  /\ task \in Tasks
  /\ pc = "called"
  /\ h = IF task.fn \in {"fe_tobytes", "encode"} THEN task.f ELSE [i \in Limbs |-> 0]
  /\ todo = <<>> /\ q = 0 /\ top = 0

\* Limbwise, without carries.
Limbwise ==
  /\ pc = "called" /\ task.fn \in {"fe_add", "fe_sub", "fe_neg", "fe_cmov"}
  /\ h' = [i \in Limbs |->
             CASE task.fn = "fe_add"  -> task.f[i] + task.g[i]
               [] task.fn = "fe_sub"  -> task.f[i] - task.g[i]
               [] task.fn = "fe_neg"  -> -task.f[i]
               [] task.fn = "fe_cmov" -> IF task.b = 1 THEN task.g[i] ELSE task.f[i]]
  /\ pc' = "done"
  /\ UNCHANGED <<task, todo, q, top>>

Product ==
  /\ pc = "called" /\ task.fn \in {"fe_mul", "fe_sq", "fe_sq2", "multiply", "square", "squareAndDouble"}
  /\ h' = CASE task.fn = "fe_mul"   -> multiplied(task.f, task.g)
            [] task.fn = "multiply" -> multiply(task.f, task.g)
            [] task.fn = "fe_sq"    -> squared(task.f)
            [] task.fn = "square"   -> square(task.f)
            [] task.fn = "fe_sq2"   -> Doubled(squared(task.f))
            [] task.fn = "squareAndDouble" -> squareAndDouble(task.f)
  /\ pc' = "carry" /\ todo' = Interleaved
  /\ UNCHANGED <<task, q, top>>

fe_frombytes ==
  /\ pc = "called" /\ task.fn \in From
  /\ h' = IF task.fn = "decode" THEN decode(task.s) ELSE Loaded(task.s)
  /\ pc' = "carry" /\ todo' = OddThenEven
  /\ UNCHANGED <<task, q, top>>

\* carry = (h + (1<<24)) >> 25; and so on.
Carry ==
  /\ pc = "carry" /\ todo # <<>>
  /\ LET k == Head(todo)
         c == (h[k] + 2 ^ (Bits(k) - 1)) \div 2 ^ Bits(k)
     IN  h' = [h EXCEPT ![k] = @ - c * 2 ^ Bits(k),
                        ![(k + 1) % N] = @ + (IF k = N - 1 THEN C * c ELSE c)]
  /\ todo' = Tail(todo)
  /\ UNCHANGED <<task, pc, q, top>>

\* A decoded element is encoded again.
Store ==
  /\ pc = "carry" /\ todo = <<>>
  /\ pc' = IF task.fn \in From THEN "encode" ELSE "done"
  /\ UNCHANGED <<task, h, todo, q, top>>

\* Mutant of Estimate: without the rounding term.
EstimateFloor ==
  /\ pc = "encode" \/ (pc = "called" /\ task.fn \in {"fe_tobytes", "encode"})
  /\ LET est[i \in 0 .. N] ==
           IF i = 0 THEN 0 ELSE (h[i - 1] + est[i - 1]) \div 2 ^ Bits(i - 1)
     IN  q' = est[N]
  /\ h' = [h EXCEPT ![0] = @ + C * q']
  /\ pc' = "reduce" /\ todo' = Ascending
  /\ UNCHANGED <<task, top>>

\* q = ...; h0 += 19 * q;
Estimate ==
  /\ pc = "encode" \/ (pc = "called" /\ task.fn \in {"fe_tobytes", "encode"})
  /\ q' = IF task.fn \in {"encode", "decode"} THEN encode(h) ELSE Quotient(h)
  /\ h' = [h EXCEPT ![0] = @ + C * q']
  /\ pc' = "reduce" /\ todo' = Ascending
  /\ UNCHANGED <<task, top>>

\* carry0 = h0 >> 26; ... the last carry is dropped.
Reduce ==
  /\ pc = "reduce" /\ todo # <<>>
  /\ LET k == Head(todo)
         c == h[k] \div 2 ^ Bits(k)
     IN  IF k = N - 1 THEN /\ h' = [h EXCEPT ![k] = @ - c * 2 ^ Bits(k)]
                           /\ top' = c
                      ELSE /\ h' = [h EXCEPT ![k] = @ - c * 2 ^ Bits(k), ![k + 1] = @ + c]
                           /\ UNCHANGED top
  /\ todo' = Tail(todo)
  /\ UNCHANGED <<task, pc, q>>

Bytes ==
  /\ pc = "reduce" /\ todo = <<>>
  /\ pc' = "encoded"
  /\ UNCHANGED <<task, h, todo, q, top>>

Next == Limbwise \/ Product \/ fe_frombytes \/ Carry \/ Store \/ Estimate \/ Reduce \/ Bytes

Spec == Init /\ [][Next]_vars

\* s[0] ... s[31], and the functions that look at them.
Encoded == MapThenSumSet(LAMBDA i : h[i] * 2 ^ At(i), Limbs)
fe_isnegative == Encoded % 2
fe_isnonzero  == crypto_verify_32(OrOfBytes(Encoded))

-----------------------------------------------------------------------------

\* f * g modulo p, limb by limb of g.
Times(f, g) ==
  LET v[i \in 0 .. N] == IF i = N THEN 0 ELSE (Residue(f) * g[i] + 2 ^ Bits(i) * v[i + 1]) % p
  IN  v[0]

\* What the function should return.
Meant ==
  LET f == Residue(task.f) IN
      CASE task.fn = "fe_add"       -> (f + Residue(task.g)) % p
        [] task.fn = "fe_sub"       -> (f - Residue(task.g)) % p
        [] task.fn = "fe_neg"       -> (-f) % p
        [] task.fn = "fe_cmov"      -> IF task.b = 1 THEN Residue(task.g) ELSE f
        [] task.fn \in {"fe_mul", "multiply"}        -> Times(task.f, task.g)
        [] task.fn \in {"fe_sq", "square"}           -> Times(task.f, task.f)
        [] task.fn \in {"fe_sq2", "squareAndDouble"} -> (2 * Times(task.f, task.f)) % p
        [] task.fn \in {"fe_tobytes", "encode"}      -> f
        [] task.fn \in From                          -> (task.s % 2 ^ At(N)) % p

(***************************************************************************)
(* Results are congruent to what the function should return, after the     *)
(* products and after every single carry (fe_mul, fe_sq, fe_sq2,           *)
(* fe_frombytes, fe_add, fe_sub, fe_neg, fe_cmov).                         *)
(***************************************************************************)
Congruent == pc \in {"carry", "encode", "done"} => Residue(h) = Meant

(***************************************************************************)
(* fe_tobytes gives the one representative below p, whatever limbs the     *)
(* element is given with, so encodings can be compared; the limbs it packs *)
(* into bytes do not overlap, and the carry it drops is the quotient,      *)
(* which is at most 2 in absolute value.                                   *)
(***************************************************************************)
Canonical ==
  pc = "encoded" =>
    /\ \A i \in Limbs : h[i] \in 0 .. 2 ^ Bits(i) - 1
    /\ Encoded = Meant
    /\ top = q /\ q \in -2 .. 2

(***************************************************************************)
(* fe_isnonzero is 0 for multiples of p and -1 for all others, which is    *)
(* what its callers test for (its header says otherwise, see below);       *)
(* fe_isnegative is the parity of the representative.                      *)
(***************************************************************************)
Tests ==
  pc = "encoded" => /\ fe_isnonzero = (IF Meant = 0 THEN 0 ELSE -1)
                    /\ fe_isnegative = Meant % 2

(***************************************************************************)
(* fe_isnonzero: "return 1 if f == 0 / return 0 if f != 0".  (Violated: it *)
(* returns crypto_verify_32's 0 and -1.)                                   *)
(***************************************************************************)
DocumentedIsNonzero ==
  pc = "encoded" => fe_isnonzero = (IF Meant = 0 THEN 1 ELSE 0)
=============================================================================
