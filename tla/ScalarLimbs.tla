----------------------------- MODULE ScalarLimbs -----------------------------
(***************************************************************************)
(* Reduction modulo the group order: sc_reduce and sc_muladd, and reduce   *)
(* and multiplyAndAdd of Ed25519ScalarOps.java.  A number is signed limbs  *)
(* of W bits (21 in the code); a scalar has N of them (12), what is        *)
(* reduced 2N.  L is 2^(N W) minus the number whose N/2 signed digits are  *)
(* Coefs (666643, 470296, 654183, -997805, 136657, -683901).               *)
(***************************************************************************)
EXTENDS Integers, Sequences, FiniteSetsExt

CONSTANTS
  N, W,
  Coefs,     \* the limbs of 2^(N W) mod L
  Extra,     \* the bits that the top limb of a string has beyond W
  Wides,     \* what is reduced: 2N limbs
  Triples    \* a, b and c of a b + c: N limbs each

M == N \div 2
Limbs == 0 .. 2 * N - 1

\* What is assumed of the constants.
Parameters ==
  /\ N \in Nat \ {0} /\ N % 2 = 0 /\ W \in Nat \ {0} /\ Extra \in Nat
  /\ Coefs \in [1 .. M -> Int]
  /\ \A x \in Wides : DOMAIN x = Limbs /\ \A i \in Limbs : x[i] \in 0 .. 2 ^ (W + Extra) - 1
  /\ \A t \in Triples : t \in [{"a", "b", "c"} -> [0 .. N - 1 -> 0 .. 2 ^ (W + Extra) - 1]]

VARIABLES
  task,   \* the function and its arguments
  s,      \* s0 ... s23
  dead,   \* the limbs that the Java methods no longer use
  ops     \* what remains to be done

vars == <<task, s, dead, ops>>

Java == {"reduce", "multiplyAndAdd"}

L == 2 ^ (N * W) - MapThenSumSet(LAMBDA i : Coefs[i] * 2 ^ (W * (i - 1)), 1 .. M)

\* The residue of limbs n-1 ... 0 of x, and of its product with m.
Times(x, n, m) == LET v[i \in 0 .. n] == IF i = n THEN 0 ELSE (x[i] * m + 2 ^ W * v[i + 1]) % L
                  IN  v[0] % L
Residue(x, n)  == Times(x, n, 1)

-----------------------------------------------------------------------------
(* The programs: folds of limb i into the M limbs from i-N, and carries of *)
(* limb i into the next, which they are added to or which they set.        *)

Fold(i)      == [op |-> "fold",  i |-> i, sets |-> FALSE]
Round(i)     == [op |-> "round", i |-> i, sets |-> FALSE]
Floor(i)     == [op |-> "floor", i |-> i, sets |-> FALSE]
Set(step)    == [step EXCEPT !.sets = TRUE]

Folds(hi, lo)  == [k \in 1 .. hi - lo + 1 |-> Fold(hi + 1 - k)]
Rounds(lo, hi) == [k \in 1 .. (hi - lo) \div 2 + 1 |-> Round(lo + 2 * (k - 1))]

\* Mutant of Floors: without the last carry.
FloorsShort == [k \in 1 .. N - 2 |-> Floor(k - 1)]

Floors == [k \in 1 .. N - 1 |-> Floor(k - 1)]

\* From the first fold to the last; the carry from limb 11 is added to s12
\* in C and sets it in Java.
Reduction(round, floor) ==
  Folds(2 * N - 1, 2 * N - M)
  \o Rounds(M, 2 * N - M - 2) \o Rounds(M + 1, 2 * N - M - 3)
  \o Folds(2 * N - M - 1, N)
  \o Rounds(0, N - 2) \o Rounds(1, N - 3) \o <<round, Fold(N)>>
  \o Floors \o <<floor, Fold(N)>>
  \o Floors

sc_reduce == Reduction(Round(N - 1), Floor(N - 1))

sc_muladd == Rounds(0, 2 * N - 2) \o Rounds(1, 2 * N - 3) \o sc_reduce

\* Mutant of reduce: the carry is added to the s12 of the last fold.
reduceAdding == Reduction(Round(N - 1), Set(Floor(N - 1)))

reduce == Reduction(Set(Round(N - 1)), Set(Floor(N - 1)))

multiplyAndAdd == Rounds(0, 2 * N - 4) \o <<Set(Round(2 * N - 2))>>
                  \o Rounds(1, 2 * N - 3) \o reduce

\* s0 ... s22 of a b + c.
MulAdd(a, b, c) ==
  [k \in Limbs |-> (IF k < N THEN c[k] ELSE 0)
                   + MapThenSumSet(LAMBDA i : a[i] * b[k - i],
                                   {i \in 0 .. N - 1 : k - i \in 0 .. N - 1})]

-----------------------------------------------------------------------------

Tasks == [fn : {"sc_reduce", "reduce"}, x : Wides]
         \cup [fn : {"sc_muladd", "multiplyAndAdd"}, t : Triples]

Program == [sc_reduce |-> sc_reduce, sc_muladd |-> sc_muladd,
            reduce |-> reduce, multiplyAndAdd |-> multiplyAndAdd]

\* Java leaves s23 unset, C makes it 0.
Init ==
  /\ task \in Tasks
  /\ s = IF task.fn \in {"sc_reduce", "reduce"} THEN task.x
         ELSE MulAdd(task.t.a, task.t.b, task.t.c)
  /\ dead = IF task.fn = "multiplyAndAdd" THEN {2 * N - 1} ELSE {}
  /\ ops = Program[task.fn]

\* Mutant of FoldLimb: the limb is never cleared.
FoldLimbUncleared ==
  /\ ops # <<>> /\ Head(ops).op = "fold"
  /\ LET k == Head(ops).i
     IN  /\ s' = [i \in Limbs |->
                    IF i - (k - N) \in 0 .. M - 1 THEN s[i] + s[k] * Coefs[i - (k - N) + 1]
                    ELSE s[i]]
         /\ dead' = IF task.fn \in Java THEN dead \cup {k} ELSE dead
  /\ ops' = Tail(ops)
  /\ UNCHANGED task

\* s11 += s23 * 666643; ... C then clears the limb, Java does not use it again.
FoldLimb ==
  /\ ops # <<>> /\ Head(ops).op = "fold"
  /\ LET k == Head(ops).i
     IN  /\ s' = [i \in Limbs |->
                    IF i - (k - N) \in 0 .. M - 1 THEN s[i] + s[k] * Coefs[i - (k - N) + 1]
                    ELSE IF i = k /\ task.fn \notin Java THEN 0 ELSE s[i]]
         /\ dead' = IF task.fn \in Java THEN dead \cup {k} ELSE dead
  /\ ops' = Tail(ops)
  /\ UNCHANGED task

CarryLimb(c) ==
  LET k == Head(ops).i
  IN  /\ s' = [s EXCEPT ![k] = @ - c * 2 ^ W,
                        ![k + 1] = IF Head(ops).sets THEN c ELSE @ + c]
      /\ dead' = dead \ {k + 1}
      /\ ops' = Tail(ops)
      /\ UNCHANGED task

\* carry = (s + (1<<20)) >> 21;
RoundLimb ==
  /\ ops # <<>> /\ Head(ops).op = "round"
  /\ CarryLimb((s[Head(ops).i] + 2 ^ (W - 1)) \div 2 ^ W)

\* carry = s >> 21;
FloorLimb ==
  /\ ops # <<>> /\ Head(ops).op = "floor"
  /\ CarryLimb(s[Head(ops).i] \div 2 ^ W)

Next == FoldLimb \/ RoundLimb \/ FloorLimb

Spec == Init /\ [][Next]_vars

-----------------------------------------------------------------------------

Meant ==
  IF task.fn \in {"sc_reduce", "reduce"} THEN Residue(task.x, 2 * N)
  ELSE (Times(task.t.a, N, Residue(task.t.b, N)) + Residue(task.t.c, N)) % L

(***************************************************************************)
(* Every fold and carry keeps the residue of the limbs in use.             *)
(***************************************************************************)
Congruent == Residue([i \in Limbs |-> IF i \in dead THEN 0 ELSE s[i]], 2 * N) = Meant

(***************************************************************************)
(* The result is "s mod l" and "(ab+c) mod l": the representative below L, *)
(* in limbs that do not overlap when they are packed into bytes.           *)
(***************************************************************************)
Canonical ==
  ops = <<>> =>
    /\ \A i \in 0 .. N - 1 : s[i] \in 0 .. 2 ^ W - 1 \/ (i = N - 1 /\ s[i] \in 0 .. 2 ^ W)
    /\ MapThenSumSet(LAMBDA i : s[i] * 2 ^ (W * i), 0 .. N - 1) = Meant

(***************************************************************************)
(* The Java methods do not clear a folded limb: it is not folded again or  *)
(* added to before it is set, and no limb in use is overwritten.           *)
(***************************************************************************)
NoStaleLimb ==
  ops # <<>> =>
    LET k == Head(ops).i
    IN  /\ k \notin dead
        /\ Head(ops).op # "fold" => (Head(ops).sets = (k + 1 \in dead))
=============================================================================
