---------------------------- MODULE MCArithmetic ----------------------------
(***************************************************************************)
(* All the arithmetic: a function of FieldLimbs, a reduction of            *)
(* ScalarLimbs, a power by a chain of Chains, or one of the operations of  *)
(* MCGroup.  The run starts one of the machines; the others stand still.   *)
(*                                                                         *)
(* Field: four limbs of 6 and 5 bits, C = 3 and bytes of 4 bits:           *)
(* p = 2^22 - 3.  What is encoded, negated and squared has limbs up to 1.1 *)
(* times their width.  Sums and products are bilinear before the carries,  *)
(* so factors with one limb each reach every coefficient; the others bring *)
(* carries of both signs and limbs up to 1.65 times the width, the limit   *)
(* of fe_mul.                                                              *)
(*                                                                         *)
(* Scalars: six limbs of 4 bits for the 12 of 21 bits; 2^24 is             *)
(* 5 - 7*16 - 5*256 modulo L = 2^24 + 1387, with signed digits that are as *)
(* large for their width as those of the code and a negative top one.      *)
(*                                                                         *)
(* Powers: the four chains at their full length.                           *)
(***************************************************************************)
EXTENDS MCGroup, Sequences

CONSTANT Functions \* the functions of FieldLimbs that are called

VARIABLES
  element, state, limbs, todo, q, top,    \* of FieldLimbs
  reduction, words, dead, ops,            \* of ScalarLimbs
  chain, out, line, round, powers         \* of Chains

-----------------------------------------------------------------------------

Four(w0, w1, w2, w3) == [n \in 0 .. 3 |-> <<w0, w1, w2, w3>>[n + 1]]

Wide   == {-70, -64, -32, -1, 0, 1, 31, 33, 63, 70}
Narrow == {-35, -32, -16, -1, 0, 1, 15, 31, 35}
MCOperands ==
  {Four(w0, w1, w2, w3) : w0 \in Wide, w1 \in Narrow, w2 \in {-70, -1, 0, 63, 70}, w3 \in Narrow}

Factors ==
  {[n \in 0 .. 3 |-> IF n = one THEN 1 ELSE 0] : one \in 0 .. 3}
  \cup {Four(w0, w1, w2, w3) : w0 \in {-105, 63, 105}, w1 \in {-52, 17},
                               w2 \in {-105, 30}, w3 \in {-52, 52}}
MCPairs == [f : Factors, g : Factors]

\* Around 0, p and 2^22, and bit patterns, with the two bits above.
MCStrings ==
  {x + 2 ^ 22 * y : x \in (0 .. 20) \cup (2 ^ 22 - 20 .. 2 ^ 22 - 1)
                          \cup {2 ^ n : n \in 0 .. 21} \cup {2 ^ 22 - 2 ^ n : n \in 1 .. 21}
                          \cup {1398101, 2796202, 838860, 3355443}, y \in 0 .. 3}

F == INSTANCE FieldLimbs
  WITH N <- 4, W <- 5, C <- 3, Byte <- 4, Operands <- MCOperands, Pairs <- MCPairs,
       Strings <- MCStrings, task <- element, pc <- state, h <- limbs

ASSUME FieldAssumption == F!FieldParameters

-----------------------------------------------------------------------------

MCCoefs == <<5, -7, -5>>

MCExtra == 2
TopLimb == 2 ^ (4 + MCExtra) - 1

\* Each limb alone, none, all, and around multiples of 2^24.
MCWides ==
  {[n \in 0 .. 11 |-> IF n = one THEN v ELSE 0] : one \in 0 .. 11, v \in {1, 8, 15}}
  \cup {[n \in 0 .. 11 |-> IF n = one THEN 0 ELSE IF n = 11 THEN TopLimb ELSE 15] : one \in 0 .. 11}
  \cup {[n \in 0 .. 11 |-> IF n < one THEN 15 ELSE IF n = 11 THEN v ELSE 0] : one \in 0 .. 11, v \in {0, 1, 31, TopLimb}}
  \cup {[n \in 0 .. 11 |-> IF n < 3 THEN <<x, y, z>>[n + 1] ELSE IF n = 6 THEN v ELSE 0] :
           x \in 0 .. 15, y \in 0 .. 15, z \in {4, 5}, v \in {0, 1}}

Scalars6 == { [n \in 0 .. 5 |-> 0], [n \in 0 .. 5 |-> IF n = 0 THEN 1 ELSE 0],
              [n \in 0 .. 5 |-> IF n = 5 THEN TopLimb ELSE 15], [n \in 0 .. 5 |-> IF n = 5 THEN 15 ELSE 0],
              [n \in 0 .. 5 |-> IF n % 2 = 0 THEN 15 ELSE 7], [n \in 0 .. 5 |-> 15 - 2 * n] }
MCTriples == [{"a", "b", "c"} -> Scalars6]

S == INSTANCE ScalarLimbs
  WITH N <- 6, W <- 4, Extra <- MCExtra, Coefs <- MCCoefs, Wides <- MCWides,
       Triples <- MCTriples, task <- reduction, s <- words

ASSUME ReductionAssumption == S!Parameters

C == INSTANCE Chains WITH i <- round, t <- powers

-----------------------------------------------------------------------------

groupVars  == <<formulaVars, vars>>
fieldVars  == <<element, state, limbs, todo, q, top>>
scalarVars == <<reduction, words, dead, ops>>
powerVars  == <<chain, out, line, round, powers>>

FieldIdle  == /\ element = Idle /\ state = Idle /\ limbs = <<>> /\ todo = <<>>
              /\ q = 0 /\ top = 0
ScalarIdle == reduction = Idle /\ words = <<>> /\ dead = {} /\ ops = <<>>
PowerIdle  == chain = Idle /\ out = Idle /\ line = 1 /\ round = 0 /\ powers = <<>>

AllInit ==
  \/ MCInit /\ FieldIdle /\ ScalarIdle /\ PowerIdle
  \/ /\ FormulaIdle /\ LadderIdle
     /\ \/ machine = "field"  /\ F!Init /\ ScalarIdle /\ PowerIdle
        \/ machine = "scalar" /\ S!Init /\ FieldIdle  /\ PowerIdle
        \/ machine = "power"  /\ C!Init /\ FieldIdle  /\ ScalarIdle

AllNext ==
  \/ MCNext /\ UNCHANGED <<fieldVars, scalarVars, powerVars>>
  \/ /\ UNCHANGED <<machine, groupVars>>
     /\ \/ machine = "field"  /\ F!Next /\ UNCHANGED <<scalarVars, powerVars>>
        \/ machine = "scalar" /\ S!Next /\ UNCHANGED <<fieldVars, powerVars>>
        \/ machine = "power"  /\ C!Next /\ UNCHANGED <<fieldVars, scalarVars>>

AllSpec == AllInit /\ [][AllNext]_<<machine, groupVars, fieldVars, scalarVars, powerVars>>

-----------------------------------------------------------------------------

\* Congruent of FieldLimbs: every product and carry keeps the residue.
Congruent == machine = "field" => F!Congruent

\* Canonical of FieldLimbs: fe_tobytes gives the representative below p.
Canonical == machine = "field" => F!Canonical

\* Tests of FieldLimbs: fe_isnonzero tells zero from the rest as its callers
\* use it, fe_isnegative gives the parity.
Tests == machine = "field" => F!Tests

\* DocumentedIsNonzero of FieldLimbs: fe_isnonzero returns what its header
\* says.  (Violated.)
DocumentedIsNonzero == machine = "field" => F!DocumentedIsNonzero

\* Congruent of ScalarLimbs: every fold and carry of sc_reduce and its kin
\* keeps the residue.
ScalarCongruent == machine = "scalar" => S!Congruent

\* Canonical of ScalarLimbs: the scalar that results is the one below L.
ScalarCanonical == machine = "scalar" => S!Canonical

\* NoStaleLimb of ScalarLimbs: the Java methods use no limb that is folded.
NoStaleLimb == machine = "scalar" => S!NoStaleLimb

\* RaisesToPower of Chains: each addition chain raises to its power.
RaisesToPower == machine = "power" => C!RaisesToPower
=============================================================================
