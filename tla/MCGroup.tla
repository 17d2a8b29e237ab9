------------------------------ MODULE MCGroup ------------------------------
(***************************************************************************)
(* The operations of the group: a multiplication of Ladders, or a formula  *)
(* or a decoding of PointOps.  The run starts one of the two machines; the *)
(* other stands still.                                                     *)
(*                                                                         *)
(* Formulas: the curve -x^2 + y^2 = 1 + 2 x^2 y^2 over the field of 29     *)
(* elements; strings of 5 bits for y, three of which are not canonical.    *)
(*                                                                         *)
(* Multiplications: scalars of 16 bits.  For the base point, four digits   *)
(* and two table rows, and every scalar that the precondition allows.  For *)
(* the double multiplication, more than twice the widest window; one       *)
(* scalar steps through all of the 16 bits and ends with those whose carry *)
(* leaves the array, the other has none; and both have long runs of ones,  *)
(* long runs of zeros, alternating bits, and both sides of 2^15.           *)
(***************************************************************************)
EXTENDS Ladders

CONSTANTS Idle, Prime, CurveD, SqrtM1, Scales, Ys

VARIABLES machine, formula, code, val, bound, at

P == INSTANCE PointOps WITH task <- formula, pc <- at

ASSUME CurveAssumption == P!CurveParameters

MCYs == 0 .. 31

Corners == {0, 5461, 32767, 32768, 65535}

MCBaseScalars == 0 .. 2 ^ 15 - 1
MCScalarPairs == ({13 * n : n \in 0 .. 5041} \cup 65472 .. 65535) \X {0}
                 \cup Corners \X Corners

formulaVars == <<formula, code, val, bound, at>>

FormulaIdle == formula = Idle /\ code = <<>> /\ val = <<>> /\ bound = <<>> /\ at = Idle
LadderIdle  == /\ task = Idle /\ pc = Idle /\ e = <<>> /\ slides = <<>> /\ h = <<>>
               /\ carry = 0 /\ w = 0 /\ b = 0 /\ k = 0 /\ i = 0

MCInit ==
  \/ machine = "multiplication" /\ Init   /\ FormulaIdle
  \/ machine = "formula"        /\ P!Init /\ LadderIdle

MCNext ==
  /\ UNCHANGED machine
  /\ \/ machine = "multiplication" /\ Next   /\ UNCHANGED formulaVars
     \/ machine = "formula"        /\ P!Next /\ UNCHANGED vars

MCSpec == MCInit /\ [][MCNext]_<<machine, formulaVars, vars>>

-----------------------------------------------------------------------------

\* FormulasComplete of PointOps: the formulas compute the addition law for
\* every pair of points and every scaling.
FormulasComplete == machine = "formula" => P!FormulasComplete

\* DecodesExactly of PointOps: decoding finds the point of a string, or none
\* where there is none; encoding gives the coordinates back.
DecodesExactly == machine = "formula" => P!DecodesExactly

\* LimbsBounded of PointOps: no multiplication, zero test or encoding is
\* given larger limbs than fe.c allows.
LimbsBounded == machine = "formula" => P!LimbsBounded

\* DocumentedSums of PointOps: no sum or difference is, either.  (Violated.)
DocumentedSums == machine = "formula" => P!DocumentedSums
=============================================================================
