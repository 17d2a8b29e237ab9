-------------------------- MODULE JavaScalarWidths --------------------------
(***************************************************************************)
(* reduce and multiplyAndAdd of Ed25519ScalarOps.java with the widths they *)
(* have, step by step beside sc_reduce and sc_muladd.  The loads and the   *)
(* passes are the same, but Java does not clear a limb after its fold      *)
(* ("not used again"); where such a limb is needed again ("set below"),    *)
(* and for s23, a carry sets it that C adds.                               *)
(***************************************************************************)
EXTENDS ScalarWidths

VARIABLES
  java,  \* s0 ... s23 of the Java method
  dead   \* the limbs of java that were never set, or not since their fold

javaVars == <<scalarVars, java, dead>>

-----------------------------------------------------------------------------

\* s23 = carry22; and, twice, s12 = carry11; in pass n, out of limb k.
Sets(n, k) == <<n, k>> \in {<<1, 22>>, <<8, 11>>, <<10, 11>>}

\* s11 += s23 * 666643; ... s16 -= s23 * 683901; //s23 = 0;
JavaFolded(x, k) == [Folded(x, k) EXCEPT ![k] = x[k]]

\* s7 += carry6; s6 -= carry6 << 21; or s12 = carry11; s11 -= carry11 << 21;
JavaCarried(x, k, carry) ==
  [x EXCEPT ![k] = x[k] - Radix * carry,
            ![k + 1] = IF Sets(pass, k) THEN carry ELSE x[k + 1] + carry]

JavaInit == ScalarInit /\ java \in [Places -> Int64] /\ dead = Places

\* multiplyAndAdd leaves s23 unset.
JavaLoad ==
  /\ Load
  /\ dead' = IF reduction.fn = "sc_muladd" THEN {23} ELSE {}
  /\ \E unset \in Int64 :
       java' = [k \in Places |-> IF k \in dead' THEN unset ELSE limb'[k]]

JavaFold == Fold /\ java' = JavaFolded(java, at) /\ dead' = dead \cup {at}

JavaRound ==
  RoundCarry /\ java' = JavaCarried(java, at, Rounded21(java[at])) /\ dead' = dead \ {at + 1}

JavaFloor ==
  FloorCarry /\ java' = JavaCarried(java, at, Floored21(java[at])) /\ dead' = dead \ {at + 1}

JavaNext == JavaLoad \/ JavaFold \/ JavaRound \/ JavaFloor

JavaSpec == JavaInit /\ [][JavaNext]_javaVars

-----------------------------------------------------------------------------

(***************************************************************************)
(* "not used again", "set below": no step folds or carries a limb that is  *)
(* dead or adds to one, and the carries that set a limb lose nothing: they *)
(* are those into dead limbs.                                              *)
(***************************************************************************)
NoStaleLimb ==
  pass \in 1 .. 12 =>
    /\ at \notin dead
    /\ IF Passes[pass].op = "fold" THEN \A n \in 1 .. 6 : at + n - 13 \notin dead
       ELSE Sets(pass, at) <=> at + 1 \in dead

(***************************************************************************)
(* The limbs in use are those of the C function.                           *)
(***************************************************************************)
FollowsC == \A k \in Places \ dead : java[k] = limb[k]

(***************************************************************************)
(* No long overflows, in the limbs or on the way to them.                  *)
(***************************************************************************)
JavaFits ==
  /\ java \in [Places -> Int64]
  /\ pass \in 1 .. 12 =>
       CASE Passes[pass].op = "fold" ->
              \A n \in 1 .. 6 : {java[at] * Magnitude(Coefs[n]),
                                 java[at + n - 13] + java[at] * Coefs[n]} \subseteq Int64
         [] Passes[pass].op = "round" ->
              {java[at] + Half, Radix * Rounded21(java[at])} \subseteq Int64
         [] Passes[pass].op = "floor" -> Radix * Floored21(java[at]) \in Int64

(***************************************************************************)
(* "s mod q" and "(a*b+c) mod q": the twelve limbs that are packed are the *)
(* representative below L, and do not overlap when they are packed.        *)
(***************************************************************************)
JavaReduced ==
  pass = 13 =>
    /\ Number12(java, 0, 0) = Meant % L
    /\ \A k \in 0 .. 10 : java[k] \in 0 .. Radix - 1
    /\ java[11] \in 0 .. Radix
=============================================================================
