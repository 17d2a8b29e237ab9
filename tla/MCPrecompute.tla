---------------------------- MODULE MCPrecompute ----------------------------
(***************************************************************************)
(* Two threads; the base point, one more element, and one that is not in   *)
(* P3 representation; tables of two entries.                               *)
(***************************************************************************)
EXTENDS Precompute

CONSTANTS t1, t2, B, Q, R

MCThreads == {t1, t2}
MCElements == {B, Q}
MCOthers == {R}
=============================================================================
