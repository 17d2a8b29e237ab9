------------------------------- MODULE Inputs -------------------------------
(***************************************************************************)
(* The strings that callers give to a provider, besides those that its own *)
(* calls return.                                                           *)
(***************************************************************************)
EXTENDS EdDSA

CONSTANTS
  Seeds,     \* 32-byte strings callers make keypairs from
  Messages,  \* messages
  Strays,    \* strings of other lengths, or that no call returned
  MaxCalls   \* bound on the completed calls remembered

ASSUME InputsAssumption ==
  /\ Seeds \cup Messages \cup Strays \subseteq Seq(Word)
  /\ \A s \in Seeds : Len(s) = 1
=============================================================================
