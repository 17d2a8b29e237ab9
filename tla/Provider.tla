------------------------------ MODULE Provider ------------------------------
(***************************************************************************)
(* What an Ed25519 provider promises its callers, whatever language it is  *)
(* written in: every call is answered as the scheme prescribes for the     *)
(* strings it was given, or it raises.  The only state is the record of    *)
(* the calls completed so far; a call takes effect when it returns.        *)
(***************************************************************************)
EXTENDS ProviderCalls

VARIABLE log   \* the completed calls: operation, arguments, result

-----------------------------------------------------------------------------

Init == log = {}

Complete == \E call \in log' \ log : Answered(call) /\ log' = log \cup {call}

Spec == Init /\ [][Complete]_log

-----------------------------------------------------------------------------

(***************************************************************************)
(* A signature made with a keypair of create_keypair verifies under its    *)
(* public half on the same message, whatever calls came between (unless    *)
(* verification ran out of memory).                                        *)
(***************************************************************************)
RoundTrip ==
  \A c, s, v \in log :
    Chain(c, s, v) => v.res.status \in {"true", "NoMemoryError"}

(***************************************************************************)
(* README.md: the same key "will always generate the same signature for    *)
(* the same data".  More generally, two calls given the same strings       *)
(* never return different values.                                          *)
(***************************************************************************)
Deterministic ==
  \A c, d \in log :
    /\ c.op = d.op /\ c.args = d.args
    /\ "NoMemoryError" \notin {c.res.status, d.res.status}
    => c.res = d.res
=============================================================================
