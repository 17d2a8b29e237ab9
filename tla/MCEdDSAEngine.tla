-------------------------- MODULE MCEdDSAEngine --------------------------
(***************************************************************************)
(* Three key pairs: the hash algorithms of p and q exist, that of `other`  *)
(* does not.  Two arrays, and messages of at most one byte.                *)
(***************************************************************************)
EXTENDS EdDSAEngine, TLC

CONSTANTS p, q, other, b, c

MCAlgorithm  == p :> "SHA-512" @@ q :> "SHA-256" @@ other :> "unknown"
MCMessages   == {<<>>, <<b>>}
MCSignatures == {Genuine(k, msg) : k \in {p, q}, msg \in {<<b>>, <<c>>}} \cup {Truncated}
=============================================================================
