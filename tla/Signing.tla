------------------------------ MODULE Signing ------------------------------
(***************************************************************************)
(* Keys, digests and signatures as symbols, for the models of the Java     *)
(* signature object.  A hash is its algorithm and the sequence it          *)
(* absorbed, so two hashes are equal only when everything fed to them was. *)
(* A signature is what determines its two halves: the pair whose scalar a  *)
(* it used, the nonce r behind R, and the hash that multiplied a.          *)
(***************************************************************************)
EXTENDS Sequences

CONSTANTS
  Pairs,       \* the EdDSA key pairs
  Algorithm,   \* pair -> the hash algorithm its parameters name
  Byte,        \* the bytes of messages
  Arrays,      \* byte arrays of the caller
  NoPair, NoArray, NoSignature,
  Signatures,  \* what callers present for verification
  Truncated    \* a signature of the wrong length

ASSUME NamesAssumption == NoPair \notin Pairs /\ NoArray \notin Arrays

\* h_b,...,h_2b-1 and the encoded public key of a pair, and R = rB encoded.
Prefix(k)      == <<"prefix", k>>
PublicBytes(k) == <<"A", k>>
Commitment(r)  == <<"R", r>>

Hash(alg, s) == <<alg, s>>

\* The signature made when the digest held `primed` before the message.
Signed(k, alg, primed, msg) ==
  LET r == Hash(alg, primed \o msg)
  IN  [pair      |-> k,
       nonce     |-> r,
       challenge |-> Hash(alg, <<Commitment(r), PublicBytes(k)>> \o msg)]

\* sig is accepted when the digest held `left` before R was put into it: no
\* other key or hash gives back R.
Matches(sig, k, alg, left, msg) ==
  /\ sig.pair = k
  /\ sig.challenge =
       Hash(alg, left \o <<Commitment(sig.nonce), PublicBytes(k)>> \o msg)

\* r = H(h_b,...,h_2b-1,M): the signature of msg under k.
Genuine(k, msg) == Signed(k, Algorithm[k], <<Prefix(k)>>, msg)

\* How a call ended: "ok", "true", "false" or an exception.
Ended(call, status)   == [call |-> call, status |-> status, signature |-> NoSignature]
Returned(call, sig)   == [call |-> call, status |-> "ok", signature |-> sig]
Answer(call, b)       == Ended(call, IF b THEN "true" ELSE "false")
\* The message so far: bytes, or an array, or an array yet to be given.
Value(s)     == <<"value", s>>
Reference(a) == <<"reference", a>>
Awaited      == <<"awaited", NoArray>>
=============================================================================
