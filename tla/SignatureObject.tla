-------------------------- MODULE SignatureObject --------------------------
(***************************************************************************)
(* What a java.security.Signature object promises a caller that follows    *)
(* the rules in EdDSAEngine's class comment.  It is in a mode with a key,  *)
(* it holds the message given so far, and sign and verify take that        *)
(* message and start over.  In one-shot mode the message is a caller's     *)
(* array, read when sign or verify runs.                                   *)
(***************************************************************************)
EXTENDS Signing

VARIABLES
  mode,    \* "UNINITIALIZED", "SIGN" or "VERIFY"
  pair,    \* the pair of the key in use
  given,   \* the message so far
  arrays,  \* what the caller's arrays hold
  out      \* how the last call ended

vars == <<mode, pair, given, arrays, out>>

Text == IF given[1] = "reference" THEN arrays[given[2]] ELSE given[2]

Init ==
  /\ mode = "UNINITIALIZED" /\ pair = NoPair /\ given = Value(<<>>)
  /\ arrays \in [Arrays -> Seq(Byte)]
  /\ out = Ended("new", "ok")

\* initSign or initVerify with a key the engine can use...
Initialise(call, to, k) ==
  /\ mode' = to /\ pair' = k /\ given' = Value(<<>>)
  /\ out' = Ended(call, "ok")
  /\ UNCHANGED arrays

\* ... and with one it cannot, after which it has to be initialised again.
Reject(call) ==
  /\ mode' = "UNINITIALIZED" /\ pair' = NoPair /\ given' = Value(<<>>)
  /\ out' = Ended(call, "InvalidKeyException")
  /\ UNCHANGED arrays

Refuse(call, exception) ==
  /\ out' = Ended(call, exception)
  /\ UNCHANGED <<mode, pair, given, arrays>>

UpdateByte(b) ==
  \/ /\ mode # "UNINITIALIZED" /\ given[1] = "value"
     /\ given' = Value(given[2] \o <<b>>)
     /\ out' = Ended("update", "ok")
     /\ UNCHANGED <<mode, pair, arrays>>
  \/ /\ mode = "UNINITIALIZED" \/ given[1] # "value"
     /\ Refuse("update", "SignatureException")

Update(a) ==
  \/ /\ mode # "UNINITIALIZED" /\ given[1] # "reference"
     /\ given' = IF given = Awaited THEN Reference(a)
                 ELSE Value(given[2] \o arrays[a])
     /\ out' = Ended("update", "ok")
     /\ UNCHANGED <<mode, pair, arrays>>
  \/ /\ mode = "UNINITIALIZED" \/ given[1] = "reference"
     /\ Refuse("update", "SignatureException")

\* Whatever sign or verify did with the message, it starts over.
Complete(result) ==
  /\ given' = Value(<<>>)
  /\ out' = result
  /\ UNCHANGED <<mode, pair, arrays>>

Sign ==
  \/ /\ mode = "SIGN" /\ given # Awaited
     /\ Complete(Returned("sign", Genuine(pair, Text)))
  \/ /\ mode = "SIGN" /\ given = Awaited
     /\ Complete(Ended("sign", "SignatureException"))
  \/ mode # "SIGN" /\ Refuse("sign", "SignatureException")

Accepts(sig, msg) == Matches(sig, pair, Algorithm[pair], <<>>, msg)

Verify(sig) ==
  \/ /\ mode = "VERIFY" /\ given # Awaited /\ sig # Truncated
     /\ Complete(Answer("verify", Accepts(sig, Text)))
  \/ /\ mode = "VERIFY" /\ (given = Awaited \/ sig = Truncated)
     /\ Complete(Ended("verify", "SignatureException"))
  \/ mode # "VERIFY" /\ Refuse("verify", "SignatureException")

SetParameter ==
  \/ /\ given \in {Value(<<>>), Awaited}
     /\ given' = Awaited /\ out' = Ended("setParameter", "ok")
     /\ UNCHANGED <<mode, pair, arrays>>
  \/ /\ given \notin {Value(<<>>), Awaited}
     /\ Refuse("setParameter", "InvalidAlgorithmParameterException")
  \/ Refuse("setParameter", "UnsupportedOperationException")

SignOneShot(a) ==
  /\ mode = "SIGN" /\ given \in {Value(<<>>), Awaited}
  /\ Complete(Returned("signOneShot", Genuine(pair, arrays[a])))

VerifyOneShot(a, sig) ==
  /\ mode = "VERIFY" /\ given \in {Value(<<>>), Awaited}
  /\ Complete(IF sig = Truncated THEN Ended("verifyOneShot", "SignatureException")
              ELSE Answer("verifyOneShot", Accepts(sig, arrays[a])))

\* The caller's arrays are the caller's.
Write ==
  /\ arrays' \in [Arrays -> Seq(Byte)]
  /\ UNCHANGED <<mode, pair, given, out>>

Next ==
  \/ \E k \in Pairs : Initialise("initSign", "SIGN", k)
  \/ \E k \in Pairs : Initialise("initVerify", "VERIFY", k)
  \/ Reject("initSign") \/ Reject("initVerify")
  \/ \E b \in Byte : UpdateByte(b)
  \/ \E a \in Arrays : Update(a) \/ SignOneShot(a)
  \/ Sign \/ SetParameter \/ Write
  \/ \E sig \in Signatures : Verify(sig) \/ (\E a \in Arrays : VerifyOneShot(a, sig))

Spec == Init /\ [][Next]_vars
=============================================================================
