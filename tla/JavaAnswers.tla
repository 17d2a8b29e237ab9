---------------------------- MODULE JavaAnswers ----------------------------
(***************************************************************************)
(* What the Java provider computes from the bytes it is given: its key     *)
(* specifications, the engine's signature and verdict, and how each        *)
(* operation ends.                                                         *)
(***************************************************************************)
EXTENDS ProviderCalls

CONSTANT Slide \* the value of the digits slide finds for a Word

\* slide drops a carry out of its 256 digits, which no scalar below 2^255 has.
ASSUME SlideAssumption ==
  /\ Slide \in [Word -> Int]
  /\ \A w \in Word : Slide[w] \in {w, w - 4 * Top}
  /\ \A w \in 0 .. 2 * Top - 1 : Slide[w] = w

-----------------------------------------------------------------------------
(* EdDSAPrivateKeySpec and EdDSAPublicKeySpec. *)

\* The scalar, the rest of the hash, and the public point of a seed.
PrivateKeySpec(seed) ==
  LET h == Sha512(<<seed>>)
      a == ClampSign(LowHalf(h))
  IN  [a |-> a, prefix |-> HighHalf(h), A |-> ge_scalarmult_base(a)]

\* The point of a 32-byte string; a and prefix are not there.
PublicKeySpec(pk) == [a |-> 0, prefix |-> 0, A |-> DecodePoint[pk]]

\* Mutant of Verified: A is not negated.
VerifiedPositive(A, sig, msg) ==
  EncodePoint[ge_double_scalarmult_vartime(
     Challenge(sig[1], EncodePoint[A], msg), A, Slide[sig[2]])] = sig[1]

\* The engine's verify: the key is hashed as the engine encodes its point,
\* and S is whatever the 32 bytes hold.
Verified(A, sig, msg) ==
  EncodePoint[ge_double_scalarmult_vartime(
     Challenge(sig[1], EncodePoint[A], msg), Negate(A), Slide[sig[2]])] = sig[1]

\* What a call with these bytes returns or throws.
Outcome(o, strings) ==
  IF ~WellSized(o, strings) THEN Raised("ArgumentError")
  ELSE IF o = "create_keypair" THEN String(Keypair(strings[1][1]))
  ELSE IF o = "sign"
  THEN String(Signature(Keypair(strings[1][1]), strings[2]))
  ELSE IF DecodePoint[strings[1][1]] = NoPoint
  THEN Raised("IllegalArgumentException")
  ELSE Truth(Verified(DecodePoint[strings[1][1]], strings[2], strings[3]))

(***************************************************************************)
(* Where the two providers answer alike: a keypair is that of its seed; a  *)
(* verify key is the one encoding of a point, and S is below the bound     *)
(* that the C provider puts on it.  Strings of the wrong length count too. *)
(***************************************************************************)
Interchangeable(call) ==
  LET strings == call.args
  IN  /\ call.op = "sign" /\ Len(strings[1]) = 2 =>
           strings[1] = Keypair(strings[1][1])
      /\ call.op = "verify" /\ Len(strings[1]) = 1 /\ Len(strings[2]) = 2 =>
           LET pk == strings[1][1]
           IN  /\ DecodePoint[pk] # NoPoint /\ EncodePoint[DecodePoint[pk]] = pk
               /\ 2 * strings[2][2] < Top
=============================================================================
