------------------------------- MODULE EdDSA -------------------------------
(***************************************************************************)
(* The vocabulary shared by the models of the two providers: what the     *)
(* scalar, point and hash primitives compute, and the Ed25519 answers      *)
(* built from them.                                                        *)
(*                                                                         *)
(* A Word is the value of a 32-byte little-endian string; every string a  *)
(* provider handles is a sequence of Words.  Top stands for 2^254, so a    *)
(* Word is below 4*Top.  The curve group is cyclic of order 8*L (L is the  *)
(* prime order of the base point B, 8 the cofactor), so a point is its     *)
(* logarithm to a generator G with B = 8 G: adding points is adding        *)
(* logarithms modulo 8*L.                                                  *)
(***************************************************************************)
EXTENDS Integers, Sequences

CONSTANTS
  L,          \* order of the base point
  Top,        \* 2^254: the bit that clamping sets
  H(_),       \* SHA-512 of a sequence of Words, as a little-endian integer
  EncodePoint,\* point -> the Word that ge_tobytes writes for it
  DecodePoint,\* Word -> the point it denotes, NoPoint if it denotes none
  NoPoint

Word  == 0 .. 4 * Top - 1
Point == 0 .. 8 * L - 1

ASSUME ParamsAssumption ==
  /\ L \in Nat \ {0}
  /\ Top \in Nat \ {0}
  /\ Top % 8 = 0
  /\ 2 * L <= Top               \* l < 2^253

ASSUME EncodingAssumption ==
  /\ EncodePoint \in [Point -> Word]
  /\ DecodePoint \in [Word -> Point \cup {NoPoint}]
  /\ NoPoint \notin Point
  /\ \A P \in Point : DecodePoint[EncodePoint[P]] = P

-----------------------------------------------------------------------------
(* Primitives. *)

\* A digest is 64 bytes, that is two Words.
Digest == 0 .. 4 * Top * (4 * Top) - 1

\* crypto_hash_sha512; total, so that no assumption about H is needed.
Sha512(s) == IF H(s) \in Digest THEN H(s) ELSE 0

LowHalf(d)  == d % (4 * Top)
HighHalf(d) == d \div (4 * Top)

\* Mutant of ClampKeypair: byte 31 is not masked with 127.
ClampKeypairHigh(w) ==
  LET cleared == w - (w % 8)
  IN  IF cleared % (2 * Top) >= Top THEN cleared ELSE cleared + Top

\* sk[0] &= 248; sk[31] &= 127; sk[31] |= 64
ClampKeypair(w) ==
  LET cleared == (w - (w % 8)) % (2 * Top)
  IN  IF cleared >= Top THEN cleared ELSE cleared + Top

\* Mutant of ClampSign: byte 0 is not masked with 248.
ClampSignLow(w) == (w % Top) + Top

\* az[0] &= 248; az[31] &= 63; az[31] |= 64
ClampSign(w) == ((w - (w % 8)) % Top) + Top

sc_reduce(d) == d % L

sc_muladd(a, b, c) == (a * b + c) % L

\* a * B, and a * A + b * B
ge_scalarmult_base(a)                   == (8 * a) % (8 * L)
ge_double_scalarmult_vartime(a, A, b)   == (a * A + 8 * b) % (8 * L)
Negate(P)                               == (8 * L - P) % (8 * L)

-----------------------------------------------------------------------------
(* What a provider answers. *)

\* The keypair of a seed: the seed followed by the encoded public point.
Keypair(seed) ==
  LET a == ClampKeypair(LowHalf(Sha512(<<seed>>)))
  IN  <<seed, EncodePoint[ge_scalarmult_base(a)]>>

\* The scalar and the nonce of a keypair's first half, and the hash of R,
\* the public key and the message.
SecretScalar(seed)    == ClampSign(LowHalf(Sha512(<<seed>>)))
Nonce(seed, msg)      == sc_reduce(Sha512(<<HighHalf(Sha512(<<seed>>))>> \o msg))
Commitment(r)         == EncodePoint[ge_scalarmult_base(r)]
Challenge(R, pk, msg) == sc_reduce(Sha512(<<R, pk>> \o msg))

\* The signature under scalar a and nonce r, for public key pk.
Respond(a, r, pk, msg) ==
  LET R == Commitment(r)
  IN  <<R, sc_muladd(Challenge(R, pk, msg), a, r)>>

Signature(keypair, msg) ==
  Respond(SecretScalar(keypair[1]), Nonce(keypair[1], msg), keypair[2], msg)

\* The encoding of h (-A) + S B, which should be R's.
Recomputed(pk, sig, msg) ==
  EncodePoint[ge_double_scalarmult_vartime(Challenge(sig[1], pk, msg),
                                           Negate(DecodePoint[pk]), sig[2])]

Accepts(pk, sig, msg) ==
  /\ 2 * sig[2] < Top
  /\ DecodePoint[pk] # NoPoint
  /\ Recomputed(pk, sig, msg) = sig[1]
=============================================================================
