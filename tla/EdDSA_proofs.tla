---------------------------- MODULE EdDSA_proofs ----------------------------
(***************************************************************************)
(* Facts about the vocabulary of EdDSA, that a signature verifies, and     *)
(* that the Java provider's keys, signatures and verdicts are those of the *)
(* scheme for a seed's own keypair.                                        *)
(***************************************************************************)
EXTENDS JavaAnswers, TLAPS

-----------------------------------------------------------------------------
(* Division with remainder. *)

(***************************************************************************)
(* A remainder is below its modulus.                                       *)
(***************************************************************************)
LEMMA ModRange == ASSUME NEW x \in Int, NEW n \in Nat \ {0} PROVE (x % n) \in 0 .. n - 1
  OBVIOUS

(***************************************************************************)
(* Quotient and remainder are unique.                                      *)
(***************************************************************************)
LEMMA ModUnique ==
  ASSUME NEW x \in Int, NEW n \in Nat \ {0}, NEW q \in Int, NEW r \in 0 .. n - 1,
         x = q * n + r
  PROVE  (x % n) = r
  OBVIOUS

(***************************************************************************)
(* A number differs from its remainder by a multiple of the modulus.       *)
(***************************************************************************)
LEMMA ModQuotient ==
  ASSUME NEW x \in Int, NEW n \in Nat \ {0}
  PROVE  \E q \in Int : x = q * n + (x % n)
  <1>1. (x \div n) \in Int
    OBVIOUS
  <1>2. x = (x \div n) * n + (x % n)
    OBVIOUS
  <1> QED  BY <1>1, <1>2

(***************************************************************************)
(* Adding a multiple of the modulus leaves the remainder alone.            *)
(***************************************************************************)
LEMMA ModShift ==
  ASSUME NEW x \in Int, NEW n \in Nat \ {0}, NEW k \in Int
  PROVE  (x + k * n) % n = x % n
  <1>1. PICK q \in Int : x = q * n + (x % n)
    BY ModQuotient
  <1>2. x + k * n = (q + k) * n + (x % n)
    BY <1>1
  <1>3. (x % n) \in 0 .. n - 1
    BY ModRange
  <1>4. x + k * n \in Int /\ q + k \in Int
    OBVIOUS
  <1> QED  BY <1>2, <1>3, <1>4, ModUnique

-----------------------------------------------------------------------------
(* Ranges. *)

(***************************************************************************)
(* keypair.c and sign.c clamp a hash differently (one masks byte 31 with   *)
(* 127, the other with 63), but to the same scalar.                        *)
(***************************************************************************)
LEMMA ClampsAgree == ASSUME NEW w \in Word PROVE ClampKeypair(w) = ClampSign(w)
  BY ParamsAssumption DEF Word, ClampKeypair, ClampSign

(***************************************************************************)
(* A clamped Word satisfies the precondition of ge_scalarmult_base.        *)
(***************************************************************************)
LEMMA ClampRange ==
  ASSUME NEW w \in Word
  PROVE  ClampSign(w) \in Word /\ ClampSign(w) < 2 * Top
  BY ParamsAssumption DEF Word, ClampSign

(***************************************************************************)
(* Both halves of a digest are Words.                                      *)
(***************************************************************************)
LEMMA DigestHalves ==
  ASSUME NEW d \in Digest
  PROVE  LowHalf(d) \in Word /\ HighHalf(d) \in Word
  <1> DEFINE W == 4 * Top
             q == d \div W
  <1>1. W \in Nat \ {0}
    BY ParamsAssumption
  <1>2. d \in Nat /\ d < W * W
    BY <1>1 DEF Digest
  <1>3. d = q * W + (d % W) /\ (d % W) \in 0 .. W - 1 /\ q \in Int
    BY <1>1, <1>2
  <1> HIDE DEF W, q
  <1>4. ASSUME q - W \in Nat PROVE FALSE
    <2>1. (q - W) * W \in Nat
      BY <1>1, <1>4
    <2>2. q * W = (q - W) * W + W * W
      BY <1>1, <1>3
    <2> QED  BY <2>1, <2>2, <1>1, <1>2, <1>3
  <1>5. ASSUME -q - 1 \in Nat PROVE FALSE
    <2>1. (-q - 1) * W \in Nat
      BY <1>1, <1>5
    <2>2. q * W = -((-q - 1) * W) - W
      BY <1>1, <1>3
    <2> QED  BY <2>1, <2>2, <1>1, <1>2, <1>3
  <1>6. q \in 0 .. W - 1
    BY <1>1, <1>3, <1>4, <1>5
  <1> QED  BY <1>3, <1>6 DEF LowHalf, HighHalf, Word, W, q

(***************************************************************************)
(* A digest is in range, and so is what sc_reduce makes of it: below l,    *)
(* hence below the bound of every scalar multiplication.                   *)
(***************************************************************************)
LEMMA DigestRange ==
  ASSUME NEW s
  PROVE  /\ Sha512(s) \in Digest
         /\ sc_reduce(Sha512(s)) \in 0 .. L - 1
  <1>1. 4 * Top * (4 * Top) \in Nat \ {0}
    BY ParamsAssumption
  <1>2. Sha512(s) \in Digest
    BY <1>1 DEF Sha512, Digest
  <1>3. Sha512(s) \in Int
    BY <1>1, <1>2 DEF Digest
  <1>4. (Sha512(s) % L) \in 0 .. L - 1
    BY <1>3, ModRange, ParamsAssumption
  <1> QED  BY <1>2, <1>4 DEF sc_reduce

(***************************************************************************)
(* A reduced scalar is a Word that passes the check of S in open.c.        *)
(***************************************************************************)
LEMMA ReducedRange ==
  ASSUME NEW a \in 0 .. L - 1 PROVE a \in Word /\ 2 * a < Top
  BY ParamsAssumption DEF Word

(***************************************************************************)
(* Scalar multiplication and negation give points, muladd a reduced scalar.*)
(***************************************************************************)
LEMMA PointRange ==
  /\ \A a \in Int : ge_scalarmult_base(a) \in Point
  /\ \A Q \in Point : Negate(Q) \in Point
  /\ \A a, b \in Int : \A Q \in Point :
       ge_double_scalarmult_vartime(a, Q, b) \in Point
  /\ \A a, b, c \in Int : sc_muladd(a, b, c) \in 0 .. L - 1
  <1>1. 8 * L \in Nat \ {0} /\ L \in Nat \ {0} /\ Point \subseteq Int
    BY ParamsAssumption DEF Point
  <1>2. ASSUME NEW a \in Int PROVE ge_scalarmult_base(a) \in Point
    <2>1. 8 * a \in Int
      OBVIOUS
    <2> QED  BY <2>1, <1>1, ModRange DEF ge_scalarmult_base, Point
  <1>3. ASSUME NEW Q \in Point PROVE Negate(Q) \in Point
    <2>1. 8 * L - Q \in Int
      BY <1>1
    <2> QED  BY <2>1, <1>1, ModRange DEF Negate, Point
  <1>4. ASSUME NEW a \in Int, NEW b \in Int, NEW Q \in Point
        PROVE  ge_double_scalarmult_vartime(a, Q, b) \in Point
    <2>1. a * Q + 8 * b \in Int
      BY <1>1
    <2> QED  BY <2>1, <1>1, ModRange DEF ge_double_scalarmult_vartime, Point
  <1>5. ASSUME NEW a \in Int, NEW b \in Int, NEW c \in Int
        PROVE  sc_muladd(a, b, c) \in 0 .. L - 1
    <2>1. a * b + c \in Int
      OBVIOUS
    <2> QED  BY <2>1, <1>1, ModRange DEF sc_muladd
  <1> QED  BY <1>2, <1>3, <1>4, <1>5

-----------------------------------------------------------------------------
(* Verifying what was signed. *)

(***************************************************************************)
(* The verification equation.  With A = a B and S = h a + r modulo l, the  *)
(* point h (-A) + S B that open.c recomputes is the r B that sign.c wrote. *)
(***************************************************************************)
LEMMA VerificationEquation ==
  ASSUME NEW a \in Nat, NEW h \in Nat, NEW r \in Nat
  PROVE  ge_double_scalarmult_vartime(h, Negate(ge_scalarmult_base(a)),
                                      sc_muladd(h, a, r))
           = ge_scalarmult_base(r)
  <1> DEFINE n == 8 * L
             A == ge_scalarmult_base(a)
             M == Negate(A)
             S == sc_muladd(h, a, r)
  <1>1. n \in Nat \ {0} /\ L \in Nat \ {0}
    BY ParamsAssumption
  <1>2. A \in Int /\ M \in Int /\ S \in Int
    <2>1. a \in Int /\ h \in Int /\ r \in Int
      OBVIOUS
    <2>2. A \in Point /\ M \in Point /\ S \in 0 .. L - 1
      BY <2>1, PointRange
    <2> QED  BY <2>2, <1>1 DEF Point
  <1>3. PICK i \in Int : 8 * a = i * n + A
    <2> 8 * a \in Int
      OBVIOUS
    <2> QED  BY <1>1, ModQuotient DEF ge_scalarmult_base
  <1>4. PICK j \in Int : n - A = j * n + M
    <2> n - A \in Int
      BY <1>1, <1>2
    <2> QED  BY <1>1, <1>2, ModQuotient DEF Negate
  <1>5. PICK k \in Int : h * a + r = k * L + S
    <2> h * a + r \in Int
      OBVIOUS
    <2> QED  BY <1>1, <1>2, ModQuotient DEF sc_muladd
  <1>6. h * M + 8 * S = 8 * r + (h * (1 - j + i) - k) * n
    <2> HIDE DEF A, M, S
    <2>1. M = (1 - j + i) * n - 8 * a
      BY <1>1, <1>2, <1>3, <1>4
    <2>2. h * M = h * ((1 - j + i) * n) - h * (8 * a)
      BY <2>1, <1>1, <1>2
    <2>3. 8 * S = 8 * (h * a) + 8 * r - k * n
      BY <1>1, <1>2, <1>5
    <2>4. h * ((1 - j + i) * n) = (h * (1 - j + i)) * n
      BY <1>1
    <2>5. h * (8 * a) = 8 * (h * a)
      OBVIOUS
    <2>6. (h * (1 - j + i) - k) * n = (h * (1 - j + i)) * n - k * n
      BY <1>1
    <2> QED  BY <2>2, <2>3, <2>4, <2>5, <2>6, <1>1, <1>2
  <1>7. 8 * r \in Int /\ h * (1 - j + i) - k \in Int
    OBVIOUS
  <1>8. (8 * r + (h * (1 - j + i) - k) * n) % n = (8 * r) % n
    BY <1>1, <1>7, ModShift
  <1> QED  BY <1>6, <1>8 DEF ge_double_scalarmult_vartime, ge_scalarmult_base

(***************************************************************************)
(* Keypairs and signatures are pairs of Words, whatever they are made of.  *)
(***************************************************************************)
LEMMA PairsOfWords ==
  /\ \A seed \in Word : Keypair(seed) \in Word \X Word
  /\ \A k, msg : Signature(k, msg) \in Word \X Word
  <1>1. Point \subseteq Int /\ Word \subseteq Int /\ EncodePoint \in [Point -> Word]
    BY ParamsAssumption, EncodingAssumption DEF Point, Word
  <1>2. ASSUME NEW seed \in Word PROVE Keypair(seed) \in Word \X Word
    <2> DEFINE a == ClampKeypair(LowHalf(Sha512(<<seed>>)))
    <2>1. a \in Int
      <3>1. LowHalf(Sha512(<<seed>>)) \in Word
        BY DigestRange, DigestHalves
      <3>2. a \in Word
        BY <3>1, ClampsAgree, ClampRange
      <3> QED  BY <3>2, <1>1
    <2>2. EncodePoint[ge_scalarmult_base(a)] \in Word
      BY <2>1, <1>1, PointRange
    <2> QED  BY <2>2 DEF Keypair
  <1>3. ASSUME NEW k, NEW msg
        PROVE  Signature(k, msg) \in Word \X Word
    <2> DEFINE a == SecretScalar(k[1])
               r == Nonce(k[1], msg)
               R == Commitment(r)
               h == Challenge(R, k[2], msg)
    <2>1. a \in Int
      <3>1. LowHalf(Sha512(<<k[1]>>)) \in Word
        BY DigestRange, DigestHalves
      <3>2. a \in Word
        BY <3>1, ClampRange DEF SecretScalar
      <3> QED  BY <3>2, <1>1
    <2>2. r \in Int /\ h \in Int
      BY DigestRange, ParamsAssumption DEF Nonce, Challenge
    <2>3. R \in Word
      BY <2>2, <1>1, PointRange DEF Commitment
    <2>4. sc_muladd(h, a, r) \in Word
      BY <2>1, <2>2, PointRange, ReducedRange
    <2>5. Signature(k, msg) = <<R, sc_muladd(h, a, r)>>
      BY DEF Signature, Respond
    <2> QED  BY <2>3, <2>4, <2>5
  <1> QED  BY <1>2, <1>3

(***************************************************************************)
(* What the provider signs with a keypair of its own, it accepts under     *)
(* that keypair's public half: the scalars of keypair.c and sign.c agree,  *)
(* S passes the range check and the equation gives back R.                 *)
(***************************************************************************)
THEOREM SignatureVerifies ==
  ASSUME NEW seed \in Word, NEW msg
  PROVE  Accepts(Keypair(seed)[2], Signature(Keypair(seed), msg), msg)
  <1> DEFINE a == SecretScalar(seed)
             A == ge_scalarmult_base(a)
             pk == EncodePoint[A]
             r == Nonce(seed, msg)
             R == Commitment(r)
             h == Challenge(R, pk, msg)
             S == sc_muladd(h, a, r)
  <1>1. a \in Nat /\ a = ClampKeypair(LowHalf(Sha512(<<seed>>)))
    <2>1. LowHalf(Sha512(<<seed>>)) \in Word
      BY DigestRange, DigestHalves
    <2> QED  BY <2>1, ClampsAgree, ClampRange, ParamsAssumption DEF Word, SecretScalar
  <1>2. r \in Nat /\ h \in Nat
    BY DigestRange, ParamsAssumption DEF Nonce, Challenge
  <1>3. Keypair(seed) = <<seed, pk>>
    BY <1>1 DEF Keypair
  <1>4. Signature(Keypair(seed), msg) = <<R, S>>
    BY <1>3 DEF Signature, Respond
  <1> HIDE DEF a, r, h
  <1>5. 2 * S < Top
    <2>1. a \in Int /\ h \in Int /\ r \in Int
      BY <1>1, <1>2
    <2>2. S \in 0 .. L - 1
      BY <2>1, PointRange
    <2> QED  BY <2>2, ReducedRange
  <1>6. DecodePoint[pk] = A /\ DecodePoint[pk] # NoPoint
    <2>1. a \in Int
      BY <1>1
    <2>2. A \in Point
      BY <2>1, PointRange
    <2> QED  BY <2>2, EncodingAssumption
  <1>7. ge_double_scalarmult_vartime(h, Negate(A), S) = ge_scalarmult_base(r)
    BY <1>1, <1>2, VerificationEquation
  <1>8. Recomputed(pk, <<R, S>>, msg) = R
    BY <1>6, <1>7 DEF Recomputed, Commitment, h
  <1>9. Accepts(pk, <<R, S>>, msg)
    BY <1>5, <1>6, <1>8 DEF Accepts
  <1> QED  BY <1>3, <1>4, <1>9

-----------------------------------------------------------------------------
(* The Java provider's answers. *)

(***************************************************************************)
(* A private key specification has the secret scalar, the hash's second    *)
(* half and the public point of the seed's keypair.                        *)
(***************************************************************************)
LEMMA PrivateKeySpecResult ==
  ASSUME NEW seed \in Word
  PROVE  /\ PrivateKeySpec(seed) \in [a : Word, prefix : Word, A : Point]
         /\ PrivateKeySpec(seed).a = SecretScalar(seed)
         /\ PrivateKeySpec(seed).prefix = HighHalf(Sha512(<<seed>>))
         /\ Keypair(seed) = <<seed, EncodePoint[PrivateKeySpec(seed).A]>>
  <1> DEFINE h == Sha512(<<seed>>)
             a == ClampSign(LowHalf(h))
  <1>1. LowHalf(h) \in Word /\ HighHalf(h) \in Word
    BY DigestRange, DigestHalves
  <1>2. a \in Word /\ a = ClampKeypair(LowHalf(h))
    BY <1>1, ClampsAgree, ClampRange
  <1>3. a \in Int
    BY <1>2 DEF Word
  <1>4. ge_scalarmult_base(a) \in Point
    BY <1>3, PointRange
  <1>5. Keypair(seed) = <<seed, EncodePoint[ge_scalarmult_base(a)]>>
    BY <1>2 DEF Keypair
  <1> HIDE DEF h, a
  <1> QED  BY <1>1, <1>2, <1>4, <1>5 DEF PrivateKeySpec, SecretScalar, h, a

(***************************************************************************)
(* The engine's signature under a seed's specification is the one of the   *)
(* seed's keypair.                                                         *)
(***************************************************************************)
LEMMA EngineSigns ==
  ASSUME NEW seed \in Word, NEW msg, NEW k, k = PrivateKeySpec(seed)
  PROVE  Respond(k.a, sc_reduce(Sha512(<<k.prefix>> \o msg)), EncodePoint[k.A], msg)
           = Signature(Keypair(seed), msg)
  <1>1. /\ Keypair(seed)[1] = seed /\ Keypair(seed)[2] = EncodePoint[k.A]
        /\ k.a = SecretScalar(seed) /\ k.prefix = HighHalf(Sha512(<<seed>>))
    BY PrivateKeySpecResult
  <1>2. Nonce(seed, msg) = sc_reduce(Sha512(<<k.prefix>> \o msg))
    BY <1>1 DEF Nonce
  <1> QED  BY <1>1, <1>2 DEF Signature

(***************************************************************************)
(* For a key that is the encoding of its point, and S in the C provider's  *)
(* range, the engine verifies what the C provider accepts.                 *)
(***************************************************************************)
LEMMA EngineVerifies ==
  ASSUME NEW pk \in Word, NEW sig, NEW msg, sig[2] \in Word,
         DecodePoint[pk] # NoPoint, EncodePoint[DecodePoint[pk]] = pk,
         2 * sig[2] < Top
  PROVE  Verified(DecodePoint[pk], sig, msg) <=> Accepts(pk, sig, msg)
  <1>1. sig[2] \in 0 .. 2 * Top - 1
    BY ParamsAssumption DEF Word
  <1>2. Slide[sig[2]] = sig[2]
    BY <1>1, SlideAssumption
  <1> QED  BY <1>2 DEF Verified, Accepts, Recomputed

(***************************************************************************)
(* The public half of a seed's keypair is the encoding of its point.       *)
(***************************************************************************)
LEMMA OwnKeyDecodes ==
  ASSUME NEW seed \in Word
  PROVE  /\ Keypair(seed)[1] = seed /\ Keypair(seed)[2] \in Word
         /\ DecodePoint[Keypair(seed)[2]] # NoPoint
         /\ EncodePoint[DecodePoint[Keypair(seed)[2]]] = Keypair(seed)[2]
  <1> DEFINE k == Keypair(seed)
             A == PrivateKeySpec(seed).A
  <1>1. A \in Point /\ k = <<seed, EncodePoint[A]>>
    BY PrivateKeySpecResult
  <1> HIDE DEF k, A
  <1>2. k[1] = seed /\ k[2] = EncodePoint[A]
    BY <1>1
  <1> QED  BY <1>1, <1>2, EncodingAssumption DEF k

(***************************************************************************)
(* The Java provider verifies what a seed's keypair signs.                 *)
(***************************************************************************)
LEMMA OwnSignatureVerifies ==
  ASSUME NEW seed \in Word, NEW msg
  PROVE  LET k == Keypair(seed)
         IN  Outcome("verify", <<<<k[2]>>, Signature(k, msg), msg>>) = Truth(TRUE)
  <1> DEFINE k == Keypair(seed)
             sig == Signature(k, msg)
             args == <<<<k[2]>>, sig, msg>>
  <1>1. sig \in Word \X Word
    BY PairsOfWords
  <1>2. Accepts(k[2], sig, msg)
    BY SignatureVerifies
  <1>3. /\ k[2] \in Word /\ DecodePoint[k[2]] # NoPoint
        /\ EncodePoint[DecodePoint[k[2]]] = k[2]
    BY OwnKeyDecodes
  <1> HIDE DEF k, sig
  <1>4. sig[2] \in Word /\ 2 * sig[2] < Top /\ Len(sig) = 2
    BY <1>1, <1>2 DEF Accepts
  <1>5. Verified(DecodePoint[k[2]], sig, msg)
    BY <1>2, <1>3, <1>4, EngineVerifies
  <1>6. args[1] = <<k[2]>> /\ args[1][1] = k[2] /\ args[2] = sig /\ args[3] = msg
    OBVIOUS
  <1> HIDE DEF args
  <1>7. WellSized("verify", args)
    BY <1>4, <1>6 DEF WellSized
  <1>8. Outcome("verify", args) = Truth(TRUE)
    BY <1>3, <1>5, <1>6, <1>7 DEF Outcome
  <1> QED  BY <1>8 DEF k, sig, args
=============================================================================
