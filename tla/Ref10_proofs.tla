---------------------------- MODULE Ref10_proofs ----------------------------
(***************************************************************************)
(* The C provider implements Provider, for every group order, hash,        *)
(* encoding, input and number of calls.                                    *)
(***************************************************************************)
EXTENDS Ref10, EdDSA_proofs, SequenceTheorems

-----------------------------------------------------------------------------
(* Memory. *)

(***************************************************************************)
(* A function on 1 .. n is a sequence of length n.                         *)
(***************************************************************************)
LEMMA FunctionIsSequence ==
  ASSUME NEW S, NEW n \in Nat, NEW f \in [1 .. n -> S]
  PROVE  f \in Seq(S) /\ Len(f) = n
  <1>1. f \in Seq(S)
    BY SeqDef
  <1>2. DOMAIN f = 1 .. Len(f) /\ Len(f) \in Nat /\ DOMAIN f = 1 .. n
    BY <1>1, LenProperties
  <1> QED  BY <1>1, <1>2

(***************************************************************************)
(* memmove keeps the buffer's length and writes the source at its offset,  *)
(* and nothing else.                                                       *)
(***************************************************************************)
LEMMA MemmoveResult ==
  ASSUME NEW dst \in Seq(Word), NEW src \in Seq(Word), NEW at \in Nat
  PROVE  /\ Memmove(dst, at, src) \in Seq(Word)
         /\ Len(Memmove(dst, at, src)) = Len(dst)
         /\ \A k \in 1 .. Len(dst) :
              Memmove(dst, at, src)[k] =
                IF k - at \in 1 .. Len(src) THEN src[k - at] ELSE dst[k]
  <1>1. /\ DOMAIN dst = 1 .. Len(dst) /\ DOMAIN src = 1 .. Len(src)
        /\ Len(dst) \in Nat /\ Len(src) \in Nat
    BY LenProperties
  <1>2. \A k \in 1 .. Len(dst) : dst[k] \in Word
    BY ElementOfSeq
  <1>3. \A k \in 1 .. Len(src) : src[k] \in Word
    BY ElementOfSeq
  <1>4. Memmove(dst, at, src) \in [1 .. Len(dst) -> Word]
    BY <1>1, <1>2, <1>3 DEF Memmove
  <1>5. Memmove(dst, at, src) \in Seq(Word) /\ Len(Memmove(dst, at, src)) = Len(dst)
    BY <1>1, <1>4, FunctionIsSequence
  <1> QED  BY <1>1, <1>5 DEF Memmove

(***************************************************************************)
(* The same at the start of the buffer.                                    *)
(***************************************************************************)
LEMMA MemmoveStart ==
  ASSUME NEW dst \in Seq(Word), NEW src \in Seq(Word)
  PROVE  /\ Memmove(dst, 0, src) \in Seq(Word)
         /\ Len(Memmove(dst, 0, src)) = Len(dst)
         /\ \A k \in 1 .. Len(dst) :
              Memmove(dst, 0, src)[k] = IF k \in 1 .. Len(src) THEN src[k] ELSE dst[k]
  <1>1. ASSUME NEW at \in Nat, at = 0
        PROVE  /\ Memmove(dst, at, src) \in Seq(Word)
               /\ Len(Memmove(dst, at, src)) = Len(dst)
               /\ \A k \in 1 .. Len(dst) :
                    Memmove(dst, at, src)[k] =
                      IF k \in 1 .. Len(src) THEN src[k] ELSE dst[k]
    <2>1. /\ Memmove(dst, at, src) \in Seq(Word)
          /\ Len(Memmove(dst, at, src)) = Len(dst)
          /\ \A k \in 1 .. Len(dst) :
               Memmove(dst, at, src)[k] =
                 IF k - at \in 1 .. Len(src) THEN src[k - at] ELSE dst[k]
      BY MemmoveResult
    <2>2. \A k \in 1 .. Len(dst) : k - at = k
      BY <1>1
    <2> QED  BY <2>1, <2>2
  <1> QED  BY <1>1

(***************************************************************************)
(* Writing one Word changes that Word only.                                *)
(***************************************************************************)
LEMMA WriteWord ==
  ASSUME NEW b \in Seq(Word), NEW w \in Word, NEW at \in Nat, at < Len(b)
  PROVE  /\ Memmove(b, at, <<w>>) \in Seq(Word)
         /\ Len(Memmove(b, at, <<w>>)) = Len(b)
         /\ Memmove(b, at, <<w>>)[at + 1] = w
         /\ \A k \in 1 .. Len(b) : k # at + 1 => Memmove(b, at, <<w>>)[k] = b[k]
  <1> DEFINE src == <<w>>
             c == Memmove(b, at, src)
  <1>1. src \in Seq(Word) /\ Len(src) = 1 /\ src[1] = w /\ Len(b) \in Nat
    BY LenProperties
  <1> HIDE DEF src
  <1>2. /\ c \in Seq(Word) /\ Len(c) = Len(b)
        /\ \A k \in 1 .. Len(b) :
             c[k] = IF k - at \in 1 .. Len(src) THEN src[k - at] ELSE b[k]
    BY <1>1, MemmoveResult
  <1> HIDE DEF c
  <1>3. at + 1 \in 1 .. Len(b) /\ (at + 1) - at = 1
    BY <1>1
  <1>4. c[at + 1] = w
    BY <1>1, <1>2, <1>3
  <1>5. \A k \in 1 .. Len(b) : k # at + 1 => c[k] = b[k]
    BY <1>1, <1>2
  <1> QED  BY <1>2, <1>4, <1>5 DEF c, src

(***************************************************************************)
(* A buffer with two given Words before a message is their concatenation.  *)
(***************************************************************************)
LEMMA BufferIs ==
  ASSUME NEW b \in Seq(Word), NEW t \in Seq(Word), Len(b) = 2 + Len(t),
         \A k \in 1 .. Len(t) : b[k + 2] = t[k]
  PROVE  b = <<b[1], b[2]>> \o t /\ From(b, 1) = <<b[2]>> \o t
  <1>1. Len(t) \in Nat /\ b[1] \in Word /\ b[2] \in Word
    <2>1. Len(t) \in Nat
      BY LenProperties
    <2> QED  BY <2>1, ElementOfSeq
  <1>2. <<b[1], b[2]>> \in Seq(Word) /\ <<b[2]>> \in Seq(Word)
    BY <1>1
  <1>3. b = <<b[1], b[2]>> \o t
    <2> DEFINE c == <<b[1], b[2]>> \o t
    <2>1. /\ c \in Seq(Word) /\ Len(c) = 2 + Len(t)
          /\ \A i \in 1 .. 2 + Len(t) :
               c[i] = IF i <= 2 THEN <<b[1], b[2]>>[i] ELSE t[i - 2]
      BY <1>2, ConcatProperties
    <2> HIDE DEF c
    <2>2. ASSUME NEW i \in 1 .. Len(b) PROVE b[i] = c[i]
      <3>1. CASE i <= 2
        BY <2>1, <3>1, <1>1
      <3>2. CASE i > 2
        <4>1. i - 2 \in 1 .. Len(t) /\ (i - 2) + 2 = i
          BY <3>2, <1>1
        <4>2. b[i] = t[i - 2]
          BY <4>1
        <4>3. i \in 1 .. 2 + Len(t) /\ ~(i <= 2)
          BY <3>2, <1>1
        <4>4. c[i] = t[i - 2]
          BY <4>3, <2>1
        <4> QED  BY <4>2, <4>4
      <3> QED  BY <3>1, <3>2
    <2>3. b = c
      BY <2>1, <2>2, SeqEqual
    <2> QED  BY <2>3 DEF c
  <1>4. From(b, 1) = <<b[2]>> \o t
    <2> DEFINE c == <<b[2]>> \o t
               d == SubSeq(b, 2, Len(b))
    <2>1. /\ c \in Seq(Word) /\ Len(c) = 1 + Len(t)
          /\ \A i \in 1 .. 1 + Len(t) :
               c[i] = IF i <= 1 THEN <<b[2]>>[i] ELSE t[i - 1]
      BY <1>2, ConcatProperties
    <2>2. /\ d \in Seq(Word) /\ Len(d) = 1 + Len(t)
          /\ \A i \in 1 .. 1 + Len(t) : d[i] = b[i + 1]
      <3>1. \A i \in 2 .. Len(b) : b[i] \in Word
        BY ElementOfSeq, <1>1
      <3>2. 2 \in Int /\ Len(b) \in Int /\ 2 <= Len(b)
        BY <1>1
      <3>3. /\ d \in Seq(Word) /\ Len(d) = Len(b) - 2 + 1
            /\ \A i \in 1 .. Len(b) - 2 + 1 : d[i] = b[2 + i - 1]
        BY <3>1, <3>2, SubSeqProperties
      <3> QED  BY <3>3, <1>1
    <2> HIDE DEF c, d
    <2>3. ASSUME NEW i \in 1 .. Len(c) PROVE d[i] = c[i]
      <3>1. CASE i <= 1
        BY <2>1, <2>2, <3>1, <1>1
      <3>2. CASE i > 1
        <4>1. i - 1 \in 1 .. Len(t) /\ (i - 1) + 2 = i + 1
          BY <3>2, <2>1, <1>1
        <4>2. i \in 1 .. 1 + Len(t) /\ ~(i <= 1)
          BY <2>1, <3>2, <1>1
        <4>3. d[i] = b[i + 1]
          BY <2>2, <4>2
        <4>4. c[i] = t[i - 1]
          BY <2>1, <4>2
        <4>5. b[(i - 1) + 2] = t[i - 1]
          BY <4>1
        <4> QED  BY <4>1, <4>3, <4>4, <4>5
      <3> QED  BY <3>1, <3>2, <2>1, <1>1
    <2>4. d = c
      BY <2>1, <2>2, <2>3, SeqEqual
    <2>5. 1 + 1 = 2
      OBVIOUS
    <2> QED  BY <2>4, <2>5 DEF c, d, From
  <1> QED  BY <1>3, <1>4

-----------------------------------------------------------------------------
(* The inductive invariant. *)

(***************************************************************************)
(* The invariant holds initially.                                          *)
(***************************************************************************)
LEMMA InitIInv == Init => IInv
  <1> SUFFICES ASSUME Init PROVE IInv
    OBVIOUS
  <1>1. TypeOK
    <2>1. loc \in Locals
      <3>1. PICK g \in Garbage :
              loc = [sk |-> g, pk |-> g, az |-> g, prefix |-> g, nonce |-> g,
                     hram |-> g, A |-> g % (8 * L), rcopy |-> g, scopy |-> g,
                     rcheck |-> g]
        BY DEF Init, StackGarbage
      <3>2. g \in Word /\ g \in Int /\ 8 * L \in Nat \ {0}
        BY GarbageAssumption, ParamsAssumption DEF Word
      <3>3. (g % (8 * L)) \in Point
        BY <3>2, ModRange DEF Point
      <3> QED  BY <3>1, <3>2, <3>3 DEF Locals
    <2>2. <<>> \in Seq(Seq(Word)) /\ <<>> \in Seq(Word)
      BY EmptySeq
    <2> QED  BY <2>1, <2>2 DEF Init, TypeOK, Pcs, P!Operations, P!Arity
  <1>2. Logged /\ Called /\ Buffers /\ Accounted
    BY DEF Init, Logged, Called, Buffers, Accounted, Held, CreatePcs, SignPcs, OpenPcs
  <1>3. CreateProgress /\ SignProgress /\ OpenProgress
    BY DEF Init, CreateProgress, SignProgress, OpenProgress, SignPcs, OpenPcs
  <1> QED  BY <1>1, <1>2, <1>3 DEF IInv

(***************************************************************************)
(* The instance of Provider speaks of the same scheme.                     *)
(***************************************************************************)
LEMMA SameScheme ==
  /\ P!Word = Word
  /\ \A seed : P!Keypair(seed) = Keypair(seed)
  /\ \A k, t : P!Signature(k, t) = Signature(k, t)
  /\ \A pk, sig, t : P!Accepts(pk, sig, t) = Accepts(pk, sig, t)
  <1>1. P!Word = Word /\ P!Digest = Digest
    BY DEF P!Word, Word, P!Digest, Digest
  <1>2. \A s : P!Sha512(s) = Sha512(s)
    BY <1>1 DEF P!Sha512, Sha512
  <1>3. \A w : /\ P!LowHalf(w) = LowHalf(w) /\ P!HighHalf(w) = HighHalf(w)
               /\ P!ClampKeypair(w) = ClampKeypair(w) /\ P!ClampSign(w) = ClampSign(w)
               /\ P!sc_reduce(w) = sc_reduce(w) /\ P!Negate(w) = Negate(w)
               /\ P!ge_scalarmult_base(w) = ge_scalarmult_base(w)
    BY DEF P!LowHalf, LowHalf, P!HighHalf, HighHalf, P!ClampKeypair, ClampKeypair,
           P!ClampSign, ClampSign, P!sc_reduce, sc_reduce, P!Negate, Negate,
           P!ge_scalarmult_base, ge_scalarmult_base
  <1>4. \A a, b, c :
          /\ P!sc_muladd(a, b, c) = sc_muladd(a, b, c)
          /\ P!ge_double_scalarmult_vartime(a, b, c) = ge_double_scalarmult_vartime(a, b, c)
    BY DEF P!sc_muladd, sc_muladd, P!ge_double_scalarmult_vartime,
           ge_double_scalarmult_vartime
  <1>5. \A r : P!Commitment(r) = Commitment(r)
    BY <1>3 DEF P!Commitment, Commitment
  <1>6. \A R, pk, t : P!Challenge(R, pk, t) = Challenge(R, pk, t)
    BY <1>2, <1>3 DEF P!Challenge, Challenge
  <1>7. \A s : P!SecretScalar(s) = SecretScalar(s)
    BY <1>2, <1>3 DEF P!SecretScalar, SecretScalar
  <1>8. \A s, t : P!Nonce(s, t) = Nonce(s, t)
    BY <1>2, <1>3 DEF P!Nonce, Nonce
  <1>9. \A a, r, pk, t : P!Respond(a, r, pk, t) = Respond(a, r, pk, t)
    BY <1>4, <1>5, <1>6 DEF P!Respond, Respond
  <1>10. \A k, t : P!Signature(k, t) = Signature(k, t)
    BY <1>7, <1>8, <1>9 DEF P!Signature, Signature
  <1>11. \A pk, sig, t : P!Recomputed(pk, sig, t) = Recomputed(pk, sig, t)
    BY <1>3, <1>4, <1>6 DEF P!Recomputed, Recomputed
  <1>12. \A pk, sig, t : P!Accepts(pk, sig, t) = Accepts(pk, sig, t)
    BY <1>11 DEF P!Accepts, Accepts
  <1>13. \A seed : P!Keypair(seed) = Keypair(seed)
    BY <1>2, <1>3 DEF P!Keypair, Keypair
  <1> QED  BY <1>1, <1>10, <1>12, <1>13

(***************************************************************************)
(* What the arguments are once their lengths have been checked.            *)
(***************************************************************************)
LEMMA CheckedArguments ==
  ASSUME TypeOK, Called, pc \notin {"idle", "coerce"}
  PROVE  /\ op = "create_keypair" =>
              /\ args[1] \in Seq(Word) /\ Len(args[1]) = 1
              /\ args[1][1] \in Word /\ args[1] = <<args[1][1]>>
         /\ op = "sign" =>
              /\ args[1] \in Seq(Word) /\ Len(args[1]) = 2 /\ args[2] \in Seq(Word)
              /\ args[1][1] \in Word /\ args[1][2] \in Word
         /\ op = "verify" =>
              /\ args[1] \in Seq(Word) /\ Len(args[1]) = 1
              /\ args[2] \in Seq(Word) /\ Len(args[2]) = 2 /\ args[3] \in Seq(Word)
              /\ args[1][1] \in Word /\ args[2][1] \in Word /\ args[2][2] \in Word
  <1>1. \A i \in 1 .. Len(args) : args[i] \in Seq(Word)
    BY ElementOfSeq DEF TypeOK
  <1>2. \A s \in Seq(Word) : \A i \in 1 .. Len(s) : s[i] \in Word
    BY ElementOfSeq
  <1>3. CASE op = "create_keypair"
    <2>1. Len(args) = 1 /\ Len(args[1]) = 1
      BY <1>3 DEF Called, P!WellSized, P!Arity
    <2>2. args[1] \in Seq(Word) /\ args[1][1] \in Word
      BY <1>1, <1>2, <2>1
    <2>3. args[1] = <<args[1][1]>>
      BY <2>1, <2>2
    <2> QED  BY <1>3, <2>1, <2>2, <2>3
  <1>4. CASE op = "sign"
    <2>1. Len(args) = 2 /\ Len(args[1]) = 2
      BY <1>4 DEF Called, P!WellSized, P!Arity
    <2> QED  BY <1>1, <1>2, <1>4, <2>1
  <1>5. CASE op = "verify"
    <2>1. Len(args) = 3 /\ Len(args[1]) = 1 /\ Len(args[2]) = 2
      BY <1>5 DEF Called, P!WellSized, P!Arity
    <2> QED  BY <1>1, <1>2, <1>5, <2>1
  <1> QED  BY <1>3, <1>4, <1>5 DEF TypeOK, P!Operations, P!Arity

(***************************************************************************)
(* Ending a call with an answer keeps the log answered.                    *)
(***************************************************************************)
LEMMA EndKeepsLogged ==
  TypeOK /\ Logged /\ Called /\ pc # "idle" =>
    \A res : /\ log' = log \cup {P!Record(op, args, res)}
             /\ \/ P!Prescribed(op, args, res)
                \/ P!WellSized(op, args) /\ res = P!Raised("NoMemoryError")
             => Logged'
  <1> SUFFICES ASSUME TypeOK, Logged, Called, pc # "idle", NEW res,
                      log' = log \cup {P!Record(op, args, res)},
                      \/ P!Prescribed(op, args, res)
                      \/ P!WellSized(op, args) /\ res = P!Raised("NoMemoryError")
               PROVE  Logged'
    OBVIOUS
  <1> DEFINE c == P!Record(op, args, res)
  <1>1. c.op = op /\ c.args = args /\ c.res = res
    BY DEF P!Record
  <1>2. P!Answered(c)
    BY <1>1, SameScheme DEF P!Answered, TypeOK, Called
  <1> QED  BY <1>2 DEF Logged

(***************************************************************************)
(* Between calls only the log, the types and the count of buffers matter.  *)
(***************************************************************************)
LEMMA IdleIInv ==
  ASSUME TypeOK', Logged', Accounted', pc' = "idle"
  PROVE  IInv'
  BY DEF IInv, Called, Buffers, CreateProgress, SignProgress, OpenProgress,
         CreatePcs, SignPcs, OpenPcs

-----------------------------------------------------------------------------
(* The steps of create_keypair. *)

(***************************************************************************)
(* The hash and the clamp.                                                 *)
(***************************************************************************)
LEMMA SeedHashStep == ASSUME IInv, SeedHash PROVE IInv'
  <1> USE DEF IInv, SeedHash
  <1>1. args[1] = <<args[1][1]>>
    BY CheckedArguments DEF Called, CreatePcs
  <1>2. ClampKeypair(LowHalf(Sha512(args[1]))) \in Word
    <2>1. LowHalf(Sha512(args[1])) \in Word
      BY DigestRange, DigestHalves
    <2> QED  BY <2>1, ClampsAgree, ClampRange
  <1>3. TypeOK'
    BY <1>2 DEF TypeOK, Pcs, CreatePcs, Locals
  <1>4. Logged' /\ Called' /\ Buffers' /\ Accounted'
    BY DEF Logged, Called, Buffers, Accounted, Held, CreatePcs, SignPcs, OpenPcs
  <1>5. CreateProgress'
    BY <1>1 DEF CreateProgress, TypeOK, Locals
  <1>6. SignProgress' /\ OpenProgress'
    BY DEF SignProgress, OpenProgress, SignPcs, OpenPcs
  <1> QED  BY <1>3, <1>4, <1>5, <1>6

(***************************************************************************)
(* The public key.                                                         *)
(***************************************************************************)
LEMMA SeedMultStep == ASSUME IInv, SeedMult PROVE IInv'
  <1> USE DEF IInv, SeedMult
  <1>1. EncodePoint[ge_scalarmult_base(loc.sk)] \in Word
    <2>1. loc.sk \in Int
      BY ParamsAssumption DEF TypeOK, Locals, Word
    <2> QED  BY <2>1, PointRange, EncodingAssumption
  <1>2. TypeOK'
    BY <1>1 DEF TypeOK, Pcs, CreatePcs, Locals
  <1>3. Logged' /\ Called' /\ Buffers' /\ Accounted'
    BY DEF Logged, Called, Buffers, Accounted, Held, CreatePcs, SignPcs, OpenPcs
  <1>4. CreateProgress'
    BY DEF CreateProgress, TypeOK, Locals, Keypair
  <1>5. SignProgress' /\ OpenProgress'
    BY DEF SignProgress, OpenProgress, SignPcs, OpenPcs
  <1> QED  BY <1>2, <1>3, <1>4, <1>5

(***************************************************************************)
(* The seed over the scalar.                                               *)
(***************************************************************************)
LEMMA SeedCopyStep == ASSUME IInv, SeedCopy PROVE IInv'
  <1> USE DEF IInv, SeedCopy
  <1>1. args[1][1] \in Word
    BY CheckedArguments DEF Called, CreatePcs
  <1>2. TypeOK'
    BY <1>1 DEF TypeOK, Pcs, CreatePcs, Locals
  <1>3. Logged' /\ Called' /\ Buffers' /\ Accounted'
    BY DEF Logged, Called, Buffers, Accounted, Held, CreatePcs, SignPcs, OpenPcs
  <1>4. CreateProgress'
    BY DEF CreateProgress, TypeOK, Locals
  <1>5. SignProgress' /\ OpenProgress'
    BY DEF SignProgress, OpenProgress, SignPcs, OpenPcs
  <1> QED  BY <1>2, <1>3, <1>4, <1>5

(***************************************************************************)
(* The return of the keypair.                                              *)
(***************************************************************************)
LEMMA SeedReturnStep == ASSUME IInv, SeedReturn PROVE IInv'
  <1> USE DEF IInv, SeedReturn
  <1>1. TypeOK' /\ pc' = "idle"
    BY DEF TypeOK, End, Pcs
  <1>2. Accounted'
    BY DEF Accounted, Held, End, SignPcs, OpenPcs, TypeOK
  <1>3. Logged'
    <2>1. op = "create_keypair" /\ P!WellSized(op, args)
      BY DEF Called, CreatePcs
    <2>2. Keypair(args[1][1]) = <<args[1][1], Keypair(args[1][1])[2]>>
      BY DEF Keypair
    <2>3. P!String(<<loc.sk, loc.pk>>) = P!String(Keypair(args[1][1]))
      BY <2>2 DEF CreateProgress
    <2> DEFINE res == P!String(<<loc.sk, loc.pk>>)
    <2>4. P!Prescribed(op, args, res)
      BY <2>1, <2>3, SameScheme DEF P!Prescribed
    <2>5. log' = log \cup {P!Record(op, args, res)}
      BY DEF End
    <2> HIDE DEF res
    <2> QED  BY <2>4, <2>5, EndKeepsLogged
  <1> QED  BY <1>1, <1>2, <1>3, IdleIInv

-----------------------------------------------------------------------------
(* The steps common to the three operations. *)

(***************************************************************************)
(* Keypairs returned by create_keypair are pairs of Words, signatures are  *)
(* strings.                                                                *)
(***************************************************************************)
LEMMA ReturnedStrings ==
  ASSUME Logged
  PROVE  /\ \A k \in Keypairs : k \in Seq(Word) /\ k[2] \in Word
         /\ Signatures \subseteq Seq(Word)
  <1>1. \A a, b \in Word : <<a, b>> \in Seq(Word)
    OBVIOUS
  <1>2. ASSUME NEW k \in Word \X Word PROVE k \in Seq(Word) /\ k[2] \in Word
    <2>1. PICK a \in Word, b \in Word : k = <<a, b>>
      OBVIOUS
    <2> QED  BY <1>1, <2>1
  <1>3. ASSUME NEW c \in log, c.res.status = "string"
        PROVE  P!Answered(c) /\ P!Prescribed(c.op, c.args, c.res)
                 /\ P!WellSized(c.op, c.args)
    BY <1>3 DEF Logged, P!Answered, P!Prescribed, P!Raised
  <1>4. ASSUME NEW c \in log, c.op = "create_keypair", c.res.status = "string"
        PROVE  c.res.value \in Word \X Word
    <2>1. c.res.value = Keypair(c.args[1][1])
      <3>1. P!Prescribed(c.op, c.args, c.res) /\ P!WellSized(c.op, c.args)
        BY <1>3, <1>4
      <3>2. c.res = P!String(P!Keypair(c.args[1][1]))
        BY <1>4, <3>1 DEF P!Prescribed
      <3> QED  BY <3>2, SameScheme DEF P!String
    <2>2. c.args \in Seq(Seq(Word)) /\ Len(c.args) = 1 /\ Len(c.args[1]) = 1
      BY <1>3, <1>4, SameScheme DEF P!Answered, P!Arity, P!WellSized
    <2>3. c.args[1] \in Seq(Word)
      BY <2>2
    <2>4. c.args[1][1] \in Word
      BY <2>2, <2>3
    <2> QED  BY <2>1, <2>4, PairsOfWords
  <1>5. ASSUME NEW c \in log, c.op = "sign", c.res.status = "string"
        PROVE  c.res.value \in Word \X Word
    <2>1. c.res.value = Signature(c.args[1], c.args[2])
      <3>1. P!Prescribed(c.op, c.args, c.res) /\ P!WellSized(c.op, c.args)
        BY <1>3, <1>5
      <3>2. c.res = P!String(P!Signature(c.args[1], c.args[2]))
        BY <1>5, <3>1 DEF P!Prescribed
      <3> QED  BY <3>2, SameScheme DEF P!String
    <2> QED  BY <2>1, PairsOfWords
  <1> QED  BY <1>2, <1>4, <1>5 DEF Keypairs, Signatures, Returned

(***************************************************************************)
(* A new call.                                                             *)
(***************************************************************************)
LEMMA CallStep == ASSUME IInv, Call PROVE IInv'
  <1> USE DEF IInv
  <1>1. /\ op' \in P!Operations /\ args' \in Seq(Seq(Word))
        /\ Len(args') = P!Arity[op']
    <2> DEFINE T == Seq(Word)
    <2>1. /\ Seeds \cup Strays \cup Messages \subseteq T
          /\ Keypairs \subseteq T /\ Signatures \subseteq T
      BY InputsAssumption, ReturnedStrings
    <2>2. PublicKeys \subseteq T
      <3>1. \A w \in Word : <<w>> \in T
        OBVIOUS
      <3> QED  BY <3>1, ReturnedStrings DEF PublicKeys
    <2> HIDE DEF T
    <2>3. \A s, t, u \in T : /\ <<s>> \in Seq(T) /\ Len(<<s>>) = 1
                             /\ <<s, t>> \in Seq(T) /\ Len(<<s, t>>) = 2
                             /\ <<s, t, u>> \in Seq(T) /\ Len(<<s, t, u>>) = 3
      OBVIOUS
    <2>4. CASE op' = "create_keypair" /\ args' \in {<<s>> : s \in Seeds \cup Strays}
      <3>1. PICK s \in T : args' = <<s>>
        BY <2>1, <2>4
      <3> QED  BY <2>3, <2>4, <3>1 DEF P!Operations, P!Arity, T
    <2>5. CASE op' = "sign" /\ args' \in {<<k, t>> : k \in Keypairs \cup Strays, t \in Messages}
      <3>1. PICK s \in T, t \in T : args' = <<s, t>>
        BY <2>1, <2>5
      <3> QED  BY <2>3, <2>5, <3>1 DEF P!Operations, P!Arity, T
    <2>6. CASE /\ op' = "verify"
               /\ args' \in {<<k, s, t>> : k \in PublicKeys \cup Strays,
                                           s \in Signatures \cup Strays, t \in Messages}
      <3>1. PICK s \in T, t \in T, u \in T : args' = <<s, t, u>>
        BY <2>1, <2>2, <2>6
      <3> QED  BY <2>3, <2>6, <3>1 DEF P!Operations, P!Arity, T
    <2> QED  BY <2>4, <2>5, <2>6 DEF Call
  <1>2. TypeOK'
    BY <1>1 DEF Call, TypeOK, Pcs
  <1>3. Logged' /\ Called' /\ Buffers' /\ Accounted'
    BY <1>1 DEF Call, Logged, Called, Buffers, Accounted, Held, CreatePcs, SignPcs, OpenPcs
  <1>4. CreateProgress' /\ SignProgress' /\ OpenProgress'
    BY DEF Call, CreateProgress, SignProgress, OpenProgress, SignPcs, OpenPcs
  <1> QED  BY <1>2, <1>3, <1>4

(***************************************************************************)
(* A coercion, which may rewrite any argument.                             *)
(***************************************************************************)
LEMMA StringValueStep == ASSUME IInv, StringValue PROVE IInv'
  <1> USE DEF IInv
  <1>1. args' \in Seq(Seq(Word)) /\ Len(args') = Len(args)
    <2>1. CASE args' = args
      BY <2>1 DEF TypeOK
    <2>2. ASSUME NEW j \in DOMAIN args, NEW s \in Strays, args' = [args EXCEPT ![j] = s]
          PROVE  args' \in Seq(Seq(Word)) /\ Len(args') = Len(args)
      <3>1. args \in Seq(Seq(Word)) /\ s \in Seq(Word)
        BY InputsAssumption DEF TypeOK
      <3>2. j \in 1 .. Len(args)
        BY <3>1, LenProperties
      <3> QED  BY <2>2, <3>1, <3>2, ExceptSeq
    <2> QED  BY <2>1, <2>2 DEF StringValue
  <1>2. TypeOK'
    BY <1>1 DEF StringValue, TypeOK, Pcs
  <1>3. Logged' /\ Called' /\ Buffers' /\ Accounted'
    BY <1>1 DEF StringValue, Logged, Called, Buffers, Accounted, Held, CreatePcs, SignPcs, OpenPcs
  <1>4. CreateProgress' /\ SignProgress' /\ OpenProgress'
    BY DEF StringValue, CreateProgress, SignProgress, OpenProgress, SignPcs, OpenPcs
  <1> QED  BY <1>2, <1>3, <1>4

(***************************************************************************)
(* The length checks.                                                      *)
(***************************************************************************)
LEMMA CheckLengthsStep == ASSUME IInv, CheckLengths PROVE IInv'
  <1> USE DEF IInv
  <1>1. CASE ~P!WellSized(op, args) /\ End(P!Raised("ArgumentError"))
    <2> DEFINE res == P!Raised("ArgumentError")
    <2>1. P!Prescribed(op, args, res)
      BY <1>1 DEF P!Prescribed
    <2>2. log' = log \cup {P!Record(op, args, res)} /\ pc # "idle"
      BY <1>1 DEF CheckLengths, End
    <2>3. Logged'
      BY <2>1, <2>2, EndKeepsLogged
    <2>4. TypeOK' /\ pc' = "idle"
      BY <1>1 DEF CheckLengths, TypeOK, End, Pcs
    <2>5. Accounted'
      BY <1>1 DEF CheckLengths, Accounted, Held, End, SignPcs, OpenPcs, TypeOK
    <2> QED  BY <2>3, <2>4, <2>5, IdleIInv
  <1>2. CASE /\ P!WellSized(op, args)
             /\ pc' = [create_keypair |-> "seed_hash", sign |-> "sign_alloc",
                       verify |-> "verify_alloc"][op]
             /\ UNCHANGED <<log, op, args, coerced>>
    <2>1. \/ op = "create_keypair" /\ pc' = "seed_hash"
          \/ op = "sign" /\ pc' = "sign_alloc"
          \/ op = "verify" /\ pc' = "verify_alloc"
      BY <1>2 DEF TypeOK, P!Operations, P!Arity
    <2>2. TypeOK'
      BY <1>2, <2>1 DEF CheckLengths, TypeOK, Pcs, CreatePcs
    <2>3. Logged' /\ Called' /\ Buffers' /\ Accounted'
      BY <1>2, <2>1 DEF CheckLengths, Logged, Called, Buffers, Accounted, Held,
                        CreatePcs, SignPcs, OpenPcs
    <2>4. CreateProgress' /\ SignProgress' /\ OpenProgress'
      BY <2>1 DEF CreateProgress, SignProgress, OpenProgress, SignPcs, OpenPcs
    <2> QED  BY <2>2, <2>3, <2>4
  <1> QED  BY <1>1, <1>2 DEF CheckLengths

(***************************************************************************)
(* A failed allocation.                                                    *)
(***************************************************************************)
LEMMA OutOfMemoryStep == ASSUME IInv, OutOfMemory PROVE IInv'
  <1> USE DEF IInv
  <1> DEFINE res == P!Raised("NoMemoryError")
  <1>1. End(res) /\ pc # "idle" /\ P!WellSized(op, args)
    BY DEF OutOfMemory, Called
  <1>2. Logged'
    BY <1>1, EndKeepsLogged DEF End
  <1>3. TypeOK' /\ pc' = "idle"
    BY <1>1 DEF OutOfMemory, TypeOK, End, Pcs
  <1>4. Accounted'
    BY <1>1 DEF OutOfMemory, Accounted, Held, End, SignPcs, OpenPcs, TypeOK
  <1> QED  BY <1>2, <1>3, <1>4, IdleIInv

-----------------------------------------------------------------------------
(* The steps of sign. *)

(***************************************************************************)
(* A fresh buffer is a sequence of Words of the length asked for.          *)
(***************************************************************************)
LEMMA FreshBuffer ==
  ASSUME NEW n \in Nat, NEW b \in Uninitialised(n)
  PROVE  b \in Seq(Word) /\ Len(b) = n
  <1>1. b \in [1 .. n -> Word]
    BY GarbageAssumption DEF Uninitialised
  <1> QED  BY <1>1, FunctionIsSequence

(***************************************************************************)
(* The allocation.                                                         *)
(***************************************************************************)
LEMMA SignAllocStep == ASSUME IInv, SignAlloc PROVE IInv'
  <1> USE DEF IInv, SignAlloc
  <1>1. 2 + Len(args[2]) \in Nat
    BY CheckedArguments, LenProperties DEF Called
  <1>2. sm' \in Seq(Word) /\ Len(sm') = 2 + Len(args[2]) /\ live' = live + 1
    BY <1>1, FreshBuffer DEF Xmalloc
  <1>3. TypeOK'
    BY <1>2 DEF TypeOK, Pcs, SignPcs
  <1>4. Logged' /\ Called' /\ Buffers'
    BY <1>2 DEF Logged, Called, Buffers, CreatePcs, SignPcs, OpenPcs
  <1>5. Accounted'
    BY <1>2 DEF Accounted, Held, SignPcs, OpenPcs, TypeOK
  <1>6. CreateProgress' /\ SignProgress' /\ OpenProgress'
    BY DEF CreateProgress, SignProgress, OpenProgress, SignPcs, OpenPcs
  <1> QED  BY <1>3, <1>4, <1>5, <1>6

(***************************************************************************)
(* The public half, and the hash of the secret half with its clamp.        *)
(***************************************************************************)
LEMMA SignAzStep == ASSUME IInv, SignAz PROVE IInv'
  <1> USE DEF IInv, SignAz
  <1>1. args[1][2] \in Word
    BY CheckedArguments DEF Called, SignPcs
  <1>2. /\ ClampSign(LowHalf(Sha512(<<args[1][1]>>))) \in Word
        /\ HighHalf(Sha512(<<args[1][1]>>)) \in Word
    BY DigestRange, DigestHalves, ClampRange
  <1>3. TypeOK'
    BY <1>1, <1>2 DEF TypeOK, Pcs, SignPcs, Locals
  <1>4. Logged' /\ Called' /\ Buffers' /\ Accounted'
    BY DEF Logged, Called, Buffers, Accounted, Held, CreatePcs, SignPcs, OpenPcs
  <1>5. SignProgress'
    BY DEF SignProgress, SignPcs, SecretScalar, TypeOK, Locals
  <1>6. CreateProgress' /\ OpenProgress'
    BY DEF CreateProgress, OpenProgress, OpenPcs
  <1> QED  BY <1>3, <1>4, <1>5, <1>6

(***************************************************************************)
(* The nonce, hashed over prefix and message in place.                     *)
(***************************************************************************)
LEMMA SignNonceStep == ASSUME IInv, SignNonce PROVE IInv'
  <1> USE DEF IInv
  <1> DEFINE t == args[2]
             moved == Memmove(sm, 2, t)
             filled == Memmove(moved, 1, <<loc.prefix>>)
  <1>1. t \in Seq(Word) /\ sm \in Seq(Word) /\ Len(sm) = 2 + Len(t) /\ Len(t) \in Nat
    BY CheckedArguments, LenProperties
    DEF SignNonce, Called, Buffers, TypeOK, SignPcs
  <1>2. loc.prefix \in Word /\ loc.pk \in Word
    BY DEF TypeOK, Locals
  <1> HIDE DEF t
  <1>3. /\ moved \in Seq(Word) /\ Len(moved) = 2 + Len(t)
        /\ Copied(moved, t)
    BY <1>1, MemmoveResult DEF Copied
  <1> HIDE DEF moved
  <1>4. ASSUME NEW w \in Word, NEW b \in Seq(Word), Len(b) = 2 + Len(t), Copied(b, t)
        PROVE  /\ Memmove(b, 1, <<w>>) \in Seq(Word)
               /\ Len(Memmove(b, 1, <<w>>)) = 2 + Len(t)
               /\ Copied(Memmove(b, 1, <<w>>), t)
               /\ Memmove(b, 1, <<w>>)[2] = w
    <2>1. 1 \in Nat /\ 1 < Len(b) /\ 1 + 1 = 2
      BY <1>1, <1>4
    <2>2. /\ Memmove(b, 1, <<w>>) \in Seq(Word)
          /\ Len(Memmove(b, 1, <<w>>)) = Len(b)
          /\ Memmove(b, 1, <<w>>)[2] = w
          /\ \A k \in 1 .. Len(b) : k # 2 => Memmove(b, 1, <<w>>)[k] = b[k]
      BY <2>1, WriteWord
    <2>3. \A k \in 1 .. Len(t) : k + 2 \in 1 .. Len(b) /\ k + 2 # 2
      BY <1>1, <1>4
    <2> QED  BY <1>4, <2>2, <2>3 DEF Copied
  <1>5. /\ filled \in Seq(Word) /\ Len(filled) = 2 + Len(t)
        /\ Copied(filled, t) /\ filled[2] = loc.prefix
    BY <1>2, <1>3, <1>4
  <1> HIDE DEF filled
  <1>6. From(filled, 1) = <<loc.prefix>> \o t
    <2>1. \A k \in 1 .. Len(t) : filled[k + 2] = t[k]
      BY <1>5 DEF Copied
    <2>2. From(filled, 1) = <<filled[2]>> \o t
      BY ONLY <2>1, <1>1, <1>5, BufferIs
    <2> QED  BY <2>2, <1>5
  <1>7. /\ sm' \in Seq(Word) /\ Len(sm') = 2 + Len(t)
        /\ Copied(sm', t) /\ sm'[2] = loc.pk
    BY <1>2, <1>4, <1>5 DEF SignNonce, filled, moved, t
  <1>8. /\ loc' = [loc EXCEPT !.nonce = sc_reduce(Sha512(From(filled, 1)))]
        /\ pc = "sign_nonce" /\ pc' = "sign_R"
        /\ UNCHANGED <<log, op, args, coerced, m, live, failures>>
    BY DEF SignNonce, filled, moved, t
  <1>9. sc_reduce(Sha512(From(filled, 1))) = Nonce(args[1][1], t)
    BY <1>6, <1>8 DEF Nonce, SignProgress, SignPcs
  <1>10. sc_reduce(Sha512(From(filled, 1))) \in Word
    BY DigestRange, ReducedRange
  <1>11. TypeOK'
    BY <1>7, <1>8, <1>10 DEF TypeOK, Pcs, SignPcs, Locals
  <1>12. Logged' /\ Called' /\ Buffers' /\ Accounted'
    BY <1>7, <1>8 DEF Logged, Called, Buffers, Accounted, Held, CreatePcs, SignPcs,
                      OpenPcs, t
  <1>13. SignProgress'
    BY <1>7, <1>8, <1>9 DEF SignProgress, SignPcs, Copied, TypeOK, Locals, t
  <1>14. CreateProgress' /\ OpenProgress'
    BY <1>8 DEF CreateProgress, OpenProgress, OpenPcs
  <1> QED  BY <1>11, <1>12, <1>13, <1>14

(***************************************************************************)
(* The commitment R, in the first Word of the buffer.                      *)
(***************************************************************************)
LEMMA SignRStep == ASSUME IInv, SignR PROVE IInv'
  <1> USE DEF IInv
  <1> DEFINE t == args[2]
  <1>1. /\ t \in Seq(Word) /\ sm \in Seq(Word) /\ Len(sm) = 2 + Len(t) /\ Len(t) \in Nat
        /\ Copied(sm, t)
    BY CheckedArguments, LenProperties
    DEF SignR, Called, Buffers, TypeOK, SignPcs, SignProgress
  <1>2. Commitment(loc.nonce) \in Word
    <2>1. loc.nonce \in Int
      BY ParamsAssumption DEF TypeOK, Locals, Word
    <2> QED  BY <2>1, PointRange, EncodingAssumption DEF Commitment
  <1>3. /\ sm' = Memmove(sm, 0, <<Commitment(loc.nonce)>>)
        /\ pc = "sign_R" /\ pc' = "sign_hram"
        /\ UNCHANGED <<log, op, args, coerced, loc, m, live, failures>>
    BY DEF SignR, Commitment
  <1> HIDE DEF t
  <1>4. /\ sm' \in Seq(Word) /\ Len(sm') = 2 + Len(t)
        /\ sm'[1] = Commitment(loc.nonce) /\ sm'[2] = sm[2] /\ Copied(sm', t)
    <2>1. 0 \in Nat /\ 0 < Len(sm) /\ 0 + 1 = 1
      BY <1>1
    <2>2. /\ sm' \in Seq(Word) /\ Len(sm') = Len(sm)
          /\ sm'[1] = Commitment(loc.nonce)
          /\ \A k \in 1 .. Len(sm) : k # 1 => sm'[k] = sm[k]
      BY <2>1, <1>1, <1>2, <1>3, WriteWord
    <2>3. \A k \in 1 .. Len(t) : k + 2 \in 1 .. Len(sm) /\ k + 2 # 1
      BY <1>1
    <2> QED  BY <1>1, <2>2, <2>3 DEF Copied
  <1>5. TypeOK'
    BY <1>3, <1>4 DEF TypeOK, Pcs, SignPcs
  <1>6. Logged' /\ Called' /\ Buffers' /\ Accounted'
    BY <1>3, <1>4 DEF Logged, Called, Buffers, Accounted, Held, CreatePcs, SignPcs,
                      OpenPcs, t
  <1>7. SignProgress'
    BY <1>3, <1>4 DEF SignProgress, SignPcs, t
  <1>8. CreateProgress' /\ OpenProgress'
    BY <1>3 DEF CreateProgress, OpenProgress, OpenPcs
  <1> QED  BY <1>5, <1>6, <1>7, <1>8

(***************************************************************************)
(* The challenge, hashed over the buffer.                                  *)
(***************************************************************************)
LEMMA SignHramStep == ASSUME IInv, SignHram PROVE IInv'
  <1> USE DEF IInv, SignHram
  <1>1. sm = <<sm[1], sm[2]>> \o args[2]
    <2>1. /\ args[2] \in Seq(Word) /\ sm \in Seq(Word) /\ Len(sm) = 2 + Len(args[2])
          /\ Copied(sm, args[2])
      BY CheckedArguments DEF Called, Buffers, TypeOK, SignPcs, SignProgress
    <2> QED  BY <2>1, BufferIs DEF Copied
  <1>2. sc_reduce(Sha512(sm)) = Challenge(sm[1], sm[2], args[2])
    BY <1>1 DEF Challenge
  <1>3. sc_reduce(Sha512(sm)) \in Word
    BY DigestRange, ReducedRange
  <1>4. TypeOK'
    BY <1>3 DEF TypeOK, Pcs, SignPcs, Locals
  <1>5. Logged' /\ Called' /\ Buffers' /\ Accounted'
    BY DEF Logged, Called, Buffers, Accounted, Held, CreatePcs, SignPcs, OpenPcs
  <1>6. SignProgress'
    BY <1>2 DEF SignProgress, SignPcs, TypeOK, Locals, Copied
  <1>7. CreateProgress' /\ OpenProgress'
    BY DEF CreateProgress, OpenProgress, OpenPcs
  <1> QED  BY <1>4, <1>5, <1>6, <1>7

(***************************************************************************)
(* The response S, in the second Word of the buffer.                       *)
(***************************************************************************)
LEMMA SignSStep == ASSUME IInv, SignS PROVE IInv'
  <1> USE DEF IInv, SignS
  <1> DEFINE S == sc_muladd(loc.hram, loc.az, loc.nonce)
  <1>1. sm \in Seq(Word) /\ Len(sm) \in Nat /\ 1 < Len(sm) /\ Len(sm) = 2 + Len(args[2])
    BY CheckedArguments, LenProperties DEF Called, Buffers, TypeOK, SignPcs
  <1>2. S \in Word
    <2>1. loc.hram \in Int /\ loc.az \in Int /\ loc.nonce \in Int
      BY ParamsAssumption DEF TypeOK, Locals, Word
    <2> QED  BY <2>1, PointRange, ReducedRange
  <1>3. /\ sm' \in Seq(Word) /\ Len(sm') = Len(sm)
        /\ sm'[2] = S /\ sm'[1] = sm[1]
    <2>1. 1 \in Nat /\ 1 + 1 = 2 /\ 1 \in 1 .. Len(sm) /\ 1 # 2
      BY <1>1
    <2> QED  BY <2>1, <1>1, <1>2, WriteWord
  <1>4. TypeOK'
    BY <1>3 DEF TypeOK, Pcs, SignPcs
  <1>5. Logged' /\ Called' /\ Buffers' /\ Accounted'
    BY <1>1, <1>3 DEF Logged, Called, Buffers, Accounted, Held, CreatePcs, SignPcs, OpenPcs
  <1>6. SignProgress'
    BY <1>3 DEF SignProgress, SignPcs
  <1>7. CreateProgress' /\ OpenProgress'
    BY DEF CreateProgress, OpenProgress, OpenPcs
  <1> QED  BY <1>4, <1>5, <1>6, <1>7

(***************************************************************************)
(* The return of the signature.                                            *)
(***************************************************************************)
LEMMA SignReturnStep == ASSUME IInv, SignReturn PROVE IInv'
  <1> USE DEF IInv, SignReturn
  <1>1. TypeOK' /\ pc' = "idle"
    BY DEF TypeOK, End, Pcs
  <1>2. Accounted'
    BY DEF Accounted, Held, End, SignPcs, OpenPcs, TypeOK
  <1>3. Logged'
    <2> DEFINE res == P!String(<<sm[1], sm[2]>>)
    <2>1. op = "sign" /\ P!WellSized(op, args)
      BY DEF Called, SignPcs
    <2>2. <<sm[1], sm[2]>> = Signature(args[1], args[2])
      BY DEF SignProgress, Signature, Respond
    <2>3. P!Prescribed(op, args, res)
      BY <2>1, <2>2, SameScheme DEF P!Prescribed
    <2>4. log' = log \cup {P!Record(op, args, res)}
      BY DEF End
    <2> HIDE DEF res
    <2> QED  BY <2>3, <2>4, EndKeepsLogged
  <1> QED  BY <1>1, <1>2, <1>3, IdleIInv

-----------------------------------------------------------------------------
(* The steps of verify. *)

(***************************************************************************)
(* The first allocation.                                                   *)
(***************************************************************************)
LEMMA VerifyAllocStep == ASSUME IInv, VerifyAlloc PROVE IInv'
  <1> USE DEF IInv, VerifyAlloc
  <1>1. 2 + Len(args[3]) \in Nat
    BY CheckedArguments, LenProperties DEF Called
  <1>2. sm' \in Seq(Word) /\ Len(sm') = 2 + Len(args[3]) /\ live' = live + 1
    BY <1>1, FreshBuffer DEF Xmalloc
  <1>3. TypeOK'
    BY <1>2 DEF TypeOK, Pcs
  <1>4. Logged' /\ Called' /\ Buffers'
    BY <1>2 DEF Logged, Called, Buffers, CreatePcs, SignPcs, OpenPcs
  <1>5. Accounted'
    BY <1>2 DEF Accounted, Held, SignPcs, OpenPcs, TypeOK
  <1>6. CreateProgress' /\ SignProgress' /\ OpenProgress'
    BY DEF CreateProgress, SignProgress, OpenProgress, SignPcs, OpenPcs
  <1> QED  BY <1>3, <1>4, <1>5, <1>6

(***************************************************************************)
(* The second of them, for the buffer of open.c.                           *)
(***************************************************************************)
LEMMA VerifyAlloc2Step == ASSUME IInv, VerifyAlloc2 PROVE IInv'
  <1> USE DEF IInv, VerifyAlloc2
  <1>1. 2 + Len(args[3]) \in Nat
    BY CheckedArguments, LenProperties DEF Called
  <1>2. m' \in Seq(Word) /\ Len(m') = 2 + Len(args[3]) /\ live' = live + 1
    BY <1>1, FreshBuffer DEF Xmalloc
  <1>3. TypeOK'
    BY <1>2 DEF TypeOK, Pcs, OpenPcs
  <1>4. Logged' /\ Called' /\ Buffers'
    BY <1>2 DEF Logged, Called, Buffers, CreatePcs, SignPcs, OpenPcs
  <1>5. Accounted'
    BY <1>2 DEF Accounted, Held, SignPcs, OpenPcs, TypeOK
  <1>6. CreateProgress' /\ SignProgress' /\ OpenProgress'
    BY DEF CreateProgress, SignProgress, OpenProgress, SignPcs, OpenPcs
  <1> QED  BY <1>3, <1>4, <1>5, <1>6

(***************************************************************************)
(* What the arguments and buffers are while open.c runs.                   *)
(***************************************************************************)
LEMMA OpenArguments ==
  ASSUME IInv, pc \in OpenPcs
  PROVE  /\ op = "verify" /\ P!WellSized(op, args)
         /\ args[1] \in Seq(Word) /\ Len(args[1]) = 1 /\ args[1][1] \in Word
         /\ args[2] \in Seq(Word) /\ Len(args[2]) = 2
         /\ args[2][1] \in Word /\ args[2][2] \in Word
         /\ args[3] \in Seq(Word) /\ Len(args[3]) \in Nat
         /\ sm \in Seq(Word) /\ Len(sm) = 2 + Len(args[3])
         /\ m \in Seq(Word) /\ Len(m) = 2 + Len(args[3])
  BY CheckedArguments, LenProperties DEF IInv, Called, Buffers, TypeOK, OpenPcs

(***************************************************************************)
(* The two memcpys put the signature before the message.                   *)
(***************************************************************************)
LEMMA VerifyCopyStep == ASSUME IInv, VerifyCopy PROVE IInv'
  <1> USE DEF IInv
  <1> DEFINE sig == args[2]
             t == args[3]
             b == Memmove(sm, 0, sig)
  <1>1. /\ sig \in Seq(Word) /\ Len(sig) = 2
        /\ t \in Seq(Word) /\ Len(t) \in Nat
        /\ sm \in Seq(Word) /\ Len(sm) = 2 + Len(t)
    BY OpenArguments DEF VerifyCopy, OpenPcs
  <1>2. /\ sm' = Memmove(b, 2, t) /\ pc = "verify_copy" /\ pc' = "open_check"
        /\ UNCHANGED <<log, op, args, coerced, loc, m, live, failures>>
    BY DEF VerifyCopy
  <1> HIDE DEF sig, t
  <1>3. /\ b \in Seq(Word) /\ Len(b) = 2 + Len(t)
        /\ \A k \in 1 .. Len(sm) : b[k] = IF k \in 1 .. Len(sig) THEN sig[k] ELSE sm[k]
    BY <1>1, MemmoveStart
  <1> HIDE DEF b
  <1>4. b[1] = sig[1] /\ b[2] = sig[2]
    BY <1>1, <1>3
  <1>5. /\ sm' \in Seq(Word) /\ Len(sm') = 2 + Len(t)
        /\ \A k \in 1 .. Len(b) : sm'[k] = IF k - 2 \in 1 .. Len(t) THEN t[k - 2] ELSE b[k]
    BY <1>1, <1>2, <1>3, MemmoveResult
  <1>6. sm'[1] = sig[1] /\ sm'[2] = sig[2] /\ Copied(sm', t)
    BY <1>1, <1>3, <1>4, <1>5 DEF Copied
  <1>7. TypeOK'
    BY <1>2, <1>5 DEF TypeOK, Pcs, OpenPcs
  <1>8. Logged' /\ Called' /\ Buffers' /\ Accounted'
    BY <1>2, <1>5 DEF Logged, Called, Buffers, Accounted, Held, CreatePcs, SignPcs,
                      OpenPcs, t
  <1>9. OpenProgress'
    BY <1>2, <1>6 DEF OpenProgress, OpenPcs, sig, t
  <1>10. CreateProgress' /\ SignProgress'
    BY <1>2 DEF CreateProgress, SignProgress, SignPcs
  <1> QED  BY <1>7, <1>8, <1>9, <1>10

(***************************************************************************)
(* The early exits: each refutes Accepts.                                  *)
(***************************************************************************)
LEMMA OpenCheckStep == ASSUME IInv, OpenCheck PROVE IInv'
  <1> USE DEF IInv
  <1> DEFINE A == DecodePoint[args[1][1]]
             bad == Len(sm) < 2 \/ 2 * sm[2] >= Top \/ A = NoPoint
  <1>1. /\ pc = "open_check"
        /\ UNCHANGED <<log, op, args, coerced, sm, m, live, failures>>
        /\ \/ bad /\ pc' = "open_badsig" /\ UNCHANGED loc
           \/ ~bad /\ pc' = "open_hash" /\ loc' = [loc EXCEPT !.A = Negate(A)]
    BY DEF OpenCheck
  <1>2. /\ Len(args[3]) \in Nat /\ Len(sm) = 2 + Len(args[3])
        /\ args[1][1] \in Word /\ sm[2] = args[2][2] /\ sm[2] \in Int
    <2>1. pc \in OpenPcs
      BY <1>1 DEF OpenPcs
    <2>2. /\ Len(args[3]) \in Nat /\ Len(sm) = 2 + Len(args[3])
          /\ args[1][1] \in Word /\ args[2][2] \in Word
      BY <2>1, OpenArguments
    <2>3. sm[2] = args[2][2]
      BY <1>1 DEF OpenPcs, OpenProgress
    <2>4. Word \subseteq Int
      BY ParamsAssumption DEF Word
    <2> QED  BY <2>2, <2>3, <2>4
  <1>3. A \in Point \cup {NoPoint}
    BY <1>2, EncodingAssumption
  <1>8. bad <=> ~(2 * args[2][2] < Top) \/ A = NoPoint
    <2>1. Top \in Int
      BY ParamsAssumption
    <2>2. ~(Len(sm) < 2)
      BY <1>2
    <2>3. 2 * sm[2] >= Top <=> ~(2 * args[2][2] < Top)
      BY <1>2, <2>1
    <2> QED  BY <2>2, <2>3
  <1>4. TypeOK'
    BY <1>1, <1>3, PointRange DEF TypeOK, Pcs, OpenPcs, Locals
  <1>5. Logged' /\ Called' /\ Buffers' /\ Accounted'
    BY <1>1 DEF Logged, Called, Buffers, Accounted, Held, CreatePcs, SignPcs, OpenPcs
  <1>6. OpenProgress'
    <2>1. CASE bad /\ pc' = "open_badsig"
      <3>1. ~Accepts(args[1][1], args[2], args[3])
        BY <2>1, <1>8, Zenon DEF Accepts
      <3> QED  BY <1>1, <2>1, <3>1 DEF OpenProgress, OpenPcs, Copied
    <2>2. CASE ~bad /\ pc' = "open_hash" /\ loc' = [loc EXCEPT !.A = Negate(A)]
      <3>1. 2 * args[2][2] < Top /\ A # NoPoint
        BY <2>2, <1>8, Zenon
      <3> QED  BY <1>1, <2>2, <3>1 DEF OpenProgress, OpenPcs, Copied, TypeOK, Locals
    <2> QED  BY <1>1, <2>1, <2>2
  <1>7. CreateProgress' /\ SignProgress'
    BY <1>1 DEF CreateProgress, SignProgress, SignPcs
  <1> QED  BY <1>4, <1>5, <1>6, <1>7

(***************************************************************************)
(* The copies of pk, R and S, and the challenge hashed over m.             *)
(***************************************************************************)
LEMMA OpenHashStep == ASSUME IInv, OpenHash PROVE IInv'
  <1> USE DEF IInv
  <1> DEFINE pk == args[1]
             t == args[3]
             b == Memmove(m, 0, sm)
             spliced == Memmove(b, 1, pk)
  <1>1. /\ pc = "open_hash" /\ pc' = "open_equation" /\ m' = spliced
        /\ loc' = [loc EXCEPT !.pk = pk[1], !.rcopy = sm[1], !.scopy = sm[2],
                              !.hram = sc_reduce(Sha512(spliced))]
        /\ UNCHANGED <<log, op, args, coerced, sm, live, failures>>
    BY DEF OpenHash
  <1>2. /\ pk \in Seq(Word) /\ Len(pk) = 1 /\ pk[1] \in Word
        /\ args[2][1] \in Word /\ args[2][2] \in Word
        /\ t \in Seq(Word) /\ Len(t) \in Nat
        /\ sm \in Seq(Word) /\ Len(sm) = 2 + Len(t)
        /\ m \in Seq(Word) /\ Len(m) = 2 + Len(t)
    <2>1. pc \in OpenPcs
      BY <1>1 DEF OpenPcs
    <2> QED  BY <2>1, OpenArguments
  <1>3. sm[1] = args[2][1] /\ sm[2] = args[2][2] /\ Copied(sm, t)
    BY <1>1 DEF OpenProgress, OpenPcs
  <1> HIDE DEF t
  <1>4. /\ b \in Seq(Word) /\ Len(b) = 2 + Len(t)
        /\ \A k \in 1 .. Len(m) : b[k] = IF k \in 1 .. Len(sm) THEN sm[k] ELSE m[k]
    BY <1>2, MemmoveStart
  <1>5. b[1] = sm[1] /\ Copied(b, t)
    BY <1>2, <1>3, <1>4 DEF Copied
  <1> HIDE DEF b
  <1>6. pk = <<pk[1]>>
    BY <1>2
  <1>7. /\ spliced \in Seq(Word) /\ Len(spliced) = 2 + Len(t)
        /\ spliced[1] = sm[1] /\ spliced[2] = pk[1] /\ Copied(spliced, t)
    <2> DEFINE w == pk[1]
             c == Memmove(b, 1, <<w>>)
    <2>1. w \in Word /\ 1 \in Nat /\ 1 < Len(b) /\ 1 + 1 = 2
      BY <1>2, <1>4
    <2>2. spliced = c
      BY <1>6
    <2> HIDE DEF w
    <2>4. /\ c \in Seq(Word) /\ Len(c) = Len(b)
          /\ c[2] = w
          /\ \A k \in 1 .. Len(b) : k # 2 => c[k] = b[k]
      BY <2>1, <1>4, WriteWord
    <2> HIDE DEF spliced, c
    <2>3. 1 \in 1 .. Len(b) /\ \A k \in 1 .. Len(t) : k + 2 \in 1 .. Len(b) /\ k + 2 # 2
      BY <1>2, <1>4
    <2> QED  BY <1>4, <1>5, <2>2, <2>3, <2>4 DEF Copied, w
  <1> HIDE DEF spliced
  <1>8. spliced = <<args[2][1], args[1][1]>> \o t
    <2>1. \A k \in 1 .. Len(t) : spliced[k + 2] = t[k]
      BY <1>7 DEF Copied
    <2>2. spliced = <<spliced[1], spliced[2]>> \o t
      BY ONLY <2>1, <1>2, <1>7, BufferIs
    <2> QED  BY <2>2, <1>3, <1>7
  <1>9. /\ sc_reduce(Sha512(spliced)) = Challenge(args[2][1], args[1][1], t)
        /\ sc_reduce(Sha512(spliced)) \in Word
    BY <1>8, DigestRange, ReducedRange DEF Challenge
  <1>10. TypeOK'
    BY <1>1, <1>2, <1>3, <1>7, <1>9 DEF TypeOK, Pcs, OpenPcs, Locals
  <1>11. Logged' /\ Called' /\ Buffers' /\ Accounted'
    BY <1>1, <1>7 DEF Logged, Called, Buffers, Accounted, Held, CreatePcs, SignPcs,
                      OpenPcs, t
  <1>12. OpenProgress'
    BY <1>1, <1>3, <1>7, <1>9 DEF OpenProgress, OpenPcs, TypeOK, Locals, Copied, t
  <1>13. CreateProgress' /\ SignProgress'
    BY <1>1 DEF CreateProgress, SignProgress, SignPcs
  <1> QED  BY <1>10, <1>11, <1>12, <1>13

(***************************************************************************)
(* The verification equation.                                              *)
(***************************************************************************)
LEMMA OpenEquationStep == ASSUME IInv, OpenEquation PROVE IInv'
  <1> USE DEF IInv, OpenEquation
  <1>1. loc'.rcheck = Recomputed(args[1][1], args[2], args[3])
    BY DEF OpenProgress, OpenPcs, Recomputed, TypeOK, Locals
  <1>2. EncodePoint[ge_double_scalarmult_vartime(loc.hram, loc.A, loc.scopy)] \in Word
    <2>1. loc.hram \in Int /\ loc.scopy \in Int /\ loc.A \in Point
      BY ParamsAssumption DEF TypeOK, Locals, Word
    <2> QED  BY <2>1, PointRange, EncodingAssumption
  <1>3. TypeOK'
    BY <1>2 DEF TypeOK, Pcs, OpenPcs, Locals
  <1>4. Logged' /\ Called' /\ Buffers' /\ Accounted'
    BY DEF Logged, Called, Buffers, Accounted, Held, CreatePcs, SignPcs, OpenPcs
  <1>5. OpenProgress'
    BY <1>1 DEF OpenProgress, OpenPcs, TypeOK, Locals, Copied
  <1>6. CreateProgress' /\ SignProgress'
    BY DEF CreateProgress, SignProgress, SignPcs
  <1> QED  BY <1>3, <1>4, <1>5, <1>6

(***************************************************************************)
(* A block of zeros is a sequence of Words.                                *)
(***************************************************************************)
LEMMA ZerosAreWords ==
  ASSUME NEW n \in Nat
  PROVE  Zeros(n) \in Seq(Word) /\ Len(Zeros(n)) = n
  <1>1. Zeros(n) \in [1 .. n -> Word]
    BY ParamsAssumption DEF Zeros, Word
  <1> QED  BY <1>1, FunctionIsSequence

(***************************************************************************)
(* The comparison decides Accepts.                                         *)
(***************************************************************************)
LEMMA OpenCompareStep == ASSUME IInv, OpenCompare PROVE IInv'
  <1> USE DEF IInv, OpenCompare
  <1>1. pc \in OpenPcs
    BY DEF OpenPcs
  <1>2. /\ Accepts(args[1][1], args[2], args[3]) <=> loc.rcheck = loc.rcopy
        /\ sm[1] = args[2][1] /\ sm[2] = args[2][2] /\ Copied(sm, args[3])
    BY DEF OpenProgress, OpenPcs, Accepts
  <1>3. m' \in Seq(Word) /\ Len(m') = Len(m)
    <2>1. CASE m' = m
      BY <2>1 DEF TypeOK
    <2>2. CASE m' = Memmove(Memmove(m, 0, From(m, 2)), Len(sm) - 2, Zeros(2))
      <3>1. From(m, 2) \in Seq(Word)
        <4>1. m \in Seq(Word) /\ Len(m) \in Nat
          BY LenProperties DEF TypeOK
        <4>2. \A i \in 2 + 1 .. Len(m) : m[i] \in Word
          BY <4>1, ElementOfSeq
        <4>3. SubSeq(m, 2 + 1, Len(m)) \in Seq(Word)
          BY <4>1, <4>2, SubSeqProperties
        <4> QED  BY <4>3 DEF From
      <3> DEFINE b == Memmove(m, 0, From(m, 2))
      <3>2. b \in Seq(Word) /\ Len(b) = Len(m)
        BY <3>1, MemmoveStart DEF TypeOK
      <3>3. Len(sm) - 2 \in Nat /\ Zeros(2) \in Seq(Word)
        <4>1. Len(args[3]) \in Nat /\ Len(sm) = 2 + Len(args[3])
          BY <1>1, OpenArguments
        <4>2. 2 \in Nat
          OBVIOUS
        <4> QED  BY <4>1, <4>2, ZerosAreWords
      <3> HIDE DEF b
      <3>4. m' = Memmove(b, Len(sm) - 2, Zeros(2))
        BY <2>2 DEF b
      <3> QED  BY <3>2, <3>3, <3>4, MemmoveResult
    <2> QED  BY <2>1, <2>2
  <1>4. TypeOK'
    BY <1>3 DEF TypeOK, Pcs, OpenPcs
  <1>5. Logged' /\ Called' /\ Buffers' /\ Accounted'
    BY <1>3 DEF Logged, Called, Buffers, Accounted, Held, CreatePcs, SignPcs, OpenPcs
  <1>6. OpenProgress'
    BY <1>2 DEF OpenProgress, OpenPcs, Copied
  <1>7. CreateProgress' /\ SignProgress'
    BY DEF CreateProgress, SignProgress, SignPcs
  <1> QED  BY <1>4, <1>5, <1>6, <1>7

(***************************************************************************)
(* The clearing of the output buffer.                                      *)
(***************************************************************************)
LEMMA OpenBadsigStep == ASSUME IInv, OpenBadsig PROVE IInv'
  <1> USE DEF IInv, OpenBadsig
  <1>1. m' \in Seq(Word) /\ Len(m') = Len(m)
    <2>1. Zeros(Len(sm)) \in Seq(Word) /\ m \in Seq(Word)
      BY LenProperties, ZerosAreWords DEF TypeOK
    <2> QED  BY <2>1, MemmoveStart
  <1>2. TypeOK'
    BY <1>1 DEF TypeOK, Pcs, OpenPcs
  <1>3. Logged' /\ Called' /\ Buffers' /\ Accounted'
    BY <1>1 DEF Logged, Called, Buffers, Accounted, Held, CreatePcs, SignPcs, OpenPcs
  <1>4. OpenProgress'
    BY DEF OpenProgress, OpenPcs, Copied
  <1>5. CreateProgress' /\ SignProgress'
    BY DEF CreateProgress, SignProgress, SignPcs
  <1> QED  BY <1>2, <1>3, <1>4, <1>5

(***************************************************************************)
(* The return of the verdict.                                              *)
(***************************************************************************)
LEMMA VerifyReturnStep == ASSUME IInv, VerifyReturn PROVE IInv'
  <1> USE DEF IInv, VerifyReturn
  <1>1. TypeOK' /\ pc' = "idle"
    BY DEF TypeOK, End, Pcs
  <1>2. Accounted'
    BY DEF Accounted, Held, End, SignPcs, OpenPcs, TypeOK
  <1>3. Logged'
    <2> DEFINE res == P!Truth(pc = "open_good")
    <2>1. op = "verify" /\ P!WellSized(op, args)
      BY DEF Called, OpenPcs
    <2>2. (pc = "open_good") = Accepts(args[1][1], args[2], args[3])
      BY DEF OpenProgress, Accepts
    <2>3. res = P!Truth(P!Accepts(args[1][1], args[2], args[3]))
      BY <2>2, SameScheme
    <2>4. P!Prescribed(op, args, res)
      BY <2>1, <2>3 DEF P!Prescribed
    <2>5. log' = log \cup {P!Record(op, args, res)}
      BY DEF End
    <2> HIDE DEF res
    <2> QED  BY <2>4, <2>5, EndKeepsLogged
  <1> QED  BY <1>1, <1>2, <1>3, IdleIInv

-----------------------------------------------------------------------------
(* The theorems. *)

(***************************************************************************)
(* Every step preserves the invariant.                                     *)
(***************************************************************************)
LEMMA NextIInv == IInv /\ [Next]_vars => IInv'
  <1> SUFFICES ASSUME IInv, [Next]_vars PROVE IInv'
    OBVIOUS
  <1>1. CASE Next
    BY <1>1, CallStep, StringValueStep, CheckLengthsStep, OutOfMemoryStep,
       SeedHashStep, SeedMultStep, SeedCopyStep, SeedReturnStep,
       SignAllocStep, SignAzStep, SignNonceStep, SignRStep, SignHramStep, SignSStep,
       SignReturnStep, VerifyAllocStep, VerifyAlloc2Step, VerifyCopyStep,
       OpenCheckStep, OpenHashStep, OpenEquationStep, OpenCompareStep,
       OpenBadsigStep, VerifyReturnStep
    DEF Next
  <1>2. CASE UNCHANGED vars
    BY <1>2 DEF vars, IInv, TypeOK, Logged, Called, Buffers, Accounted, Held,
                CreateProgress, SignProgress, OpenProgress, Copied
  <1> QED  BY <1>1, <1>2

(***************************************************************************)
(* A buffer holding a message after 64 bytes, shifted down over them and   *)
(* its tail cleared, holds the message and 64 zero bytes.                  *)
(***************************************************************************)
LEMMA ShiftedDown ==
  ASSUME NEW b \in Seq(Word), NEW t \in Seq(Word), Len(b) = 2 + Len(t), Copied(b, t)
  PROVE  Memmove(Memmove(b, 0, From(b, 2)), Len(t), Zeros(2)) = t \o Zeros(2)
  <1> DEFINE src == From(b, 2)
             z   == Zeros(2)
             c   == Memmove(b, 0, src)
             d   == Memmove(c, Len(t), z)
             e   == t \o z
  <1>1. Len(t) \in Nat /\ 2 \in Nat
    BY LenProperties
  <1>2. z \in Seq(Word) /\ Len(z) = 2
    BY <1>1, ZerosAreWords
  <1>3. /\ src \in Seq(Word) /\ Len(src) = Len(t)
        /\ \A k \in 1 .. Len(t) : src[k] = t[k]
    <2>1. \A i \in 3 .. Len(b) : b[i] \in Word
      BY <1>1, ElementOfSeq
    <2>2. 3 \in Int /\ Len(b) \in Int /\ 3 <= Len(b) + 1
      BY <1>1
    <2> DEFINE s == SubSeq(b, 3, Len(b))
    <2>3. /\ s \in Seq(Word)
          /\ Len(s) = IF 3 <= Len(b) THEN Len(b) - 3 + 1 ELSE 0
          /\ \A i \in 1 .. Len(b) - 3 + 1 : s[i] = b[3 + i - 1]
      BY <2>1, <2>2, SubSeqProperties
    <2>4. src = s
      BY DEF From
    <2> HIDE DEF s, src
    <2>5. Len(s) = Len(t)
      BY <2>3, <1>1
    <2>6. ASSUME NEW k \in 1 .. Len(t) PROVE s[k] = t[k]
      <3>1. k \in 1 .. Len(b) - 3 + 1 /\ 3 + k - 1 = k + 2
        BY <1>1
      <3>2. s[k] = b[k + 2]
        BY <3>1, <2>3
      <3> QED  BY <3>2 DEF Copied
    <2> QED  BY <2>3, <2>4, <2>5, <2>6
  <1> HIDE DEF src, z
  <1>4. /\ c \in Seq(Word) /\ Len(c) = Len(b)
        /\ \A k \in 1 .. Len(b) : c[k] = IF k \in 1 .. Len(src) THEN src[k] ELSE b[k]
    BY <1>3, MemmoveStart
  <1> HIDE DEF c
  <1>5. /\ d \in Seq(Word) /\ Len(d) = Len(c)
        /\ \A k \in 1 .. Len(c) :
             d[k] = IF k - Len(t) \in 1 .. Len(z) THEN z[k - Len(t)] ELSE c[k]
    <2> DEFINE at == Len(t)
               f  == Memmove(c, at, z)
    <2>1. c \in Seq(Word) /\ z \in Seq(Word) /\ at \in Nat
      BY <1>1, <1>2, <1>4
    <2> HIDE DEF at
    <2>2. /\ f \in Seq(Word) /\ Len(f) = Len(c)
          /\ \A k \in 1 .. Len(c) : f[k] = IF k - at \in 1 .. Len(z) THEN z[k - at] ELSE c[k]
      BY <2>1, MemmoveResult
    <2> QED  BY <2>2 DEF at
  <1>6. /\ e \in Seq(Word) /\ Len(e) = Len(t) + Len(z)
        /\ \A i \in 1 .. Len(t) + Len(z) :
             e[i] = IF i <= Len(t) THEN t[i] ELSE z[i - Len(t)]
    BY <1>2, ConcatProperties
  <1> HIDE DEF d, e
  <1> DEFINE n == Len(t)
  <1>10. /\ n \in Nat /\ Len(z) = 2 /\ Len(src) = n /\ Len(b) = 2 + n
         /\ Len(c) = 2 + n /\ Len(d) = 2 + n
    BY <1>1, <1>2, <1>3, <1>4, <1>5
  <1>11. \A k \in 1 .. 2 + n :
           /\ d[k] = IF k - n \in 1 .. 2 THEN z[k - n] ELSE c[k]
           /\ e[k] = IF k <= n THEN t[k] ELSE z[k - n]
           /\ c[k] = IF k \in 1 .. n THEN src[k] ELSE b[k]
    <2>1. n + 2 = 2 + n
      BY <1>10
    <2> QED  BY <1>4, <1>5, <1>6, <1>10, <2>1
  <1>12. \A k \in 1 .. n : src[k] = t[k]
    BY <1>3
  <1> HIDE DEF n
  <1>7. ASSUME NEW k \in 1 .. Len(d) PROVE d[k] = e[k]
    <2>1. k \in 1 .. 2 + n
      BY <1>10
    <2>2. CASE k <= n
      <3>1. k \in 1 .. n /\ ~(k - n \in 1 .. 2)
        BY <2>1, <2>2, <1>10
      <3> QED  BY <3>1, <2>1, <2>2, <1>11, <1>12
    <2>3. CASE ~(k <= n)
      <3>1. k - n \in 1 .. 2
        BY <2>1, <2>3, <1>10
      <3> QED  BY <3>1, <2>1, <2>3, <1>11
    <2> QED  BY <2>2, <2>3
  <1>8. Len(d) = Len(e)
    BY <1>1, <1>2, <1>4, <1>5, <1>6
  <1>9. d = e
    BY <1>5, <1>6, <1>7, <1>8, SeqEqual
  <1> QED  BY <1>9 DEF d, e, c, src, z

(***************************************************************************)
(* Zeros written over a whole buffer leave nothing of it.                  *)
(***************************************************************************)
LEMMA Cleared ==
  ASSUME NEW b \in Seq(Word)
  PROVE  Memmove(b, 0, Zeros(Len(b))) = Zeros(Len(b))
  <1> DEFINE z == Zeros(Len(b))
             c == Memmove(b, 0, z)
  <1>1. Len(b) \in Nat
    BY LenProperties
  <1>2. z \in Seq(Word) /\ Len(z) = Len(b)
    BY <1>1, ZerosAreWords
  <1> HIDE DEF z
  <1>3. /\ c \in Seq(Word) /\ Len(c) = Len(b)
        /\ \A k \in 1 .. Len(b) : c[k] = IF k \in 1 .. Len(z) THEN z[k] ELSE b[k]
    BY <1>2, MemmoveStart
  <1> HIDE DEF c
  <1>4. \A k \in 1 .. Len(c) : c[k] = z[k]
    BY <1>2, <1>3
  <1>5. c = z
    BY <1>2, <1>3, <1>4, SeqEqual
  <1> QED  BY <1>5 DEF c, z

(***************************************************************************)
(* A step that reaches a verdict leaves what open.c promises in m, and no  *)
(* other step changes m or the arguments at a verdict.                     *)
(***************************************************************************)
LEMMA NextOpenContract == IInv /\ OpenContract /\ [Next]_vars => OpenContract'
  <1> SUFFICES ASSUME IInv, OpenContract, [Next]_vars PROVE OpenContract'
    OBVIOUS
  <1>1. CASE OpenCompare
    <2> DEFINE t == args[3]
    <2>1. pc \in OpenPcs /\ Copied(m, t)
      BY <1>1 DEF OpenCompare, OpenPcs, IInv, OpenProgress
    <2>2. /\ t \in Seq(Word) /\ Len(t) \in Nat /\ Len(sm) = 2 + Len(t)
          /\ m \in Seq(Word) /\ Len(m) = 2 + Len(t)
      BY <2>1, OpenArguments
    <2>3. Len(sm) - 2 = Len(t)
      BY <2>2
    <2>4. Memmove(Memmove(m, 0, From(m, 2)), Len(sm) - 2, Zeros(2)) = t \o Zeros(2)
      BY <2>1, <2>2, <2>3, ShiftedDown
    <2> QED  BY <1>1, <2>4 DEF OpenCompare, OpenContract
  <1>2. CASE OpenBadsig
    <2>1. pc \in OpenPcs
      BY <1>2 DEF OpenBadsig, OpenPcs
    <2>2. m \in Seq(Word) /\ Len(sm) = Len(m) /\ Len(m) = 2 + Len(args[3])
      BY <2>1, OpenArguments
    <2>3. Memmove(m, 0, Zeros(Len(sm))) = Zeros(2 + Len(args[3]))
      BY <2>2, Cleared
    <2> QED  BY <1>2, <2>3 DEF OpenBadsig, OpenContract
  <1>3. CASE UNCHANGED vars
    BY <1>3 DEF vars, OpenContract
  <1>4. CASE Next /\ ~OpenCompare /\ ~OpenBadsig
    <2> SUFFICES ~(pc' \in {"open_good", "open_bad"})
      BY DEF OpenContract
    <2>1. CASE Call \/ StringValue
      BY <2>1 DEF Call, StringValue
    <2>2. CASE CheckLengths
      <3>1. pc' \in {"idle", "seed_hash", "sign_alloc", "verify_alloc"}
        BY <2>2 DEF CheckLengths, End, IInv, TypeOK, P!Operations, P!Arity
      <3> QED  BY <3>1
    <2>3. CASE OutOfMemory \/ SeedReturn \/ SignReturn \/ VerifyReturn
      BY <2>3 DEF OutOfMemory, SeedReturn, SignReturn, VerifyReturn, End
    <2>4. CASE SeedHash \/ SeedMult \/ SeedCopy
      BY <2>4 DEF SeedHash, SeedMult, SeedCopy
    <2>5. CASE SignAlloc \/ SignAz \/ SignNonce \/ SignR \/ SignHram \/ SignS
      BY <2>5 DEF SignAlloc, SignAz, SignNonce, SignR, SignHram, SignS
    <2>6. CASE VerifyAlloc \/ VerifyAlloc2 \/ VerifyCopy \/ OpenCheck \/ OpenHash
               \/ OpenEquation
      BY <2>6 DEF VerifyAlloc, VerifyAlloc2, VerifyCopy, OpenCheck, OpenHash, OpenEquation
    <2> QED  BY <1>4, <2>1, <2>2, <2>3, <2>4, <2>5, <2>6 DEF Next
  <1> QED  BY <1>1, <1>2, <1>3, <1>4

(***************************************************************************)
(* The inductive invariant holds throughout: types, the answered log, the  *)
(* sizes of arguments and buffers, the count of buffers, and what has been *)
(* computed at each point of the three functions.                          *)
(***************************************************************************)
THEOREM Ref10Invariant == Spec => []IInv
  BY InitIInv, NextIInv, PTL DEF Spec

(***************************************************************************)
(* The variables keep their types.                                         *)
(***************************************************************************)
THEOREM Ref10TypeOK == Spec => []TypeOK
  <1>1. IInv => TypeOK
    BY DEF IInv
  <1> QED  BY <1>1, Ref10Invariant, PTL

(***************************************************************************)
(* Whatever an argument's to_str does, the C functions only run on strings *)
(* and buffers of the lengths they assume.                                 *)
(***************************************************************************)
THEOREM Ref10InBounds == Spec => []InBounds
  <1>1. IInv => InBounds
    BY DEF IInv, InBounds, Called, Buffers, P!WellSized, CreatePcs, SignPcs, OpenPcs
  <1> QED  BY <1>1, Ref10Invariant, PTL

(***************************************************************************)
(* Only a failed allocation leaves a buffer behind, and at most one.       *)
(***************************************************************************)
THEOREM Ref10NoLeak == Spec => []NoLeak
  <1>1. IInv => NoLeak
    BY DEF IInv, NoLeak, Accounted, Held, SignPcs, OpenPcs, TypeOK
  <1> QED  BY <1>1, Ref10Invariant, PTL

(***************************************************************************)
(* The scalar multiplications are only applied to scalars in their range.  *)
(***************************************************************************)
THEOREM Ref10ScalarsInRange == Spec => []ScalarsInRange
  <1>1. ASSUME IInv PROVE ScalarsInRange
    <2>1. ASSUME pc = "seed_mult" PROVE loc.sk < 2 * Top
      <3>1. LowHalf(Sha512(<<args[1][1]>>)) \in Word
        BY DigestRange, DigestHalves
      <3>2. loc.sk = ClampKeypair(LowHalf(Sha512(<<args[1][1]>>)))
        BY <1>1, <2>1 DEF IInv, CreateProgress
      <3> QED  BY <3>1, <3>2, ClampsAgree, ClampRange
    <2>2. ASSUME pc = "sign_R" PROVE loc.nonce < 2 * Top
      <3>1. loc.nonce = Nonce(args[1][1], args[2])
        BY <1>1, <2>2 DEF IInv, SignProgress
      <3>2. loc.nonce \in 0 .. L - 1
        BY <3>1, DigestRange DEF Nonce
      <3> QED  BY <3>2, ParamsAssumption
    <2>3. ASSUME pc = "open_equation"
          PROVE  2 * loc.hram < Top /\ 2 * loc.scopy < Top
      <3>1. /\ loc.hram = Challenge(args[2][1], args[1][1], args[3])
            /\ loc.scopy = args[2][2] /\ 2 * args[2][2] < Top
        BY <1>1, <2>3 DEF IInv, OpenProgress
      <3>2. loc.hram \in 0 .. L - 1
        BY <3>1, DigestRange DEF Challenge
      <3> QED  BY <3>1, <3>2, ReducedRange
    <2> QED  BY <2>1, <2>2, <2>3 DEF ScalarsInRange
  <1> QED  BY <1>1, Ref10Invariant, PTL

(***************************************************************************)
(* crypto_sign_open's output buffer holds the message and 64 zero bytes    *)
(* when it accepts and nothing of the message when it does not.            *)
(***************************************************************************)
THEOREM Ref10OpenContract == Spec => []OpenContract
  <1>1. Init => OpenContract
    BY DEF Init, OpenContract
  <1> QED  BY <1>1, NextOpenContract, Ref10Invariant, PTL DEF Spec

(***************************************************************************)
(* A step that changes the log completes one call, and answers it.         *)
(***************************************************************************)
LEMMA StepRefines == IInv /\ IInv' /\ [Next]_vars => [P!Complete]_log
  <1> SUFFICES ASSUME IInv, IInv', [Next]_vars, log' # log PROVE P!Complete
    OBVIOUS
  <1>1. \E c : log' = log \cup {c}
    <2>1. CASE CheckLengths
      BY <2>1 DEF CheckLengths, End
    <2>2. CASE OutOfMemory
      BY <2>2 DEF OutOfMemory, End
    <2>3. CASE SeedReturn
      BY <2>3 DEF SeedReturn, End
    <2>4. CASE SignReturn
      BY <2>4 DEF SignReturn, End
    <2>5. CASE VerifyReturn
      BY <2>5 DEF VerifyReturn, End
    <2>6. CheckLengths \/ OutOfMemory \/ SeedReturn \/ SignReturn \/ VerifyReturn
      BY DEF vars, Next, Call, StringValue, SeedHash, SeedMult, SeedCopy, SignAlloc,
             SignAz, SignNonce, SignR, SignHram, SignS, VerifyAlloc, VerifyAlloc2,
             VerifyCopy, OpenCheck, OpenHash, OpenEquation, OpenCompare, OpenBadsig
    <2> QED  BY <2>1, <2>2, <2>3, <2>4, <2>5, <2>6
  <1>2. PICK c : log' = log \cup {c}
    BY <1>1
  <1>3. c \in log' \ log
    BY <1>2
  <1>4. P!Answered(c)
    BY <1>3 DEF IInv, Logged
  <1> QED  BY <1>2, <1>3, <1>4 DEF P!Complete

(***************************************************************************)
(* The C provider implements the abstract one: every call it completes is  *)
(* answered as the scheme prescribes for the strings it was given.         *)
(***************************************************************************)
THEOREM Ref10Provides == Spec => Provides
  <1>1. Init => P!Init
    BY DEF Init, P!Init
  <1>2. Spec => P!Spec
    BY <1>1, StepRefines, Ref10Invariant, PTL DEF Spec, P!Spec
  <1> QED  BY <1>2 DEF Provides

(***************************************************************************)
(* Every call of any provider was answered as the scheme prescribes.       *)
(***************************************************************************)
THEOREM ProviderAnswers == P!Spec => []Logged
  <1>1. P!Init => Logged
    BY DEF P!Init, Logged
  <1>2. Logged /\ [P!Complete]_log => Logged'
    BY DEF Logged, P!Complete
  <1> QED  BY <1>1, <1>2, PTL DEF P!Spec

(***************************************************************************)
(* README.md: the same key "will always generate the same signature for    *)
(* the same data".  Two calls given the same strings returned the same     *)
(* value.                                                                  *)
(***************************************************************************)
THEOREM ProviderDeterministic == P!Spec => []P!Deterministic
  <1>1. ASSUME Logged PROVE P!Deterministic
    <2> SUFFICES ASSUME NEW c \in log, NEW d \in log, c.op = d.op, c.args = d.args,
                        "NoMemoryError" \notin {c.res.status, d.res.status}
                 PROVE  c.res = d.res
      BY DEF P!Deterministic
    <2>1. /\ c.op \in P!Operations
          /\ P!Prescribed(c.op, c.args, c.res) /\ P!Prescribed(c.op, c.args, d.res)
      BY <1>1 DEF Logged, P!Answered, P!Raised
    <2> QED  BY <2>1 DEF P!Prescribed, P!Operations, P!Arity
  <1> QED  BY <1>1, ProviderAnswers, PTL

(***************************************************************************)
(* A signature made with a keypair of create_keypair verifies under its    *)
(* public half on the same message, whatever calls came between (unless    *)
(* verification ran out of memory).                                        *)
(***************************************************************************)
THEOREM ProviderRoundTrip == P!Spec => []P!RoundTrip
  <1>1. ASSUME Logged PROVE P!RoundTrip
    <2> SUFFICES ASSUME NEW c \in log, NEW s \in log, NEW v \in log, P!Chain(c, s, v)
                 PROVE  v.res.status \in {"true", "NoMemoryError"}
      BY DEF P!RoundTrip
    <2> DEFINE seed == c.args[1][1]
               k == Keypair(seed)
               t == s.args[2]
               sig == Signature(k, t)
    <2>1. P!Answered(c) /\ P!Answered(s) /\ P!Answered(v)
      BY <1>1 DEF Logged
    <2>2. /\ P!Prescribed(c.op, c.args, c.res) /\ P!WellSized(c.op, c.args)
          /\ P!Prescribed(s.op, s.args, s.res) /\ P!WellSized(s.op, s.args)
      BY <2>1 DEF P!Chain, P!Answered, P!Prescribed, P!Raised
    <2>3. c.res.value = k
      <3>1. c.res = P!String(P!Keypair(seed))
        BY <2>2 DEF P!Prescribed, P!Chain
      <3> QED  BY <3>1, SameScheme DEF P!String
    <2>4. s.args[1] = k /\ s.res.value = sig
      <3>1. s.res = P!String(P!Signature(s.args[1], s.args[2])) /\ s.args[1] = k
        BY <2>2, <2>3 DEF P!Prescribed, P!Chain
      <3> QED  BY <3>1, SameScheme DEF P!String
    <2>5. seed \in Word
      <3>1. /\ c.args \in Seq(Seq(Word)) /\ Len(c.args) = 1 /\ Len(c.args[1]) = 1
        BY <2>1, <2>2, SameScheme DEF P!Answered, P!Chain, P!Arity, P!WellSized
      <3>2. c.args[1] \in Seq(Word)
        BY <3>1
      <3> QED  BY <3>1, <3>2
    <2>6. k \in Word \X Word /\ sig \in Word \X Word
      BY <2>5, PairsOfWords
    <2>7. Accepts(k[2], sig, t)
      BY <2>5, SignatureVerifies
    <2> HIDE DEF seed, k, t, sig
    <2>8. v.op = "verify" /\ v.args = <<<<k[2]>>, sig, t>>
      BY <2>3, <2>4 DEF P!Chain, t
    <2>9. P!WellSized("verify", v.args)
      <3>1. Len(<<k[2]>>) = 1 /\ Len(sig) = 2
        BY <2>6
      <3> QED  BY <2>8, <3>1 DEF P!WellSized
    <2>10. P!Accepts(v.args[1][1], v.args[2], v.args[3])
      BY <2>7, <2>8, SameScheme
    <2>11. P!Prescribed(v.op, v.args, v.res) => v.res = P!Truth(TRUE)
      BY <2>8, <2>9, <2>10 DEF P!Prescribed
    <2> QED  BY <2>1, <2>11 DEF P!Answered, P!Truth, P!Raised
  <1> QED  BY <1>1, ProviderAnswers, PTL

(***************************************************************************)
(* Two completed calls of the C provider given the same strings returned   *)
(* the same value: neither garbage in memory nor earlier calls show.       *)
(***************************************************************************)
THEOREM Ref10Deterministic == Spec => []Deterministic
  BY Ref10Provides, ProviderDeterministic, PTL DEF Provides, Deterministic

(***************************************************************************)
(* A signature the C provider made with a keypair it created verifies      *)
(* under that keypair's public half, unless memory ran out.                *)
(***************************************************************************)
THEOREM Ref10RoundTrip == Spec => []RoundTrip
  BY Ref10Provides, ProviderRoundTrip, PTL DEF Provides, RoundTrip
=============================================================================
