------------------------ MODULE JRubyProvider_proofs ------------------------
(***************************************************************************)
(* The Java provider stands in for the C one wherever keys and signatures  *)
(* are standard, whatever other threads write to the strings of a call.    *)
(***************************************************************************)
EXTENDS JRubyProvider, EdDSA_proofs, SequenceTheorems

(***************************************************************************)
(* The instance of Provider speaks of the same scheme.                     *)
(***************************************************************************)
LEMMA SameScheme ==
  /\ Common!Word = Word
  /\ \A seed : Common!Keypair(seed) = Keypair(seed)
  /\ \A k, t : Common!Signature(k, t) = Signature(k, t)
  /\ \A pk, sig, t : Common!Accepts(pk, sig, t) = Accepts(pk, sig, t)
  <1>1. Common!Word = Word /\ Common!Digest = Digest
    BY DEF Common!Word, Word, Common!Digest, Digest
  <1>2. \A s : Common!Sha512(s) = Sha512(s)
    BY <1>1 DEF Common!Sha512, Sha512
  <1>3. \A w : /\ Common!LowHalf(w) = LowHalf(w) /\ Common!HighHalf(w) = HighHalf(w)
               /\ Common!ClampKeypair(w) = ClampKeypair(w) /\ Common!ClampSign(w) = ClampSign(w)
               /\ Common!sc_reduce(w) = sc_reduce(w) /\ Common!Negate(w) = Negate(w)
               /\ Common!ge_scalarmult_base(w) = ge_scalarmult_base(w)
    BY DEF Common!LowHalf, LowHalf, Common!HighHalf, HighHalf, Common!ClampKeypair, ClampKeypair,
           Common!ClampSign, ClampSign, Common!sc_reduce, sc_reduce, Common!Negate, Negate,
           Common!ge_scalarmult_base, ge_scalarmult_base
  <1>4. \A a, b, c :
          /\ Common!sc_muladd(a, b, c) = sc_muladd(a, b, c)
          /\ Common!ge_double_scalarmult_vartime(a, b, c) = ge_double_scalarmult_vartime(a, b, c)
    BY DEF Common!sc_muladd, sc_muladd, Common!ge_double_scalarmult_vartime,
           ge_double_scalarmult_vartime
  <1>5. \A r : Common!Commitment(r) = Commitment(r)
    BY <1>3 DEF Common!Commitment, Commitment
  <1>6. \A R, pk, t : Common!Challenge(R, pk, t) = Challenge(R, pk, t)
    BY <1>2, <1>3 DEF Common!Challenge, Challenge
  <1>7. \A s : Common!SecretScalar(s) = SecretScalar(s)
    BY <1>2, <1>3 DEF Common!SecretScalar, SecretScalar
  <1>8. \A s, t : Common!Nonce(s, t) = Nonce(s, t)
    BY <1>2, <1>3 DEF Common!Nonce, Nonce
  <1>9. \A a, r, pk, t : Common!Respond(a, r, pk, t) = Respond(a, r, pk, t)
    BY <1>4, <1>5, <1>6 DEF Common!Respond, Respond
  <1>10. \A k, t : Common!Signature(k, t) = Signature(k, t)
    BY <1>7, <1>8, <1>9 DEF Common!Signature, Signature
  <1>11. \A pk, sig, t : Common!Recomputed(pk, sig, t) = Recomputed(pk, sig, t)
    BY <1>3, <1>4, <1>6 DEF Common!Recomputed, Recomputed
  <1>12. \A pk, sig, t : Common!Accepts(pk, sig, t) = Accepts(pk, sig, t)
    BY <1>11 DEF Common!Accepts, Accepts
  <1>13. \A seed : Common!Keypair(seed) = Keypair(seed)
    BY <1>2, <1>3 DEF Common!Keypair, Keypair
  <1> QED  BY <1>1, <1>10, <1>12, <1>13

(***************************************************************************)
(* So it calls the same calls answered.                                    *)
(***************************************************************************)
LEMMA SameAnswers == \A c : Common!Answered(c) <=> Answered(c)
  <1>1. Common!Arity = Arity /\ Common!Operations = Operations
    BY DEF Common!Arity, Arity, Common!Operations, Operations
  <1>2. /\ \A e : Common!Raised(e) = Raised(e) /\ Common!String(e) = String(e)
        /\ Common!Truth(TRUE) = Truth(TRUE) /\ Common!Truth(FALSE) = Truth(FALSE)
    BY DEF Common!Raised, Raised, Common!String, String, Common!Truth, Truth
  <1>3. \A o, strings : Common!WellSized(o, strings) <=> WellSized(o, strings)
    BY DEF Common!WellSized, WellSized
  <1>4. \A pk, sig, t : Common!Truth(Common!Accepts(pk, sig, t)) = Truth(Accepts(pk, sig, t))
    BY SameScheme DEF Common!Truth, Truth
  <1>5. \A o, strings, res :
          Common!Prescribed(o, strings, res) <=> Prescribed(o, strings, res)
    BY <1>2, <1>3, <1>4, SameScheme DEF Common!Prescribed, Prescribed
  <1> QED  BY <1>1, <1>2, <1>3, <1>5, SameScheme DEF Common!Answered, Answered

-----------------------------------------------------------------------------
(* The steps. *)

(***************************************************************************)
(* The invariant holds initially.                                          *)
(***************************************************************************)
LEMMA InitIInv == JavaInit => JavaIInv
  <1> SUFFICES ASSUME JavaInit PROVE JavaIInv
    OBVIOUS
  <1>1. 0 \in Word /\ 0 \in Point
    BY ParamsAssumption DEF Word, Point
  <1>2. <<>> \in Seq(Seq(Word))
    BY EmptySeq
  <1> QED  BY <1>1, <1>2 DEF JavaInit, NoKey, JavaIInv, JavaTypeOK, JavaLogged, JavaCalled,
              Operations, Arity

(***************************************************************************)
(* What the measured arguments are once their lengths have been checked.   *)
(***************************************************************************)
LEMMA CheckedArguments ==
  ASSUME JavaTypeOK, JavaCalled, step # "idle", WellSized(call, given)
  PROVE  /\ given[1] \in Seq(Word) /\ given[1][1] \in Word
         /\ call = "verify" =>
              /\ given[2] \in Seq(Word) /\ Len(given[2]) = 2
              /\ given[2][1] \in Word /\ given[2][2] \in Word
  <1>1. call \in {"create_keypair", "sign", "verify"} /\ Len(given) = Arity[call]
    BY DEF JavaTypeOK, JavaCalled, Operations, Arity
  <1>2. \A i \in 1 .. Len(given) : given[i] \in Seq(Word)
    BY ElementOfSeq DEF JavaTypeOK
  <1>3. \A s \in Seq(Word) : \A i \in 1 .. Len(s) : s[i] \in Word
    BY ElementOfSeq
  <1>4. Len(given) \in 1 .. 3 /\ (call = "verify" => Len(given) = 3)
    BY <1>1 DEF Arity
  <1>5. Len(given[1]) \in {1, 2} /\ (call = "verify" => Len(given[2]) = 2)
    BY <1>1 DEF WellSized
  <1> QED  BY <1>2, <1>3, <1>4, <1>5

(***************************************************************************)
(* Ending a call with its outcome keeps the invariant.                     *)
(***************************************************************************)
LEMMA EndKeepsIInv ==
  ASSUME JavaIInv, step # "idle", JavaEnd(Outcome(call, given))
  PROVE  JavaIInv'
  <1> DEFINE res == Outcome(call, given)
             c == Record(call, given, res)
  <1>1. c.op = call /\ c.args = given /\ c.res = res
    BY DEF Record
  <1>2. calls' = calls \cup {c} /\ UNCHANGED <<call, given, copied, key>> /\ step' = "idle"
    BY DEF JavaEnd
  <1>3. call \in Operations /\ given \in Seq(Seq(Word)) /\ Len(given) = Arity[call]
    BY DEF JavaIInv, JavaTypeOK, JavaCalled
  <1> HIDE DEF res, c
  <1>4. JavaLogged'
    BY <1>1, <1>2, <1>3 DEF JavaIInv, JavaLogged, res
  <1>5. JavaTypeOK' /\ JavaCalled'
    BY <1>2 DEF JavaIInv, JavaTypeOK, JavaCalled
  <1> QED  BY <1>4, <1>5 DEF JavaIInv

(***************************************************************************)
(* Strings returned by calls are pairs of Words.                           *)
(***************************************************************************)
LEMMA ReturnedStrings ==
  ASSUME JavaLogged
  PROVE  /\ \A k \in OwnKeypairs : k \in Seq(Word) /\ k[2] \in Word
         /\ OwnSignatures \subseteq Seq(Word)
  <1>1. ASSUME NEW k \in Word \X Word PROVE k \in Seq(Word) /\ k[2] \in Word
    <2>1. PICK a \in Word, b \in Word : k = <<a, b>>
      OBVIOUS
    <2>2. <<a, b>> \in Seq(Word)
      OBVIOUS
    <2> QED  BY <2>1, <2>2
  <1>2. ASSUME NEW c \in calls, c.res.status = "string", c.op \in {"create_keypair", "sign"}
        PROVE  c.res.value \in Word \X Word
    <2>1. c.res = Outcome(c.op, c.args) /\ WellSized(c.op, c.args)
      BY <1>2 DEF JavaLogged, Outcome, Raised
    <2>2. c.args \in Seq(Seq(Word)) /\ Len(c.args) \in {1, 2} /\ Len(c.args[1]) \in {1, 2}
      BY <1>2, <2>1 DEF JavaLogged, Arity, WellSized
    <2>3. c.args[1] \in Seq(Word)
      BY <2>2, ElementOfSeq
    <2>4. c.args[1][1] \in Word
      BY <2>2, <2>3, ElementOfSeq
    <2>5. Keypair(c.args[1][1]) \in Word \X Word
      BY <2>4, PairsOfWords
    <2>6. Signature(Keypair(c.args[1][1]), c.args[2]) \in Word \X Word
      BY <2>5, PairsOfWords
    <2> QED  BY <1>2, <2>1, <2>5, <2>6 DEF Outcome, String
  <1> QED  BY <1>1, <1>2 DEF OwnKeypairs, OwnSignatures, Results

(***************************************************************************)
(* A new call.                                                             *)
(***************************************************************************)
LEMMA CallStep == ASSUME JavaIInv, JavaCall PROVE JavaIInv'
  <1> USE DEF JavaIInv
  <1>1. /\ call' \in Operations /\ given' \in Seq(Seq(Word))
        /\ Len(given') = Arity[call']
    <2> DEFINE T == Seq(Word)
    <2>1. /\ Seeds \cup Strays \cup Messages \subseteq T
          /\ OwnKeypairs \subseteq T /\ OwnSignatures \subseteq T
      BY InputsAssumption, ReturnedStrings
    <2>2. OwnPublicKeys \subseteq T
      <3>1. \A w \in Word : <<w>> \in T
        OBVIOUS
      <3> QED  BY <3>1, ReturnedStrings DEF OwnPublicKeys
    <2> HIDE DEF T
    <2>3. \A s, t, u \in T : /\ <<s>> \in Seq(T) /\ Len(<<s>>) = 1
                             /\ <<s, t>> \in Seq(T) /\ Len(<<s, t>>) = 2
                             /\ <<s, t, u>> \in Seq(T) /\ Len(<<s, t, u>>) = 3
      OBVIOUS
    <2>4. CASE call' = "create_keypair" /\ given' \in {<<s>> : s \in Seeds \cup Strays}
      <3>1. PICK s \in T : given' = <<s>>
        BY <2>1, <2>4
      <3> QED  BY <2>3, <2>4, <3>1 DEF Operations, Arity, T
    <2>5. CASE call' = "sign" /\ given' \in {<<k, t>> : k \in OwnKeypairs \cup Strays, t \in Messages}
      <3>1. PICK s \in T, t \in T : given' = <<s, t>>
        BY <2>1, <2>5
      <3> QED  BY <2>3, <2>5, <3>1 DEF Operations, Arity, T
    <2>6. CASE /\ call' = "verify"
               /\ given' \in {<<k, s, t>> : k \in OwnPublicKeys \cup Strays,
                                           s \in OwnSignatures \cup Strays, t \in Messages}
      <3>1. PICK s \in T, t \in T, u \in T : given' = <<s, t, u>>
        BY <2>1, <2>2, <2>6
      <3> QED  BY <2>3, <2>6, <3>1 DEF Operations, Arity, T
    <2> QED  BY <2>4, <2>5, <2>6 DEF JavaCall
  <1>2. JavaTypeOK'
    <2>1. 0 \in Word /\ 0 \in Point
      BY ParamsAssumption DEF Word, Point
    <2> QED  BY <1>1, <2>1 DEF JavaCall, NoKey, JavaTypeOK
  <1>3. JavaCalled'
    <2>1. Arity[call'] \in 1 .. 3 /\ Measured[call'] \in 1 .. 2
      BY <1>1 DEF Operations, Arity, Measured
    <2>2. step' = "convert" /\ copied' = 0 /\ ~Specified'
      BY <2>1 DEF JavaCall, Specified
    <2> QED  BY <1>1, <2>1, <2>2 DEF JavaCalled
  <1>4. JavaLogged'
    BY DEF JavaCall, JavaLogged
  <1> QED  BY <1>2, <1>3, <1>4

(***************************************************************************)
(* A write only reaches arguments whose bytes have not been copied, which  *)
(* nothing depends on yet.                                                 *)
(***************************************************************************)
LEMMA WriteStep == ASSUME JavaIInv, WriteArgument PROVE JavaIInv'
  <1> USE DEF JavaIInv
  <1>1. PICK j \in (copied + 1) .. Len(given), s \in Strays :
          given' = [given EXCEPT ![j] = s]
    BY DEF WriteArgument
  <1>2. given' \in Seq(Seq(Word)) /\ Len(given') = Len(given)
    <2>1. given \in Seq(Seq(Word)) /\ s \in Seq(Word) /\ j \in 1 .. Len(given)
      BY <1>1, InputsAssumption DEF JavaTypeOK
    <2> QED  BY <1>1, <2>1, ExceptSeq
  <1>3. \A i \in 1 .. copied : given'[i] = given[i]
    BY <1>1 DEF JavaTypeOK
  <1>4. JavaTypeOK' /\ JavaLogged'
    BY <1>2 DEF WriteArgument, JavaTypeOK, JavaLogged
  <1>5. ASSUME copied >= Measured[call]
        PROVE  /\ WellSized(call, given) <=> WellSized(call, given')
               /\ given'[1] = given[1]
    <2>1. call \in {"create_keypair", "sign", "verify"}
      BY DEF JavaTypeOK, Operations, Arity
    <2>2. copied >= 1 /\ (call = "verify" => copied >= 2) /\ copied \in Nat
      BY <1>5, <2>1 DEF Measured, JavaTypeOK
    <2>3. given'[1] = given[1] /\ (call = "verify" => given'[2] = given[2])
      BY <1>3, <2>2
    <2> QED  BY <2>3 DEF WellSized
  <1>6. JavaCalled'
    <2>1. step \in {"check", "key", "finish"} \/ Specified => copied >= Measured[call]
      <3>1. call \in {"create_keypair", "sign", "verify"}
        BY DEF JavaTypeOK, Operations, Arity
      <3>2. Arity[call] >= Measured[call] /\ Arity[call] \in Nat /\ Measured[call] \in Nat
        BY <3>1 DEF Arity, Measured
      <3> QED  BY <3>2 DEF WriteArgument, JavaCalled, Specified
    <2>2. UNCHANGED <<step, call, copied, key>>
      BY DEF WriteArgument
    <2> QED  BY <1>2, <1>5, <2>1, <2>2 DEF JavaCalled, Specified
  <1> QED  BY <1>4, <1>6

(***************************************************************************)
(* The next argument is converted.                                         *)
(***************************************************************************)
LEMMA ConvertStep == ASSUME JavaIInv, Convert PROVE JavaIInv'
  <1> USE DEF JavaIInv
  <1>1. /\ call \in {"create_keypair", "sign", "verify"} /\ copied \in Nat
        /\ copied <= Measured[call] /\ copied < Len(given)
        /\ Len(given) = Arity[call]
    BY DEF Convert, JavaCalled, JavaTypeOK, Operations, Arity
  <1>2. Measured[call] \in 1 .. 2 /\ Arity[call] \in Measured[call] .. Measured[call] + 1
    BY <1>1 DEF Arity, Measured
  <1>3. JavaTypeOK' /\ JavaLogged'
    BY <1>1 DEF Convert, JavaTypeOK, JavaLogged
  <1>4. CASE copied + 1 < Measured[call]
    <2>1. step' = "convert" /\ copied' = copied + 1 /\ ~Specified'
      BY <1>1, <1>2, <1>4 DEF Convert, Specified
    <2> QED  BY <1>1, <1>2, <1>3, <1>4, <2>1 DEF Convert, JavaCalled
  <1>5. CASE copied + 1 = Measured[call]
    <2>1. step' = "check" /\ copied' = copied + 1 /\ ~Specified'
      BY <1>1, <1>2, <1>5 DEF Convert, Specified
    <2> QED  BY <1>1, <1>2, <1>3, <1>5, <2>1 DEF Convert, JavaCalled
  <1>6. CASE copied = Measured[call]
    <2>1. Specified /\ step' = "finish" /\ copied' = copied + 1
      BY <1>1, <1>2, <1>6 DEF Convert, Specified
    <2> QED  BY <1>1, <1>2, <1>3, <1>6, <2>1 DEF Convert, JavaCalled, Specified
  <1> QED  BY <1>1, <1>2, <1>3, <1>4, <1>5, <1>6

(***************************************************************************)
(* The length checks.                                                      *)
(***************************************************************************)
LEMMA CheckStep == ASSUME JavaIInv, Check PROVE JavaIInv'
  <1>1. CASE ~WellSized(call, given) /\ JavaEnd(Raised("ArgumentError"))
    <2>1. Outcome(call, given) = Raised("ArgumentError") /\ step # "idle"
      BY <1>1 DEF Check, Outcome
    <2> QED  BY <1>1, <2>1, EndKeepsIInv
  <1>2. CASE /\ WellSized(call, given) /\ step' = "key"
             /\ UNCHANGED <<calls, call, given, copied, key>>
    BY <1>2 DEF Check, JavaIInv, JavaTypeOK, JavaLogged, JavaCalled, Specified
  <1> QED  BY <1>1, <1>2 DEF Check

(***************************************************************************)
(* The private key is derived.                                             *)
(***************************************************************************)
LEMMA DeriveKeyStep == ASSUME JavaIInv, DeriveKey PROVE JavaIInv'
  <1> USE DEF JavaIInv
  <1>1. WellSized(call, given) /\ step # "idle"
    BY DEF DeriveKey, JavaCalled
  <1>2. given[1][1] \in Word
    BY <1>1, CheckedArguments
  <1>3. JavaTypeOK' /\ JavaLogged'
    BY <1>2, PrivateKeySpecResult DEF DeriveKey, JavaTypeOK, JavaLogged
  <1>4. /\ call \in {"create_keypair", "sign"} /\ Len(given) = Arity[call]
        /\ copied = Measured[call]
    BY DEF DeriveKey, JavaCalled, JavaTypeOK, Operations, Arity
  <1>5. JavaCalled'
    BY <1>1, <1>4 DEF DeriveKey, JavaCalled, Specified, Arity, Measured
  <1> QED  BY <1>3, <1>5

(***************************************************************************)
(* The verify key is decoded, or refused.                                  *)
(***************************************************************************)
LEMMA DecodeKeyStep == ASSUME JavaIInv, DecodeKey PROVE JavaIInv'
  <1> USE DEF JavaIInv
  <1>1. WellSized(call, given) /\ step # "idle" /\ call = "verify"
    BY DEF DecodeKey, JavaCalled
  <1>2. given[1][1] \in Word
    BY <1>1, CheckedArguments
  <1>3. CASE DecodePoint[given[1][1]] = NoPoint /\ JavaEnd(Raised("IllegalArgumentException"))
    <2>1. Outcome(call, given) = Raised("IllegalArgumentException")
      BY <1>1, <1>3 DEF Outcome
    <2> QED  BY <1>1, <1>3, <2>1, EndKeepsIInv
  <1>4. CASE /\ DecodePoint[given[1][1]] # NoPoint
             /\ key' = PublicKeySpec(given[1][1]) /\ step' = "convert"
             /\ UNCHANGED <<calls, call, given, copied>>
    <2>1. DecodePoint[given[1][1]] \in Point /\ 0 \in Word
      BY <1>2, <1>4, EncodingAssumption, ParamsAssumption DEF Word
    <2>2. JavaTypeOK' /\ JavaLogged'
      BY <1>4, <2>1 DEF JavaTypeOK, JavaLogged, PublicKeySpec
    <2>3. Len(given) = 3 /\ copied = 2 /\ Measured[call] = 2
      BY <1>1 DEF DecodeKey, JavaCalled, Arity, Measured
    <2>4. JavaCalled'
      BY <1>1, <1>4, <2>3 DEF JavaCalled, Specified, Arity, Measured, PublicKeySpec
    <2> QED  BY <2>2, <2>4
  <1> QED  BY <1>3, <1>4 DEF DecodeKey

(***************************************************************************)
(* The three ways to finish.                                               *)
(***************************************************************************)
LEMMA FinishStep ==
  ASSUME JavaIInv, FinishKeypair \/ FinishSign \/ FinishVerify PROVE JavaIInv'
  <1> USE DEF JavaIInv
  <1>1. step = "finish" /\ Specified /\ WellSized(call, given)
    BY DEF FinishKeypair, FinishSign, FinishVerify, JavaCalled, Specified
  <1>2. given[1][1] \in Word
    BY <1>1, CheckedArguments
  <1>3. CASE FinishKeypair
    <2>1. Keypair(given[1][1]) = <<given[1][1], EncodePoint[key.A]>>
      BY <1>1, <1>2, <1>3, PrivateKeySpecResult DEF FinishKeypair, JavaCalled
    <2>2. JavaEnd(Outcome(call, given))
      BY <1>1, <1>3, <2>1 DEF FinishKeypair, Outcome
    <2> QED  BY <1>1, <2>2, EndKeepsIInv
  <1>4. CASE FinishSign
    <2>1. key = PrivateKeySpec(given[1][1])
      BY <1>1, <1>4 DEF FinishSign, JavaCalled
    <2>2. Respond(key.a, sc_reduce(Sha512(<<key.prefix>> \o given[2])),
                  EncodePoint[key.A], given[2])
            = Signature(Keypair(given[1][1]), given[2])
      BY <1>2, <2>1, EngineSigns
    <2>3. JavaEnd(Outcome(call, given))
      BY <1>1, <1>4, <2>2 DEF FinishSign, Outcome
    <2> QED  BY <1>1, <2>3, EndKeepsIInv
  <1>5. CASE FinishVerify
    <2>1. key.A = DecodePoint[given[1][1]] /\ key.A # NoPoint
      BY <1>1, <1>5 DEF FinishVerify, JavaCalled
    <2>2. JavaEnd(Outcome(call, given))
      BY <1>1, <1>5, <2>1 DEF FinishVerify, Outcome
    <2> QED  BY <1>1, <2>2, EndKeepsIInv
  <1> QED  BY <1>3, <1>4, <1>5

-----------------------------------------------------------------------------
(* The theorems. *)

(***************************************************************************)
(* Every step preserves the invariant.                                     *)
(***************************************************************************)
LEMMA NextIInv == JavaIInv /\ [JavaNext]_javaVars => JavaIInv'
  <1> SUFFICES ASSUME JavaIInv, [JavaNext]_javaVars PROVE JavaIInv'
    OBVIOUS
  <1>1. CASE JavaNext
    BY <1>1, CallStep, WriteStep, ConvertStep, CheckStep, DeriveKeyStep,
       DecodeKeyStep, FinishStep DEF JavaNext
  <1>2. CASE UNCHANGED javaVars
    BY <1>2 DEF javaVars, JavaIInv, JavaTypeOK, JavaLogged, JavaCalled, Specified
  <1> QED  BY <1>1, <1>2

(***************************************************************************)
(* The inductive invariant holds throughout: every completed call ended    *)
(* as Outcome says, and the current one knows what it should.              *)
(***************************************************************************)
THEOREM JRubyInvariant == JavaSpec => []JavaIInv
  BY InitIInv, NextIInv, PTL DEF JavaSpec

(***************************************************************************)
(* The variables keep their types; in particular no call goes on with a    *)
(* key that did not decode.                                                *)
(***************************************************************************)
THEOREM JRubyTypeOK == JavaSpec => []JavaTypeOK
  <1>1. JavaIInv => JavaTypeOK
    BY DEF JavaIInv
  <1> QED  BY <1>1, JRubyInvariant, PTL

(***************************************************************************)
(* The second half of the keypair has no say in a signature, and the       *)
(* encodings of a key answer alike.                                        *)
(***************************************************************************)
THEOREM JRubyElsewhere == JavaSpec => []Elsewhere
  <1>1. ASSUME JavaLogged PROVE Elsewhere
    <2> SUFFICES ASSUME NEW c \in calls, WellSized(c.op, c.args)
                 PROVE  /\ c.op = "sign" =>
                             c.res = String(Signature(Keypair(c.args[1][1]), c.args[2]))
                        /\ c.op = "verify" =>
                             \A d \in calls :
                               /\ d.op = "verify" /\ WellSized(d.op, d.args)
                               /\ d.args[2] = c.args[2] /\ d.args[3] = c.args[3]
                               /\ DecodePoint[d.args[1][1]] = DecodePoint[c.args[1][1]]
                               => d.res = c.res
      BY DEF Elsewhere
    <2>1. c.res = Outcome(c.op, c.args)
      BY <1>1 DEF JavaLogged
    <2>2. ASSUME c.op = "verify", NEW d \in calls,
                 d.op = "verify", WellSized(d.op, d.args),
                 d.args[2] = c.args[2], d.args[3] = c.args[3],
                 DecodePoint[d.args[1][1]] = DecodePoint[c.args[1][1]]
          PROVE  d.res = c.res
      <3>1. d.res = Outcome(d.op, d.args)
        BY <1>1 DEF JavaLogged
      <3> QED  BY <2>1, <2>2, <3>1 DEF Outcome
    <2>3. c.op = "sign" =>
            c.res = String(Signature(Keypair(c.args[1][1]), c.args[2]))
      BY <2>1 DEF Outcome
    <2> QED  BY <2>2, <2>3
  <1>2. JavaIInv => JavaLogged
    BY DEF JavaIInv
  <1> QED  BY <1>1, <1>2, JRubyInvariant, PTL

(***************************************************************************)
(* A signature made with a keypair of create_keypair verifies under its    *)
(* public half on the same message.                                        *)
(***************************************************************************)
THEOREM JRubyRoundTrip == JavaSpec => []JavaRoundTrip
  <1>1. ASSUME JavaLogged PROVE JavaRoundTrip
    <2> SUFFICES ASSUME NEW c \in calls, NEW s \in calls, NEW v \in calls, Chain(c, s, v)
                 PROVE  v.res.status = "true"
      BY DEF JavaRoundTrip
    <2> DEFINE seed == c.args[1][1]
               k == Keypair(seed)
               t == s.args[2]
               sig == Signature(k, t)
    <2>1. /\ c.res = Outcome(c.op, c.args) /\ s.res = Outcome(s.op, s.args)
          /\ v.res = Outcome(v.op, v.args)
          /\ c.op = "create_keypair" /\ s.op = "sign" /\ v.op = "verify"
          /\ c.res.status = "string" /\ s.res.status = "string"
      BY <1>1 DEF JavaLogged, Chain
    <2>2. WellSized(c.op, c.args) /\ WellSized(s.op, s.args)
      BY <2>1 DEF Outcome, Raised
    <2>3. seed \in Word
      <3>1. c.args \in Seq(Seq(Word)) /\ Len(c.args) = 1 /\ Len(c.args[1]) = 1
        BY <1>1, <2>1, <2>2 DEF JavaLogged, Arity, WellSized
      <3>2. c.args[1] \in Seq(Word)
        BY <3>1, ElementOfSeq
      <3> QED  BY <3>1, <3>2, ElementOfSeq
    <2>4. c.res.value = k
      BY <2>1, <2>2 DEF Outcome, String
    <2>5. s.args[1] = k /\ k[1] = seed
      BY <2>4 DEF Chain, Keypair
    <2>6. s.res.value = sig
      BY <2>1, <2>2, <2>5 DEF Outcome, String
    <2>7. v.args = <<<<k[2]>>, sig, t>>
      BY <2>4, <2>6 DEF Chain
    <2>8. Outcome("verify", <<<<k[2]>>, sig, t>>) = Truth(TRUE)
      BY <2>3, OwnSignatureVerifies
    <2> QED  BY <2>1, <2>7, <2>8 DEF Truth
  <1>2. JavaIInv => JavaLogged
    BY DEF JavaIInv
  <1> QED  BY <1>1, <1>2, JRubyInvariant, PTL

(***************************************************************************)
(* On the calls where the providers are interchangeable, what Outcome says *)
(* is what Provider prescribes.                                            *)
(***************************************************************************)
LEMMA OutcomePrescribed ==
  ASSUME NEW c, c.op \in Operations, c.args \in Seq(Seq(Word)),
         Len(c.args) = Arity[c.op], c.res = Outcome(c.op, c.args),
         Interchangeable(c)
  PROVE  Answered(c)
  <1>1. c.op \in {"create_keypair", "sign", "verify"}
    BY DEF Operations, Arity
  <1>2. ASSUME ~WellSized(c.op, c.args) PROVE Prescribed(c.op, c.args, c.res)
    BY <1>2 DEF Prescribed, Outcome
  <1>3. ASSUME WellSized(c.op, c.args) PROVE Prescribed(c.op, c.args, c.res)
    <2>1. CASE c.op = "create_keypair"
      BY <1>1, <1>3, <2>1 DEF Prescribed, Outcome
    <2>2. CASE c.op = "sign"
      <3>1. c.args[1] = Keypair(c.args[1][1])
        BY <1>3, <2>2 DEF Interchangeable, WellSized
      <3>2. c.res = String(Signature(c.args[1], c.args[2]))
        BY <1>1, <1>3, <2>2, <3>1 DEF Outcome
      <3> QED  BY <1>3, <2>2, <3>2 DEF Prescribed
    <2>3. CASE c.op = "verify"
      <3> DEFINE pk == c.args[1][1]
                 sig == c.args[2]
      <3>1. Len(c.args) = 3 /\ Len(c.args[1]) = 1 /\ Len(sig) = 2
        BY <1>1, <1>3, <2>3 DEF Arity, WellSized
      <3>2. c.args[1] \in Seq(Word) /\ sig \in Seq(Word)
        BY <1>1, <3>1, ElementOfSeq
      <3>3. pk \in Word /\ sig[2] \in Word
        BY <3>1, <3>2, ElementOfSeq
      <3>4. DecodePoint[pk] # NoPoint /\ EncodePoint[DecodePoint[pk]] = pk
              /\ 2 * sig[2] < Top
        BY <2>3, <3>1 DEF Interchangeable
      <3>5. Verified(DecodePoint[pk], sig, c.args[3]) <=> Accepts(pk, sig, c.args[3])
        BY <3>3, <3>4, EngineVerifies
      <3>6. c.res = Truth(Verified(DecodePoint[pk], sig, c.args[3]))
        BY <1>1, <1>3, <2>3, <3>4 DEF Outcome
      <3>7. c.res = Truth(Accepts(pk, sig, c.args[3]))
        <4>1. Accepts(pk, sig, c.args[3]) <=> Accepts(pk, sig, c.args[3])
          BY SameScheme
        <4> QED  BY <3>5, <3>6, <4>1 DEF Truth
      <3> QED  BY <1>3, <2>3, <3>7 DEF Prescribed
    <2> QED  BY <1>1, <2>1, <2>2, <2>3
  <1>4. Prescribed(c.op, c.args, c.res)
    BY <1>2, <1>3
  <1> QED  BY <1>1, <1>4 DEF Answered, Operations, Arity

(***************************************************************************)
(* A step completes at most one call, and of the interchangeable calls     *)
(* only answered ones.                                                     *)
(***************************************************************************)
LEMMA StepRefines ==
  JavaIInv /\ JavaIInv' /\ [JavaNext]_javaVars =>
    [Common!Complete]_{c \in calls : Interchangeable(c)}
  <1> SUFFICES ASSUME JavaIInv, JavaIInv', [JavaNext]_javaVars,
                      {c \in calls : Interchangeable(c)}' # {c \in calls : Interchangeable(c)}
               PROVE  Common!Complete
    OBVIOUS
  <1>1. \E c : calls' = calls \cup {c}
    BY DEF javaVars, JavaNext, JavaCall, WriteArgument, Convert, Check, DeriveKey, DecodeKey,
           FinishKeypair, FinishSign, FinishVerify, JavaEnd
  <1>2. PICK c : calls' = calls \cup {c}
    BY <1>1
  <1>3. {d \in calls' : Interchangeable(d)} # {d \in calls : Interchangeable(d)}
    OBVIOUS
  <1>4. Interchangeable(c) /\ c \notin calls
    BY <1>2, <1>3
  <1>5. {d \in calls' : Interchangeable(d)} = {d \in calls : Interchangeable(d)} \cup {c}
    BY <1>2, <1>4
  <1>6. Common!Answered(c)
    <2>1. /\ c.op \in Operations /\ c.args \in Seq(Seq(Word))
          /\ Len(c.args) = Arity[c.op] /\ c.res = Outcome(c.op, c.args)
      BY <1>2 DEF JavaIInv, JavaLogged
    <2> QED  BY <1>4, <2>1, OutcomePrescribed, SameAnswers
  <1> QED  BY <1>4, <1>5, <1>6 DEF Common!Complete

(***************************************************************************)
(* The Java provider implements the abstract one on the calls where they   *)
(* are interchangeable.                                                    *)
(***************************************************************************)
THEOREM JRubyStandsIn == JavaSpec => StandsIn
  <1>1. JavaInit => Common!Init
    BY DEF JavaInit, Common!Init
  <1>2. JavaSpec => Common!Spec
    BY <1>1, StepRefines, JRubyInvariant, PTL DEF JavaSpec, Common!Spec
  <1> QED  BY <1>2 DEF StandsIn
=============================================================================
