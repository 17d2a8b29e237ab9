------------------------ MODULE EdDSAEngine_proofs ------------------------
(***************************************************************************)
(* EdDSAEngine keeps its digest clean under every sequence of calls, and   *)
(* implements SignatureObject under the documented ones.                   *)
(***************************************************************************)
EXTENDS EdDSAEngine, TLAPS

\* A byte buffer stays one when bytes are appended.
LEMMA BufferedBytes ==
  ASSUME NEW s \in Seq(Byte), Buffer(s), TypeOK
  PROVE  baos' \in Seq(Byte) /\ Len(baos') <= MaxBuffered
<1>1. baos' = baos \o s /\ Len(baos) + Len(s) <= MaxBuffered
  BY DEF Buffer
<1>2. baos \in Seq(Byte)
  BY DEF TypeOK
<1>3. baos \o s \in Seq(Byte) /\ Len(baos \o s) = Len(baos) + Len(s)
  BY <1>2
<1> QED
  BY <1>1, <1>3

LEMMA InitTypeOK == Init => TypeOK
<1> SUFFICES ASSUME Init PROVE TypeOK
  OBVIOUS
<1>1. key \in [kind : {"none", "private", "public"}, pair : Pairs \cup {NoPair}]
      /\ (key.pair = NoPair <=> key.kind = "none")
  BY DEF Init, KeyOf
<1>2. baos \in Seq(Byte) /\ Len(baos) <= MaxBuffered
  <2>1. baos = <<>>
    BY DEF Init
  <2> QED
    BY <2>1, EngineAssumption
<1> QED
  BY <1>1, <1>2 DEF Init, TypeOK

\* What reset leaves.
LEMMA AfterReset ==
  ASSUME NEW left, NEW primed, reset(left, primed)
  PROVE  /\ digest' = primed
         /\ baos' = <<>> /\ baos' \in Seq(Byte) /\ Len(baos') <= MaxBuffered
         /\ oneShotMode' = FALSE /\ oneShotBytes' = NoArray
<1>1. digest' = primed /\ baos' = <<>> /\ oneShotMode' = FALSE /\ oneShotBytes' = NoArray
  BY DEF reset
<1>2. <<>> \in Seq(Byte) /\ Len(<<>>) = 0
  OBVIOUS
<1> QED
  BY <1>1, <1>2, EngineAssumption

LEMMA InitialiseTypeOK ==
  ASSUME TypeOK, NEW arg \in Pairs \cup {Foreign}, initSign(arg) \/ initVerify(arg)
  PROVE  TypeOK'
<1> DEFINE common == /\ baos' \in Seq(Byte) /\ Len(baos') <= MaxBuffered
                     /\ oneShotMode' = FALSE /\ oneShotBytes' = NoArray
                     /\ arrays' = arrays /\ settled' \in BOOLEAN
<1>1. ASSUME NEW call, InitForeign(call) PROVE TypeOK'
  <2>1. common
    BY <1>1, AfterReset DEF InitForeign
  <2> QED
    BY <1>1, <2>1 DEF InitForeign, TypeOK
<1>2. ASSUME NEW call, NEW kind \in {"private", "public"}, arg \in Pairs,
             InitMisfit(call, kind, arg)
      PROVE  TypeOK'
  <2>1. common
    BY <1>2, AfterReset DEF InitMisfit
  <2>2. key' \in [kind : {"none", "private", "public"}, pair : Pairs \cup {NoPair}]
        /\ key'.pair # NoPair /\ key'.kind # "none"
    BY <1>2, NamesAssumption DEF InitMisfit, KeyOf
  <2> QED
    BY <1>2, <2>1, <2>2 DEF InitMisfit, TypeOK
<1>3. ASSUME NEW call, NEW to \in {"SIGN", "VERIFY"}, NEW kind \in {"private", "public"},
             arg \in Pairs, NEW primed, InitAccepted(call, to, kind, arg, primed)
      PROVE  TypeOK'
  <2>1. common
    BY <1>3, AfterReset DEF InitAccepted
  <2>2. key' \in [kind : {"none", "private", "public"}, pair : Pairs \cup {NoPair}]
        /\ key'.pair # NoPair /\ key'.kind # "none"
    BY <1>3, NamesAssumption DEF InitAccepted, KeyOf
  <2>3. alg' \in Supported \cup {NoDigest}
    BY <1>3 DEF InitAccepted, Fits, TypeOK
  <2> QED
    BY <1>3, <2>1, <2>2, <2>3 DEF InitAccepted, TypeOK
<1> QED
  BY <1>1, <1>2, <1>3 DEF initSign, initVerify

\* Calls that leave key, alg, state and the arrays alone.
LEMMA KeptTypeOK ==
  ASSUME TypeOK, UNCHANGED <<state, key, alg, arrays, settled>>,
         baos' \in Seq(Byte), Len(baos') <= MaxBuffered,
         oneShotMode' \in BOOLEAN, oneShotBytes' \in Arrays \cup {NoArray},
         oneShotBytes' # NoArray => oneShotMode'
  PROVE  TypeOK'
  BY DEF TypeOK

LEMMA RefuseTypeOK ==
  ASSUME TypeOK, NEW call, NEW exception, Refuse(call, exception)
  PROVE  TypeOK'
  BY DEF Refuse, engineVars, TypeOK

LEMMA BufferTypeOK ==
  ASSUME TypeOK, NEW s \in Seq(Byte), Buffer(s)
  PROVE  TypeOK'
<1>1. baos' \in Seq(Byte) /\ Len(baos') <= MaxBuffered
  BY BufferedBytes
<1> QED
  BY <1>1 DEF Buffer, TypeOK

LEMMA UpdateTypeOK ==
  ASSUME TypeOK, NEW a \in Arrays, update(a)
  PROVE  TypeOK'
<1>1. arrays[a] \in Seq(Byte)
  BY EngineAssumption DEF TypeOK
<1>2. CASE Refuse("update", "SignatureException")
  BY <1>2, RefuseTypeOK
<1>3. CASE Buffer(arrays[a])
  BY <1>1, <1>3, BufferTypeOK
<1>4. CASE /\ oneShotMode /\ oneShotBytes' = a
           /\ UNCHANGED <<state, key, alg, digest, baos, oneShotMode, arrays, settled>>
  BY <1>4 DEF TypeOK
<1> QED
  BY <1>2, <1>3, <1>4 DEF update

\* Every way through engineSign and engineVerify ends in reset.
LEMMA EngineSignTypeOK ==
  ASSUME TypeOK, NEW call, NEW fed, NEW msg, engineSign(call, fed, msg)
  PROVE  TypeOK'
<1>1. \E left, primed : reset(left, primed)
  BY DEF engineSign, SignWrongKey, SignUnfed, SignText
<1>2. UNCHANGED <<state, key, alg, arrays, settled>>
  BY DEF engineSign
<1> QED
  BY <1>1, <1>2, AfterReset, KeptTypeOK

LEMMA EngineVerifyTypeOK ==
  ASSUME TypeOK, NEW call, NEW sig, NEW fed, NEW msg, engineVerify(call, sig, fed, msg)
  PROVE  TypeOK'
<1>1. \E left, primed : reset(left, primed)
  BY DEF engineVerify, VerifyTruncated, VerifyWrongKey, VerifyUnfed, VerifyText
<1>2. UNCHANGED <<state, key, alg, arrays, settled>>
  BY DEF engineVerify
<1> QED
  BY <1>1, <1>2, AfterReset, KeptTypeOK

LEMMA OneShotTypeOK ==
  ASSUME TypeOK, NEW a \in Arrays, NEW sig,
         signOneShot(a) \/ verifyOneShot(a, sig)
  PROVE  TypeOK'
<1>1. CASE /\ oneShotMode' = TRUE
           /\ UNCHANGED <<state, key, alg, digest, baos, oneShotBytes, arrays, settled>>
  BY <1>1 DEF TypeOK
<1>2. CASE /\ oneShotMode' = TRUE /\ oneShotBytes' = a
           /\ UNCHANGED <<state, key, alg, digest, baos, arrays, settled>>
  BY <1>2 DEF TypeOK
<1>3. CASE engineSign("signOneShot", TRUE, arrays[a])
  BY <1>3, EngineSignTypeOK
<1>4. CASE engineVerify("verifyOneShot", sig, TRUE, arrays[a])
  BY <1>4, EngineVerifyTypeOK
<1> QED
  BY <1>1, <1>2, <1>3, <1>4 DEF signOneShot, verifyOneShot

LEMMA NextTypeOK == TypeOK /\ [Next]_vars => TypeOK'
<1> SUFFICES ASSUME TypeOK, [Next]_vars PROVE TypeOK'
  OBVIOUS
<1>1. CASE Initialise
  BY <1>1, InitialiseTypeOK DEF Initialise
<1>2. ASSUME NEW b \in Byte, updateByte(b) PROVE TypeOK'
  <2>1. <<b>> \in Seq(Byte)
    OBVIOUS
  <2> QED
    BY <1>2, <2>1, RefuseTypeOK, BufferTypeOK DEF updateByte
<1>3. CASE \E a \in Arrays : update(a)
  BY <1>3, UpdateTypeOK
<1>4. CASE sign
  BY <1>4, RefuseTypeOK, EngineSignTypeOK DEF sign
<1>5. CASE \E sig \in Signatures : verify(sig)
  BY <1>5, RefuseTypeOK, EngineVerifyTypeOK DEF verify
<1>6. CASE setParameterOneShot
  BY <1>6, RefuseTypeOK DEF setParameterOneShot, TypeOK
<1>7. CASE setParameterOther
  BY <1>7, RefuseTypeOK DEF setParameterOther
<1>8. CASE OneShot
  BY <1>8, OneShotTypeOK DEF OneShot
<1>9. CASE Write
  BY <1>9 DEF Write, engineVars, TypeOK
<1>10. CASE UNCHANGED vars
  BY <1>10 DEF vars, engineVars, TypeOK
<1> QED
  BY <1>1, <1>2, <1>3, <1>4, <1>5, <1>6, <1>7, <1>8, <1>9, <1>10
     DEF Next, Buffered, Parameters

(***************************************************************************)
(* The engine's variables keep their types, and an array is remembered     *)
(* only in one-shot mode, for any keys, algorithms, messages and calls.    *)
(***************************************************************************)
THEOREM EngineTypeOK == Spec => []TypeOK
  BY InitTypeOK, NextTypeOK, PTL DEF Spec

-----------------------------------------------------------------------------

LEMMA NextNoResidue == TypeOK /\ NoResidue /\ [Next]_vars => NoResidue'
<1> SUFFICES ASSUME TypeOK, NoResidue, [Next]_vars PROVE NoResidue'
  OBVIOUS
<1> USE DEF NoResidue
<1>1. ASSUME NEW arg, initSign(arg) \/ initVerify(arg) PROVE NoResidue'
  BY <1>1 DEF initSign, initVerify, InitForeign, InitMisfit, InitAccepted, reset, KeyOf
<1>2. ASSUME NEW call, NEW exception, Refuse(call, exception) PROVE NoResidue'
  BY <1>2 DEF Refuse, engineVars
<1>3. ASSUME UNCHANGED <<state, key, digest>> PROVE NoResidue'
  BY <1>3
<1>4. ASSUME NEW call, NEW fed, NEW msg, engineSign(call, fed, msg) PROVE NoResidue'
  BY <1>4 DEF engineSign, SignWrongKey, SignUnfed, SignText, reset
<1>5. ASSUME NEW call, NEW sig, NEW fed, NEW msg, engineVerify(call, sig, fed, msg)
      PROVE  NoResidue'
  BY <1>5 DEF engineVerify, VerifyTruncated, VerifyWrongKey, VerifyUnfed, VerifyText, reset
<1>6. ASSUME NEW b, updateByte(b) PROVE NoResidue'
  BY <1>2, <1>3, <1>6 DEF updateByte, Buffer
<1>7. ASSUME NEW a, update(a) PROVE NoResidue'
  BY <1>2, <1>3, <1>7 DEF update, Buffer
<1>8. ASSUME sign \/ (\E sig : verify(sig)) PROVE NoResidue'
  BY <1>2, <1>4, <1>5, <1>8 DEF sign, verify
<1>9. CASE Parameters
  BY <1>2, <1>3, <1>9 DEF Parameters, setParameterOneShot, setParameterOther
<1>10. ASSUME NEW a, NEW sig, signOneShot(a) \/ verifyOneShot(a, sig) PROVE NoResidue'
  BY <1>3, <1>4, <1>5, <1>10 DEF signOneShot, verifyOneShot
<1>11. CASE Write \/ UNCHANGED vars
  BY <1>3, <1>11 DEF Write, vars, engineVars
<1> QED
  BY <1>1, <1>6, <1>7, <1>8, <1>9, <1>10, <1>11
     DEF Next, Initialise, Buffered, OneShot

(***************************************************************************)
(* After any calls, ended in any way, the digest is empty or holds just    *)
(* the prefix of the private key in use.                                   *)
(***************************************************************************)
THEOREM EngineNoResidue == Spec => []NoResidue
<1>1. Init => NoResidue
  BY DEF Init, NoResidue
<1> QED
  BY <1>1, EngineTypeOK, NextNoResidue, PTL DEF Spec

LEMMA NextReadyAgain == TypeOK /\ ReadyAgain /\ [Next]_vars => ReadyAgain'
<1> SUFFICES ASSUME TypeOK, ReadyAgain, [Next]_vars PROVE ReadyAgain'
  OBVIOUS
<1>1. ASSUME out'.call \notin {"sign", "verify"} PROVE ReadyAgain'
  BY <1>1 DEF ReadyAgain
<1>2. CASE Initialise
  <2>1. out'.call \in {"initSign", "initVerify"}
    BY <1>2 DEF Initialise, initSign, initVerify, InitForeign, InitMisfit,
                InitAccepted, Ended
  <2> QED
    BY <1>1, <2>1
<1>3. ASSUME (\E b \in Byte : updateByte(b)) \/ (\E a \in Arrays : update(a)) PROVE ReadyAgain'
  <2>1. ASSUME NEW s, Buffer(s) PROVE out'.call = "update"
    BY <2>1 DEF Buffer, Ended
  <2>2. ASSUME NEW b \in Byte, updateByte(b) PROVE out'.call = "update"
    BY <2>1, <2>2 DEF updateByte, Refuse, Ended
  <2>3. ASSUME NEW a \in Arrays, update(a) PROVE out'.call = "update"
    BY <2>1, <2>3 DEF update, Refuse, Ended
  <2> QED
    BY <1>1, <1>3, <2>2, <2>3
<1>4. CASE sign
  <2>1. CASE state # "SIGN" /\ Refuse("sign", "SignatureException")
    BY <2>1 DEF Refuse, Ended, ReadyAgain
  <2>2. CASE engineSign("sign", Fed, Text)
    BY <2>2 DEF engineSign, SignWrongKey, SignUnfed, SignText, reset, Ended,
                Returned, ReadyAgain
  <2> QED
    BY <1>4, <2>1, <2>2 DEF sign
<1>5. ASSUME NEW sig, verify(sig) PROVE ReadyAgain'
  <2>1. CASE state # "VERIFY" /\ Refuse("verify", "SignatureException")
    BY <2>1 DEF Refuse, Ended, ReadyAgain, TypeOK
  <2>2. CASE engineVerify("verify", sig, Fed, Text)
    BY <2>2 DEF engineVerify, VerifyTruncated, VerifyWrongKey, VerifyUnfed,
                VerifyText, reset, Ended, Answer, ReadyAgain
  <2> QED
    BY <1>5, <2>1, <2>2 DEF verify
<1>6. CASE Parameters
  <2>1. out'.call = "setParameter"
    BY <1>6 DEF Parameters, setParameterOneShot, setParameterOther, Refuse, Ended
  <2> QED
    BY <1>1, <2>1
<1>7. CASE OneShot
  <2>1. ASSUME NEW a \in Arrays, signOneShot(a) PROVE out'.call = "signOneShot"
    BY <2>1 DEF signOneShot, engineSign, SignWrongKey, SignUnfed, SignText, Ended, Returned
  <2>2. ASSUME NEW a \in Arrays, NEW sig, verifyOneShot(a, sig)
        PROVE  out'.call = "verifyOneShot"
    BY <2>2 DEF verifyOneShot, engineVerify, VerifyTruncated, VerifyWrongKey,
                VerifyUnfed, VerifyText, Ended, Answer
  <2> QED
    BY <1>1, <1>7, <2>1, <2>2 DEF OneShot
<1>8. CASE Write \/ UNCHANGED vars
  BY <1>8 DEF Write, vars, engineVars, ReadyAgain
<1> QED
  BY <1>2, <1>3, <1>4, <1>5, <1>6, <1>7, <1>8 DEF Next, Buffered

(***************************************************************************)
(* However sign or verify ends, the object is left ready for the next one  *)
(* with the same key.                                                      *)
(***************************************************************************)
THEOREM EngineReadyAgain == Spec => []ReadyAgain
<1>1. Init => ReadyAgain
  BY DEF Init, ReadyAgain, Ended
<1> QED
  BY <1>1, EngineTypeOK, NextReadyAgain, PTL DEF Spec

-----------------------------------------------------------------------------
(* The documented calls. *)

LEMMA DocumentedIsNext == [DocumentedNext]_vars => [Next]_vars
  BY DEF DocumentedNext, Next, OneShot

LEMMA NextConsistent == TypeOK /\ Consistent /\ [DocumentedNext]_vars => Consistent'
<1> SUFFICES ASSUME TypeOK, Consistent, [DocumentedNext]_vars PROVE Consistent'
  OBVIOUS
<1> USE DEF Consistent
<1>1. ASSUME NEW arg \in Pairs \cup {Foreign}, initSign(arg) \/ initVerify(arg)
      PROVE  Consistent'
  BY <1>1 DEF initSign, initVerify, InitForeign, InitMisfit, InitAccepted, reset, KeyOf
<1>2. ASSUME NEW call, NEW exception, Refuse(call, exception) PROVE Consistent'
  BY <1>2 DEF Refuse, engineVars
<1>3. ASSUME NEW s, ~oneShotMode, Buffer(s) PROVE Consistent'
  BY <1>3 DEF Buffer
<1>4. ASSUME NEW a, update(a) PROVE Consistent'
  BY <1>2, <1>3, <1>4 DEF update
<1>5. ASSUME NEW call, NEW fed, NEW msg, engineSign(call, fed, msg) PROVE Consistent'
  BY <1>5 DEF engineSign, SignWrongKey, SignUnfed, SignText, reset
<1>6. ASSUME NEW call, NEW sig, NEW fed, NEW msg, engineVerify(call, sig, fed, msg)
      PROVE  Consistent'
  BY <1>6 DEF engineVerify, VerifyTruncated, VerifyWrongKey, VerifyUnfed, VerifyText, reset
<1>7. ASSUME Buffered PROVE Consistent'
  BY <1>2, <1>3, <1>4, <1>5, <1>6, <1>7 DEF Buffered, updateByte, sign, verify
<1>8. CASE Parameters
  BY <1>2, <1>8 DEF Parameters, setParameterOneShot, setParameterOther
<1>9. ASSUME NEW a, baos = <<>>, signOneShot(a) PROVE Consistent'
  BY <1>5, <1>9 DEF signOneShot
<1>10. ASSUME NEW a, NEW sig, baos = <<>>, verifyOneShot(a, sig) PROVE Consistent'
  BY <1>6, <1>10 DEF verifyOneShot
<1>11. CASE Write \/ UNCHANGED vars
  BY <1>11 DEF Write, vars, engineVars
<1> QED
  BY <1>1, <1>7, <1>8, <1>9, <1>10, <1>11 DEF DocumentedNext, Initialise

\* The same symbols, seen through the instance.
LEMMA SameSymbols ==
  /\ \A k, msg : O!Genuine(k, msg) = Signed(k, Algorithm[k], <<Prefix(k)>>, msg)
  /\ \A sig, k, a, left, msg : O!Matches(sig, k, a, left, msg) = Matches(sig, k, a, left, msg)
  /\ \A call, status : O!Ended(call, status) = Ended(call, status)
  /\ \A call, sig : O!Returned(call, sig) = Returned(call, sig)
  /\ \A call, b : O!Answer(call, b) = Answer(call, b)
  /\ \A s : O!Value(s) = Value(s)
  /\ \A a : O!Reference(a) = Reference(a)
  /\ O!Awaited = Awaited
<1>1. \A k, msg : O!Genuine(k, msg) = Signed(k, Algorithm[k], <<Prefix(k)>>, msg)
  BY DEF O!Genuine, O!Signed, Signed, O!Hash, Hash, O!Commitment, Commitment,
         O!PublicBytes, PublicBytes, O!Prefix, Prefix
<1>2. \A sig, k, a, left, msg : O!Matches(sig, k, a, left, msg) = Matches(sig, k, a, left, msg)
  BY DEF O!Matches, Matches, O!Hash, Hash, O!Commitment, Commitment, O!PublicBytes, PublicBytes
<1>3. \A call, status : O!Ended(call, status) = Ended(call, status)
  BY DEF O!Ended, Ended
<1>4. \A call, sig : O!Returned(call, sig) = Returned(call, sig)
  BY DEF O!Returned, Returned
<1>5. \A call, b : O!Answer(call, b) = Answer(call, b)
  BY <1>3 DEF O!Answer, Answer
<1>6. \A s : O!Value(s) = Value(s)
  BY DEF O!Value, Value
<1>7. \A a : O!Reference(a) = Reference(a)
  BY DEF O!Reference, Reference
<1>8. O!Awaited = Awaited
  BY DEF O!Awaited, Awaited
<1> QED
  BY <1>1, <1>2, <1>3, <1>4, <1>5, <1>6, <1>7, <1>8

\* The message so far under the mapping, and how its three kinds differ.
LEMMA Kinds ==
  /\ \A s : Value(s) # Awaited /\ Value(s)[1] = "value" /\ Value(s)[2] = s
  /\ \A a : Reference(a) # Awaited /\ Reference(a)[1] = "reference" /\ Reference(a)[2] = a
  /\ Awaited[1] = "awaited"
  /\ \A s, a : Value(s) # Reference(a)
  /\ \A s, t : Value(s) = Value(t) <=> s = t
  BY DEF Value, Reference, Awaited

LEMMA InitMapped == Init => O!Init
<1> SUFFICES ASSUME Init PROVE O!Init
  OBVIOUS
<1>1. arrays \in [Arrays -> Seq(Byte)]
  BY EngineAssumption DEF Init
<1> QED
  BY <1>1, SameSymbols DEF Init, O!Init

\* The reset and ready object.
LEMMA ResetMapped ==
  ASSUME NEW left, NEW primed, reset(left, primed), UNCHANGED <<state, key, arrays, settled>>,
         NEW result, out' = result
  PROVE  O!Complete(result)
  BY SameSymbols DEF reset, O!Complete

LEMMA RefuseMapped ==
  ASSUME NEW call, NEW exception, Refuse(call, exception)
  PROVE  O!Refuse(call, exception)
  BY SameSymbols DEF Refuse, engineVars, O!Refuse

LEMMA InitialiseMapped ==
  ASSUME NEW arg \in Pairs \cup {Foreign}, initSign(arg) \/ initVerify(arg)
  PROVE  O!Next
<1>1. ASSUME NEW call, InitForeign(call) PROVE O!Reject(call)
  BY <1>1, SameSymbols DEF InitForeign, O!Reject
<1>2. ASSUME NEW call, NEW kind, InitMisfit(call, kind, arg) PROVE O!Reject(call)
  BY <1>2, SameSymbols DEF InitMisfit, O!Reject
<1>3. ASSUME NEW call, NEW to, NEW kind, NEW primed, InitAccepted(call, to, kind, arg, primed)
      PROVE  O!Initialise(call, to, arg)
  BY <1>3, SameSymbols DEF InitAccepted, reset, KeyOf, O!Initialise
<1>4. CASE arg = Foreign
  BY <1>1, <1>2, <1>3, <1>4 DEF initSign, initVerify, O!Next
<1>5. CASE arg \in Pairs
  BY <1>1, <1>2, <1>3, <1>5 DEF initSign, initVerify, O!Next
<1> QED
  BY <1>4, <1>5

LEMMA UpdateByteMapped ==
  ASSUME Consistent, settled \/ state = "UNINITIALIZED", NEW b \in Byte, updateByte(b)
  PROVE  O!UpdateByte(b)
<1>1. CASE state # "UNINITIALIZED" /\ ~oneShotMode /\ Buffer(<<b>>)
  BY <1>1, SameSymbols, Kinds DEF Consistent, Buffer, O!UpdateByte
<1>2. CASE /\ state = "UNINITIALIZED" \/ oneShotMode
           /\ Refuse("update", "SignatureException")
  BY <1>2, RefuseMapped, SameSymbols, Kinds DEF Consistent, O!UpdateByte
<1> QED
  BY <1>1, <1>2 DEF updateByte

LEMMA UpdateMapped ==
  ASSUME TypeOK, Consistent, settled \/ state = "UNINITIALIZED", NEW a \in Arrays, update(a)
  PROVE  O!Update(a)
<1>1. CASE state # "UNINITIALIZED" /\ ~oneShotMode /\ Buffer(arrays[a])
  BY <1>1, SameSymbols, Kinds DEF Consistent, Buffer, O!Update
<1>2. CASE /\ state = "UNINITIALIZED" \/ (oneShotMode /\ oneShotBytes # NoArray)
           /\ Refuse("update", "SignatureException")
  BY <1>2, RefuseMapped, SameSymbols, Kinds DEF Consistent, O!Update
<1>3. CASE /\ state # "UNINITIALIZED" /\ oneShotMode /\ oneShotBytes = NoArray
           /\ oneShotBytes' = a /\ out' = Ended("update", "ok")
           /\ UNCHANGED <<state, key, alg, digest, baos, oneShotMode, arrays, settled>>
  BY <1>3, NamesAssumption, SameSymbols, Kinds DEF Consistent, O!Update
<1> QED
  BY <1>1, <1>2, <1>3 DEF update

\* With an accepted private key the engine's signature is the genuine one.
LEMMA SignMapped ==
  ASSUME Consistent, settled, NEW call, NEW fed, NEW msg, engineSign(call, fed, msg)
  PROVE  IF fed THEN O!Complete(O!Returned(call, O!Genuine(key.pair, msg)))
         ELSE O!Complete(O!Ended(call, "SignatureException"))
<1>1. /\ key.kind = "private" /\ alg = Algorithm[key.pair] /\ digest = <<Prefix(key.pair)>>
      /\ UNCHANGED <<state, key, arrays, settled>>
  BY DEF Consistent, engineSign
<1>2. CASE fed /\ SignText(call, msg)
  <2>1. Signed(key.pair, alg, digest, msg) = O!Genuine(key.pair, msg)
    BY <1>1, SameSymbols
  <2>2. out' = O!Returned(call, O!Genuine(key.pair, msg))
    BY <1>2, <2>1, SameSymbols DEF SignText
  <2> QED
    BY <1>1, <1>2, <2>2, ResetMapped DEF SignText
<1>3. CASE ~fed /\ SignUnfed(call)
  <2>1. out' = O!Ended(call, "SignatureException")
    BY <1>3, SameSymbols DEF SignUnfed
  <2> QED
    BY <1>1, <1>3, <2>1, ResetMapped DEF SignUnfed
<1> QED
  BY <1>1, <1>2, <1>3 DEF engineSign, SignWrongKey

\* With an accepted public key the verdict is about that key and message.
LEMMA VerifyMapped ==
  ASSUME Consistent, settled, NEW call, NEW sig, NEW fed, NEW msg,
         engineVerify(call, sig, fed, msg)
  PROVE  IF fed /\ sig # Truncated
         THEN O!Complete(O!Answer(call, O!Accepts(sig, msg)))
         ELSE O!Complete(O!Ended(call, "SignatureException"))
<1>1. /\ key.kind = "public" /\ alg = Algorithm[key.pair] /\ digest = <<>>
      /\ UNCHANGED <<state, key, arrays, settled>>
  BY DEF Consistent, engineVerify
<1>2. CASE fed /\ VerifyText(call, sig, msg)
  <2>1. Matches(sig, key.pair, alg, digest, msg) = O!Accepts(sig, msg)
    BY <1>1, SameSymbols DEF O!Accepts
  <2>2. out' = O!Answer(call, O!Accepts(sig, msg))
    BY <1>2, <2>1, SameSymbols DEF VerifyText
  <2> QED
    BY <1>1, <1>2, <2>2, ResetMapped DEF VerifyText
<1>3. CASE (~fed /\ VerifyUnfed(call, sig)) \/ VerifyTruncated(call, sig)
  <2>1. out' = O!Ended(call, "SignatureException")
    BY <1>3, SameSymbols DEF VerifyUnfed, VerifyTruncated
  <2>2. \E left, primed : reset(left, primed)
    BY <1>3 DEF VerifyUnfed, VerifyTruncated
  <2>3. ~(fed /\ sig # Truncated)
    BY <1>3 DEF VerifyUnfed, VerifyTruncated
  <2> QED
    BY <1>1, <2>1, <2>2, <2>3, ResetMapped
<1> QED
  BY <1>1, <1>2, <1>3 DEF engineVerify, VerifyWrongKey

\* What the mapping makes of a message that is there, and of one that is not.
LEMMA TextMapped ==
  ASSUME TypeOK, settled
  PROVE  /\ Fed => O!Text = Text
         /\ Fed <=> (IF ~settled THEN Value(<<>>)
                     ELSE IF ~oneShotMode THEN Value(baos)
                     ELSE IF oneShotBytes = NoArray THEN Awaited
                     ELSE Reference(oneShotBytes)) # Awaited
  BY SameSymbols, Kinds DEF TypeOK, Fed, Text, O!Text

LEMMA SignStep ==
  ASSUME TypeOK, Consistent, settled \/ state = "UNINITIALIZED", sign
  PROVE  O!Sign
<1>1. CASE state # "SIGN" /\ Refuse("sign", "SignatureException")
  BY <1>1, RefuseMapped, SameSymbols DEF O!Sign
<1>2. CASE engineSign("sign", Fed, Text)
  <2>1. settled /\ state = "SIGN"
    BY <1>2 DEF engineSign
  <2>2. IF Fed THEN O!Complete(O!Returned("sign", O!Genuine(key.pair, Text)))
        ELSE O!Complete(O!Ended("sign", "SignatureException"))
    BY <1>2, <2>1, SignMapped
  <2>3. CASE Fed
    <3>1. O!Text = Text
      BY <2>1, <2>3, TextMapped
    <3> QED
      BY <2>1, <2>2, <2>3, <3>1, TextMapped, SameSymbols DEF O!Sign
  <2>4. CASE ~Fed
    BY <2>1, <2>2, <2>4, TextMapped, SameSymbols DEF O!Sign
  <2> QED
    BY <2>3, <2>4
<1> QED
  BY <1>1, <1>2 DEF sign

LEMMA VerifyStep ==
  ASSUME TypeOK, Consistent, settled \/ state = "UNINITIALIZED",
         NEW sig \in Signatures, verify(sig)
  PROVE  O!Verify(sig)
<1>1. CASE state # "VERIFY" /\ Refuse("verify", "SignatureException")
  BY <1>1, RefuseMapped, SameSymbols DEF O!Verify
<1>2. CASE engineVerify("verify", sig, Fed, Text)
  <2>1. settled /\ state = "VERIFY"
    BY <1>2 DEF engineVerify
  <2>2. IF Fed /\ sig # Truncated
        THEN O!Complete(O!Answer("verify", O!Accepts(sig, Text)))
        ELSE O!Complete(O!Ended("verify", "SignatureException"))
    BY <1>2, <2>1, VerifyMapped
  <2>3. CASE Fed /\ sig # Truncated
    <3>1. O!Text = Text
      BY <2>1, <2>3, TextMapped
    <3> QED
      BY <2>1, <2>2, <2>3, <3>1, TextMapped, SameSymbols DEF O!Verify
  <2>4. CASE ~(Fed /\ sig # Truncated)
    BY <2>1, <2>2, <2>4, TextMapped, SameSymbols DEF O!Verify
  <2> QED
    BY <2>3, <2>4
<1> QED
  BY <1>1, <1>2 DEF verify

LEMMA ParametersStep ==
  ASSUME TypeOK, Consistent, settled, Parameters
  PROVE  O!SetParameter
<1>1. CASE (oneShotBytes # NoArray \/ baos # <<>>)
           /\ Refuse("setParameter", "InvalidAlgorithmParameterException")
  BY <1>1, RefuseMapped, SameSymbols, Kinds DEF TypeOK, Consistent, O!SetParameter
<1>2. CASE /\ oneShotBytes = NoArray /\ baos = <<>>
           /\ oneShotMode' = TRUE /\ out' = Ended("setParameter", "ok")
           /\ UNCHANGED <<state, key, alg, digest, baos, oneShotBytes, arrays, settled>>
  BY <1>2, SameSymbols, Kinds DEF O!SetParameter
<1>3. CASE setParameterOther
  BY <1>3, RefuseMapped DEF setParameterOther, O!SetParameter
<1> QED
  BY <1>1, <1>2, <1>3 DEF Parameters, setParameterOneShot

\* With nothing given, the message so far is empty or awaited.
LEMMA NothingGiven ==
  ASSUME settled, baos = <<>>, oneShotBytes = NoArray
  PROVE  (IF ~settled THEN Value(<<>>)
          ELSE IF ~oneShotMode THEN Value(baos)
          ELSE IF oneShotBytes = NoArray THEN Awaited
          ELSE Reference(oneShotBytes)) \in {O!Value(<<>>), O!Awaited}
  BY SameSymbols

LEMMA SignOneShotStep ==
  ASSUME Consistent, settled, baos = <<>>, oneShotBytes = NoArray, state = "SIGN",
         NEW a \in Arrays, signOneShot(a)
  PROVE  O!SignOneShot(a)
<1>1. engineSign("signOneShot", TRUE, arrays[a])
  BY DEF signOneShot
<1>2. O!Complete(O!Returned("signOneShot", O!Genuine(key.pair, arrays[a])))
  BY <1>1, SignMapped
<1> QED
  BY <1>2, NothingGiven DEF O!SignOneShot

LEMMA VerifyOneShotStep ==
  ASSUME Consistent, settled, baos = <<>>, oneShotBytes = NoArray, state = "VERIFY",
         NEW a \in Arrays, NEW sig \in Signatures, verifyOneShot(a, sig)
  PROVE  O!VerifyOneShot(a, sig)
<1>1. engineVerify("verifyOneShot", sig, TRUE, arrays[a])
  BY DEF verifyOneShot
<1>2. IF TRUE /\ sig # Truncated
      THEN O!Complete(O!Answer("verifyOneShot", O!Accepts(sig, arrays[a])))
      ELSE O!Complete(O!Ended("verifyOneShot", "SignatureException"))
  BY <1>1, VerifyMapped
<1>3. O!Complete(IF sig = Truncated THEN O!Ended("verifyOneShot", "SignatureException")
                 ELSE O!Answer("verifyOneShot", O!Accepts(sig, arrays[a])))
  BY <1>2
<1> QED
  BY <1>3, NothingGiven DEF O!VerifyOneShot

LEMMA StepMapped ==
  TypeOK /\ Consistent /\ [DocumentedNext]_vars => [O!Next]_(O!vars)
<1> SUFFICES ASSUME TypeOK, Consistent, [DocumentedNext]_vars PROVE [O!Next]_(O!vars)
  OBVIOUS
<1>1. CASE Initialise
  BY <1>1, InitialiseMapped DEF Initialise
<1>2. CASE (settled \/ state = "UNINITIALIZED") /\ Buffered
  BY <1>2, UpdateByteMapped, UpdateMapped, SignStep, VerifyStep DEF Buffered, O!Next
<1>3. CASE settled /\ Parameters
  BY <1>3, ParametersStep DEF O!Next
<1>4. CASE /\ settled /\ baos = <<>> /\ oneShotBytes = NoArray
           /\ state = "SIGN" /\ \E a \in Arrays : signOneShot(a)
  BY <1>4, SignOneShotStep DEF O!Next
<1>5. CASE /\ settled /\ baos = <<>> /\ oneShotBytes = NoArray /\ state = "VERIFY"
           /\ \E a \in Arrays, sig \in Signatures : verifyOneShot(a, sig)
  BY <1>5, VerifyOneShotStep DEF O!Next
<1>6. CASE Write
  <2>1. arrays' \in [Arrays -> Seq(Byte)]
    BY <1>6, EngineAssumption DEF Write, TypeOK
  <2>2. O!Write
    BY <1>6, <2>1 DEF Write, engineVars, O!Write
  <2> QED
    BY <2>2 DEF O!Next
<1>7. CASE UNCHANGED vars
  BY <1>7 DEF vars, engineVars, O!vars
<1> QED
  BY <1>1, <1>2, <1>3, <1>4, <1>5, <1>6, <1>7 DEF DocumentedNext

(***************************************************************************)
(* For any keys, algorithms, messages and signatures, and after any calls: *)
(* from a consistent state, the engine called as documented signs and      *)
(* verifies exactly the message given since the last accepted key or       *)
(* finished signature, with that key, and stays consistent.                *)
(***************************************************************************)
THEOREM EngineImplements == Spec => Implements
<1>1. Init => Consistent
  BY DEF Init, Consistent
<1>2. TypeOK /\ [Next]_vars
        => [Consistent /\ DocumentedNext => Consistent' /\ [O!Next]_(O!vars)]_vars
  BY NextConsistent, StepMapped
<1>3. Spec => [][ Consistent /\ DocumentedNext => Consistent' /\ [O!Next]_(O!vars) ]_vars
  BY <1>2, EngineTypeOK, PTL DEF Spec
<1>4. Spec => Consistent /\ O!Init
  BY <1>1, InitMapped DEF Spec
<1> QED
  BY <1>3, <1>4 DEF Implements

(***************************************************************************)
(* A caller who makes only documented calls sees a SignatureObject.        *)
(***************************************************************************)
THEOREM EngineRefines == DocumentedSpec => O!Spec
<1>1. Init => Consistent
  BY DEF Init, Consistent
<1>2. TypeOK /\ Consistent /\ [DocumentedNext]_vars => TypeOK' /\ Consistent'
  BY DocumentedIsNext, NextTypeOK, NextConsistent
<1> QED
  BY <1>1, <1>2, InitTypeOK, InitMapped, StepMapped, PTL DEF DocumentedSpec, O!Spec
=============================================================================
