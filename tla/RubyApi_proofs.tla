--------------------------- MODULE RubyApi_proofs ---------------------------
(***************************************************************************)
(* Keys and signatures of the Ruby library behave as they were made until  *)
(* somebody writes to their own strings, whatever is written to others,    *)
(* and whichever providers are in use.                                     *)
(***************************************************************************)
EXTENDS RubyApi, EdDSA_proofs, SequenceTheorems

-----------------------------------------------------------------------------
(* Answers. *)

(***************************************************************************)
(* Both providers make the same keypair of a seed, sign alike with it and  *)
(* verify that signature.                                                  *)
(***************************************************************************)
LEMMA OwnAnswers ==
  ASSUME NEW seed \in Word, NEW msg
  PROVE  LET k   == Keypair(seed)
             sig == Signature(k, msg)
         IN  /\ Answer("create_keypair", <<<<seed>>>>) = String(k)
             /\ Answer("sign", <<k, msg>>) = String(sig)
             /\ Answer("verify", <<<<k[2]>>, sig, msg>>) = Truth(TRUE)
  <1> DEFINE k    == Keypair(seed)
             sig  == Signature(k, msg)
             made == <<<<seed>>>>
             with == <<k, msg>>
             args == <<<<k[2]>>, sig, msg>>
  <1>1. k \in Word \X Word /\ sig \in Word \X Word /\ k[1] = seed
    BY PairsOfWords, OwnKeyDecodes
  <1>2. Accepts(k[2], sig, msg)
    BY SignatureVerifies
  <1>3. Outcome("verify", args) = Truth(TRUE)
    BY OwnSignatureVerifies
  <1> HIDE DEF k, sig
  <1>4. Len(k) = 2 /\ Len(sig) = 2
    BY <1>1
  <1>5. /\ made[1] = <<seed>> /\ made[1][1] = seed /\ with[1] = k /\ with[2] = msg
        /\ args[1] = <<k[2]>> /\ args[1][1] = k[2] /\ args[2] = sig /\ args[3] = msg
    OBVIOUS
  <1> HIDE DEF made, with, args
  <1>6. /\ WellSized("create_keypair", made) /\ WellSized("sign", with)
        /\ WellSized("verify", args)
    BY <1>4, <1>5 DEF WellSized
  <1>7. Answer("create_keypair", made) = String(k)
    BY <1>5, <1>6 DEF Answer, Outcome, Ref10Outcome, k
  <1>8. Answer("sign", with) = String(sig)
    <2>1. Keypair(with[1][1]) = k
      BY <1>1, <1>5 DEF k
    <2> QED  BY <2>1, <1>5, <1>6 DEF Answer, Outcome, Ref10Outcome, sig
  <1>9. Answer("verify", args) = Truth(TRUE)
    <2>1. Ref10Outcome("verify", args) = Truth(TRUE)
      BY <1>2, <1>5, <1>6 DEF Ref10Outcome
    <2> QED  BY <2>1, <1>3 DEF Answer
  <1> QED  BY <1>7, <1>8, <1>9 DEF k, sig, made, with, args

(***************************************************************************)
(* A string in binary has 32 characters a Word.                            *)
(***************************************************************************)
LEMMA BinaryLength == \A words : Length(Binary(words)) = 32 * Len(words)
  BY DEF Length, Binary

(***************************************************************************)
(* The key a seed string makes, and the heap it leaves: two more strings,  *)
(* the keypair and the public key of the seed the string held.             *)
(***************************************************************************)
LEMMA MadeResult ==
  ASSUME NEW heap \in Seq(RubyString), NEW id \in DOMAIN heap, Len(heap[id].words) = 1
  PROVE  LET made == Made(heap, id)
             born == heap[id].words[1]
         IN  /\ born \in Word /\ made.key.born = born
             /\ made.heap \in Seq(RubyString) /\ Len(made.heap) = Len(heap) + 2
             /\ \A i \in DOMAIN heap : made.heap[i] = heap[i]
             /\ made.key.keypair = Len(heap) + 1 /\ made.key.verify_key = Len(heap) + 2
             /\ made.heap[Len(heap) + 1] = Binary(Keypair(born))
             /\ made.heap[Len(heap) + 2] = Binary(<<Keypair(born)[2]>>)
  <1> DEFINE made == Made(heap, id)
             born == heap[id].words[1]
             k    == Keypair(born)
             new  == <<Binary(k), Binary(<<k[2]>>)>>
  <1>1. DOMAIN heap = 1 .. Len(heap) /\ Len(heap) \in Nat
    BY LenProperties
  <1>2. heap[id].words \in Seq(Word)
    <2>1. heap[id] \in RubyString
      BY <1>1, ElementOfSeq
    <2> QED  BY <2>1 DEF RubyString
  <1>3. born \in Word /\ heap[id].words = <<born>>
    BY <1>2
  <1> HIDE DEF born
  <1>4. Answer("create_keypair", <<heap[id].words>>).value = k
    <2> DEFINE a == Answer("create_keypair", <<<<born>>>>)
    <2>1. a = String(Keypair(born))
      BY <1>3, OwnAnswers
    <2>2. a.value = Keypair(born)
      BY <2>1 DEF String
    <2> QED  BY <2>2, <1>3
  <1>5. k \in Seq(Word) /\ <<k[2]>> \in Seq(Word)
    <2>1. PICK a \in Word, b \in Word : k = <<a, b>>
      BY <1>3, PairsOfWords
    <2> QED  BY <2>1
  <1> HIDE DEF k
  <1>6. new \in Seq(RubyString) /\ Len(new) = 2 /\ new[1] = Binary(k) /\ new[2] = Binary(<<k[2]>>)
    BY <1>5 DEF RubyString, Binary, Encodings
  <1>7. made.heap = heap \o new
    BY <1>4 DEF Made
  <1>8. /\ made.key.born = born /\ made.key.keypair = Len(heap) + 1
        /\ made.key.verify_key = Len(heap) + 2
    BY DEF Made, born
  <1> HIDE DEF new, made
  <1>9. /\ heap \o new \in Seq(RubyString) /\ Len(heap \o new) = Len(heap) + 2
        /\ \A i \in 1 .. Len(heap) + 2 :
             (heap \o new)[i] = IF i <= Len(heap) THEN heap[i] ELSE new[i - Len(heap)]
    <2>1. /\ heap \o new \in Seq(RubyString) /\ Len(heap \o new) = Len(heap) + Len(new)
          /\ \A i \in 1 .. Len(heap) + Len(new) :
               (heap \o new)[i] = IF i <= Len(heap) THEN heap[i] ELSE new[i - Len(heap)]
      BY <1>6, ConcatProperties
    <2> QED  BY <1>6, <2>1
  <1>10. \A i \in DOMAIN heap : i \in 1 .. Len(heap) + 2 /\ i <= Len(heap)
    BY <1>1
  <1>11. /\ Len(heap) + 1 \in 1 .. Len(heap) + 2 /\ ~(Len(heap) + 1 <= Len(heap))
         /\ Len(heap) + 2 \in 1 .. Len(heap) + 2 /\ ~(Len(heap) + 2 <= Len(heap))
         /\ Len(heap) + 1 - Len(heap) = 1 /\ Len(heap) + 2 - Len(heap) = 2
    BY <1>1
  <1>12. /\ made.heap[Len(heap) + 1] = Binary(k)
         /\ made.heap[Len(heap) + 2] = Binary(<<k[2]>>)
    BY <1>6, <1>7, <1>9, <1>11
  <1>13. \A i \in DOMAIN heap : made.heap[i] = heap[i]
    BY <1>7, <1>9, <1>10
  <1> QED  BY <1>3, <1>7, <1>8, <1>9, <1>12, <1>13 DEF made, born, k

-----------------------------------------------------------------------------
(* Steps. *)

(***************************************************************************)
(* The invariant holds initially.                                          *)
(***************************************************************************)
LEMMA InitIInv == RubyInit => RubyIInv
  BY RubyAssumption DEF RubyInit, RubyIInv, KeysKept, SignaturesKept, SignsAsBorn, VerifiesOwn,
     FromKeypair, NoCall, Ended

(***************************************************************************)
(* A step that leaves strings, keys and signatures alone needs only the    *)
(* two properties of how a call ended.                                     *)
(***************************************************************************)
LEMMA QuietStep ==
  ASSUME RubyIInv, UNCHANGED <<strings, keys, signatures, written>>,
         provider' \in {"Ref10", "JRuby"}, VerifiesOwn', FromKeypair'
  PROVE  RubyIInv'
  BY DEF RubyIInv, KeysKept, SignaturesKept, SignsAsBorn, Untouched

(***************************************************************************)
(* The same when the call was none of verify and from_keypair.             *)
(***************************************************************************)
LEMMA OtherCall ==
  ASSUME out'.call \notin {"verify", "from_keypair"}
  PROVE  VerifiesOwn' /\ FromKeypair'
  BY DEF VerifiesOwn, FromKeypair

(***************************************************************************)
(* Making strings changes no string there was.                             *)
(***************************************************************************)
LEMMA GrowthKeeps ==
  ASSUME strings \in Seq(RubyString), strings' \in Seq(RubyString),
         Len(strings') >= Len(strings),
         \A i \in DOMAIN strings : strings'[i] = strings[i],
         written' = written
  PROVE  \A i, words : Untouched(i, words) => Untouched(i, words)'
  <1>1. \A i \in DOMAIN strings : i \in DOMAIN strings'
    <2>1. /\ DOMAIN strings = 1 .. Len(strings) /\ DOMAIN strings' = 1 .. Len(strings')
          /\ Len(strings) \in Nat /\ Len(strings') \in Nat
      BY LenProperties
    <2> QED  BY <2>1
  <1> QED  BY <1>1 DEF Untouched

(***************************************************************************)
(* Setting the provider.                                                   *)
(***************************************************************************)
LEMMA SetProviderStep == ASSUME RubyIInv, SetProvider PROVE RubyIInv'
  <1>1. VerifiesOwn' /\ FromKeypair'
    BY DEF RubyIInv, SetProvider, VerifiesOwn, FromKeypair
  <1> QED  BY <1>1, QuietStep DEF SetProvider

(***************************************************************************)
(* A refused or a new VerifyKey.                                           *)
(***************************************************************************)
LEMMA NewVerifyKeyStep == ASSUME RubyIInv, NEW s, NewVerifyKey(s) PROVE RubyIInv'
  <1>1. /\ out'.call = "new"
        /\ UNCHANGED <<provider, strings, keys, signatures, written>>
    BY DEF NewVerifyKey, Only, Ended
  <1> QED  BY <1>1, OtherCall, QuietStep DEF RubyIInv

(***************************************************************************)
(* Writing to a string takes it out of what the properties speak of.       *)
(***************************************************************************)
LEMMA WriteStep == ASSUME RubyIInv, NEW s \in DOMAIN strings, Write(s) PROVE RubyIInv'
  <1>1. PICK c \in Contents : strings' = [strings EXCEPT ![s] = c]
    BY DEF Write
  <1>2. /\ written' = written \cup {s} /\ out' = NoCall
        /\ UNCHANGED <<provider, keys, signatures>>
    BY DEF Write
  <1>3. s \in 1 .. Len(strings) /\ strings \in Seq(RubyString) /\ c \in RubyString
    BY LenProperties, RubyAssumption DEF RubyIInv
  <1>4. strings' \in Seq(RubyString) /\ DOMAIN strings' = DOMAIN strings
    BY <1>1, <1>3, ExceptSeq
  <1>5. \A i, words : Untouched(i, words) => Untouched(i, words)'
    BY <1>1, <1>2, <1>4 DEF Untouched
  <1>6. KeysKept' /\ SignaturesKept'
    BY <1>2, <1>5 DEF RubyIInv, KeysKept, SignaturesKept
  <1>7. SignsAsBorn'
    BY <1>2 DEF RubyIInv, SignsAsBorn
  <1>8. out'.call = "none"
    BY <1>2 DEF NoCall, Ended
  <1>9. VerifiesOwn' /\ FromKeypair'
    BY <1>8, OtherCall
  <1> QED  BY <1>2, <1>4, <1>6, <1>7, <1>9 DEF RubyIInv

(***************************************************************************)
(* A new key's strings hold the keypair of the seed it was made from.      *)
(***************************************************************************)
LEMMA MadeStep ==
  ASSUME RubyIInv, NEW heap \in Seq(RubyString), NEW id \in DOMAIN heap,
         Len(heap[id].words) = 1, Len(heap) >= Len(strings),
         \A i \in DOMAIN strings : i \in DOMAIN heap /\ heap[i] = strings[i],
         strings' = Made(heap, id).heap, keys' = keys \cup {Made(heap, id).key},
         UNCHANGED <<provider, signatures, written>>,
         VerifiesOwn', FromKeypair'
  PROVE  RubyIInv'
  <1> DEFINE made == Made(heap, id)
             born == heap[id].words[1]
             n    == Len(heap)
  <1>1. /\ born \in Word /\ made.key.born = born
        /\ made.heap \in Seq(RubyString) /\ Len(made.heap) = n + 2
        /\ \A i \in DOMAIN heap : made.heap[i] = heap[i]
        /\ made.key.keypair = n + 1 /\ made.key.verify_key = n + 2
        /\ made.heap[n + 1] = Binary(Keypair(born))
        /\ made.heap[n + 2] = Binary(<<Keypair(born)[2]>>)
    BY MadeResult
  <1>2. /\ n \in Nat /\ Len(strings) \in Nat /\ n >= Len(strings)
        /\ strings \in Seq(RubyString)
    BY LenProperties DEF RubyIInv
  <1>3. \A i \in DOMAIN strings : i \in DOMAIN heap /\ heap[i] = strings[i]
    OBVIOUS
  <1>4. strings' = made.heap /\ keys' = keys \cup {made.key}
    OBVIOUS
  <1> HIDE DEF made, born, n
  <1>5. n + 1 \in DOMAIN made.heap /\ n + 2 \in DOMAIN made.heap
    <2>1. DOMAIN made.heap = 1 .. Len(made.heap)
      BY <1>1, LenProperties
    <2> QED  BY <2>1, <1>1, <1>2
  <1>6. \A i, words : Untouched(i, words) => Untouched(i, words)'
    <2>1. strings' \in Seq(RubyString) /\ Len(strings') >= Len(strings)
      BY <1>1, <1>2, <1>4
    <2>2. \A i \in DOMAIN strings : strings'[i] = strings[i]
      BY <1>1, <1>3, <1>4
    <2> QED  BY <1>2, <2>1, <2>2, GrowthKeeps
  <1>7. KeysKept'
    <2> SUFFICES ASSUME NEW k \in keys'
                 PROVE  /\ k.born \in Word
                        /\ Untouched(k.keypair, Keypair(k.born))'
                        /\ Untouched(k.verify_key, <<Keypair(k.born)[2]>>)'
      BY DEF KeysKept
    <2>1. CASE k \in keys
      BY <2>1, <1>6 DEF RubyIInv, KeysKept
    <2>2. CASE k = made.key
      BY <2>2, <1>1, <1>4, <1>5 DEF Untouched
    <2> QED  BY <2>1, <2>2, <1>4
  <1>8. SignaturesKept'
    BY <1>4, <1>6 DEF RubyIInv, SignaturesKept
  <1>9. SignsAsBorn'
    BY DEF RubyIInv, SignsAsBorn
  <1> QED  BY <1>1, <1>4, <1>7, <1>8, <1>9 DEF RubyIInv

(***************************************************************************)
(* A string of the heap.                                                   *)
(***************************************************************************)
LEMMA StringObject ==
  ASSUME RubyIInv, NEW s \in 0 .. Len(strings), s # 0
  PROVE  /\ s \in DOMAIN strings /\ strings[s].words \in Seq(Word)
         /\ strings[s] = [words |-> strings[s].words, enc |-> strings[s].enc]
         /\ strings[s].enc \in Encodings
  <1>1. /\ DOMAIN strings = 1 .. Len(strings) /\ Len(strings) \in Nat
        /\ strings \in Seq(RubyString)
    BY LenProperties DEF RubyIInv
  <1>2. s \in 1 .. Len(strings)
    BY <1>1
  <1>3. strings[s] \in RubyString
    BY <1>1, <1>2, ElementOfSeq
  <1> QED  BY <1>1, <1>2, <1>3 DEF RubyString

(***************************************************************************)
(* SigningKey.new and generate.                                            *)
(***************************************************************************)
LEMMA NewSigningKeyStep ==
  ASSUME RubyIInv, NEW s \in 0 .. Len(strings), NewSigningKey(s)
  PROVE  RubyIInv'
  <1>1. out'.call = "new"
    BY DEF NewSigningKey, Only, Ended
  <1>2. VerifiesOwn' /\ FromKeypair'
    BY <1>1, OtherCall
  <1>3. CASE KeyError(s) # "ok" /\ Only("new", KeyError(s), s, 0, <<>>)
    BY <1>2, <1>3, QuietStep DEF Only, RubyIInv
  <1>4. CASE /\ KeyError(s) = "ok"
             /\ LET made == Made(strings, s)
                IN  strings' = made.heap /\ keys' = keys \cup {made.key}
             /\ UNCHANGED <<provider, signatures, written>>
    <2>1. s # 0 /\ Len(strings[s].words) = 1
      BY <1>4 DEF KeyError, Bytesize
    <2>2. s \in DOMAIN strings /\ strings \in Seq(RubyString) /\ Len(strings) \in Nat
      BY <2>1, StringObject, LenProperties DEF RubyIInv
    <2> QED  BY <1>2, <1>4, <2>1, <2>2, MadeStep
  <1> QED  BY <1>3, <1>4 DEF NewSigningKey

(***************************************************************************)
(* SigningKey.from_keypair.                                                *)
(***************************************************************************)
LEMMA FromKeypairStep ==
  ASSUME RubyIInv, NEW s \in 0 .. Len(strings), from_keypair(s)
  PROVE  RubyIInv'
  <1> DEFINE words == strings[s].words
             seed  == [strings[s] EXCEPT !.words = <<@[1]>>]
             half  == [strings[s] EXCEPT !.words = <<@[2]>>]
             heap  == Append(strings, seed)
             made  == Made(heap, Fresh(1))
             born  == words[1]
  <1>1. out'.call = "from_keypair" /\ out'.string = s
    BY DEF from_keypair, Only, Ended
  <1>2. VerifiesOwn'
    BY <1>1 DEF VerifiesOwn
  <1>3. CASE s = 0 /\ Only("from_keypair", "TypeError", s, 0, <<>>)
    <2>1. FromKeypair'
      BY <1>1, <1>3 DEF FromKeypair
    <2> QED  BY <1>2, <1>3, <2>1, QuietStep DEF Only, RubyIInv
  <1>4. ASSUME s # 0, strings[s] = Binary(Keypair(strings[s].words[1])), words[1] \in Word
        PROVE  /\ Bytesize(strings[s]) = 2 /\ Length(seed) = 32
               /\ words = Keypair(words[1])
               /\ half = Binary(<<Keypair(words[1])[2]>>)
    <2>1. words = Keypair(words[1])
      BY <1>4 DEF Binary
    <2>2. words \in Word \X Word
      BY <1>4, <2>1, PairsOfWords
    <2>3. Len(words) = 2
      BY <2>2
    <2>4. seed = Binary(<<words[1]>>) /\ half = Binary(<<words[2]>>)
      BY <1>4 DEF Binary
    <2>5. Length(seed) = 32 * Len(<<words[1]>>)
      BY <2>4, BinaryLength
    <2> QED  BY <2>1, <2>3, <2>4, <2>5 DEF Bytesize
  <1>5. ASSUME NEW k \in keys, k.keypair = s, s \notin written
        PROVE  /\ strings[s] = Binary(Keypair(strings[s].words[1]))
               /\ strings[s].words[1] \in Word
    <2>1. k.born \in Word /\ strings[s] = Binary(Keypair(k.born))
      BY <1>5 DEF RubyIInv, KeysKept, Untouched
    <2>2. strings[s].words[1] = k.born
      BY <2>1 DEF Binary, Keypair
    <2> QED  BY <2>1, <2>2
  <1>6. CASE /\ s # 0
             /\ Bytesize(strings[s]) # 2 \/ Length(seed) # 32
             /\ Only("from_keypair", "ArgumentError", s, 0, <<>>)
    <2>1. /\ UNCHANGED <<provider, strings, keys, signatures, written>>
          /\ out'.status = "ArgumentError"
      BY <1>6 DEF Only, Ended
    <2>2. ~(\E k \in keys : k.keypair = s) \/ s \in written
      <3> SUFFICES ASSUME NEW k \in keys, k.keypair = s, s \notin written PROVE FALSE
        OBVIOUS
      <3>1. /\ strings[s] = Binary(Keypair(strings[s].words[1]))
            /\ strings[s].words[1] \in Word
        BY <1>5
      <3> QED  BY <1>4, <1>6, <3>1
    <2>3. FromKeypair'
      BY <1>1, <2>1, <2>2 DEF FromKeypair
    <2> QED  BY <1>2, <2>1, <2>3, QuietStep DEF RubyIInv
  <1>7. CASE /\ s # 0 /\ Bytesize(strings[s]) = 2
             /\ UNCHANGED <<provider, signatures, written>>
             /\ \/ /\ Equal(half, made.heap[made.key.verify_key])
                   /\ strings' = made.heap /\ keys' = keys \cup {made.key}
                   /\ out' = Ended("from_keypair", "ok", s, 0, <<>>)
                \/ /\ ~Equal(half, made.heap[made.key.verify_key])
                   /\ out' = Ended("from_keypair", "ArgumentError", s, 0, <<>>)
                   /\ UNCHANGED <<strings, keys>>
    <2>1. /\ s \in DOMAIN strings /\ words \in Seq(Word) /\ Len(words) = 2
          /\ strings \in Seq(RubyString) /\ Len(strings) \in Nat
          /\ DOMAIN strings = 1 .. Len(strings)
          /\ strings[s] = [words |-> words, enc |-> strings[s].enc]
          /\ strings[s].enc \in Encodings
      BY <1>7, StringObject, LenProperties DEF RubyIInv, Bytesize
    <2>2. born \in Word /\ words[2] \in Word /\ words = <<born, words[2]>>
      BY <2>1
    <2> HIDE DEF words, born
    <2>3. /\ seed = [words |-> <<born>>, enc |-> strings[s].enc]
          /\ half = [words |-> <<words[2]>>, enc |-> strings[s].enc]
      <3>1. strings[s].words = words /\ words[1] = born
        BY DEF words, born
      <3> QED  BY <2>1, <3>1
    <2>4. seed \in RubyString /\ seed.words = <<born>>
      BY <2>1, <2>2, <2>3 DEF RubyString
    <2> HIDE DEF seed, half
    <2>5. /\ heap \in Seq(RubyString) /\ Len(heap) = Len(strings) + 1
          /\ heap[Len(strings) + 1] = seed
          /\ \A i \in DOMAIN strings : heap[i] = strings[i]
      BY <2>1, <2>4, AppendProperties
    <2> HIDE DEF heap
    <2>6. /\ Fresh(1) \in DOMAIN heap /\ heap[Fresh(1)] = seed /\ Len(heap[Fresh(1)].words) = 1
          /\ \A i \in DOMAIN strings : i \in DOMAIN heap /\ heap[i] = strings[i]
          /\ Len(heap) >= Len(strings)
      <3>1. DOMAIN heap = 1 .. Len(heap)
        BY <2>5, LenProperties
      <3>2. Len(seed.words) = 1
        BY <2>4
      <3> QED  BY <2>1, <2>5, <3>1, <3>2 DEF Fresh
    <2>7. /\ made.heap[made.key.verify_key] = Binary(<<Keypair(born)[2]>>)
          /\ \A i \in DOMAIN heap : made.heap[i] = heap[i]
      <3>1. heap[Fresh(1)].words[1] = born
        BY <2>4, <2>6
      <3>2. /\ made.key.verify_key = Len(heap) + 2
            /\ made.heap[Len(heap) + 2] = Binary(<<Keypair(born)[2]>>)
            /\ \A i \in DOMAIN heap : made.heap[i] = heap[i]
        BY <2>5, <2>6, <3>1, MadeResult
      <3> QED  BY <3>2
    <2> HIDE DEF made
    <2>8. CASE /\ Equal(half, made.heap[made.key.verify_key])
               /\ strings' = made.heap /\ keys' = keys \cup {made.key}
               /\ out' = Ended("from_keypair", "ok", s, 0, <<>>)
      <3>1. <<words[2]>> = <<Keypair(born)[2]>>
        BY <2>3, <2>7, <2>8 DEF Equal, Binary
      <3>2. words = Keypair(born)
        <4>1. words[2] = Keypair(born)[2]
          BY <3>1
        <4>2. Keypair(born) = <<born, Keypair(born)[2]>>
          BY DEF Keypair
        <4> QED  BY <4>1, <4>2, <2>2
      <3>3. strings'[s].words = words /\ out'.status = "ok"
        <4>1. strings'[s] = strings[s]
          BY <2>1, <2>6, <2>7, <2>8
        <4> QED  BY <4>1, <2>1, <2>8 DEF words, Ended
      <3>4. words[1] = born
        BY DEF born
      <3>5. FromKeypair'
        BY <1>1, <3>2, <3>3, <3>4 DEF FromKeypair
      <3> QED  BY <1>2, <1>7, <2>5, <2>6, <2>8, <3>5, MadeStep DEF made
    <2>9. CASE /\ ~Equal(half, made.heap[made.key.verify_key])
               /\ out' = Ended("from_keypair", "ArgumentError", s, 0, <<>>)
               /\ UNCHANGED <<strings, keys>>
      <3>1. out'.status = "ArgumentError"
        BY <2>9 DEF Ended
      <3>2. ~(\E k \in keys : k.keypair = s) \/ s \in written
        <4> SUFFICES ASSUME NEW k \in keys, k.keypair = s, s \notin written PROVE FALSE
          OBVIOUS
        <4>1. /\ strings[s] = Binary(Keypair(strings[s].words[1]))
              /\ strings[s].words[1] \in Word
          BY <1>5
        <4>2. half = Binary(<<Keypair(strings[s].words[1])[2]>>)
          BY <1>4, <1>7, <4>1 DEF words
        <4>3. strings[s].words[1] = born
          BY DEF words, born
        <4> QED  BY <2>7, <2>9, <4>2, <4>3 DEF Equal
      <3>3. FromKeypair'
        BY <1>1, <1>7, <2>9, <3>1, <3>2 DEF FromKeypair
      <3> QED  BY <1>2, <1>7, <2>9, <3>3, QuietStep DEF RubyIInv
    <2> QED  BY <1>7, <2>8, <2>9
  <1> QED  BY <1>3, <1>6, <1>7 DEF from_keypair

(***************************************************************************)
(* SigningKey#sign: with a keypair nobody has written to, both providers   *)
(* make the signature of the seed the key was born from.                   *)
(***************************************************************************)
LEMMA SignStep ==
  ASSUME RubyIInv, NEW k \in keys, NEW msg \in Texts, sign(k, msg)
  PROVE  RubyIInv'
  <1> DEFINE res == Answer("sign", <<strings[k.keypair].words, msg>>)
             new == Binary(res.value)
             g0  == [string |-> Fresh(1), key |-> k, msg |-> msg, value |-> res.value]
  <1>1. out'.call = "sign"
    BY DEF sign, Only, Ended
  <1>2. VerifiesOwn' /\ FromKeypair'
    BY <1>1, OtherCall
  <1>3. CASE res.status # "string" /\ Only("sign", res.status, k.keypair, 0, msg)
    BY <1>2, <1>3, QuietStep DEF Only, RubyIInv
  <1>4. CASE /\ res.status = "string" /\ strings' = Append(strings, new)
             /\ signatures' = signatures \cup {g0}
             /\ UNCHANGED <<provider, keys, verifyKeys, written>>
    <2>1. k.keypair \notin written => res = String(Signature(Keypair(k.born), msg))
      <3> SUFFICES ASSUME k.keypair \notin written
                   PROVE  res = String(Signature(Keypair(k.born), msg))
        OBVIOUS
      <3>1. k.born \in Word /\ strings[k.keypair] = Binary(Keypair(k.born))
        BY DEF RubyIInv, KeysKept, Untouched
      <3>2. strings[k.keypair].words = Keypair(k.born)
        BY <3>1 DEF Binary
      <3> QED  BY <3>1, <3>2, OwnAnswers
    <2>2. res.value \in Seq(Word)
      <3>1. \A key : String(Signature(key, msg)).value \in Seq(Word)
        <4> SUFFICES ASSUME NEW key PROVE Signature(key, msg) \in Seq(Word)
          BY DEF String
        <4>1. PICK a \in Word, b \in Word : Signature(key, msg) = <<a, b>>
          BY PairsOfWords
        <4> QED  BY <4>1
      <3> DEFINE args == <<strings[k.keypair].words, msg>>
      <3>2. \/ res = Raised("ArgumentError")
            \/ \E key : res = String(Signature(key, args[2]))
        BY DEF Answer, Outcome, Ref10Outcome
      <3>3. args[2] = msg
        OBVIOUS
      <3>4. Raised("ArgumentError").status # "string"
        BY DEF Raised
      <3> HIDE DEF res, args
      <3> QED  BY <1>4, <3>1, <3>2, <3>3, <3>4
    <2>3. new \in RubyString /\ strings \in Seq(RubyString) /\ Len(strings) \in Nat
      BY <2>2, LenProperties DEF RubyIInv, RubyString, Binary, Encodings
    <2>4. g0.string = Len(strings) + 1 /\ g0.key = k /\ g0.msg = msg /\ g0.value = res.value
      BY DEF Fresh
    <2>5. Binary(g0.value) = new
      BY <2>4
    <2> HIDE DEF res, new, g0
    <2>6. /\ strings' \in Seq(RubyString) /\ Len(strings') = Len(strings) + 1
          /\ strings'[Len(strings) + 1] = new
          /\ \A i \in 1 .. Len(strings) : strings'[i] = strings[i]
      BY <1>4, <2>3, AppendProperties
    <2>7. DOMAIN strings' = 1 .. Len(strings') /\ DOMAIN strings = 1 .. Len(strings)
      BY <2>3, <2>6, LenProperties
    <2>8. \A i, words : Untouched(i, words) => Untouched(i, words)'
      BY <1>4, <2>3, <2>6, <2>7, GrowthKeeps
    <2>9. \A i, words : i = g0.string /\ words = g0.value => Untouched(i, words)'
      <3>1. g0.string \in DOMAIN strings' /\ strings'[g0.string] = Binary(g0.value)
        BY <2>3, <2>4, <2>5, <2>6, <2>7
      <3> QED  BY <3>1 DEF Untouched
    <2>10. KeysKept'
      BY <1>4, <2>8 DEF RubyIInv, KeysKept
    <2>11. SignaturesKept'
      <3> SUFFICES ASSUME NEW g \in signatures'
                   PROVE  g.key \in keys' /\ Untouched(g.string, g.value)'
        BY DEF SignaturesKept
      <3>1. CASE g \in signatures
        BY <1>4, <2>8, <3>1 DEF RubyIInv, SignaturesKept
      <3>2. CASE g = g0
        BY <1>4, <2>4, <2>9, <3>2
      <3> QED  BY <1>4, <3>1, <3>2
    <2>12. SignsAsBorn'
      <3>1. k.keypair \notin written => g0.value = Signature(Keypair(k.born), msg)
        BY <2>1, <2>4 DEF String
      <3> QED  BY <1>4, <2>4, <3>1 DEF RubyIInv, SignsAsBorn
    <2> QED  BY <1>2, <1>4, <2>6, <2>10, <2>11, <2>12 DEF RubyIInv
  <1> QED  BY <1>3, <1>4 DEF sign

(***************************************************************************)
(* VerifyKey#verify.                                                       *)
(***************************************************************************)
LEMMA VerifyStep ==
  ASSUME RubyIInv, NEW s \in DOMAIN strings, NEW v, NEW msg, verify(s, v, msg)
  PROVE  RubyIInv'
  <1>1. /\ out' = Ended("verify", VerifyStatus(s, v, msg), s, v, msg)
        /\ UNCHANGED <<provider, strings, keys, verifyKeys, signatures, written>>
    BY DEF verify, Only
  <1>2. FromKeypair'
    BY <1>1 DEF FromKeypair, Ended
  <1>3. VerifiesOwn'
    <2> SUFFICES ASSUME NEW g \in signatures, s = g.string, msg = g.msg,
                        v = g.key.verify_key,
                        {g.string, g.key.keypair, g.key.verify_key} \cap written = {}
                 PROVE  VerifyStatus(s, v, msg) = "true"
      BY <1>1 DEF VerifiesOwn, Ended
    <2> DEFINE key == Keypair(g.key.born)
               sig == Signature(key, msg)
               args == <<strings[v].words, strings[s].words, msg>>
    <2>1. g.key \in keys /\ strings[s] = Binary(g.value) /\ g.value = sig
      BY DEF RubyIInv, SignaturesKept, SignsAsBorn, Untouched
    <2>2. g.key.born \in Word /\ strings[v] = Binary(<<key[2]>>)
      BY <2>1 DEF RubyIInv, KeysKept, Untouched
    <2>3. Len(sig) = 2
      <3>1. sig \in Word \X Word
        BY PairsOfWords
      <3> QED  BY <3>1
    <2>4. Length(strings[s]) = 64
      <3>1. Length(Binary(g.value)) = 32 * Len(g.value) /\ Len(g.value) = 2
        BY <2>1, <2>3, BinaryLength
      <3> QED  BY <2>1, <3>1
    <2>5. args = <<<<key[2]>>, sig, msg>>
      BY <2>1, <2>2 DEF Binary
    <2>6. Answer("verify", args) = Truth(TRUE)
      BY <2>2, <2>5, OwnAnswers
    <2>7. Truth(TRUE).status = "true"
      BY DEF Truth
    <2> HIDE DEF args
    <2>8. VerifyStatus(s, v, msg) =
            IF Answer("verify", args).status = "false" THEN "VerifyError"
            ELSE Answer("verify", args).status
      BY <2>4 DEF VerifyStatus, args
    <2> QED  BY <2>6, <2>7, <2>8
  <1> QED  BY <1>1, <1>2, <1>3, QuietStep DEF RubyIInv

-----------------------------------------------------------------------------
(* The theorems. *)

(***************************************************************************)
(* Every step preserves the invariant.                                     *)
(***************************************************************************)
LEMMA NextIInv == RubyIInv /\ [RubyNext]_rubyVars => RubyIInv'
  <1> SUFFICES ASSUME RubyIInv, [RubyNext]_rubyVars PROVE RubyIInv'
    OBVIOUS
  <1>1. CASE RubyNext
    BY <1>1, SetProviderStep, NewSigningKeyStep, FromKeypairStep,
       NewVerifyKeyStep, SignStep, VerifyStep, WriteStep DEF RubyNext
  <1>2. CASE UNCHANGED rubyVars
    <2>1. VerifiesOwn' /\ FromKeypair'
      BY <1>2 DEF rubyVars, RubyIInv, VerifiesOwn, FromKeypair
    <2> QED  BY <1>2, <2>1, QuietStep DEF rubyVars, RubyIInv
  <1> QED  BY <1>1, <1>2

(***************************************************************************)
(* Strings that nobody has written to hold what the library put in them.   *)
(***************************************************************************)
THEOREM RubyApiInvariant == RubySpec => []RubyIInv
  BY InitIInv, NextIInv, PTL DEF RubySpec

(***************************************************************************)
(* A signing key signs as the seed it was made from, under any provider,   *)
(* until its own keypair string is written to.                             *)
(***************************************************************************)
THEOREM RubyApiSignsAsBorn == RubySpec => []SignsAsBorn
  <1>1. RubyIInv => SignsAsBorn
    BY DEF RubyIInv
  <1> QED  BY <1>1, RubyApiInvariant, PTL

(***************************************************************************)
(* A key's verify_key verifies what the key signed, whichever provider     *)
(* made the key, the signature and the verdict.                            *)
(***************************************************************************)
THEOREM RubyApiVerifiesOwn == RubySpec => []VerifiesOwn
  <1>1. RubyIInv => VerifiesOwn
    BY DEF RubyIInv
  <1> QED  BY <1>1, RubyApiInvariant, PTL

(***************************************************************************)
(* from_keypair accepts what the keypair accessors hand out and nothing    *)
(* whose halves do not belong together.                                    *)
(***************************************************************************)
THEOREM RubyApiFromKeypair == RubySpec => []FromKeypair
  <1>1. RubyIInv => FromKeypair
    BY DEF RubyIInv
  <1> QED  BY <1>1, RubyApiInvariant, PTL

(***************************************************************************)
(* A string that is not 64 bytes is never verified as a signature, in any  *)
(* encoding.                                                               *)
(***************************************************************************)
LEMMA OtherSizeStatus ==
  ASSUME NEW s, NEW v, NEW msg, Len(strings[s].words) # 2
  PROVE  VerifyStatus(s, v, msg) = "ArgumentError"
  <1> DEFINE args == <<strings[v].words, strings[s].words, msg>>
  <1>1. args[2] = strings[s].words
    OBVIOUS
  <1> HIDE DEF args
  <1>2. ~WellSized("verify", args)
    BY <1>1 DEF WellSized
  <1>3. Answer("verify", args) = Raised("ArgumentError")
    BY <1>2 DEF Answer, Outcome, Ref10Outcome
  <1>4. Raised("ArgumentError").status = "ArgumentError"
    BY DEF Raised
  <1> QED  BY <1>3, <1>4 DEF VerifyStatus, args

THEOREM RubyApiOtherSizesRefused == RubySpec => []OtherSizesRefused
  <1>1. RubyInit => OtherSizesRefused
    BY DEF RubyInit, OtherSizesRefused, NoCall, Ended
  <1>2. ASSUME OtherSizesRefused, [RubyNext]_rubyVars PROVE OtherSizesRefused'
    <2>1. ASSUME out'.call # "verify" PROVE OtherSizesRefused'
      BY <2>1 DEF OtherSizesRefused
    <2>2. CASE SetProvider \/ UNCHANGED rubyVars
      BY <1>2, <2>2 DEF SetProvider, rubyVars, OtherSizesRefused
    <2>3. ASSUME NEW s, NewSigningKey(s) \/ from_keypair(s) \/ NewVerifyKey(s)
          PROVE  OtherSizesRefused'
      BY <2>1, <2>3 DEF NewSigningKey, from_keypair, NewVerifyKey, Only, Ended
    <2>4. ASSUME NEW k, NEW msg, sign(k, msg) PROVE OtherSizesRefused'
      BY <2>1, <2>4 DEF sign, Only, Ended
    <2>5. ASSUME NEW s, NEW v, NEW msg, verify(s, v, msg) PROVE OtherSizesRefused'
      BY <2>5, OtherSizeStatus DEF verify, Only, Ended, OtherSizesRefused
    <2>6. ASSUME NEW s, Write(s) PROVE OtherSizesRefused'
      BY <2>1, <2>6 DEF Write, NoCall, Ended
    <2> QED  BY <1>2, <2>2, <2>3, <2>4, <2>5, <2>6 DEF RubyNext
  <1> QED  BY <1>1, <1>2, PTL DEF RubySpec
=============================================================================
