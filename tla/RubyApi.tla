------------------------------ MODULE RubyApi ------------------------------
(***************************************************************************)
(* The Ruby library: Ed25519 with its provider, Ed25519::SigningKey and    *)
(* Ed25519::VerifyKey.                                                     *)
(*                                                                         *)
(* Strings are objects that several others may hold: a SigningKey keeps    *)
(* the caller's own seed string, a VerifyKey the string it was made from,  *)
(* and the accessors hand out what they keep.  Whoever holds a string may  *)
(* write to it, or change its encoding, between any two calls; and anyone  *)
(* may set Ed25519.provider.  What a provider answers is taken from        *)
(* ProviderCalls (Ref10) and JavaAnswers (JRuby).                          *)
(***************************************************************************)
EXTENDS JavaAnswers, RubyStrings, FiniteSets

CONSTANTS
  MaxStrings, \* bound on the strings made
  MaxWrites   \* bound on the strings written to

VARIABLES
  provider,   \* Ed25519.provider: "Ref10" or "JRuby"
  strings,    \* the string objects; 0 is an object that is not a String
  keys,       \* the SigningKeys: which strings they hold, and (history) the
              \* seed each was made from
  verifyKeys, \* the strings that VerifyKeys hold
  out,        \* how the last call ended, and its arguments; nothing if a
              \* string has been written to since
  signatures, \* history: the signatures made
  written     \* history: the strings written to since they were made

rubyVars == <<provider, strings, keys, verifyKeys, out, signatures, written>>

\* The strings a call makes come after the ones there are.
Fresh(n) == Len(strings) + n

-----------------------------------------------------------------------------
(* The provider. *)

\* Mutant of Ref10Outcome: the length of the signature is not checked.
Ref10OutcomeUnmeasured(o, args) ==
  IF o # "verify" /\ ~WellSized(o, args) THEN Raised("ArgumentError")
  ELSE IF o = "create_keypair" THEN String(Keypair(args[1][1]))
  ELSE IF o = "sign" THEN String(Signature(args[1], args[2]))
  ELSE Truth(Accepts(args[1][1], args[2], args[3]))

\* What Ref10 prescribes.
Ref10Outcome(o, args) ==
  IF ~WellSized(o, args) THEN Raised("ArgumentError")
  ELSE IF o = "create_keypair" THEN String(Keypair(args[1][1]))
  ELSE IF o = "sign" THEN String(Signature(args[1], args[2]))
  ELSE Truth(Accepts(args[1][1], args[2], args[3]))

\* What the current provider returns or raises.
Answer(o, args) ==
  IF provider = "JRuby" THEN Outcome(o, args) ELSE Ref10Outcome(o, args)

\* Ed25519.provider = ...
SetProvider ==
  /\ provider' \in {"Ref10", "JRuby"} \ {provider}
  /\ UNCHANGED <<strings, keys, verifyKeys, out, signatures, written>>

-----------------------------------------------------------------------------
(* How a call ends: a status, and the arguments and results the properties *)
(* speak of. *)

Ended(call, status, s, v, msg) ==
  [call |-> call, status |-> status, string |-> s, key |-> v, msg |-> msg]

NoCall == Ended("none", "ok", 0, 0, <<>>)

RubyInit ==
  /\ provider \in {"Ref10", "JRuby"}
  /\ strings = Callers /\ keys = {} /\ verifyKeys = {}
  /\ out = NoCall /\ signatures = {} /\ written = {}

\* A call that makes and changes nothing.
Only(call, status, s, v, msg) ==
  /\ out' = Ended(call, status, s, v, msg)
  /\ UNCHANGED <<provider, strings, keys, verifyKeys, signatures, written>>

\* The strings and keys after a SigningKey has been made around seed, which
\* is string id of heap; the keypair and the verify key's bytes are new.
Made(heap, id) ==
  LET pair == Answer("create_keypair", <<heap[id].words>>).value
      born == heap[id].words[1]
  IN  [heap |-> heap \o <<Binary(pair), Binary(<<pair[2]>>)>>,
       key  |-> [seed |-> id, keypair |-> Len(heap) + 1,
                 verify_key |-> Len(heap) + 2, born |-> born]]

\* validate_key_bytes
KeyError(s) == IF s = 0 THEN "TypeError"
               ELSE IF Bytesize(strings[s]) # 1 THEN "ArgumentError" ELSE "ok"

\* SigningKey.new, and generate, with the seed string s.
NewSigningKey(s) ==
  \/ KeyError(s) # "ok" /\ Only("new", KeyError(s), s, 0, <<>>)
  \/ /\ KeyError(s) = "ok" /\ Fresh(2) <= MaxStrings
     /\ LET made == Made(strings, s)
        IN  /\ strings' = made.heap /\ keys' = keys \cup {made.key}
            /\ verifyKeys' = verifyKeys \cup {made.key.verify_key}
     /\ out' = Ended("new", "ok", s, 0, <<>>)
     /\ UNCHANGED <<provider, signatures, written>>

\* Mutant of from_keypair: the halves are not compared.
from_keypairTrusting(s) ==
  /\ s # 0 /\ Fresh(3) <= MaxStrings
  /\ Bytesize(strings[s]) = 2
  /\ LET made == Made(Append(strings, [strings[s] EXCEPT !.words = <<@[1]>>]), Fresh(1))
     IN  /\ strings' = made.heap /\ keys' = keys \cup {made.key}
         /\ verifyKeys' = verifyKeys \cup {made.key.verify_key}
  /\ out' = Ended("from_keypair", "ok", s, 0, <<>>)
  /\ UNCHANGED <<provider, signatures, written>>

\* SigningKey.from_keypair: the first 32 characters become the seed, a new
\* string, and what comes after them has to equal the new verify key.
from_keypair(s) ==
  \/ s = 0 /\ Only("from_keypair", "TypeError", s, 0, <<>>)
  \/ /\ s # 0
     /\ Bytesize(strings[s]) # 2 \/ Length([strings[s] EXCEPT !.words = <<@[1]>>]) # 32
     /\ Only("from_keypair", "ArgumentError", s, 0, <<>>)
  \/ /\ s # 0 /\ Fresh(3) <= MaxStrings
     /\ Bytesize(strings[s]) = 2
     /\ LET seed == [strings[s] EXCEPT !.words = <<@[1]>>]
            half == [strings[s] EXCEPT !.words = <<@[2]>>]
            made == Made(Append(strings, seed), Fresh(1))
        IN  /\ Length(seed) = 32
            /\ \/ /\ Equal(half, made.heap[made.key.verify_key])
                  /\ strings' = made.heap /\ keys' = keys \cup {made.key}
                  /\ verifyKeys' = verifyKeys \cup {made.key.verify_key}
                  /\ out' = Ended("from_keypair", "ok", s, 0, <<>>)
               \/ /\ ~Equal(half, made.heap[made.key.verify_key])
                  /\ out' = Ended("from_keypair", "ArgumentError", s, 0, <<>>)
                  /\ UNCHANGED <<strings, keys, verifyKeys>>
     /\ UNCHANGED <<provider, signatures, written>>

\* VerifyKey.new keeps the string it is given.
NewVerifyKey(s) ==
  \/ KeyError(s) # "ok" /\ Only("new", KeyError(s), s, 0, <<>>)
  \/ /\ KeyError(s) = "ok"
     /\ verifyKeys' = verifyKeys \cup {s}
     /\ out' = Ended("new", "ok", s, 0, <<>>)
     /\ UNCHANGED <<provider, strings, keys, signatures, written>>

\* Mutant of sign: the keypair is made anew from the seed.
signFromSeed(k, msg) ==
  /\ KeyError(k.seed) = "ok" /\ Fresh(1) <= MaxStrings
  /\ LET pair  == Answer("create_keypair", <<strings[k.seed].words>>).value
         value == Answer("sign", <<pair, msg>>).value
     IN  /\ strings' = Append(strings, Binary(value))
         /\ signatures' = signatures \cup
              {[string |-> Fresh(1), key |-> k, msg |-> msg, value |-> value]}
  /\ out' = Ended("sign", "ok", Fresh(1), 0, msg)
  /\ UNCHANGED <<provider, keys, verifyKeys, written>>

\* Mutant of sign: the signature is returned in a multibyte encoding.
signRecoded(k, msg) ==
  LET res == Answer("sign", <<strings[k.keypair].words, msg>>)
  IN  \/ res.status # "string" /\ Only("sign", res.status, k.keypair, 0, msg)
      \/ /\ res.status = "string" /\ Fresh(1) <= MaxStrings
         /\ strings' = Append(strings, [words |-> res.value, enc |-> "multibyte"])
         /\ signatures' = signatures \cup
              {[string |-> Fresh(1), key |-> k, msg |-> msg, value |-> res.value]}
         /\ out' = Ended("sign", "ok", Fresh(1), 0, msg)
         /\ UNCHANGED <<provider, keys, verifyKeys, written>>

\* SigningKey#sign
sign(k, msg) ==
  LET res == Answer("sign", <<strings[k.keypair].words, msg>>)
  IN  \/ res.status # "string" /\ Only("sign", res.status, k.keypair, 0, msg)
      \/ /\ res.status = "string" /\ Fresh(1) <= MaxStrings
         /\ strings' = Append(strings, Binary(res.value))
         /\ signatures' = signatures \cup
              {[string |-> Fresh(1), key |-> k, msg |-> msg, value |-> res.value]}
         /\ out' = Ended("sign", "ok", Fresh(1), 0, msg)
         /\ UNCHANGED <<provider, keys, verifyKeys, written>>

\* VerifyKey#verify: true, or an exception.
VerifyStatus(s, v, msg) ==
  IF Length(strings[s]) # 64 THEN "ArgumentError"
  ELSE LET res == Answer("verify", <<strings[v].words, strings[s].words, msg>>)
       IN  IF res.status = "false" THEN "VerifyError" ELSE res.status

verify(s, v, msg) == Only("verify", VerifyStatus(s, v, msg), s, v, msg)

-----------------------------------------------------------------------------

\* Whoever holds string s gives it other bytes or another encoding.
Write(s) ==
  /\ Cardinality(written \cup {s}) <= MaxWrites
  /\ \E c \in Contents : strings' = [strings EXCEPT ![s] = c]
  /\ written' = written \cup {s} /\ out' = NoCall
  /\ UNCHANGED <<provider, keys, verifyKeys, signatures>>

RubyNext ==
  \/ SetProvider
  \/ \E s \in 0 .. Len(strings) : NewSigningKey(s) \/ from_keypair(s) \/ NewVerifyKey(s)
  \/ \E k \in keys, msg \in Texts : sign(k, msg)
  \/ \E s \in DOMAIN strings, v \in verifyKeys, msg \in Texts : verify(s, v, msg)
  \/ \E s \in DOMAIN strings : Write(s)

RubySpec == RubyInit /\ [][RubyNext]_rubyVars

-----------------------------------------------------------------------------

(***************************************************************************)
(* A signing key goes on signing as the seed it was made from: whatever is *)
(* written to the strings it was given or to other keys' strings, and      *)
(* whichever providers made it and sign, until someone writes to the       *)
(* string its own keypair accessor hands out.                              *)
(***************************************************************************)
SignsAsBorn ==
  \A g \in signatures :
    g.key.keypair \notin written => g.value = Signature(Keypair(g.key.born), g.msg)

(***************************************************************************)
(* Verifying a signature with the verify_key of the key that made it gives *)
(* true, not an exception, under either provider, while nobody has written *)
(* to the signature, to that keypair or to the verify key's bytes.         *)
(***************************************************************************)
VerifiesOwn ==
  \A g \in signatures :
    /\ out.call = "verify" /\ out.string = g.string /\ out.msg = g.msg
    /\ out.key = g.key.verify_key
    /\ {g.string, g.key.keypair, g.key.verify_key} \cap written = {}
    => out.status = "true"

(***************************************************************************)
(* from_keypair accepts only a keypair whose halves belong together, and   *)
(* every string a keypair accessor hands out (signing_key_spec.rb), unless *)
(* someone has written to it.                                              *)
(***************************************************************************)
FromKeypair ==
  out.call = "from_keypair" /\ out.string # 0 =>
    LET words == strings[out.string].words
    IN  /\ out.status = "ok" => words = Keypair(words[1])
        /\ (\E k \in keys : k.keypair = out.string) /\ out.string \notin written
             => out.status = "ok"

(***************************************************************************)
(* verify counts the characters of the signature, the provider its bytes:  *)
(* a string that is not 64 bytes is refused by one or the other, however   *)
(* many characters it has.                                                 *)
(***************************************************************************)
OtherSizesRefused ==
  out.call = "verify" /\ Len(strings[out.string].words) # 2 => out.status = "ArgumentError"

(***************************************************************************)
(* "The verify method will return true if the signature verifies, or raise *)
(* Ed25519::VerifyError if verification fails" (README.md), for a key and  *)
(* a signature of the right sizes.  (Violated: the JRuby provider lets an  *)
(* IllegalArgumentException through when the key is no point.)             *)
(***************************************************************************)
DocumentedVerify ==
  /\ out.call = "verify" /\ Length(strings[out.string]) = 64
  /\ Bytesize(strings[out.string]) = 2 /\ Bytesize(strings[out.key]) = 1
  => out.status \in {"true", "VerifyError"}

-----------------------------------------------------------------------------
(* The inductive invariant: what nobody has written to is as it was made.  *)

Untouched(s, words) == s \in DOMAIN strings /\ (s \notin written => strings[s] = Binary(words))

KeysKept ==
  \A k \in keys : /\ k.born \in Word
                  /\ Untouched(k.keypair, Keypair(k.born))
                  /\ Untouched(k.verify_key, <<Keypair(k.born)[2]>>)

SignaturesKept ==
  \A g \in signatures : g.key \in keys /\ Untouched(g.string, g.value)

RubyIInv ==
  /\ provider \in {"Ref10", "JRuby"}
  /\ strings \in Seq(RubyString)
  /\ KeysKept /\ SignaturesKept
  /\ SignsAsBorn /\ VerifiesOwn /\ FromKeypair
=============================================================================
