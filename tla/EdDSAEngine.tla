---------------------------- MODULE EdDSAEngine ----------------------------
(***************************************************************************)
(* EdDSAEngine.java, the java.security.Signature object that signs and     *)
(* verifies for the JRuby provider.  One thread uses an object; a call is  *)
(* a step, and between calls the caller may write to its own arrays.       *)
(*                                                                         *)
(* Its superclass keeps the state UNINITIALIZED, SIGN or VERIFY: initSign  *)
(* and initVerify set it once the engine has accepted the key, update,     *)
(* sign and verify require it, setParameter does not look at it.  The      *)
(* digest is an object of its own, which keeps what was fed to it until it *)
(* is reset or asked for the hash.                                         *)
(***************************************************************************)
EXTENDS Signing, Integers

CONSTANTS
  Supported,   \* hash algorithms MessageDigest.getInstance knows
  Foreign,     \* a key that is not an EdDSA key
  NoDigest,
  Messages,    \* what callers write into their arrays
  MaxBuffered  \* bound on the bytes in baos

ASSUME EngineAssumption ==
  /\ Foreign \notin Pairs /\ NoDigest \notin Supported /\ MaxBuffered \in Nat
  /\ Messages \subseteq Seq(Byte)

VARIABLES
  state,        \* of java.security.Signature
  key,          \* kind "none", "private" or "public", and its pair
  alg,          \* the algorithm of digest, NoDigest when it is null
  digest,       \* what digest has absorbed since it was last reset
  baos,         \* the bytes buffered
  oneShotMode,
  oneShotBytes, \* the array given in one-shot mode, or NoArray
  arrays,       \* what the caller's arrays hold
  out,          \* how the last call ended
  settled       \* history: the last initSign or initVerify was accepted

engineVars == <<key, alg, digest, baos, oneShotMode, oneShotBytes>>
vars == <<state, engineVars, arrays, out, settled>>

KeyOf(kind, k) == [kind |-> kind, pair |-> k]

Init ==
  /\ state = "UNINITIALIZED" /\ key = KeyOf("none", NoPair)
  /\ alg \in Supported \cup {NoDigest}
  /\ digest = <<>> /\ baos = <<>>
  /\ oneShotMode = FALSE /\ oneShotBytes = NoArray
  /\ arrays \in [Arrays -> Messages]
  /\ out = Ended("new", "ok") /\ settled = FALSE

\* Mutant of reset: the digest keeps what was left in it.
resetKeepsDigest(left, primed) ==
  /\ digest' = left \o primed
  /\ baos' = <<>> /\ oneShotMode' = FALSE /\ oneShotBytes' = NoArray

\* Mutant of reset: the array given in one-shot mode is kept.
resetKeepsBytes(left, primed) ==
  /\ digest' = primed
  /\ baos' = <<>> /\ oneShotMode' = FALSE /\ UNCHANGED oneShotBytes

\* reset() when the digest holds `left`; it is then fed `primed`.
reset(left, primed) ==
  /\ digest' = primed
  /\ baos' = <<>> /\ oneShotMode' = FALSE /\ oneShotBytes' = NoArray

-----------------------------------------------------------------------------
(* initSign and initVerify. *)

\* The digest can hash for pair k: it is instantiated now, or it is already
\* the one the key asks for.
Fits(k) == IF alg = NoDigest THEN Algorithm[k] \in Supported
           ELSE alg = Algorithm[k]

\* The argument is not an EdDSA key: nothing is kept but the reset.
InitForeign(call) ==
  /\ reset(digest, <<>>)
  /\ settled' = FALSE /\ out' = Ended(call, "InvalidKeyException")
  /\ UNCHANGED <<state, key, alg, arrays>>

\* An EdDSA key the digest does not fit is stored before it is refused.
InitMisfit(call, kind, k) ==
  /\ ~Fits(k)
  /\ reset(digest, <<>>)
  /\ key' = KeyOf(kind, k)
  /\ settled' = FALSE /\ out' = Ended(call, "InvalidKeyException")
  /\ UNCHANGED <<state, alg, arrays>>

InitAccepted(call, to, kind, k, primed) ==
  /\ Fits(k)
  /\ reset(digest, primed)
  /\ key' = KeyOf(kind, k) /\ alg' = Algorithm[k]
  /\ state' = to /\ settled' = TRUE /\ out' = Ended(call, "ok")
  /\ UNCHANGED arrays

initSign(arg) ==
  \/ arg = Foreign /\ InitForeign("initSign")
  \/ arg # Foreign /\ InitMisfit("initSign", "private", arg)
  \/ arg # Foreign /\ InitAccepted("initSign", "SIGN", "private", arg, <<Prefix(arg)>>)

\* An X509Key is parsed into the EdDSAPublicKey it holds; one that does not
\* parse is refused like a foreign key.
initVerify(arg) ==
  \/ arg = Foreign /\ InitForeign("initVerify")
  \/ arg # Foreign /\ InitMisfit("initVerify", "public", arg)
  \/ arg # Foreign /\ InitAccepted("initVerify", "VERIFY", "public", arg, <<>>)

-----------------------------------------------------------------------------
(* update and setParameter. *)

Refuse(call, exception) ==
  /\ out' = Ended(call, exception)
  /\ UNCHANGED <<state, engineVars, arrays, settled>>

\* Bytes are appended to the buffer.
Buffer(s) ==
  /\ Len(baos) + Len(s) <= MaxBuffered
  /\ baos' = baos \o s /\ out' = Ended("update", "ok")
  /\ UNCHANGED <<state, key, alg, digest, oneShotMode, oneShotBytes, arrays, settled>>

updateByte(b) ==
  \/ /\ state = "UNINITIALIZED" \/ oneShotMode
     /\ Refuse("update", "SignatureException")
  \/ state # "UNINITIALIZED" /\ ~oneShotMode /\ Buffer(<<b>>)

\* Mutant of update: a second array replaces the first.
updateTwice(a) ==
  \/ state = "UNINITIALIZED" /\ Refuse("update", "SignatureException")
  \/ state # "UNINITIALIZED" /\ ~oneShotMode /\ Buffer(arrays[a])
  \/ /\ state # "UNINITIALIZED" /\ oneShotMode
     /\ oneShotBytes' = a /\ out' = Ended("update", "ok")
     /\ UNCHANGED <<state, key, alg, digest, baos, oneShotMode, arrays, settled>>

\* An array is copied to the buffer, but kept by reference in one-shot mode.
update(a) ==
  \/ /\ state = "UNINITIALIZED" \/ (oneShotMode /\ oneShotBytes # NoArray)
     /\ Refuse("update", "SignatureException")
  \/ state # "UNINITIALIZED" /\ ~oneShotMode /\ Buffer(arrays[a])
  \/ /\ state # "UNINITIALIZED" /\ oneShotMode /\ oneShotBytes = NoArray
     /\ oneShotBytes' = a /\ out' = Ended("update", "ok")
     /\ UNCHANGED <<state, key, alg, digest, baos, oneShotMode, arrays, settled>>

setParameterOneShot ==
  \/ /\ oneShotBytes # NoArray \/ baos # <<>>
     /\ Refuse("setParameter", "InvalidAlgorithmParameterException")
  \/ /\ oneShotBytes = NoArray /\ baos = <<>>
     /\ oneShotMode' = TRUE /\ out' = Ended("setParameter", "ok")
     /\ UNCHANGED <<state, key, alg, digest, baos, oneShotBytes, arrays, settled>>

setParameterOther == Refuse("setParameter", "UnsupportedOperationException")

-----------------------------------------------------------------------------
(* sign. *)

\* The cast of key fails: sign's finally clause resets, then fails too.
SignWrongKey(call) ==
  /\ key.kind # "private"
  /\ reset(digest, <<>>)
  /\ out' = Ended(call, "ClassCastException")

\* In one-shot mode, and update has not been called.
SignUnfed(call) ==
  /\ key.kind = "private"
  /\ reset(digest, <<Prefix(key.pair)>>)
  /\ out' = Ended(call, "SignatureException")

\* Two hashes are taken from the digest, which leaves it empty.
SignText(call, msg) ==
  /\ key.kind = "private"
  /\ reset(<<>>, <<Prefix(key.pair)>>)
  /\ out' = Returned(call, Signed(key.pair, alg, digest, msg))

\* Mutant of engineSign: the digest is not primed for the next signature.
engineSignOnce(call, fed, msg) ==
  /\ state = "SIGN"
  /\ \/ SignWrongKey(call)
     \/ /\ key.kind = "private" /\ reset(digest, <<>>)
        /\ out' = IF fed THEN Returned(call, Signed(key.pair, alg, digest, msg))
                  ELSE Ended(call, "SignatureException")
  /\ UNCHANGED <<state, key, alg, arrays, settled>>

\* fed says that there is a message, msg which.
engineSign(call, fed, msg) ==
  /\ state = "SIGN"
  /\ \/ SignWrongKey(call)
     \/ ~fed /\ SignUnfed(call)
     \/ fed /\ SignText(call, msg)
  /\ UNCHANGED <<state, key, alg, arrays, settled>>

Fed == ~oneShotMode \/ oneShotBytes # NoArray

Text == IF oneShotMode THEN arrays[oneShotBytes] ELSE baos

sign ==
  \/ state # "SIGN" /\ Refuse("sign", "SignatureException")
  \/ engineSign("sign", Fed, Text)

\* oneShotMode = true; update(data); sign(), which may refuse after the
\* first or the second of these.
signOneShot(a) ==
  \/ /\ state = "UNINITIALIZED" \/ oneShotBytes # NoArray
     /\ oneShotMode' = TRUE /\ out' = Ended("signOneShot", "SignatureException")
     /\ UNCHANGED <<state, key, alg, digest, baos, oneShotBytes, arrays, settled>>
  \/ /\ state = "VERIFY" /\ oneShotBytes = NoArray
     /\ oneShotMode' = TRUE /\ oneShotBytes' = a
     /\ out' = Ended("signOneShot", "SignatureException")
     /\ UNCHANGED <<state, key, alg, digest, baos, arrays, settled>>
  \/ oneShotBytes = NoArray /\ engineSign("signOneShot", TRUE, arrays[a])

-----------------------------------------------------------------------------
(* verify: R, then Abar, then the message are fed to the digest; each of   *)
(* the errors leaves there what came before it.                            *)

VerifyTruncated(call, sig) ==
  /\ sig = Truncated
  /\ reset(digest, <<>>)
  /\ out' = Ended(call, "SignatureException")

VerifyWrongKey(call, sig) ==
  /\ sig # Truncated /\ key.kind # "public"
  /\ reset(digest \o <<Commitment(sig.nonce)>>, <<>>)
  /\ out' = Ended(call, "ClassCastException")

VerifyUnfed(call, sig) ==
  /\ sig # Truncated /\ key.kind = "public"
  /\ reset(digest \o <<Commitment(sig.nonce), PublicBytes(key.pair)>>, <<>>)
  /\ out' = Ended(call, "SignatureException")

VerifyText(call, sig, msg) ==
  /\ sig # Truncated /\ key.kind = "public"
  /\ reset(<<>>, <<>>)
  /\ out' = Answer(call, Matches(sig, key.pair, alg, digest, msg))

engineVerify(call, sig, fed, msg) ==
  /\ state = "VERIFY"
  /\ \/ VerifyTruncated(call, sig)
     \/ VerifyWrongKey(call, sig)
     \/ ~fed /\ VerifyUnfed(call, sig)
     \/ fed /\ VerifyText(call, sig, msg)
  /\ UNCHANGED <<state, key, alg, arrays, settled>>

verify(sig) ==
  \/ state # "VERIFY" /\ Refuse("verify", "SignatureException")
  \/ engineVerify("verify", sig, Fed, Text)

verifyOneShot(a, sig) ==
  \/ /\ state = "UNINITIALIZED" \/ oneShotBytes # NoArray
     /\ oneShotMode' = TRUE /\ out' = Ended("verifyOneShot", "SignatureException")
     /\ UNCHANGED <<state, key, alg, digest, baos, oneShotBytes, arrays, settled>>
  \/ /\ state = "SIGN" /\ oneShotBytes = NoArray
     /\ oneShotMode' = TRUE /\ oneShotBytes' = a
     /\ out' = Ended("verifyOneShot", "SignatureException")
     /\ UNCHANGED <<state, key, alg, digest, baos, arrays, settled>>
  \/ oneShotBytes = NoArray /\ engineVerify("verifyOneShot", sig, TRUE, arrays[a])

-----------------------------------------------------------------------------

\* The caller writes to one of its arrays.
Write ==
  /\ \E a \in Arrays, msg \in Messages : arrays' = [arrays EXCEPT ![a] = msg]
  /\ UNCHANGED <<state, engineVars, out, settled>>

Initialise == \E arg \in Pairs \cup {Foreign} : initSign(arg) \/ initVerify(arg)

Buffered ==
  \/ \E b \in Byte : updateByte(b)
  \/ \E a \in Arrays : update(a)
  \/ sign
  \/ \E sig \in Signatures : verify(sig)

Parameters == setParameterOneShot \/ setParameterOther

OneShot ==
  \/ \E a \in Arrays : signOneShot(a)
  \/ \E a \in Arrays, sig \in Signatures : verifyOneShot(a, sig)

\* Every call, in any order.
Next == Initialise \/ Buffered \/ Parameters \/ OneShot \/ Write

Spec == Init /\ [][Next]_vars

\* The calls a caller makes who follows the class comment: after a refused
\* key it initialises again, it sets the parameter after initSign or
\* initVerify, and it calls signOneShot or verifyOneShot right after
\* initSign or initVerify, or after the last signature.
DocumentedNext ==
  \/ Initialise \/ Write
  \/ (settled \/ state = "UNINITIALIZED") /\ Buffered
  \/ settled /\ Parameters
  \/ /\ settled /\ baos = <<>> /\ oneShotBytes = NoArray
     /\ \/ state = "SIGN" /\ \E a \in Arrays : signOneShot(a)
        \/ state = "VERIFY" /\ \E a \in Arrays, sig \in Signatures : verifyOneShot(a, sig)

DocumentedSpec == Init /\ [][DocumentedNext]_vars

-----------------------------------------------------------------------------

\* The types of the variables.
TypeOK ==
  /\ state \in {"UNINITIALIZED", "SIGN", "VERIFY"}
  /\ key \in [kind : {"none", "private", "public"}, pair : Pairs \cup {NoPair}]
  /\ key.pair = NoPair <=> key.kind = "none"
  /\ alg \in Supported \cup {NoDigest}
  /\ baos \in Seq(Byte) /\ Len(baos) <= MaxBuffered
  /\ oneShotMode \in BOOLEAN /\ settled \in BOOLEAN
  /\ oneShotBytes \in Arrays \cup {NoArray}
  /\ oneShotBytes # NoArray => oneShotMode
  /\ arrays \in [Arrays -> Messages]

(***************************************************************************)
(* Whatever calls are made and however they end, nothing of a message or   *)
(* of a signature stays in the digest: between calls it is empty, or holds *)
(* the prefix of the private key in use while the state is SIGN.           *)
(***************************************************************************)
NoResidue ==
  \/ digest = <<>>
  \/ key.kind = "private" /\ digest = <<Prefix(key.pair)>> /\ state = "SIGN"

(***************************************************************************)
(* engineSign "must leave the object ready to sign again with the same     *)
(* key, as required by the API", and so must verify: after either, even    *)
(* when it threw, the message is gone and the digest is as after init.     *)
(***************************************************************************)
ReadyAgain ==
  /\ out.call \in {"sign", "verify"} /\ (out.call = "sign" <=> state = "SIGN")
     /\ state # "UNINITIALIZED"
     => baos = <<>> /\ ~oneShotMode /\ oneShotBytes = NoArray
  /\ out.call = "sign" /\ state = "SIGN" /\ key.kind = "private"
     => digest = <<Prefix(key.pair)>>
  /\ out.call = "verify" /\ state = "VERIFY" => digest = <<>>

(***************************************************************************)
(* The comment in digestInitSign and x_engineSign: every signature's nonce *)
(* is r = H(h_b,...,h_2b-1,M).  (Violated: a refused key leaves the state  *)
(* SIGN and the digest reset.)                                             *)
(***************************************************************************)
NonceHashesPrefix ==
  LET absorbed == out.signature.nonce[2]
  IN  out.signature # NoSignature =>
        absorbed # <<>> /\ Head(absorbed) = Prefix(out.signature.pair)

(***************************************************************************)
(* The documentation of signOneShot: it throws SignatureException "if      *)
(* update() already called".  (Violated: what update buffered is dropped.) *)
(***************************************************************************)
OneShotRefusesUpdate ==
  [][ out'.call = "signOneShot" /\ baos # <<>>
        => out'.status = "SignatureException" ]_vars

-----------------------------------------------------------------------------

\* Once a key is accepted, the state, the key, the digest's algorithm and
\* its contents agree, and a caller who keeps to the rules never has both
\* buffered bytes and one-shot mode.
Consistent ==
  settled =>
    /\ key.pair \in Pairs /\ alg = Algorithm[key.pair]
    /\ \/ state = "SIGN" /\ key.kind = "private" /\ digest = <<Prefix(key.pair)>>
       \/ state = "VERIFY" /\ key.kind = "public" /\ digest = <<>>
    /\ oneShotMode => baos = <<>>

\* The object as SignatureObject describes it: one whose last key was
\* refused is not initialised.
O == INSTANCE SignatureObject WITH
       mode  <- IF settled THEN state ELSE "UNINITIALIZED",
       pair  <- IF settled THEN key.pair ELSE NoPair,
       given <- IF ~settled THEN Value(<<>>)
                ELSE IF ~oneShotMode THEN Value(baos)
                ELSE IF oneShotBytes = NoArray THEN Awaited
                ELSE Reference(oneShotBytes)

(***************************************************************************)
(* Used as documented, the engine implements SignatureObject: each         *)
(* signature is the genuine one for the key last accepted and the message  *)
(* given since, each verdict is about them too, and nothing is taken twice.*)
(* That holds from the first call on, and again from any consistent state, *)
(* whatever undocumented calls led there.                                  *)
(***************************************************************************)
Implements ==
  /\ Consistent /\ O!Init
  /\ [][ Consistent /\ DocumentedNext => Consistent' /\ [O!Next]_(O!vars) ]_vars
=============================================================================
