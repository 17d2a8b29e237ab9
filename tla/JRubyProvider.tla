--------------------------- MODULE JRubyProvider ---------------------------
(***************************************************************************)
(* The Java provider, Ed25519::Provider::JRuby: Ed25519Provider.java and   *)
(* the key specifications it builds.                                       *)
(*                                                                         *)
(* Calls are made one at a time here, but JRuby has no interpreter lock:   *)
(* while a call runs, other threads and the to_str of its arguments may    *)
(* write to any of its strings.  Each argument is converted and its bytes  *)
(* copied when the code gets to it, the message only after the key has     *)
(* been derived.  The EdDSAEngine each call makes is used as its comment   *)
(* documents, so its answers are those of SignatureObject.                 *)
(***************************************************************************)
EXTENDS JavaAnswers, Inputs, FiniteSets

VARIABLES
  calls,   \* the completed calls, as in Provider
  step,    \* what the current call does next; "idle" between calls
  call,    \* the current call
  given,   \* the bytes copied from the arguments converted so far, and what
           \* the other arguments hold now
  copied,  \* how many arguments have been converted
  key      \* the key specification: seed hash and point

javaVars == <<calls, step, call, given, copied, key>>

Common == INSTANCE Provider WITH log <- {c \in calls : Interchangeable(c)}

NoKey == [a |-> 0, prefix |-> 0, A |-> 0]

-----------------------------------------------------------------------------

Results(o) == {c.res.value : c \in {d \in calls : d.op = o /\ d.res.status = "string"}}

OwnKeypairs   == Results("create_keypair")
OwnPublicKeys == {<<k[2]>> : k \in OwnKeypairs}
OwnSignatures == Results("sign")

JavaInit ==
  /\ calls = {} /\ step = "idle" /\ call = "create_keypair" /\ given = <<>>
  /\ copied = 0 /\ key = NoKey

JavaCall ==
  /\ step = "idle" /\ Cardinality(calls) < MaxCalls
  /\ \/ /\ call' = "create_keypair"
        /\ given' \in {<<s>> : s \in Seeds \cup Strays}
     \/ /\ call' = "sign"
        /\ given' \in {<<k, t>> : k \in OwnKeypairs \cup Strays, t \in Messages}
     \/ /\ call' = "verify"
        /\ given' \in {<<k, s, t>> : k \in OwnPublicKeys \cup Strays,
                                     s \in OwnSignatures \cup Strays, t \in Messages}
  /\ step' = "convert" /\ copied' = 0 /\ key' = NoKey
  /\ UNCHANGED calls

\* The call returns or throws.
JavaEnd(res) ==
  /\ calls' = calls \cup {Record(call, given, res)}
  /\ step' = "idle"
  /\ UNCHANGED <<call, given, copied, key>>

\* Mutant of WriteArgument: the bytes are used where the string keeps them.
WriteShared ==
  /\ step # "idle"
  /\ \E j \in DOMAIN given, s \in Strays :
       given' = [given EXCEPT ![j] = s]
  /\ UNCHANGED <<calls, step, call, copied, key>>

\* Someone writes to an argument; what has been copied is out of reach.
WriteArgument ==
  /\ step # "idle"
  /\ \E j \in (copied + 1) .. Len(given), s \in Strays :
       given' = [given EXCEPT ![j] = s]
  /\ UNCHANGED <<calls, step, call, copied, key>>

\* The arguments converted before the length checks.
Measured == [create_keypair |-> 1, sign |-> 1, verify |-> 2]

\* convertToString().getByteList().bytes() on the next argument
Convert ==
  /\ step = "convert"
  /\ copied' = copied + 1
  /\ step' = IF copied' < Measured[call] THEN "convert"
             ELSE IF copied' = Measured[call] THEN "check" ELSE "finish"
  /\ UNCHANGED <<calls, call, given, key>>

\* The length checks.
Check ==
  /\ step = "check"
  /\ \/ /\ ~WellSized(call, given)
        /\ JavaEnd(Raised("ArgumentError"))
     \/ /\ WellSized(call, given)
        /\ step' = "key"
        /\ UNCHANGED <<calls, call, given, copied, key>>

\* create_keypair and sign: new EdDSAPrivateKeySpec, from the first half only.
DeriveKey ==
  /\ step = "key" /\ call # "verify"
  /\ key' = PrivateKeySpec(given[1][1])
  /\ step' = IF call = "sign" THEN "convert" ELSE "finish"
  /\ UNCHANGED <<calls, call, given, copied>>

\* verify: new EdDSAPublicKeySpec throws when the key does not decode.
DecodeKey ==
  /\ step = "key" /\ call = "verify"
  /\ \/ /\ DecodePoint[given[1][1]] = NoPoint
        /\ JavaEnd(Raised("IllegalArgumentException"))
     \/ /\ DecodePoint[given[1][1]] # NoPoint
        /\ key' = PublicKeySpec(given[1][1]) /\ step' = "convert"
        /\ UNCHANGED <<calls, call, given, copied>>

\* signingKey.getA(), encoded, after the seed
FinishKeypair ==
  /\ step = "finish" /\ call = "create_keypair"
  /\ JavaEnd(String(<<given[1][1], EncodePoint[key.A]>>))

\* Mutant of FinishSign: the second half of the keypair is hashed.
FinishSignPaired ==
  /\ step = "finish" /\ call = "sign"
  /\ LET r == sc_reduce(Sha512(<<key.prefix>> \o given[2]))
     IN  JavaEnd(String(Respond(key.a, r, given[1][2], given[2])))

\* The engine's sign.
FinishSign ==
  /\ step = "finish" /\ call = "sign"
  /\ LET r == sc_reduce(Sha512(<<key.prefix>> \o given[2]))
     IN  JavaEnd(String(Respond(key.a, r, EncodePoint[key.A], given[2])))

FinishVerify ==
  /\ step = "finish" /\ call = "verify"
  /\ JavaEnd(Truth(Verified(key.A, given[2], given[3])))

JavaNext ==
  \/ JavaCall \/ WriteArgument \/ Convert \/ Check \/ DeriveKey \/ DecodeKey
  \/ FinishKeypair \/ FinishSign \/ FinishVerify

JavaSpec == JavaInit /\ [][JavaNext]_javaVars

-----------------------------------------------------------------------------

\* The types of the variables.
JavaTypeOK ==
  /\ step \in {"idle", "convert", "check", "key", "finish"}
  /\ call \in Operations
  /\ given \in Seq(Seq(Word))
  /\ copied \in Nat
  /\ key \in [a : Word, prefix : Word, A : Point]

-----------------------------------------------------------------------------

(***************************************************************************)
(* The calls with standard keypairs, keys and signatures, and those with   *)
(* strings of the wrong length, are answered as Provider prescribes for    *)
(* the bytes copied, whatever is written to the strings meanwhile: for     *)
(* them the JRuby provider can stand in for the C one.                     *)
(***************************************************************************)
StandsIn == Common!Spec

(***************************************************************************)
(* A signature made with a keypair of create_keypair verifies under its    *)
(* public half on the same message.                                        *)
(***************************************************************************)
JavaRoundTrip ==
  \A c, s, v \in calls : Chain(c, s, v) => v.res.status = "true"

(***************************************************************************)
(* Beyond the standard calls: the second half of the keypair has no say in *)
(* a signature, which is the one of the seed's own keypair; and the        *)
(* encodings of one key all answer alike.  (A key that does not decode has *)
(* no answer at all: DocumentedVerify of RubyApi.)                         *)
(***************************************************************************)
Elsewhere ==
  \A c \in calls : WellSized(c.op, c.args) =>
    /\ c.op = "sign" =>
         c.res = String(Signature(Keypair(c.args[1][1]), c.args[2]))
    /\ c.op = "verify" =>
         \A d \in calls :
           /\ d.op = "verify" /\ WellSized(d.op, d.args)
           /\ d.args[2] = c.args[2] /\ d.args[3] = c.args[3]
           /\ DecodePoint[d.args[1][1]] = DecodePoint[c.args[1][1]]
           => d.res = c.res

-----------------------------------------------------------------------------
(* The inductive invariant. *)

JavaLogged ==
  \A c \in calls :
    /\ c.op \in Operations
    /\ c.args \in Seq(Seq(Word)) /\ Len(c.args) = Arity[c.op]
    /\ c.res = Outcome(c.op, c.args)

\* The key specification has been built.
Specified == step = "finish" \/ (step = "convert" /\ copied = Measured[call])

\* How far the current call is, and what it then knows of the bytes copied.
JavaCalled ==
  step # "idle" =>
    /\ Len(given) = Arity[call]
    /\ step = "convert" => copied <= Measured[call] /\ copied < Len(given)
    /\ step \in {"check", "key"} => copied = Measured[call]
    /\ step = "finish" => copied = Len(given)
    /\ step = "key" \/ Specified => WellSized(call, given)
    /\ Specified /\ call # "verify" => key = PrivateKeySpec(given[1][1])
    /\ Specified /\ call = "verify" =>
         key.A = DecodePoint[given[1][1]] /\ key.A # NoPoint

JavaIInv == JavaTypeOK /\ JavaLogged /\ JavaCalled
=============================================================================
