--------------------------- MODULE ProviderCalls ---------------------------
(***************************************************************************)
(* The three operations of an Ed25519 provider: what they take, how they   *)
(* end, and the result the scheme prescribes.                              *)
(***************************************************************************)
EXTENDS EdDSA

\* The number of strings each operation takes.
Arity == [create_keypair |-> 1, sign |-> 2, verify |-> 3]

Operations == DOMAIN Arity

\* The seed, the keypair, the verify key and the signature have a fixed
\* length; a message may have any.
WellSized(op, args) ==
  /\ op = "create_keypair" => Len(args[1]) = 1
  /\ op = "sign" => Len(args[1]) = 2
  /\ op = "verify" => Len(args[1]) = 1 /\ Len(args[2]) = 2

\* How a call ends: it raises, returns a String, or returns true or false.
Raised(e) == [status |-> e, value |-> <<>>]
String(s) == [status |-> "string", value |-> s]
Truth(b)  == [status |-> IF b THEN "true" ELSE "false", value |-> <<>>]

\* res is what the scheme prescribes for the call.
Prescribed(op, args, res) ==
  IF ~WellSized(op, args) THEN res = Raised("ArgumentError")
  ELSE /\ op = "create_keypair" => res = String(Keypair(args[1][1]))
       /\ op = "sign" => res = String(Signature(args[1], args[2]))
       /\ op = "verify" => res = Truth(Accepts(args[1][1], args[2], args[3]))

Record(op, args, res) == [op |-> op, args |-> args, res |-> res]

\* call was made with one string per parameter, and res answers it; a
\* well-sized call may run out of memory instead.
Answered(call) ==
  /\ call.op \in Operations
  /\ call.args \in Seq(Seq(Word)) /\ Len(call.args) = Arity[call.op]
  /\ \/ Prescribed(call.op, call.args, call.res)
     \/ WellSized(call.op, call.args) /\ call.res = Raised("NoMemoryError")

\* c made the keypair that s signed with, and v checks that signature with
\* that key on the same message.
Chain(c, s, v) ==
  /\ c.op = "create_keypair" /\ c.res.status = "string"
  /\ s.op = "sign" /\ s.res.status = "string" /\ s.args[1] = c.res.value
  /\ v.op = "verify"
  /\ v.args = <<<<c.res.value[2]>>, s.res.value, s.args[2]>>
=============================================================================
