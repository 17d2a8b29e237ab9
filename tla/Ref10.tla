------------------------------- MODULE Ref10 -------------------------------
(***************************************************************************)
(* The C provider, Ed25519::Provider::Ref10: the Ruby extension            *)
(* ed25519_ref10.c and the three functions of keypair.c, sign.c and        *)
(* open.c that it calls.                                                   *)
(*                                                                         *)
(* One call runs at a time.  A call first coerces its arguments with       *)
(* StringValue, which may run Ruby code (an argument's to_str) that        *)
(* changes the contents of any of them; from the length checks on, the     *)
(* interpreter lock is held and the strings cannot change.  Heap buffers   *)
(* come from xmalloc with arbitrary contents and locals start with what    *)
(* the stack held.  Buffers and messages are whole Words (32 bytes): the   *)
(* code addresses nothing finer in them.                                   *)
(***************************************************************************)
EXTENDS Inputs, FiniteSets

CONSTANTS
  Garbage,    \* Words uninitialised memory may hold
  MaxFailures \* bound on failed allocations

ASSUME GarbageAssumption == Garbage \subseteq Word /\ Garbage # {}

VARIABLES
  log,      \* the completed calls, as in Provider
  pc,       \* what the current call does next; "idle" between calls
  op, args, \* the current call and what its argument strings hold now
  coerced,  \* how many arguments StringValue has been applied to
  loc,      \* the locals of the C functions
  sm,       \* sig_and_msg, the heap buffer of sign and verify
  m,        \* buffer, the second heap buffer of verify
  live,     \* heap buffers allocated and not freed
  failures  \* allocations that failed

vars == <<log, pc, op, args, coerced, loc, sm, m, live, failures>>

P == INSTANCE Provider

-----------------------------------------------------------------------------
(* The strings a caller can hold. *)

Returned(o) == {c.res.value : c \in {d \in log : d.op = o /\ d.res.status = "string"}}

Keypairs   == Returned("create_keypair")
PublicKeys == {<<k[2]>> : k \in Keypairs}
Signatures == Returned("sign")

-----------------------------------------------------------------------------
(* Memory. *)

\* memmove(dst + 32*at, src, the length of src)
Memmove(dst, at, src) ==
  [k \in DOMAIN dst |-> IF k - at \in DOMAIN src THEN src[k - at] ELSE dst[k]]

\* The contents of buf from buf + 32*at on.
From(buf, at) == SubSeq(buf, at + 1, Len(buf))

Zeros(n) == [k \in 1 .. n |-> 0]

Uninitialised(n) == {[k \in 1 .. n |-> g] : g \in Garbage}

Locals == [sk : Word, pk : Word, az : Word, prefix : Word, nonce : Word,
           hram : Word, A : Point, rcopy : Word, scopy : Word, rcheck : Word]

\* The fields of loc: sk is the first Word of the keypair buffer, az and
\* prefix the two halves of az, pk stands for pk, pkcopy and verify_key.
StackGarbage ==
  {[sk |-> g, pk |-> g, az |-> g, prefix |-> g, nonce |-> g, hram |-> g,
    A |-> g % (8 * L), rcopy |-> g, scopy |-> g, rcheck |-> g] : g \in Garbage}

-----------------------------------------------------------------------------

Init ==
  /\ log = {} /\ pc = "idle" /\ op = "create_keypair" /\ args = <<>>
  /\ coerced = 0
  /\ loc \in StackGarbage
  /\ sm = <<>> /\ m = <<>>
  /\ live = 0 /\ failures = 0

Call ==
  /\ pc = "idle" /\ Cardinality(log) < MaxCalls
  /\ \/ /\ op' = "create_keypair"
        /\ args' \in {<<s>> : s \in Seeds \cup Strays}
     \/ /\ op' = "sign"
        /\ args' \in {<<k, t>> : k \in Keypairs \cup Strays, t \in Messages}
     \/ /\ op' = "verify"
        /\ args' \in {<<k, s, t>> : k \in PublicKeys \cup Strays,
                                    s \in Signatures \cup Strays, t \in Messages}
  /\ pc' = "coerce" /\ coerced' = 0
  /\ UNCHANGED <<log, loc, sm, m, live, failures>>

\* The call returns or raises.
End(res) ==
  /\ log' = log \cup {P!Record(op, args, res)}
  /\ pc' = "idle"
  /\ UNCHANGED <<op, args, coerced>>

\* Mutant of StringValue: an argument is coerced again after the checks.
StringValueLate ==
  /\ \/ pc = "coerce" /\ coerced < Len(args) /\ coerced' = coerced + 1
     \/ pc = "sign_az" /\ UNCHANGED coerced
  /\ \/ args' = args
     \/ \E j \in DOMAIN args, s \in Strays : args' = [args EXCEPT ![j] = s]
  /\ UNCHANGED <<log, pc, op, loc, sm, m, live, failures>>

\* StringValue on the next argument: nothing if it is a String, otherwise
\* its to_str, which returns any string and may write to any argument.
StringValue ==
  /\ pc = "coerce" /\ coerced < Len(args)
  /\ coerced' = coerced + 1
  /\ \/ args' = args
     \/ \E j \in DOMAIN args, s \in Strays :
          args' = [args EXCEPT ![j] = s]
  /\ UNCHANGED <<log, pc, op, loc, sm, m, live, failures>>

\* The RSTRING_LEN checks, made once every argument is a String.
CheckLengths ==
  /\ pc = "coerce" /\ coerced = Len(args)
  /\ \/ /\ ~P!WellSized(op, args)
        /\ End(P!Raised("ArgumentError"))
     \/ /\ P!WellSized(op, args)
        /\ pc' = [create_keypair |-> "seed_hash", sign |-> "sign_alloc",
                  verify |-> "verify_alloc"][op]
        /\ UNCHANGED <<log, op, args, coerced>>
  /\ UNCHANGED <<loc, sm, m, live, failures>>

\* xmalloc, or rb_str_new, fails and raises out of the call; what the call
\* had allocated stays allocated.
OutOfMemory ==
  /\ pc \in {"seed_return", "sign_alloc", "sign_return", "verify_alloc",
             "verify_alloc2"}
  /\ failures < MaxFailures /\ failures' = failures + 1
  /\ End(P!Raised("NoMemoryError"))
  /\ UNCHANGED <<loc, sm, m, live>>

-----------------------------------------------------------------------------
(* create_keypair: crypto_sign_ed25519_ref10_seed_keypair. *)

SeedHash ==
  /\ pc = "seed_hash" /\ pc' = "seed_mult"
  /\ loc' = [loc EXCEPT !.sk = ClampKeypair(LowHalf(Sha512(args[1])))]
  /\ UNCHANGED <<log, op, args, coerced, sm, m, live, failures>>

SeedMult ==
  /\ pc = "seed_mult" /\ pc' = "seed_copy"
  /\ loc' = [loc EXCEPT !.pk = EncodePoint[ge_scalarmult_base(loc.sk)]]
  /\ UNCHANGED <<log, op, args, coerced, sm, m, live, failures>>

\* memmove(sk, seed, 32)
SeedCopy ==
  /\ pc = "seed_copy" /\ pc' = "seed_return"
  /\ loc' = [loc EXCEPT !.sk = args[1][1]]
  /\ UNCHANGED <<log, op, args, coerced, sm, m, live, failures>>

SeedReturn ==
  /\ pc = "seed_return"
  /\ End(P!String(<<loc.sk, loc.pk>>))
  /\ UNCHANGED <<loc, sm, m, live, failures>>

-----------------------------------------------------------------------------
(* sign: xmalloc, crypto_sign_ed25519_ref10, rb_str_new, xfree. *)

Xmalloc(buf, n) == buf' \in Uninitialised(n) /\ live' = live + 1

SignAlloc ==
  /\ pc = "sign_alloc" /\ pc' = "sign_az"
  /\ Xmalloc(sm, 2 + Len(args[2]))
  /\ UNCHANGED <<log, op, args, coerced, loc, m, failures>>

SignAz ==
  /\ pc = "sign_az" /\ pc' = "sign_nonce"
  /\ LET d == Sha512(<<args[1][1]>>)
     IN  loc' = [loc EXCEPT !.pk = args[1][2], !.az = ClampSign(LowHalf(d)),
                            !.prefix = HighHalf(d)]
  /\ UNCHANGED <<log, op, args, coerced, sm, m, live, failures>>

\* Mutant of SignNonce: the prefix is not copied to sm + 32.
SignNonceNoPrefix ==
  /\ pc = "sign_nonce" /\ pc' = "sign_R"
  /\ LET filled == Memmove(sm, 2, args[2])
     IN  /\ loc' = [loc EXCEPT !.nonce = sc_reduce(Sha512(From(filled, 1)))]
         /\ sm' = Memmove(filled, 1, <<loc.pk>>)
  /\ UNCHANGED <<log, op, args, coerced, m, live, failures>>

\* The message after 64 bytes, the prefix before it; then the nonce is the
\* hash of sm + 32, and pk takes the place of the prefix.
SignNonce ==
  /\ pc = "sign_nonce" /\ pc' = "sign_R"
  /\ LET filled == Memmove(Memmove(sm, 2, args[2]), 1, <<loc.prefix>>)
     IN  /\ loc' = [loc EXCEPT !.nonce = sc_reduce(Sha512(From(filled, 1)))]
         /\ sm' = Memmove(filled, 1, <<loc.pk>>)
  /\ UNCHANGED <<log, op, args, coerced, m, live, failures>>

SignR ==
  /\ pc = "sign_R" /\ pc' = "sign_hram"
  /\ sm' = Memmove(sm, 0, <<EncodePoint[ge_scalarmult_base(loc.nonce)]>>)
  /\ UNCHANGED <<log, op, args, coerced, loc, m, live, failures>>

SignHram ==
  /\ pc = "sign_hram" /\ pc' = "sign_S"
  /\ loc' = [loc EXCEPT !.hram = sc_reduce(Sha512(sm))]
  /\ UNCHANGED <<log, op, args, coerced, sm, m, live, failures>>

\* Mutant of SignS: the result is not reduced.
SignSUnreduced ==
  /\ pc = "sign_S" /\ pc' = "sign_return"
  /\ sm' = Memmove(sm, 1, <<loc.hram * loc.az + loc.nonce>>)
  /\ UNCHANGED <<log, op, args, coerced, loc, m, live, failures>>

SignS ==
  /\ pc = "sign_S" /\ pc' = "sign_return"
  /\ sm' = Memmove(sm, 1, <<sc_muladd(loc.hram, loc.az, loc.nonce)>>)
  /\ UNCHANGED <<log, op, args, coerced, loc, m, live, failures>>

SignReturn ==
  /\ pc = "sign_return"
  /\ End(P!String(<<sm[1], sm[2]>>))
  /\ live' = live - 1
  /\ UNCHANGED <<loc, sm, m, failures>>

-----------------------------------------------------------------------------
(* verify: two xmallocs, two memcpys, crypto_sign_open_ed25519_ref10, two  *)
(* xfrees.                                                                 *)

VerifyAlloc ==
  /\ pc = "verify_alloc" /\ pc' = "verify_alloc2"
  /\ Xmalloc(sm, 2 + Len(args[3]))
  /\ UNCHANGED <<log, op, args, coerced, loc, m, failures>>

VerifyAlloc2 ==
  /\ pc = "verify_alloc2" /\ pc' = "verify_copy"
  /\ Xmalloc(m, 2 + Len(args[3]))
  /\ UNCHANGED <<log, op, args, coerced, loc, sm, failures>>

VerifyCopy ==
  /\ pc = "verify_copy" /\ pc' = "open_check"
  /\ sm' = Memmove(Memmove(sm, 0, args[2]), 2, args[3])
  /\ UNCHANGED <<log, op, args, coerced, loc, m, live, failures>>

\* The three early exits to badsig; otherwise A is minus the public key.
OpenCheck ==
  /\ pc = "open_check"
  /\ LET A == DecodePoint[args[1][1]]
     IN  IF Len(sm) < 2 \/ 2 * sm[2] >= Top \/ A = NoPoint
         THEN pc' = "open_badsig" /\ UNCHANGED loc
         ELSE /\ pc' = "open_hash"
              /\ loc' = [loc EXCEPT !.A = Negate(A)]
  /\ UNCHANGED <<log, op, args, coerced, sm, m, live, failures>>

\* Mutant of OpenHash: pk is not spliced into m before hashing.
OpenHashUnspliced ==
  /\ pc = "open_hash" /\ pc' = "open_equation"
  /\ m' = Memmove(m, 0, sm)
  /\ loc' = [loc EXCEPT !.pk = args[1][1], !.rcopy = sm[1], !.scopy = sm[2],
                        !.hram = sc_reduce(Sha512(sm))]
  /\ UNCHANGED <<log, op, args, coerced, sm, live, failures>>

\* Copies of pk, R and S; the message with pk spliced in is hashed in m.
OpenHash ==
  /\ pc = "open_hash" /\ pc' = "open_equation"
  /\ LET spliced == Memmove(Memmove(m, 0, sm), 1, args[1])
     IN  /\ m' = spliced
         /\ loc' = [loc EXCEPT !.pk = args[1][1], !.rcopy = sm[1],
                               !.scopy = sm[2],
                               !.hram = sc_reduce(Sha512(spliced))]
  /\ UNCHANGED <<log, op, args, coerced, sm, live, failures>>

OpenEquation ==
  /\ pc = "open_equation" /\ pc' = "open_compare"
  /\ loc' = [loc EXCEPT !.rcheck =
       EncodePoint[ge_double_scalarmult_vartime(loc.hram, loc.A, loc.scopy)]]
  /\ UNCHANGED <<log, op, args, coerced, sm, m, live, failures>>

\* On success m is shifted down over the signature and its tail cleared.
OpenCompare ==
  /\ pc = "open_compare"
  /\ IF loc.rcheck = loc.rcopy
     THEN /\ pc' = "open_good"
          /\ m' = Memmove(Memmove(m, 0, From(m, 2)), Len(sm) - 2, Zeros(2))
     ELSE pc' = "open_badsig" /\ UNCHANGED m
  /\ UNCHANGED <<log, op, args, coerced, loc, sm, live, failures>>

\* Mutant of OpenBadsig: badsig does not clear the output buffer.
OpenBadsigUncleared ==
  /\ pc = "open_badsig" /\ pc' = "open_bad"
  /\ UNCHANGED <<log, op, args, coerced, loc, sm, m, live, failures>>

OpenBadsig ==
  /\ pc = "open_badsig" /\ pc' = "open_bad"
  /\ m' = Memmove(m, 0, Zeros(Len(sm)))
  /\ UNCHANGED <<log, op, args, coerced, loc, sm, live, failures>>

\* Mutant of VerifyReturn: a rejected signature returns before the xfrees.
VerifyReturnEarly ==
  /\ pc \in {"open_good", "open_bad"}
  /\ End(P!Truth(pc = "open_good"))
  /\ live' = IF pc = "open_good" THEN live - 2 ELSE live
  /\ UNCHANGED <<loc, sm, m, failures>>

VerifyReturn ==
  /\ pc \in {"open_good", "open_bad"}
  /\ End(P!Truth(pc = "open_good"))
  /\ live' = live - 2
  /\ UNCHANGED <<loc, sm, m, failures>>

-----------------------------------------------------------------------------

Next ==
  \/ Call \/ StringValue \/ CheckLengths \/ OutOfMemory
  \/ SeedHash \/ SeedMult \/ SeedCopy \/ SeedReturn
  \/ SignAlloc \/ SignAz \/ SignNonce \/ SignR \/ SignHram \/ SignS
  \/ SignReturn
  \/ VerifyAlloc \/ VerifyAlloc2 \/ VerifyCopy \/ OpenCheck \/ OpenHash
  \/ OpenEquation \/ OpenCompare \/ OpenBadsig \/ VerifyReturn

Spec == Init /\ [][Next]_vars
-----------------------------------------------------------------------------

CreatePcs == {"seed_hash", "seed_mult", "seed_copy", "seed_return"}
SignPcs   == {"sign_az", "sign_nonce", "sign_R", "sign_hram", "sign_S", "sign_return"}
OpenPcs   == {"verify_copy", "open_check", "open_hash", "open_equation",
              "open_compare", "open_badsig", "open_good", "open_bad"}

Pcs == {"idle", "coerce", "sign_alloc", "verify_alloc", "verify_alloc2"}
         \cup CreatePcs \cup SignPcs \cup OpenPcs

\* The types of the variables.
TypeOK ==
  /\ pc \in Pcs
  /\ op \in P!Operations
  /\ args \in Seq(Seq(Word))
  /\ coerced \in Nat
  /\ loc \in Locals
  /\ sm \in Seq(Word) /\ m \in Seq(Word)
  /\ live \in Int /\ failures \in Nat

(***************************************************************************)
(* Memory safety of the copies: whenever the C functions run, the strings  *)
(* they read still have the lengths that were checked (no to_str ran in    *)
(* between) and the heap buffers have room for what is copied into them.   *)
(***************************************************************************)
InBounds ==
  /\ pc \in CreatePcs => op = "create_keypair" /\ Len(args[1]) = 1
  /\ pc \in SignPcs =>
       op = "sign" /\ Len(args[1]) = 2 /\ Len(sm) = 2 + Len(args[2])
  /\ pc \in OpenPcs =>
       /\ op = "verify" /\ Len(args[1]) = 1 /\ Len(args[2]) = 2
       /\ Len(sm) = 2 + Len(args[3]) /\ Len(m) = Len(sm)

(***************************************************************************)
(* Every buffer is freed on every way out of a call, except that a failed  *)
(* allocation abandons at most the one buffer allocated before it.         *)
(***************************************************************************)
NoLeak == pc = "idle" => live \in 0 .. failures

(***************************************************************************)
(* The preconditions of the scalar multiplications (ge.c: a[31] <= 127,    *)
(* and the range slide can recode) hold at every use.                      *)
(***************************************************************************)
ScalarsInRange ==
  /\ pc = "seed_mult" => loc.sk < 2 * Top
  /\ pc = "sign_R" => loc.nonce < 2 * Top
  /\ pc = "open_equation" => 2 * loc.hram < Top /\ 2 * loc.scopy < Top

(***************************************************************************)
(* What crypto_sign_open leaves in its output buffer: the message and 64   *)
(* zero bytes if the signature is good, nothing of the message otherwise.  *)
(***************************************************************************)
OpenContract ==
  /\ pc = "open_good" => m = args[3] \o Zeros(2)
  /\ pc = "open_bad" => m = Zeros(2 + Len(args[3]))

-----------------------------------------------------------------------------
(* The inductive invariant. *)

Logged == \A c \in log : P!Answered(c)

\* The current call has its number of arguments, and past the checks they
\* have their lengths and pc belongs to the operation.
Called ==
  /\ pc # "idle" => Len(args) = P!Arity[op]
  /\ pc \notin {"idle", "coerce"} => P!WellSized(op, args)
  /\ pc \in CreatePcs => op = "create_keypair"
  /\ pc \in SignPcs \cup {"sign_alloc"} => op = "sign"
  /\ pc \in OpenPcs \cup {"verify_alloc", "verify_alloc2"} => op = "verify"

Buffers ==
  /\ pc \in SignPcs => Len(sm) = 2 + Len(args[2])
  /\ pc \in OpenPcs \cup {"verify_alloc2"} => Len(sm) = 2 + Len(args[3])
  /\ pc \in OpenPcs => Len(m) = 2 + Len(args[3])

\* The buffers the current call has allocated and not yet freed.
Held == IF pc \in OpenPcs THEN 2
        ELSE IF pc \in SignPcs \cup {"verify_alloc2"} THEN 1 ELSE 0

Accounted == live \in Held .. Held + failures

\* buf holds message t after 64 bytes.
Copied(buf, t) == \A k \in 1 .. Len(t) : buf[k + 2] = t[k]

\* How much of the keypair, of the signature and of the verification the
\* locals and buffers hold at each pc.
CreateProgress ==
  LET seed == args[1][1]
  IN  /\ pc = "seed_mult" => loc.sk = ClampKeypair(LowHalf(Sha512(<<seed>>)))
      /\ pc = "seed_copy" => loc.pk = Keypair(seed)[2]
      /\ pc = "seed_return" => loc.sk = seed /\ loc.pk = Keypair(seed)[2]

SignProgress ==
  LET key == args[1]
      t   == args[2]
      r   == Nonce(key[1], t)
      h   == Challenge(Commitment(r), key[2], t)
  IN  /\ pc \in SignPcs \ {"sign_az"} =>
           loc.pk = key[2] /\ loc.az = SecretScalar(key[1])
      /\ pc = "sign_nonce" => loc.prefix = HighHalf(Sha512(<<key[1]>>))
      /\ pc \in {"sign_R", "sign_hram", "sign_S"} =>
           loc.nonce = r /\ sm[2] = key[2] /\ Copied(sm, t)
      /\ pc \in {"sign_hram", "sign_S", "sign_return"} => sm[1] = Commitment(r)
      /\ pc = "sign_S" => loc.hram = h
      /\ pc = "sign_return" => sm[2] = sc_muladd(h, SecretScalar(key[1]), r)

OpenProgress ==
  LET pk  == args[1][1]
      sig == args[2]
      t   == args[3]
  IN  /\ pc \in OpenPcs \ {"verify_copy"} =>
           sm[1] = sig[1] /\ sm[2] = sig[2] /\ Copied(sm, t)
      /\ pc \in {"open_hash", "open_equation", "open_compare"} =>
           2 * sig[2] < Top /\ DecodePoint[pk] # NoPoint
      /\ pc \in {"open_hash", "open_equation"} => loc.A = Negate(DecodePoint[pk])
      /\ pc \in {"open_equation", "open_compare"} =>
           loc.rcopy = sig[1] /\ Copied(m, t)
      /\ pc = "open_equation" =>
           loc.scopy = sig[2] /\ loc.hram = Challenge(sig[1], pk, t)
      /\ pc = "open_compare" => loc.rcheck = Recomputed(pk, sig, t)
      /\ pc = "open_good" => Accepts(pk, sig, t)
      /\ pc \in {"open_badsig", "open_bad"} => ~Accepts(pk, sig, t)

IInv == /\ TypeOK /\ Logged /\ Called /\ Buffers /\ Accounted
        /\ CreateProgress /\ SignProgress /\ OpenProgress

-----------------------------------------------------------------------------

\* Ref10 implements Provider.
Provides == P!Spec

\* Provider's two properties, here of the C code.
RoundTrip == P!RoundTrip
Deterministic == P!Deterministic
=============================================================================
