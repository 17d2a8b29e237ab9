# A verification project for ed25519.gem

TLA+ models of RubyCrypto/ed25519: the C implementation behind the MRI
extension (`ext/ed25519_ref10`), the Java one behind the JRuby extension
(`ext/ed25519_jruby`) and what they promise the Ruby classes in `lib/`.
Modules are checked with TLC on small instances, and the results that matter
most are proved with TLAPS for every value of the constants.

## 1. The system

The gem has one Ruby API over two interchangeable *providers*.

    SigningKey / VerifyKey  (lib/)           Ruby objects holding key strings
             |  Ed25519.provider             a global, chosen at load
             v
    Provider: create_keypair(seed), sign(keypair, msg), verify(key, sig, msg)
       |                                  |
    C provider (MRI)                    JRuby provider (Ed25519Provider.java)
    ed25519_ref10.c                     EdDSAEngine (java.security.Signature)
    keypair.c sign.c open.c             keys, specs, PKCS#8 and X.509 codecs
    ge.c (points)                       GroupElement (points)
    fe.c sc_*.c (field, scalars)        Ed25519FieldElement, Ed25519ScalarOps
    sha512.c                            MessageDigest

Nearly everything is sequential: a call of the API is a chain of nested calls,
with no message or timer. What makes the code hard is elsewhere: callbacks into
Ruby while arguments are coerced, buffers overwritten in a fixed order, failure
half-way, objects whose legal calls can be made in any order, strings that
several objects share and anyone may write to, and arithmetic whose carries
have to fit. Threads meet in two places: the tables of a Java `GroupElement`,
built on demand under its monitor and read without it, and the strings given to
the JRuby provider, which runs without an interpreter lock.

| Component | State | Operations | What makes it correct |
|---|---|---|---|
| C provider (`ed25519_ref10.c`, `keypair.c`, `sign.c`, `open.c`) | none between calls; during one: the argument strings, two heap buffers, stack arrays, all uninitialised at first | `create_keypair`, `sign`, `verify` | each buffer addressed has the length relied on; each hash absorbs the bytes the scheme prescribes; nothing depends on garbage; no buffer is leaked; nothing of a refused message stays in the output |
| C points (`ge.c`, `ge_*.h`) | static tables | recode a scalar, multiply, add, encode, decode | the digits of a scalar sum to it; the ladders compute aB and aA + bB; formulas are complete on the curve |
| C field and scalars (`fe.c`, `sc_*.c`, `pow*.h`, `verify.c`) | none | `fe_*`, `sc_reduce`, `sc_muladd`, compare | no limb overflows for inputs within the stated bounds; results are the right residues, and the encodings unique |
| SHA-512 (`sha512.c`) | none between calls | one-shot hash | padding and block order |
| Ruby API (`lib/`) | `SigningKey@seed,@keypair,@verify_key`, `VerifyKey@key_bytes`, the global provider | `new`, `generate`, `from_keypair`, `sign`, `verify`, `to_bytes` | lengths are checked, a key keeps its bytes, a failed verification raises |
| JRuby provider (`Ed25519Provider.java`) | none between calls | the three provider operations | answers as the C provider does |
| Java engine (`EdDSAEngine.java`) | digest, buffer, key, one-shot mode and array; the `Signature` object around it keeps UNINITIALIZED / SIGN / VERIFY | `initSign`, `initVerify`, `update`, `sign`, `verify`, `setParameter`, `signOneShot`, `verifyOneShot` | whatever the order and however calls fail, a signature is of exactly the bytes given, with the nonce prefix hashed first, and the object is ready again |
| Java keys and codecs | a key's fields, final, but their arrays are shared with whoever gave or got them | PKCS#8 / X.509 encode and decode, equality, to a specification and back | decoding inverts encoding, and refuses the rest |
| Java group (`GroupElement`, `Curve`) | a point, its representation, tables built on demand under a lock | convert, add, double, precompute, multiply, `slide`, `toRadix16` | as for C; a table is seen complete or not at all |
| Java field and scalars | limbs or bytes, never assigned after construction | as C, plus a BigInteger version | as for C |

`PROJECT.json` lists under "hazards" what is hard to test, each at its line.

## 2. The modules

| Module | Models | Kind |
|---|---|---|
| `EdDSA` | the primitives as arithmetic, and the answers of the scheme | operators |
| `EdDSA_proofs` | lemmas about them and `SignatureVerifies`; lemmas that the answers of `JavaAnswers` are those of the scheme | proofs |
| `ProviderCalls` | the three operations and the answer prescribed for each | operators |
| `Provider` | what a provider promises: the record of completed calls | abstract specification |
| `Inputs` | the strings callers give to a provider | constants |
| `Ref10` | the C provider, statement group by statement group | detailed specification, implements `Provider` |
| `Ref10_proofs` | its inductive invariant, safety and refinement; what any `Provider` satisfies | proofs |
| `JavaAnswers` | what the Java code computes from the bytes it is given | operators |
| `JRubyProvider` | `Ed25519Provider.java`, argument by argument, among other threads | detailed specification, implements `Provider` where the two agree |
| `JRubyProvider_proofs` | its invariant, round trip and refinement | proofs |
| `RubyStrings` | Ruby's strings: bytes, encoding, length, equality | operators |
| `RubyApi` | `SigningKey`, `VerifyKey`, their strings, the provider switch | state machine over both providers |
| `RubyApi_proofs` | its invariant and properties | proofs |
| `Signing` | keys, hashes and signatures as symbols | operators |
| `SignatureObject` | the documented signature object | abstract specification |
| `EdDSAEngine` | `EdDSAEngine.java` inside `java.security.Signature` | detailed specification, implements `SignatureObject` |
| `EdDSAEngine_proofs` | its invariants and the refinement | proofs |
| `Recoding` | scalars, positions, digits, and the numbers that digits stand for | operators |
| `Ladders` | `ge_scalarmult_base`, with its recoding and branch-free table lookup, and `slide` and `ge_double_scalarmult_vartime` | state machine |
| `Ladders_proofs` | its inductive invariant: recodings and multiplications are right | proofs |
| `Chains` | `fe_invert`, `fe_pow22523` and their Java twins | state machine |
| `PointFormulas` | the formulas of `ge_*.h` and `GroupElement`, as lists of field operations | operators |
| `PointOps` | those lists executed, decoding and encoding of points | state machine |
| `FieldLimbs` | `fe.c`, `Ed25519FieldElement`, `Ed25519LittleEndianEncoding`, carry by carry, with scaled limbs | state machine |
| `Words` | `int32_t` and `int64_t` | operators |
| `FieldElement` | the ten limbs of a field element with their true widths, and their carry | operators |
| `FieldWidths` | `fe_mul`, `fe_sq`, `fe_sq2` with their true widths | state machine, for proofs |
| `FieldBytes` | `fe_tobytes`, `fe_frombytes`, `fe_isnegative` with their true widths | state machine, for proofs |
| `ScalarWidths` | `sc_reduce`, `sc_muladd` with their true widths | state machine, for proofs |
| `JavaScalarWidths` | `reduce`, `multiplyAndAdd` of `Ed25519ScalarOps` with their true widths, beside the C functions | state machine, for proofs |
| `Widths_proofs` | of the four: no overflow; the comments of `fe.c` and the product; canonical encodings and what decoding keeps; the residue modulo L and that it is reduced | proofs |
| `ScalarLimbs` | `sc_reduce`, `sc_muladd`, `Ed25519ScalarOps`, fold by fold | state machine |
| `Sha512` | `crypto_hash_sha512`: blocks, padding, message schedule | state machine |
| `KeyCodec` | X.509 and PKCS#8 of the Java keys, and their equality | state machine |
| `Precompute` | the tables of a `GroupElement`, its monitor and threads | state machine with fairness |
| `Layouts_proofs` | how data is laid out: the invariant and safety of `Precompute`; that keys decode as documented and migrate; that the padded message is hashed | proofs |
| `MCProviders` | `Ref10`, `JRubyProvider` and `RubyApi` | instance |
| `MCEdDSAEngine` | `EdDSAEngine` | instance |
| `MCGroup` | `Ladders` and `PointOps` | instance |
| `MCArithmetic` | `MCGroup`, and `FieldLimbs`, `ScalarLimbs`, `Chains` | instance |
| `MCPrecompute` | `Precompute` | instance |
| `MCLayouts` | `MCPrecompute`, and `KeyCodec`, `Sha512` | instance |

An instance of several machines starts one of them: the initial state picks it,
and the others stand still. So one run asks one kind of question of machines
that live in the same numbers, and no interleaving of unrelated steps is added.

### EdDSA

A *Word* is the number a 32-byte little-endian string denotes; strings are
sequences of Words. Clamping, reduction and encoding act on a Word as numbers,
so `sk[0] &= 248; sk[31] &= 127; sk[31] |= 64` is arithmetic with `Top`, which
stands for 2^254. The curve group is cyclic of order 8L, and a point is its
logarithm to a generator G with B = 8G. SHA-512 is an arbitrary function `H`
and the encoding of points an arbitrary injection with a decoding that inverts
it, so that non-canonical encodings and strings that decode to nothing exist.

### Ref10

A call starts with arguments, each a String or an object whose `to_str` gives
one, and runs to its end in the steps of the C code: `StringValue` (where a
callback may change strings coerced earlier), `CheckLengths`, the allocations,
then one action per phase of `crypto_sign_ed25519_ref10_seed_keypair`,
`crypto_sign_ed25519_ref10` or `crypto_sign_open_ed25519_ref10`. `loc` holds
the stack variables, `sm` and `m` the heap buffers; both start with garbage
picked from `Garbage`. `Memmove` writes Words into a buffer at an offset, in
the order the code does. A call ends by returning or raising, in `End`, which
logs it; `Provides == P!Spec` says that the log is that of a provider.

### JavaAnswers, JRubyProvider

`Outcome` is what a call ends with, given bytes: the key specifications derive
everything from the seed (so the second half of a keypair has no say), a verify
key is decoded and hashed again in its one encoding, and S is taken whole, with
`Slide` for the digits `slide` finds of it. A call of `JRubyProvider` takes its
arguments in the order of `Ed25519Provider.java`: `Convert` copies the next
one, `Check` looks at lengths, `DeriveKey` or `DecodeKey` builds the key
specification, and only then is the message, or the signature's message,
converted. `WriteArgument` is anyone writing to what has not been copied. The
`EdDSAEngine` is used in the one order its comment documents, so its answers
are those `SignatureObject` gives. `Interchangeable` names the calls on which
the two providers agree; `Common == INSTANCE Provider WITH log <- {c \in calls :
Interchangeable(c)}` and `StandsIn == Common!Spec`. `MCProviders` extends this module,
`Ref10` and `RubyApi` at once, so what would have one name in all three has a
prefix in two (`JavaInit`, `RubyInit`), and the variables `log`, `pc`, `op`,
`args` of `Ref10` are `calls`, `step`, `call`, `given` here.

### RubyApi

Strings are objects: `strings` is the heap, a string has words and an encoding,
and keys hold positions in it. `SigningKey.new` keeps the caller's own seed
string and `VerifyKey.new` its argument; the accessors hand out the strings
kept. `Write` is anyone changing a string, or its encoding, between two calls;
`SetProvider` is `Ed25519.provider =`. `Length` counts characters, `Bytesize`
bytes; `from_keypair` slices by characters and compares with `==`, which
depends on the encoding. Each call is one action; what can happen inside its
provider call is in `Ref10` and `JRubyProvider`. `out` is how the last call
ended; `born`, `signatures` and `written` are history.

### EdDSAEngine

`digest` is the sequence absorbed by the MessageDigest: empty
after `digest.digest()` or `reset`; `baos`, `oneShotMode`, `oneShotBytes`, `key`
are the fields. `state` is the one `java.security.Signature` keeps around the
engine, assigned after a successful `engineInit*` only, and checked before
`update`, `sign` and `verify`. An array of the caller (`arrays`) may be written
at any time, because in one-shot mode the engine keeps a reference. Every exit
of every method, the exceptions included, is an action or a disjunct.

### Recoding, Ladders

The loops of `ge.c` with a digit as a number and a point as the pair of its
multiples of A and B: what the loops compute in the free group they compute in
every one. A recoding runs a digit, a bit or a carry at a time. That of
`ge_scalarmult_base` is `SplitNibbles`, then a `CarryDigit` per digit and
`LastDigit`; `Odd`, `Double` and `Even` are its loops over the digits. `slide`
is `SplitBits`; then for each bit `SkipZero` or `OpenWindow`; in the window,
for each of the next six bits, `PassBit`, `AddBit`, or `SubtractBit` with the
carry it starts, which `RippleOn` takes up bit by bit until `RippleEnd`; and
`CloseWindow`. `equal` and `negative`, which find a table entry without a
branch, keep the unsigned conversions they depend on. `GroupElement.java` has
the same recodings and loops. `MCGroup` extends `Ladders` and instantiates
`PointOps` beside it.

### Chains

Variables hold exponents of the argument `z` instead of field elements, each
the true one (up to 2^255 - 21): a number is the set of its bits that are one,
so that TLC's 32-bit integers suffice. The C chains are lists of
lines, each a run of squarings or a product, and may write where they read
(`ge.c` calls `fe_pow22523(h->X,h->X)`); the Java ones allocate.

### PointFormulas, PointOps

A formula is the list of the field operations it calls, in order, with the
variables each reads and writes. `PointOps` executes a list one operation at a
time over a field of `Prime` elements, and keeps beside each value the bound on
its limbs that follows from the comments of `fe.c` (`fe_mul` leaves 1.01*2^25,
`fe_add` adds bounds, ...). `Candidate`, `Test`, `TestAgain`, `Sign` are the
phases of decoding: the candidate root, the two comparisons, the choice of sign.

### FieldLimbs, ScalarLimbs

Limbs of a scaled width, in the code's alternation for `fe` and all equal for
`sc`, with the modulus scaled to match. Products and folds are operators that
give the coefficients; every carry is an action, because each must keep the
residue and the last ones decide whether limbs are small enough. The lists
`Interleaved`, `OddThenEven`, `Ascending`, `Rounds`, `Floors` are the orders in
which the code takes them. `crypto_verify_32` keeps the unsigned borrow.

### FieldElement, FieldWidths, FieldBytes, ScalarWidths, JavaScalarWidths

The same products and the same twelve carries as in `FieldLimbs`, but with ten
limbs of 26 and 25 bits, operands up to the 1.65*2^26 and 1.65*2^25 that the
preconditions allow, and 64-bit sums. `Product(x, y, i, k)` is limb i of one
operand times the limb of the other that meets it in `h`k, doubled when both
are odd and multiplied by 19 when they meet beyond 2^255; `Multiplied` and
`Squared` are the columns of `fe_mul` and of `fe_sq`. `Commented` is the table
of all bounds written beside the carries. No run uses this module: TLC's
integers have 32 bits. `FieldLimbs` is its twin for TLC.

`FieldBytes` has the conversions between limbs and strings, one step for each
line that moves a limb: `Estimate` is a line of the estimate of `q`, `Subtract`
the line `h0 += 19 * q`, `FloorDigit` a line `carry0 = h0 >> 26; ...`, `Pack`
the thirty-two assignments to `s`, `RoundDigit` a carry of `fe_frombytes`. A
call starts from any limbs the precondition allows (1.1*2^26, 1.1*2^25, of
either sign) or any string, with anything in `q` and in `s`. `Chunks` is what
is assigned to each byte before it is cut to eight bits, with `+` for the `|` of
limbs whose bits do not overlap, which `DigitsApart` says. `fe_isnegative` and
`fe_isnonzero` read what `fe_tobytes` wrote.

`ScalarWidths` has limbs of 21 bits in 64-bit integers. `Passes` lists what
`sc_muladd` does after the products, in its order: a pass goes over the limbs
`from`, `from + by`, ..., `to` and rounds, folds or floors each; `sc_reduce` is
the same list from the third pass on. `pass` and `at` are the position in it.
`Folded` is the six lines that replace limb k by multiples of `Coefs` twelve
limbs below, with the reset of limb k; `CarriedUp` is a carry with its addition
and subtraction. `Loaded` gives the limbs that strings of 32 and 64 bytes can
have: the top one keeps what the masks of the others leave (25 and 29 bits). The
code shifts negative numbers; as compilers do, `>>` floors and `carry << 21`
multiplies. `ScalarLimbs` is the twin for TLC and has Java's variant too.

`JavaScalarWidths` adds the variables of `reduce` and `multiplyAndAdd`, `java`,
which take the step of the C function for the same arguments at the same time.
That cuts no behaviour of the Java methods: they have no branches, and their
passes are those of the C functions. Two things differ. Java keeps what a fold
used up (`JavaFolded`), with the comments "not used again" and "set below"; and
three carries set the next limb instead of adding to it (`Sets`): `s23 =
carry22`, where `s23` was never set, and twice `s12 = carry11`. `dead` is the
set of the limbs that were never set, or not since their fold.

### Sha512

`in` is a position in the caller's input or in `padded`; `w` holds, instead of
the sixteen words, which words of the schedule they are, so that `EXPAND`,
which overwrites them one by one while it reads them, is checked against the
recurrence. `LoadBlock`, `Sixteen`, `EndBlock` are the block loop,
`Pad` the end of `crypto_hash_sha512` with its one or two last blocks. `Shr` is
`>>` in four steps, because TLC has no integer as large as 2^61. What the eighty
rounds compute is left out. The specification is named `HashSpec`, because it
shares a run and a proof module with `KeyCodec` and `Precompute`.

### KeyCodec

`Layout` is the choice of one of three layouts by two bytes, `Decodes` the
checks that follow, `getEncoded` the current layout. `Decode`, `Reread`,
`Derive` and `Respecify` make a key from an encoding, from the encoding of the
first key, from a hash, and from the specification that `KeyFactory` gives of
the last key, which is where the constructor of given parts is called
(`FromParts`). The comparison is with `Document`, the DER that the comments of the
decoders quote, built from tags and lengths. The specification is named
`CodecSpec`, because it shares a run and a proof module with `Precompute`.

### Precompute

Per element: the monitor, and per table whether the field is assigned and which
entries are filled. Threads call `precompute`, `scalarMultiply` and
`doubleScalarMultiplyVariableTime`. The null test of a field (`TestSingle`,
`TestDouble`), the assignment of a fresh, empty array to it (`AllocateSingle`,
`AllocateDouble`), storing each entry and each read of one are steps of their
own, so that a table could be assigned twice if the monitor did not keep a
second thread from between test and assignment. Reads see all writes that were made
before the caller got the element: `EdDSAPublicKeySpec` (39, 46) and `Curve`
(75-78) precompute before they publish it.

## 3. The runs

| Run | Instance | Question |
|---|---|---|
| `providers` | L = 17, Top = 64 (8-bit Words), a seed, two messages, strings that are a stray length or a key that is no point, a point's second encoding (not for C), a signature with an S beyond the bound. `Ref10`: one failed allocation, two garbage values. `JRubyProvider`: the empty message only. Three calls each. `RubyApi`: a seed in a multibyte encoding, four contents that may be written, among them one of 64 characters and 128 bytes; six strings, one of them written to; both providers | Does every C call end with the answer `Provider` prescribes, within its buffers, freeing them, whatever memory held and callbacks did? Under JRuby, whatever is written to the arguments meanwhile, where the providers agree, and as `Elsewhere` says otherwise? Does a Ruby key go on signing and verifying as it was made, does `from_keypair` accept just the right keypairs, do other lengths raise? |
| `providers_verify` | the same, but Ruby's caller starts with a key that is no point and a string of two Words | *Violated:* `verify` gives true or VerifyError |
| `engine` | three pairs (one with an unknown hash), two arrays, messages of at most one byte | In any order of calls: is the digest clean, is the object ready after `sign` and `verify`? In documented orders: does the engine implement the signature object? |
| `engine_nonce` | the same | *Violated:* every nonce hashes the prefix |
| `engine_one_shot` | the same | *Violated:* `signOneShot` refuses after `update` |
| `arithmetic` | Points: the field of 29 elements, d = 2; all pairs of points, given with Z = 11; all 5-bit strings. Ladders: scalars of 16 bits, every 15-bit one for the base point, steps of 13 through all 16 bits and others for the double multiplication. Field: four limbs of 6 and 5 bits, p = 2^22 - 3. Scalars: six limbs of 4 bits, L = 2^24 + 1387. Chains: the true exponents, in place and not | Do all `fe_*` functions, `sc_reduce`, `sc_muladd` and the Java twins keep the residue at each carry and give one encoding, without using a folded limb? Do the four chains raise to p - 2 and (p - 5) / 8? Are the formulas complete, is decoding exact, are limbs within what multiplications and encodings take? Do the ladders compute aB, and aA + bB below 2^15, where a carry keeps its place? |
| `arithmetic_isnonzero` | the same | *Violated:* `fe_isnonzero` returns 1 for zero and 0 otherwise |
| `group_sums` | the points and ladders of `arithmetic` | *Violated:* the arguments of `fe_add` and `fe_sub` are within their preconditions |
| `group_digits` | the same | *Violated:* all radix-16 digits are between -8 and 7 |
| `group_double` | the same | *Violated:* the double multiplication is aA + bB, however large the scalars |
| `layouts` | every layout of a key with a byte and a discriminating byte replaced, or cut and extended; hash inputs of 32 to 300 bytes and four longer ones; two threads of three calls each, three elements (one not in P3), tables of two entries | Does the decoder accept the documented forms and no other, do keys migrate? Are the blocks hashed the padded message? Is a table whole when it is read, is none replaced, does every call end? |
| `precompute_multiply` | the tables of `layouts`, without preparation | *Violated:* `scalarMultiply` builds a missing table |

**Bounds.** `providers`: three calls are what `RoundTrip` needs (create, sign,
verify), in C and under JRuby, and one failed allocation reaches each
allocation's failure, twice in the two-buffer case of `verify` when it is the
second. 8-bit Words with three low bits cleared keep the clamps of `keypair.c`
and `sign.c` different, and Top > 2L as in the code. Scalars from 3/4 of the
range on lose their carry in `slide`. Six strings are the caller's and
two keys, or a key rebuilt from its own keypair, or a key with three signatures; one write is enough to make any one string differ from what it was.
`engine`: a message of one byte distinguishes a missing, a doubled and a right
update; two arrays distinguish the array kept from another one; three keys
distinguish a key of the same digest, of another, and one that is refused.
`arithmetic`: the scalars carry through every digit, reach all table entries of
both signs, hold three full windows and let the carry chain of `slide` cross
them; those whose carry leaves the array are what `group_double` finds.
Formulas are polynomial identities of low degree on the curve, checked for all
pairs, equal, opposite and neutral ones included; three of the strings (29, 30,
31) are not canonical. Products are bilinear before the carries, so the basis
vectors reach every coefficient; other operands go to the limits that the
comments of `fe.c` state (1.65 and 1.1 times the width). C and the widths
satisfy the inequalities on which the proof above `fe_tobytes` rests. The
widths of the scalars keep all folds and both rounds of carries, with values of
both signs. `layouts`: 300 bytes cross two block boundaries and both branches
of the padding, the longer inputs fill three bytes of the length; the edits
reach every comparison of the decoders, alone and with each choice of layout.
Two calls fill a table and use it, the third meets another thread's; the tables
of a non-P3 element take two failures to reach `return`.

**Fairness.** Only the threads of `Precompute`, in `layouts`, assume any: weak
fairness of each thread's `Step`, since a thread that can run is run. A Java
monitor gives no order among those who wait; it need not here because the calls
of the other threads are bounded by `Calls`. Everywhere else a call is
straight-line code with loops of fixed length, executed by the caller, and
`Computes`, `Congruent` and the like say what holds when it ends. The engine
runs check deadlock; in the others the system stops when its calls have ended
(CHECK_DEADLOCK FALSE).

## 4. What the runs found

Where a comment or the documentation says one thing and the code does another,
a run of kind "violation" states what is said, and a finding in `PROJECT.json`
quotes it.

* `engine_nonce`, `EdDSAEngine.java:118`: `initSign` resets the digest before it
  examines the key. When the key is refused and the object was already
  initialised, `java.security.Signature` still allows `sign`, and the nonce is
  then the hash of the message without the secret prefix.
* `engine_one_shot`, `EdDSAEngine.java:362`: `signOneShot` after `update` is
  documented to throw; it drops what `update` buffered.
* `precompute_multiply`, `GroupElement.java:884`: `scalarMultiply` is documented
  to build a missing table (864-866); the call is commented out and a missing
  table is read.
* `group_sums`: `fe.c:45-46` and `:918-919` state bounds (1.1*2^25) for the
  inputs of `fe_add` and `fe_sub` that `ge_p2_dbl.h:66`, `ge_madd.h:81` and
  `ge_add.h:90` exceed, since they add sums; so do the Java twins. What the
  results are used for stays within the bounds of `fe_mul` (`LimbsBounded`).
* `group_digits`, `GroupElement.java:805`: the last radix-16 digit takes a carry
  without being split and can be 8, as `ge.c:367` says; `:786` and `:806` say
  "each between -8 and 7". The table has the entry for 8 (`LadderInvariant`).
* `group_double`, `ge.c:30`: `slide` loses the carry out of position 255, so the
  result is not aA + bB, as `ge.c:49-53` and `GroupElement.java:950-951` say
  without a condition. `GroupElement.java:905-906` says as much of the digits of
  `slide` itself, which lose the carry at `:932` in the same way. The scalars that the C
  verifier lets through have room for the carry; Java's verifier does not bound
  S. `Digits` and `Computes` say what holds below 2^255.
* `arithmetic_isnonzero`: `fe.c:285-286` says "return 1 if f == 0 / return 0 if
  f != 0"; `fe_isnonzero` returns 0 and -1, as its name and its callers want
  (`Tests`).
* `providers_verify`, `Ed25519Provider.java:87`: a verify key that does not decode
  raises IllegalArgumentException under JRuby. `README.md:129-130` and
  `verify_key.rb:19` promise true or VerifyError, which the C provider's answer,
  false, is turned into.
Elsewhere the JRuby provider answers differently from the C one where neither
contradicts a documentation, but callers can see it; it is stated in
`Elsewhere`, and left out of `Interchangeable`:

* `Ed25519Provider.java:63`: `sign` uses only the seed. With a keypair whose
  halves disagree the C provider hashes the second half and the signature
  differs.
* Java's verifier does not bound S, and hashes the canonical encoding of the
  key; `open.c:22` refuses S from 2^253 on and hashes the bytes given.

In the same way four facts are stated as they are: a `SigningKey` keeps the
caller's seed string and hands out its keypair string, so a write to the latter
changes what it signs (`SignsAsBorn` says exactly until when it does not); Java
private keys made from a hash have no seed, encode as null and are equal to each
other only (`Migrates`); a C call whose second allocation fails, or whose
result string cannot be made, loses the buffers it has (`NoLeak` allows one
buffer for each failed allocation and none otherwise); and `verify_key.rb:23`
counts characters, so that a signature of 64 bytes in a multibyte encoding is
refused (`OtherSizesRefused` is that what is looked at is always 64 bytes).

Two divergences have no run of their own.

* `fe.c:977` says "Have |h|<=p so |q|<=1", in the proof of a claim; limbs within
  the stated bounds can denote less than -p, with q = -2. The claim, and the
  encoding, are right for them too (`Canonical`, `BasicClaimHolds`).
* `GroupElement.java:466` and `:489` assign a table before it is filled. On an
  element that is not in P3 representation each fill throws after one entry,
  and the third call of `precompute(true)` returns with both tables unfilled.
  `TablesWhole` is stated for P3 elements, the only ones the library
  precomputes.

## 5. What is proved

`EdDSA_proofs`. `SignatureVerifies`: for all L, Top, H, encodings, seeds and
messages, `Accepts` holds of `Signature`. It rests on lemmas about division:
the clamp of `keypair.c` clears bit 255 and sets bit 254, that of `sign.c`
clears both and then sets 254, and the results are equal (`ClampsAgree`); S is
below L, so below the bound `open.c` checks; and h(-A) + SB = rB in the group of order 8L.

`Ref10_proofs`. `IInv` is inductive: besides the types it says that every
logged call was answered as prescribed (`Logged`), what the arguments of the
call in progress are (`Called`), which buffers are live and how long
(`Buffers`, `Accounted`), and for each program point which locals and buffer
parts already hold their values (`CreateProgress`, `SignProgress`,
`OpenProgress`). `InBounds`, `NoLeak` and `ScalarsInRange` alone are not
inductive: the length of a buffer at a late step follows from what was checked
and copied at earlier ones. From `IInv` follow `Ref10InBounds`, `Ref10NoLeak` and
`Ref10ScalarsInRange`; `Ref10OpenContract` is inductive relative to it; and
with it each step is a stutter or a `Complete` of `Provider` (`Ref10Provides`).
Any behaviour of `Provider` answers every call as prescribed
(`ProviderAnswers`), equal calls equally (`ProviderDeterministic`), and accepts
signatures of its own keypairs (`ProviderRoundTrip`); through `Ref10Provides`
these hold of the C code (`Ref10Deterministic`, `Ref10RoundTrip`).

`JRubyProvider_proofs`. `JavaIInv`: every completed call ended in `Outcome` of its
bytes (`JavaLogged`), and how far the current one has come determines which bytes
are copied, checked, and in the key specification (`JavaCalled`); without the
latter `WriteArgument` between two conversions could not be shown harmless. From it
`JRubyElsewhere` and `JRubyRoundTrip`; and `JRubyStandsIn`: on the calls in
`Interchangeable` each step is a stutter or a `Complete` of `Provider`. That
rests on lemmas of `EdDSA_proofs`: the engine's signature of a seed is
that of the scheme (`EngineSigns`), and its verdict that of `open` when the key
is canonical and S below the bound, so that `slide` drops nothing
(`EngineVerifies`, with `SlideAssumption`).

`RubyApi_proofs`. `RubyIInv`: each string that nobody has written to still holds
what the library put into it, for every key ever made (`KeysKept`) and
signature (`SignaturesKept`). `SignsAsBorn`, `VerifiesOwn` and `FromKeypair`
follow for any number of strings, writes and switches of the provider, because
both providers make the same keypair of a seed and accept each other's
signatures (`OwnAnswers`). `OtherSizesRefused` needs no invariant:
`RubyApiOtherSizesRefused` shows that verification of a string that is not two
Words ends in ArgumentError whichever length check sees it.

`Layouts_proofs`, the tables. For any threads, elements and table sizes, under the
contract that readers are given elements whose tables were built (`Readers`):
who is inside the monitor is alone (`Excluded`), a table is absent, whole or
being filled by the thread inside, who has filled all entries below its index
(`Filling`), and a return leaves whole tables behind (`Behind`).
`PrecomputeNoNullRead` needs all four, because a reader of A's table holds
another element's monitor. `PrecomputeNeverRebuilt` is the action property: an
assignment always brings an empty array, and what keeps it from dropping a table
is that whoever is past a null test is alone inside the monitor and the field is
still null (`Tested`).

`Layouts_proofs`, the keys. For every byte string given as an encoding and
every 32-byte key string: the decoder accepts it just when it is one of the
documents, public or private, in one of three forms (`KeysDecodeDocumented`),
and a key read again from its encoding is the same key (`KeysMigrate`). The
proof rests on two facts about what the code holds as tables of numbers and the
documents as nested tags and lengths: what the decoder compares is a header
(`ExpectedIs`), and a document, unwrapped from the inside out, is the same
header before the key (`DocumentIs`). `LayoutIs` is that the two bytes looked at
first tell the headers apart, so that a string which starts with one of them is
sent to its table. `CodecIInv` says that every later key is the first again
or one made from a hash, which needs `RereadIs` and, for a key made of its own
specification, `RespecifiedIs`. TLC checked the part of it about
`keys` on the instance of `layouts`.

`Layouts_proofs`, the hash. For every length below 2^64 (`LengthsAssumption`) the
blocks hashed are the padded message (`HashesPadded`). `HashIInv` has two parts.
`Cut`: the blocks hashed so far are the first ones of the input and then of
`padded` (`Block`), `in` points right behind them, and `left` is what remains of
the one or of the other; from this follows that the rest of the input is shorter
than a block when it is padded. `Scheduled`: after 16n rounds the sixteen
variables hold the words of the next sixteen. That `EXPAND` keeps this is
`Expands`: the variable overwritten at j is read again only by those after it,
which want the new word (`Window`). `PaddedIs` and `LengthWritten` are that the
bytes set by either branch end the standard's message, whose length field has 16
bytes where the code writes nine. TLC checked `HashIInv` on the lengths of the
run `layouts`.

`Widths_proofs`, the field. `IInv` is that the comments hold and that the limbs denote
the product. `TermBound` and `SumBound` bound each term and column of the
products by limb and parity, whatever the signs; `CarryBound` is one carry;
`CommentsKept` is all twelve, each with the comments before and after it.
`ProductValue` is the identity between the columns and the product of the
numbers, `SquareIsProduct` that `fe_sq` adds the same columns. So for every
pair of operands within 1.65*2^26, 1.65*2^25: no 32-bit premultiplication, no
64-bit product, partial sum or carry overflows (`NoProductOverflows`,
`NoCarryOverflows`), every bound in the comments is true (`CommentsAreTrue`),
the result is within 1.01*2^25, 1.01*2^24 (`ResultReduced`) and congruent to the
product modulo 2^255 - 19 (`ProductComputed`). `LimbsBounded`, in run
`arithmetic`,
is the other side: the formulas stay within the operands assumed here.

`Widths_proofs`, the strings. For all limbs within the precondition `fe_tobytes`
writes the one representative below 2^255 - 19 (`EncodingIsCanonical`), and for
all strings the limbs of `fe_frombytes` denote the string less its top bit, are
never more than 64 bits wide and end small enough to be multiplied
(`DecodingKeepsString`, `CodingStaysWithinWidths`). The heart is the basic claim
in the comment of `fe_tobytes`, that the estimate is floor(h/p)
(`BasicClaimHolds`). The comment derives it from |h| <= p, so |q| <= 1; but its
own precondition allows h a tenth beyond p on either side, where q may be -2.
The claim holds there too. `CodingIInv` says, for each of the eleven lines, that
`q` is the floor of the limbs below, with the rounded 19 h9, over the weight of
the limb that is next (`Estimated`, with the remainder as witness); after the
last one h9 cancels against its multiple, and h - pq lies between 0 and p
(`IsQuotient`), which is all that division asks. While `fe_tobytes` carries
(`Reducing`), the floors leave digits below the limb that is next and keep the
number, so that `carry9`, which it drops, is q. While `fe_frombytes` carries
(`Decoding`), the limbs keep the string modulo p, within bounds that depend on
whether the limb has had its turn. `PackedValue` and
`LoadedValue` are the identities between bytes and limbs; each byte that two
limbs share is a lemma on two numbers (`BytesFrom0` and so on). `h4 << 6` in
`s[12]` needs 32 bits unsigned, so a signed int does not hold it; the bits that
are lost are above the eight that are kept.

`Widths_proofs`, the scalars. For all arguments: no product, sum, rounding or
carry of `sc_reduce` and `sc_muladd` leaves 64 bits (`ScalarsStayWithin64Bits`);
after the loads and after every fold and carry the limbs denote the number meant
modulo L (`ScalarsKeepResidue`); the result is its representative in 0 .. L - 1,
with limbs that do not overlap when they are packed (`ScalarsAreReduced`). The
code states the last in its comments, and none is inductive. `ScalarIInv` adds
`ScalarBounds`, a table `Reach` of how large each limb can be in each pass,
checked step by step by `Tables`; `DigitsDone`, that floors leave digits below
the limb that is next; and `InRange`, on which the last result rests: after the
third round of folds the number is within 2^252 on both sides, so that the
floors leave 0 or -1 above twelve digits, and the last fold adds L to a
negative number and nothing to another. `FoldDenotes`, `CarryDenotes` and
`MulAddDenotes` say what the three kinds of step do to the number.

`Widths_proofs`, the Java methods. They clear no folded limb and never use one;
the carries that set a limb are exactly those into a limb not in use, where
adding would bring back what the fold had used up (`JavaUsesNoStaleLimb`). So
the limbs in use are those of the C functions at every step (`JavaFollowsC`),
no `long` overflows (`JavaScalarsStayWithin64Bits`), and the twelve limbs packed
are s mod q and ab + c mod q (`JavaScalarsAreReduced`). The agreement alone is
not inductive: a step keeps it only if what it reads is in use. `JavaIInv` adds
that the dead limbs are those from `FirstDead` on, a function of the position
(`DeadTable` checks it, step by step), and `ScalarIInv`, by which the limb that
Java sets is zero in C (`SetsZero`). TLC checked `DeadAbove` with narrow limbs.

`Ladders_proofs`. For every number of bits that is a multiple of eight and every
scalar: the digits of `ge_scalarmult_base` are in -8..8 and stand for the
scalar; those of `slide` are odd and in -15..15, or zero, and stand for a scalar
below 2^255 (`LaddersDigits`); each loop has added what Horner's rule says
(`LaddersHorner`); the results are aB, and aA + bB for scalars below 2^255
(`LaddersCompute`). The invariant covers larger scalars too, with `Off` for the
2^256 that a lost carry may take. So `SlideAssumption`,
which `JavaAnswers` makes of `Slide`, holds of the code. None of the three is
inductive: they say nothing of the middle of a recoding. `IInv` adds what the
array holds there. `Carrying`: below position i digits are signed, from i on
unsigned, and the digits with the pending carry stand for the scalar.
`WindowInv`, `AbsorbInv` and `RippleInv`: below the open window there are
finished digits (`Low`), above it bits (`High`), inside it what was absorbed is
zero (`Clear`), and the whole stands for the scalar (`Stands`), or, while a
carry ripples, for the scalar less 2 to the position of the carry.
`TopAlone` says when the carry can leave the array. TLC checked `IInv` on the
instance of `arithmetic`. Sums over positions are recursive functions; since the
induction theorems of the library take operators, induction is over sets, from
the least element theorem (`Induct`), and `Recursion` shows that the recursive
functions have values at all.

`EdDSAEngine_proofs`. `TypeOK`, `NoResidue` and `ReadyAgain` for any calls. That
the engine implements `SignatureObject` is two theorems, because the caller may
leave the documented orders. `Consistent` is the invariant needed: in state SIGN
or VERIFY the key is of the right kind and the digest primed for it.
`EngineImplements` is about every behaviour: `Consistent` holds at first, and a
documented call made where it holds is a step of the signature object, or none,
and keeps it. `EngineRefines` follows for those whose calls are all in
documented orders (`DocumentedSpec`): they are behaviours of `SignatureObject`.

Assumptions, each next to its constants and evaluated by TLC in every run of a
module that extends it: `ParamsAssumption` (2^254 is a multiple of 8 and at
least 2L), `EncodingAssumption` (decoding inverts encoding), `InputsAssumption`
(what callers give to a provider are strings of Words, and seeds have one),
`GarbageAssumption` (memory holds Words), `SlideAssumption` (a scalar below
2^255 keeps its digits), `RubyAssumption` (a Word has at most 32 characters, 32
if it is 7-bit), `NamesAssumption` and `EngineAssumption` (names are distinct),
`PrecomputeAssumption` (tables have entries), `NumBitsAssumption` (the bits of
a scalar fill bytes), `LaddersAssumption` (the scalars given are below 2^255, or
2^256, and a machine word holds a byte), `KeyCodecAssumption` (an encoding is a
string of bytes, a key string 32 of them, and the encoding of a point encodes
that point) and `LengthsAssumption` (the length of an input fits 64 bits). The
modules without proofs state their parameters' conditions, which the instances
assume: `FieldAssumption`, `ReductionAssumption` and `CurveAssumption` (sizes,
and that the curve is complete). `FieldWidths`, `FieldBytes`, `ScalarWidths` and
`JavaScalarWidths` assume nothing.

`TypeOK` and `IInv` of `Precompute`, `Ladders` and `FieldWidths`, `JavaTypeOK` and
`JavaIInv` of `JRubyProvider`, `RubyIInv`, `CodingIInv`, `ScalarIInv`, `JavaIInv` of
`JavaScalarWidths`, `CodecIInv` and `HashIInv` serve the proofs alone and are
listed with no run; they imply the properties that are.

**Model-checked only.** Liveness (`Completes`) and with it fairness, which are
out of the prover's reach; the formulas of points (`FormulasComplete`,
`DecodesExactly`, `LimbsBounded`), which need an algebra of polynomials and the
number theory of the curve; `FieldLimbs` and `ScalarLimbs`, whose products,
carries and folds are proved with the true widths in their twins; and `Chains`,
which has no parameters and finitely many states, so that the run is exhaustive.

## 6. What is not modelled, and what the plan has left

Of the plan nothing is left but the points: a theory of the curve from which
`FormulasComplete` and `DecodesExactly` would follow for every field. TLC checks
them for one small field.

Not modelled, and why:

* The rounds of SHA-512 (`F` and its constants): what matters for the callers
  is that the hash is a function of its input, and a model of the rounds could
  only be compared with itself. The same holds of the generated tables
  (`base.h`, `base2.h`, `d.h`, `d2.h`, `sqrtm1.h`): `Ladders` and `PointOps` take
  them to hold what their comments say.
* The BigInteger versions of the Java field and scalars, which delegate to
  `java.math.BigInteger` and which the library does not choose.
* `self_test` of `ed25519.rb`: it changes no state, and compares with known
  answers that only the real functions give.
* The constructor of `EdDSAPrivateKeySpec` that takes a seed, a hash, a scalar
  and a point (94-100) with parts that do not belong together. Nothing in the
  library calls it so; a program can, and gets a key whose seed and point
  disagree.
* The rest of `KeyFactory`, `KeyPairGenerator`, `EdDSASecurityProvider`, the parameter
  specifications and the named-curve table: they dispatch on classes and names
  or hold values, with no state beyond a random source. `hashCode` and `cmov` of
  the Java group, and the `inspect` methods of the Ruby classes.
* Loading and packing of bytes in `sc_*.c` (limbs are read and written whole).
* Side channels: no property is about time. Tests, build files and CI.
