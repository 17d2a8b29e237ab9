----------------------------- MODULE FieldBytes -----------------------------
(***************************************************************************)
(* fe_tobytes and fe_frombytes of fe.c, and encode and decode of           *)
(* Ed25519LittleEndianEncoding.java, which take the same steps, with the   *)
(* widths they have.  What is said of them here is proved in               *)
(* Widths_proofs; FieldLimbs has the same code for TLC, narrower.          *)
(***************************************************************************)
EXTENDS FieldElement

VARIABLES
  coding,   \* the function and its argument
  digit,    \* h0 ... h9
  quotient, \* q of fe_tobytes
  string,   \* s[0] ... s[31] of fe_tobytes
  step      \* 0 .. 23 in fe_tobytes, the carries taken in fe_frombytes

codingVars == <<coding, digit, quotient, string, step>>

Bytes32 == [0 .. 31 -> 0 .. 255]

\* fe_isnegative, fe_isnonzero and fe_tobytes: |h| bounded by
\* 1.1*2^26,1.1*2^25,1.1*2^26,1.1*2^25,etc.
Encodable ==
  {x \in [Limbs -> Int] : \A i \in Limbs : Within(x[i], IF i % 2 = 0 THEN 73819750 ELSE 36909875)}

Codings == [fn : {"fe_tobytes"}, x : Encodable] \cup [fn : {"fe_frombytes"}, s : Bytes32]

-----------------------------------------------------------------------------
(* Bytes and limbs. *)

load_3(s, n) == s[n] + 256 * s[n + 1] + 65536 * s[n + 2]
load_4(s, n) == load_3(s, n) + 16777216 * s[n + 3]

\* h0 ... h9 of fe_frombytes
Loads(s) ==
  << load_4(s, 0), load_3(s, 4) * 64, load_3(s, 7) * 32, load_3(s, 10) * 8, load_3(s, 13) * 4,
     load_4(s, 16), load_3(s, 20) * 128, load_3(s, 23) * 32, load_3(s, 26) * 16,
     (load_3(s, 29) % 8388608) * 4 >>

Loaded32(s) == [i \in Limbs |-> Loads(s)[i + 1]]

\* s[0] ... s[31] of fe_tobytes, before their conversion to unsigned char.
\* h0 >> 24 has two bits, h1 << 2 none of these, so their disjunction is
\* their sum; and so on (DigitsApart).
Chunks(x) ==
  << x[0], x[0] \div 256, x[0] \div 65536, x[0] \div 16777216 + x[1] * 4,
     x[1] \div 64, x[1] \div 16384, x[1] \div 4194304 + x[2] * 8,
     x[2] \div 32, x[2] \div 8192, x[2] \div 2097152 + x[3] * 32,
     x[3] \div 8, x[3] \div 2048, x[3] \div 524288 + x[4] * 64,
     x[4] \div 4, x[4] \div 1024, x[4] \div 262144,
     x[5], x[5] \div 256, x[5] \div 65536, x[5] \div 16777216 + x[6] * 2,
     x[6] \div 128, x[6] \div 32768, x[6] \div 8388608 + x[7] * 8,
     x[7] \div 32, x[7] \div 8192, x[7] \div 2097152 + x[8] * 16,
     x[8] \div 16, x[8] \div 4096, x[8] \div 1048576 + x[9] * 64,
     x[9] \div 4, x[9] \div 1024, x[9] \div 262144 >>

Packed(x) == [n \in 0 .. 31 |-> Chunks(x)[n + 1] % 256]

\* What a string denotes, four bytes at a time.
StringValue(s) ==
  load_4(s, 0) + 4294967296 * (load_4(s, 4) + 4294967296 * (load_4(s, 8) +
    4294967296 * (load_4(s, 12) + 4294967296 * (load_4(s, 16) + 4294967296 * (load_4(s, 20) +
      4294967296 * (load_4(s, 24) + 4294967296 * load_4(s, 28)))))))

fe_isnegative == string[0] % 2

-----------------------------------------------------------------------------

CodingInit ==
  /\ coding \in Codings
  /\ digit = IF coding.fn = "fe_tobytes" THEN coding.x ELSE Loaded32(coding.s)
  /\ quotient \in Int32 /\ string \in Bytes32 /\ step = 0

Calling(name) == coding.fn = name /\ step' = step + 1 /\ UNCHANGED coding

\* q = (19 * h9 + (1 << 24)) >> 25; q = (h0 + q) >> 26; ... q = (h9 + q) >> 25;
Estimate ==
  /\ Calling("fe_tobytes") /\ step \in 0 .. 10
  /\ quotient' = IF step = 0 THEN Rounded(19 * digit[9], 9)
                 ELSE (digit[step - 1] + quotient) \div Size(step - 1)
  /\ UNCHANGED <<digit, string>>

\* h1 += carry0; h0 -= carry0 << 26; and so on; carry9 is dropped.
Floored(x, i, carry) ==
  [j \in Limbs |-> IF j = i THEN x[i] - Size(i) * carry ELSE IF j = i + 1 THEN x[j] + carry ELSE x[j]]

\* h0 += 19 * q;
Subtract ==
  /\ Calling("fe_tobytes") /\ step = 11
  /\ digit' = [digit EXCEPT ![0] = digit[0] + 19 * quotient]
  /\ UNCHANGED <<quotient, string>>

\* carry0 = h0 >> 26; and its move; then the next.
FloorDigit ==
  /\ Calling("fe_tobytes") /\ step \in 12 .. 21
  /\ digit' = Floored(digit, step - 12, digit[step - 12] \div Size(step - 12))
  /\ UNCHANGED <<quotient, string>>

Pack ==
  /\ Calling("fe_tobytes") /\ step = 22
  /\ string' = Packed(digit)
  /\ UNCHANGED <<digit, quotient>>

Turns == <<9, 1, 3, 5, 7, 0, 2, 4, 6, 8>>

\* carry9 = (h9 + (1 << 24)) >> 25; h0 += carry9 * 19; h9 -= carry9 << 25; ...
RoundDigit ==
  /\ Calling("fe_frombytes") /\ step \in 0 .. 9
  /\ digit' = RoundedAt(digit, Turns[step + 1])
  /\ UNCHANGED <<quotient, string>>

CodingNext == Estimate \/ Subtract \/ FloorDigit \/ Pack \/ RoundDigit

CodingSpec == CodingInit /\ [][CodingNext]_codingVars

-----------------------------------------------------------------------------

(***************************************************************************)
(* Every intermediate of fe_tobytes and, in Java, of the loads of decode   *)
(* fits 32 bits, those of the carries of fe_frombytes 64; but for h4 << 6  *)
(* when s[12] is packed, which only fits them unsigned.                    *)
(***************************************************************************)
CodingFits ==
  /\ \A i \in Limbs : coding.fn = "fe_tobytes" => digit[i] \in Int32
  /\ coding.fn = "fe_tobytes" /\ step = 0 => {19 * digit[9], 19 * digit[9] + Size(9) \div 2} \subseteq Int32
  /\ coding.fn = "fe_tobytes" /\ step \in 1 .. 10 => digit[step - 1] + quotient \in Int32
  /\ coding.fn = "fe_tobytes" /\ step = 11 => {19 * quotient, digit[0] + 19 * quotient} \subseteq Int32
  /\ coding.fn = "fe_tobytes" /\ step \in 12 .. 21 =>
       Size(step - 12) * (digit[step - 12] \div Size(step - 12)) \in Int32
  /\ coding.fn = "fe_tobytes" /\ step = 22 =>
       \A n \in 1 .. 32 : Chunks(digit)[n] \in IF n = 13 THEN Unsigned32 ELSE Int32
  /\ coding.fn = "fe_frombytes" /\ step = 0 => \A i \in Limbs \ {0, 5} : digit[i] \in Int32
  /\ coding.fn = "fe_frombytes" /\ step \in 0 .. 9 =>
       LET i == Turns[step + 1]
       IN  {digit[i] + Size(i) \div 2, Size(i) * Rounded(digit[i], i),
            digit[Above(i)] + Carried(digit[i], i)} \subseteq Int64

(***************************************************************************)
(* The digits fe_tobytes packs do not overlap: each has the bits of its    *)
(* limb, so that the disjunctions of the packing are sums.                 *)
(***************************************************************************)
DigitsApart ==
  coding.fn = "fe_tobytes" /\ step = 22 => \A i \in Limbs : digit[i] \in 0 .. Size(i) - 1

(***************************************************************************)
(* "q = floor(h/p)": the basic claim of the comment on fe_tobytes, which   *)
(* it proves for |h| <= p only, for all that its precondition allows.      *)
(***************************************************************************)
BasicClaim == coding.fn = "fe_tobytes" /\ step >= 11 => quotient = Value(coding.x) \div p

(***************************************************************************)
(* fe_tobytes writes the one representative below 2^255 - 19, so that      *)
(* equal elements have equal encodings; fe_isnegative is its parity.       *)
(***************************************************************************)
EncodesCanonically ==
  coding.fn = "fe_tobytes" /\ step = 23 =>
    /\ string \in Bytes32 /\ StringValue(string) = Value(coding.x) % p
    /\ fe_isnegative = (Value(coding.x) % p) % 2

\* 2^255
TopBit == 57896044618658097711785492504343953926634992332820282019728792003956564819968

(***************************************************************************)
(* fe_frombytes "ignores top bit of h": the limbs denote the rest of the   *)
(* string, modulo 2^255 - 19, after every carry; in the end they are so    *)
(* small that the element may be multiplied.                               *)
(***************************************************************************)
DecodesString ==
  coding.fn = "fe_frombytes" =>
    /\ \E k \in Int : StringValue(coding.s) % TopBit = Value(digit) + p * k
    /\ step = 10 => \A i \in Limbs : Within(digit[i], IF i % 2 = 0 THEN 33889976 ELSE 16944988)
=============================================================================
