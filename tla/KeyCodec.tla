------------------------------ MODULE KeyCodec ------------------------------
(***************************************************************************)
(* The encodings of EdDSAPublicKey (X.509) and EdDSAPrivateKey (PKCS#8):   *)
(* the decoder, which picks one of three layouts by two of its bytes, the  *)
(* key made of what it finds, the encoding that the key gives, and the     *)
(* comparison of two keys.                                                 *)
(*                                                                         *)
(* Byte strings are sequences; a Java index is one less than a position.   *)
(***************************************************************************)
EXTENDS Integers, SequencesExt

CONSTANTS
  Given,     \* the encodings to decode: records [kind, bytes]
  Hashes,    \* what EdDSAPrivateKeySpec(spec, h) is given
  Canonical, \* key string -> the encoding of its point, for those with a point
  Nothing    \* null

KeyStrings == [1 .. 32 -> 0 .. 255]

ASSUME KeyCodecAssumption ==
  /\ \A g \in Given : g.kind \in {"public", "private"} /\ g.bytes \in Seq(0 .. 255)
  /\ DOMAIN Canonical \subseteq KeyStrings /\ Nothing \notin KeyStrings
  /\ \A k \in DOMAIN Canonical :
       Canonical[k] \in DOMAIN Canonical /\ Canonical[Canonical[k]] = Canonical[k]

VARIABLES
  given, \* the encoding that is decoded
  keys   \* the keys made so far; a record with .raised is an exception

codecVars == <<given, keys>>

b == 256
Raised(class) == [raised |-> class]
IsKey(k) == "raised" \notin DOMAIN k

-----------------------------------------------------------------------------
(* Decoding. *)

OID_OLD     == 100
OID_ED25519 == 112

\* Where the layout's two bytes are.
OID_BYTE(kind)   == IF kind = "public" THEN 8 ELSE 11
IDLEN_BYTE(kind) == IF kind = "public" THEN 3 ELSE 6

Layouts == {"old", "null", "current"}

\* The length of the algorithm identifier, and of the whole.
idlen(layout)        == CASE layout = "old" -> 8 [] layout = "null" -> 7 [] OTHER -> 5
totlen(kind, layout) ==
  IF kind = "public" THEN CASE layout = "old" -> 47 [] layout = "null" -> 46 [] OTHER -> 44
                     ELSE CASE layout = "old" -> 49 [] layout = "null" -> 50 [] OTHER -> 48

\* Mutant of Layout: only the length of the identifier is looked at.
LayoutByLength(kind, d) ==
  CASE d[IDLEN_BYTE(kind) + 1] = 8 -> "old"
    [] d[IDLEN_BYTE(kind) + 1] = 7 -> "null"
    [] OTHER -> "current"

\* The layout that the bytes at OID_BYTE and IDLEN_BYTE announce.
Layout(kind, d) ==
  CASE d[OID_BYTE(kind) + 1] = OID_OLD -> "old"
    [] d[OID_BYTE(kind) + 1] = OID_ED25519 /\ d[IDLEN_BYTE(kind) + 1] = 7 -> "null"
    [] d[OID_BYTE(kind) + 1] = OID_ED25519 /\ d[IDLEN_BYTE(kind) + 1] # 7 -> "current"
    [] OTHER -> "unsupported"

\* What the decoder compares the bytes before the key with; the one at
\* OID_BYTE it has seen already.
Expected(kind, layout) ==
  LET version == IF kind = "public" THEN <<>> ELSE <<2, 1, 0>>
      oid     == IF layout = "old" THEN OID_OLD ELSE OID_ED25519
      params  == CASE layout = "old" -> <<10, 1, 1>> [] layout = "null" -> <<5, 0>> [] OTHER -> <<>>
      wrapped == IF kind = "public" THEN <<3, 33, 0>>
                 ELSE (IF layout = "old" THEN <<>> ELSE <<4, 34>>) \o <<4, 32>>
  IN  <<48, totlen(kind, layout) - 2>> \o version
      \o <<48, idlen(layout), 6, 3, 43, 101, oid>> \o params \o wrapped

\* decode returns; else it throws, an index out of bounds converted.
Decodes(kind, d) ==
  /\ Len(d) > OID_BYTE(kind)
  /\ Layout(kind, d) \in Layouts
  /\ Len(d) = totlen(kind, Layout(kind, d))
  /\ LET expected == Expected(kind, Layout(kind, d))
     IN  \A j \in DOMAIN expected \ {OID_BYTE(kind) + 1} : d[j] = expected[j]

\* The key string that it returns.
decode(kind, d) == SubSeq(d, Len(Expected(kind, Layout(kind, d))) + 1, Len(d))

-----------------------------------------------------------------------------
(* Keys. *)

Hash(seed) == <<"H", seed>>

\* EdDSAPrivateKeySpec: the point is that of the hash, whatever it came from.
FromSeed(seed) == [kind |-> "private", seed |-> seed, A |-> Hash(seed)]
FromHash(h)    == [kind |-> "private", seed |-> Nothing, A |-> h]

\* EdDSAPublicKeySpec: the point is decoded, and the key's bytes (Abyte,
\* here in the place of the seed) are those of the point.
FromPoint(pk) ==
  IF pk \notin DOMAIN Canonical THEN Raised("IllegalArgumentException")
  ELSE [kind |-> "public", seed |-> Canonical[pk], A |-> Canonical[pk]]

\* The private specification of given parts, which are not compared: the
\* caller answers for it that A is the point of the seed.
FromParts(seed, A) == [kind |-> "private", seed |-> seed, A |-> A]

\* engineGetKeySpec, the only caller of FromParts, gives back a key's parts
\* (of a public key its point alone), and engineGenerate makes a key of them.
Respecified(k) ==
  IF k.kind = "public" THEN [kind |-> "public", seed |-> k.A, A |-> k.A] ELSE FromParts(k.seed, k.A)

\* The constructors that take an encoding.
Key(kind, d) ==
  IF ~Decodes(kind, d) THEN Raised("InvalidKeySpecException")
  ELSE IF kind = "public" THEN FromPoint(decode(kind, d)) ELSE FromSeed(decode(kind, d))

\* Mutant of getEncoded: the lengths leave out one more byte of header.
getEncodedShort(k) ==
  IF k.seed = Nothing THEN Nothing
  ELSE LET n == Len(k.seed)
       IN  IF k.kind = "public"
           THEN <<48, 11 + n - 2, 48, 5, 6, 3, 43, 101, OID_ED25519, 3, n + 1, 0>> \o k.seed
           ELSE <<48, 15 + n - 2, 2, 1, 0, 48, 5, 6, 3, 43, 101, OID_ED25519, 4, n + 2, 4, n>> \o k.seed

\* The key in its canonical encoding; null without a seed.
getEncoded(k) ==
  IF k.seed = Nothing THEN Nothing
  ELSE LET n == Len(k.seed)
       IN  IF k.kind = "public"
           THEN <<48, 12 + n - 2, 48, 5, 6, 3, 43, 101, OID_ED25519, 3, n + 1, 0>> \o k.seed
           ELSE <<48, 16 + n - 2, 2, 1, 0, 48, 5, 6, 3, 43, 101, OID_ED25519, 4, n + 2, 4, n>> \o k.seed

\* Two keys of one class with the same bytes: two nulls are the same.
equals(k, l) == k.kind = l.kind /\ k.seed = l.seed

-----------------------------------------------------------------------------

CodecInit == given \in Given /\ keys = <<>>

Decode ==
  /\ keys = <<>>
  /\ keys' = <<Key(given.kind, given.bytes)>>
  /\ UNCHANGED given

\* The key is written out and read in again.
Reread ==
  /\ Len(keys) = 1 /\ IsKey(keys[1]) /\ getEncoded(keys[1]) # Nothing
  /\ keys' = Append(keys, Key(keys[1].kind, getEncoded(keys[1])))
  /\ UNCHANGED given

\* A private key is made from a hash.
Derive ==
  /\ Len(keys) \in 1 .. 2 /\ IsKey(Last(keys))
  /\ \E h \in Hashes : keys' = Append(keys, FromHash(h))
  /\ UNCHANGED given

\* The last key is taken apart into its specification and made again.
Respecify ==
  /\ Len(keys) \in 1 .. 2 /\ IsKey(Last(keys))
  /\ keys' = Append(keys, Respecified(Last(keys)))
  /\ UNCHANGED given

CodecNext == Decode \/ Reread \/ Derive \/ Respecify

CodecSpec == CodecInit /\ [][CodecNext]_codecVars

-----------------------------------------------------------------------------

\* The DER of the specifications that getEncoded and decode quote.
Der(tag, content) == <<tag, Len(content)>> \o content

Algorithm(layout) ==
  LET oid(last) == Der(6, <<43, 101, last>>)
  IN  Der(48, CASE layout = "old"     -> oid(OID_OLD) \o Der(10, <<1>>)
                [] layout = "null"    -> oid(OID_ED25519) \o Der(5, <<>>)
                [] layout = "current" -> oid(OID_ED25519))

\* SubjectPublicKeyInfo; OneAsymmetricKey, which the old draft does not wrap.
Document(kind, layout, k) ==
  Der(48, IF kind = "public" THEN Algorithm(layout) \o Der(3, <<0>> \o k)
          ELSE Der(2, <<0>>) \o Algorithm(layout)
               \o Der(4, IF layout = "old" THEN k ELSE Der(4, k)))

(***************************************************************************)
(* decode, which reads two bytes to choose among three tables of numbers   *)
(* before it looks at the length, accepts a byte string just when it is    *)
(* the DER of a 32-byte key in one of the three documented forms, and      *)
(* every other string gives InvalidKeySpecException, never another one;    *)
(* what it takes for the key is the key.                                   *)
(***************************************************************************)
DecodesDocumented ==
  LET d == given.bytes
      k == SubSeq(d, Len(d) - b \div 8 + 1, Len(d))
      documented == /\ Len(d) >= b \div 8
                    /\ \E layout \in Layouts : d = Document(given.kind, layout, k)
  IN  keys # <<>> =>
        keys[1] = IF ~documented THEN Raised("InvalidKeySpecException")
                  ELSE IF given.kind = "private" THEN FromSeed(k)
                  ELSE IF k \in DOMAIN Canonical
                  THEN [kind |-> "public", seed |-> Canonical[k], A |-> Canonical[k]]
                  ELSE Raised("IllegalArgumentException")

(***************************************************************************)
(* "For keys in older formats, decoding and then re-encoding is sufficient *)
(* to migrate them to the canonical encoding": what getEncoded gives is    *)
(* the current form, it decodes, and the key it gives is equal to the      *)
(* first and has the same point.  The same goes for a key that KeyFactory  *)
(* makes of the specification of another.  Among the keys decoded, derived *)
(* from a hash and made again of these, one with bytes of its own is equal *)
(* only to keys with its point; those from hashes have none, encode as     *)
(* null and are equal to each other only.  A program that calls the        *)
(* constructor of FromParts itself, as nothing here does, may pair a seed  *)
(* with any point.                                                         *)
(***************************************************************************)
Migrates ==
  \A m, n \in DOMAIN keys : IsKey(keys[m]) /\ IsKey(keys[n]) =>
    LET k == keys[m] l == keys[n] e == getEncoded(k)
    IN  /\ e # Nothing => e = Document(k.kind, "current", k.seed)
        /\ equals(k, l) => e = getEncoded(l) /\ (e # Nothing => k.A = l.A)
        /\ m < n /\ e # Nothing /\ getEncoded(l) # Nothing => equals(k, l)
=============================================================================
