------------------------------ MODULE MCLayouts ------------------------------
(***************************************************************************)
(* Layouts of data: the encodings of a Java key (KeyCodec) and the input   *)
(* of a hash (Sha512), byte strings at full length, or the tables of       *)
(* MCPrecompute.  The run starts one of the three machines; the others     *)
(* stand still.                                                            *)
(*                                                                         *)
(* Encodings: every layout of a key, with any byte near the front and one  *)
(* of those that the decoder looks at first replaced, or with the latter   *)
(* replaced and the string cut or extended.  Hashes: every length across   *)
(* two block boundaries, from the shortest input the library hashes, and   *)
(* some whose length in bits takes three bytes.                            *)
(***************************************************************************)
EXTENDS MCPrecompute, KeyCodec, Sha512

CONSTANT Still

VARIABLE machine

MCLengths == 32 .. 300 \cup {8191, 8192, 8304, 16500}

-----------------------------------------------------------------------------

KeyString(c) == [j \in 1 .. 32 |-> c]

\* 4 has a point that is encoded as 48, 5 has none.
MCCanonical ==
  [k \in {KeyString(4), KeyString(48)} |-> KeyString(48)]

Documents(k) ==
  {[kind |-> kind, bytes |-> Document(kind, layout, k)] :
     kind \in {"public", "private"}, layout \in Layouts}

MCBytes == {0, 1, 2, 3, 4, 5, 6, 7, 8, 10, 32, 33, 34, 42, 43, 44, 45, 46, 47, 48, 49, 50, 100, 101, 112}

\* A byte near the front is replaced, then one of those that pick the
\* layout; or only the latter, and the string is cut or extended.
Edits ==
  {[at |-> j, byte |-> x, pick |-> p, as |-> y, longer |-> 0] :
     j \in 1 .. 18, x \in MCBytes, p \in {"oid", "idlen"}, y \in {5, 7, 8, 100, 112}}
  \cup {[at |-> 1, byte |-> 48, pick |-> p, as |-> y, longer |-> n] :
     p \in {"oid", "idlen"}, y \in {5, 7, 8, 100, 112}, n \in -50 .. 6}

Edited(g, e) ==
  LET c == 1 + IF e.pick = "oid" THEN OID_BYTE(g.kind) ELSE IDLEN_BYTE(g.kind)
      d == [g.bytes EXCEPT ![e.at] = e.byte, ![c] = e.as]
  IN  [kind |-> g.kind,
       bytes |-> [j \in 1 .. Len(d) + e.longer |-> IF j <= Len(d) THEN d[j] ELSE 4]]

MCGiven == {Edited(g, e) : g \in UNION {Documents(KeyString(c)) : c \in {4, 5}}, e \in Edits}

\* A hash like any other, and that of a seed.
MCHashes == {<<"h", 1>>, <<"H", KeyString(48)>>}

-----------------------------------------------------------------------------

KeyStill == given = Still /\ keys = <<>>

HashStill ==
  /\ bytes = Still /\ inlen = Still /\ at = Still /\ src = Still /\ left = Still /\ padded = <<>>
  /\ w = <<>> /\ rounds = <<>> /\ fed = <<>> /\ pc = Still

\* The tables stand still when no thread is in a call and none makes one.
MCInit ==
  /\ Init
  /\ \/ machine = "key"    /\ CodecInit /\ HashStill
     \/ machine = "hash"   /\ HashInit  /\ KeyStill
     \/ machine = "tables" /\ KeyStill  /\ HashStill

MCNext ==
  /\ UNCHANGED machine
  /\ \/ machine = "key"    /\ CodecNext      /\ UNCHANGED <<hashVars, vars>>
     \/ machine = "hash"   /\ HashNext       /\ UNCHANGED <<codecVars, vars>>
     \/ machine = "tables" /\ DocumentedNext /\ UNCHANGED <<codecVars, hashVars>>

MCSpec == MCInit /\ [][MCNext]_<<machine, codecVars, hashVars, vars>> /\ Fairness
=============================================================================
