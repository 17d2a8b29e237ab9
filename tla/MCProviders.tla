----------------------------- MODULE MCProviders -----------------------------
(***************************************************************************)
(* The two providers, Ref10 and JRubyProvider, and the library on top,     *)
(* RubyApi.  The run starts one of the three machines; the others stand    *)
(* still.                                                                  *)
(*                                                                         *)
(* The base point has order 17, Words have 8 bits, and the encoding is the *)
(* identity on points; some Words denote no point, others are second       *)
(* encodings of one, and slide drops the carry of scalars from 2^255 on.   *)
(*                                                                         *)
(* The library's caller starts with a seed in a multibyte encoding, and    *)
(* may write over any string a keypair whose halves do not belong          *)
(* together, another seed, the multibyte twin of the seed's keypair, and   *)
(* four Words that are 64 characters.  Or it starts with a public key that *)
(* is no point and a signature.                                            *)
(***************************************************************************)
EXTENDS Ref10, JRubyProvider, RubyApi

VARIABLE machine

-----------------------------------------------------------------------------

MCL   == 17
MCTop == 64

\* A polynomial hash into 16 bits, good enough to tell inputs apart.
MCH(s) ==
  LET h[n \in 0 .. Len(s)] ==
        IF n = 0 THEN (Len(s) * 12007) % 65536
        ELSE (h[n - 1] * 31 + s[n] * 523 + 7919) % 65536
  IN  h[Len(s)]

MCEncodePoint == [p \in 0 .. 8 * MCL - 1 |-> p]

MCDecodePoint ==
  [w \in 0 .. 4 * MCTop - 1 |->
     IF w < 8 * MCL THEN w ELSE IF w % 2 = 0 THEN w - 8 * MCL ELSE NoPoint]

MCSlide == [w \in 0 .. 4 * MCTop - 1 |-> IF w < 3 * MCTop THEN w ELSE w - 4 * MCTop]

MCSeeds    == {<<3>>}
MCMessages == {<<>>, <<9>>}
MCGarbage  == {0, 255}

\* The second encoding of the public key of the seed, and its signature of
\* the empty message with another S of the same residue, beyond the bound of
\* open.c, which is also a keypair whose halves do not belong together.
Again  == Keypair(3)[2] + 8 * MCL
Beyond == LET sig == Signature(Keypair(3), <<>>)
          IN  <<sig[1], (sig[2] % MCL) + 3 * MCL>>

MCStrays == {<<141>>, <<Again>>, Beyond}

-----------------------------------------------------------------------------

MCChars == [w \in 0 .. 4 * MCTop - 1 |->
              IF w = 3 THEN 32 ELSE IF w = 77 THEN 16 ELSE 31]
MCAscii == {3}

Multibyte(words) == [words |-> words, enc |-> "multibyte"]

MCCallers  == <<Multibyte(<<3>>)>>
MCContents == {Multibyte(Keypair(3)), Binary(<<5, 8>>), Binary(<<5>>),
               Multibyte(<<77, 77, 77, 77>>)}
MCTexts    == {<<>>}

MCForeign == <<Binary(<<137>>), Binary(<<8, 5>>)>>

-----------------------------------------------------------------------------

\* Bounds: the second encoding is not given to the C provider, to which it is
\* a key like another; and of the messages, the Java provider gets the empty one.
Ref10Bound == \A j \in DOMAIN args'  : args'[j]  # <<Again>>
JavaBound  == \A j \in DOMAIN given' : given'[j] # <<9>>

MCInit ==
  /\ Init /\ JavaInit /\ RubyInit
  /\ \/ machine = "Ref10" /\ provider = "Ref10"
     \/ machine = "JRuby" /\ provider = "JRuby" /\ loc.sk = 0
     \/ machine = "Ruby"  /\ loc.sk = 0

MCNext ==
  /\ UNCHANGED machine
  /\ \/ machine = "Ref10" /\ Next /\ Ref10Bound    /\ UNCHANGED <<javaVars, rubyVars>>
     \/ machine = "JRuby" /\ JavaNext /\ JavaBound /\ UNCHANGED <<vars, rubyVars>>
     \/ machine = "Ruby"  /\ RubyNext              /\ UNCHANGED <<vars, javaVars>>

MCSpec == MCInit /\ [][MCNext]_<<machine, vars, javaVars, rubyVars>>
=============================================================================
