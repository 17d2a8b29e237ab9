---------------------------- MODULE RubyStrings ----------------------------
(***************************************************************************)
(* Ruby's strings, as far as the library looks at them: their bytes, in    *)
(* Words, and an encoding under which they are counted and compared.       *)
(***************************************************************************)
EXTENDS EdDSA, FiniteSetsExt

CONSTANTS
  Chars,      \* how many characters a Word is in a multibyte encoding
  Ascii,      \* the Words with 7-bit bytes only
  Callers,    \* the strings the caller starts with
  Contents,   \* what callers write to strings
  Texts       \* messages

Encodings == {"binary", "multibyte"}

RubyString == [words : Seq(Word), enc : Encodings]

ASSUME RubyAssumption ==
  /\ Chars \in [Word -> 1 .. 32]
  /\ Ascii \subseteq Word /\ \A w \in Ascii : Chars[w] = 32
  /\ Callers \in Seq(RubyString) /\ Contents \subseteq RubyString
  /\ Texts \subseteq Seq(Word)

Binary(words) == [words |-> words, enc |-> "binary"]

\* String#bytesize in Words, and String#length in characters
Bytesize(s) == Len(s.words)

Length(s) ==
  IF s.enc = "binary" THEN 32 * Len(s.words)
  ELSE MapThenSumSet(LAMBDA i : Chars[s.words[i]], DOMAIN s.words)

\* String#==: strings in different encodings are only equal if 7-bit.
Equal(s, t) ==
  /\ s.words = t.words
  /\ s.enc = t.enc \/ \A i \in DOMAIN s.words : s.words[i] \in Ascii
=============================================================================
