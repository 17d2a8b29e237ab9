------------------------------- MODULE Sha512 -------------------------------
(***************************************************************************)
(* sha512.c: how crypto_hash_sha512 cuts and pads its input, and which     *)
(* words crypto_hashblocks_sha512 gives to the eighty rounds, expanded in  *)
(* place in sixteen variables.                                             *)
(*                                                                         *)
(* The rounds themselves (F with its constants) are left out: what they    *)
(* are given is modelled, not what they compute.  Byte k of the input is   *)
(* written Input(k), which no other byte equals; Unset is what a local     *)
(* array holds before it is written.                                       *)
(***************************************************************************)
EXTENDS Integers, Sequences

CONSTANT Lengths \* of the inputs, in bytes

\* x >> n, in four steps: TLC has no 2^31.
Shr(x, n) ==
  LET d == n \div 4
  IN  (((x \div 2 ^ d) \div 2 ^ d) \div 2 ^ d) \div 2 ^ (n - 3 * d)

\* An unsigned long long holds them.
ASSUME LengthsAssumption == \A n \in Lengths : n \in Nat /\ Shr(n, 64) = 0

VARIABLES
  bytes,  \* the length of the input
  inlen,  \* what is left of it
  at,     \* the position of in
  src,    \* what in points into: the caller's input or padded
  left,   \* inlen of crypto_hashblocks_sha512
  padded,
  w,      \* number of the word in each of w0 .. w15; <<>> between blocks
  rounds, \* the numbers of the words that the rounds of this block took
  fed,    \* the blocks hashed: where each was read
  pc

hashVars == <<bytes, inlen, at, src, left, padded, w, rounds, fed, pc>>

Input(k) == 256 + k
Unset    == -1
Byte(from, k) ==
  IF from = "padded" THEN padded[k] ELSE IF k < bytes THEN Input(k) ELSE Unset

-----------------------------------------------------------------------------
(* crypto_hashblocks_sha512. *)

\* sigma1(w14) + w9 + sigma0(w1) + w0: the word that the schedule's
\* recurrence gives, if the variables hold the words that it needs.
Recurrence(ws, j) ==
  LET t == ws[j] + 16
  IN  IF /\ ws[(j + 14) % 16] = t - 2
         /\ ws[(j + 9) % 16] = t - 7
         /\ ws[(j + 1) % 16] = t - 15
      THEN t ELSE -1

\* M(w0,w14,w9,w1), for the variable j.
M(ws, j) == [ws EXCEPT ![j] = Recurrence(ws, j)]

EXPAND(ws) ==
  LET four(xs, j) == M(M(M(M(xs, j), j + 1), j + 2), j + 3)
  IN  four(four(four(four(ws, 0), 4), 8), 12)

\* while (inlen >= 128)
MoreBlocks == left >= 128

\* w0 .. w15 are loaded from in.
LoadBlock ==
  /\ pc = "blocks" /\ w = <<>> /\ MoreBlocks
  /\ w' = [j \in 0 .. 15 |-> j] /\ rounds' = <<>>
  /\ UNCHANGED <<bytes, inlen, at, src, left, padded, fed, pc>>

\* F(w0,..) to F(w15,..).
Sixteen ==
  /\ pc = "blocks" /\ w # <<>> /\ Len(rounds) < 80
  /\ rounds' = rounds \o [j \in 1 .. 16 |-> w[j - 1]]
  /\ w' = IF Len(rounds) < 64 THEN EXPAND(w) ELSE w
  /\ UNCHANGED <<bytes, inlen, at, src, left, padded, fed, pc>>

\* The state is added up; in += 128; inlen -= 128.
EndBlock ==
  /\ pc = "blocks" /\ w # <<>> /\ Len(rounds) = 80
  /\ fed' = Append(fed, [from |-> src, at |-> at])
  /\ at' = at + 128 /\ left' = left - 128
  /\ w' = <<>>
  /\ UNCHANGED <<bytes, inlen, src, padded, rounds, pc>>

ReturnBlocks ==
  /\ pc = "blocks" /\ w = <<>> /\ ~MoreBlocks
  /\ pc' = IF src = "in" THEN "pad" ELSE "done"
  /\ UNCHANGED <<bytes, inlen, at, src, left, padded, w, rounds, fed>>

-----------------------------------------------------------------------------
(* crypto_hash_sha512. *)

\* The nine bytes of the length: bytes >> 61, bytes >> 53 ... bytes << 3.
LengthBytes(x, j) == (IF j = 8 THEN x * 8 ELSE Shr(x, 61 - 8 * j)) % 256

\* Mutant of OneBlock: <=.
OneBlockMore(n) == n <= 112

OneBlock(n) == n < 112

\* The array of 256 bytes after the branch that n takes.
Padding(n) ==
  LET length == IF OneBlock(n) THEN 119 ELSE 247
  IN  [k \in 0 .. 255 |->
         IF k >= length /\ k <= length + 8 THEN LengthBytes(bytes, k - length)
         ELSE IF k < n THEN Byte("in", bytes - n + k)
         ELSE IF k = n THEN 128
         ELSE IF k < length THEN 0
         ELSE Unset]

\* in += inlen; inlen &= 127; in -= inlen; then padded is filled and hashed.
Pad ==
  /\ pc = "pad"
  /\ inlen' = inlen % 128
  /\ padded' = Padding(inlen')
  /\ src' = "padded" /\ at' = 0
  /\ left' = IF OneBlock(inlen') THEN 128 ELSE 256
  /\ pc' = "blocks"
  /\ UNCHANGED <<bytes, w, rounds, fed>>

HashInit ==
  /\ bytes \in Lengths /\ inlen = bytes /\ left = bytes
  /\ at = 0 /\ src = "in" /\ padded = [k \in 0 .. 255 |-> Unset]
  /\ w = <<>> /\ rounds = <<>> /\ fed = <<>> /\ pc = "blocks"

HashNext == LoadBlock \/ Sixteen \/ EndBlock \/ ReturnBlocks \/ Pad

HashSpec == HashInit /\ [][HashNext]_hashVars

-----------------------------------------------------------------------------

\* The padding of the standard: a bit 1, as few bits 0 as fill the last
\* block, and the length in bits as a big-endian number of 128 bits.
Standard(n) ==
  LET zeros  == (111 - n) % 128
      length == [j \in 1 .. 16 |-> Shr(8 * n, 8 * (16 - j)) % 256]
  IN  [k \in 1 .. n |-> Input(k - 1)] \o <<128>> \o [j \in 1 .. zeros |-> 0] \o length

(***************************************************************************)
(* The blocks hashed are the padded message of the standard, every byte of *)
(* it once and in order, whichever branch of the padding it takes and      *)
(* wherever the input ends, and no byte of padded is used before it is     *)
(* set; and round t of each block takes word t of the schedule, although   *)
(* EXPAND overwrites the sixteen variables one by one as it goes.          *)
(***************************************************************************)
HashesPaddedMessage ==
  /\ \A t \in DOMAIN rounds : rounds[t] = t - 1
  /\ pc = "done" =>
       LET message == Standard(bytes)
       IN  /\ Len(message) = 128 * Len(fed)
           /\ \A n \in DOMAIN fed, j \in 1 .. 128 :
                Byte(fed[n].from, fed[n].at + j - 1) = message[128 * (n - 1) + j]
=============================================================================
