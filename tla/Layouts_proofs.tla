--------------------------- MODULE Layouts_proofs ---------------------------
(***************************************************************************)
(* How data is laid out: tables, keys and hashed bytes.  Precomputation is *)
(* safe for readers that keep to its documented contract, for any number   *)
(* of threads, elements, calls and entries.  The encodings of Java keys    *)
(* decode as documented and migrate, for any byte strings and keys.        *)
(* crypto_hash_sha512 hashes the padded message, for any length.           *)
(***************************************************************************)
EXTENDS Precompute, KeyCodec, Sha512, TLAPS, SequenceTheorems

-----------------------------------------------------------------------------
(* Precomputation. *)

InsidePcs == {"single", "newSingle", "fillSingle", "double", "newDouble", "fillDouble", "read"}

CallRecords == [pc : {"none"}] \cup PrecomputeCalls \cup MultiplyCalls \cup DoubleCalls

-----------------------------------------------------------------------------
(* Calls. *)

(***************************************************************************)
(* What a running call is.                                                 *)
(***************************************************************************)
LEMMA RunningCall ==
  ASSUME TypeOK, NEW t \in Threads, call[t].pc # "none"
  PROVE  /\ call[t] \in PrecomputeCalls \cup MultiplyCalls \cup DoubleCalls
         /\ call[t].this \in Elements /\ call[t].i \in Nat
         /\ call[t].pc \in InsidePcs \ {"read"} =>
              call[t] \in PrecomputeCalls /\ call[t].single \in BOOLEAN
  <1>1. call[t] \in CallRecords
    BY DEF TypeOK, CallRecords
  <1> QED  BY <1>1 DEF CallRecords, PrecomputeCalls, MultiplyCalls, DoubleCalls, Outcomes, InsidePcs

\* The call of t goes to p with counter n; all else about calls stays.
Moves(t, p, n) ==
  /\ call' \in [Threads -> CallRecords]
  /\ \A u \in Threads : u # t => call'[u] = call[u]
  /\ call'[t].pc = p /\ call'[t].i = n
  /\ call'[t].fn = call[t].fn /\ call'[t].this = call[t].this
  /\ call[t].fn = "precompute" => call'[t].single = call[t].single
  /\ call[t].fn = "doubleScalarMultiplyVariableTime" => call'[t].A = call[t].A

\* The places a call of fn goes to.
Places(fn) == IF fn = "precompute"
              THEN {"enter"} \cup (InsidePcs \ {"read"}) \cup Outcomes
              ELSE {"enter", "read"} \cup Outcomes

(***************************************************************************)
(* Goto, Leave and counting on move the call.                              *)
(***************************************************************************)
LEMMA CallMoves ==
  ASSUME TypeOK, NEW t \in Threads, call[t].pc # "none",
         NEW p \in Places(call[t].fn), NEW n \in Nat,
         \/ Goto(t, p) /\ n = 1
         \/ call' = [call EXCEPT ![t].pc = p] /\ n = call[t].i
         \/ call' = [call EXCEPT ![t].i = n] /\ p = call[t].pc
  PROVE  Moves(t, p, n)
  <1>0. PICK c : c = call[t]
    OBVIOUS
  <1>1. c \in PrecomputeCalls \cup MultiplyCalls \cup DoubleCalls /\ p \in Places(c.fn)
    BY <1>0, RunningCall
  <1>2. call \in [Threads -> CallRecords]
    BY DEF TypeOK, CallRecords
  <1>3. PICK d : /\ call' = [call EXCEPT ![t] = d]
                 /\ \/ d = [[c EXCEPT !.pc = p] EXCEPT !.i = n]
                    \/ d = [c EXCEPT !.pc = p] /\ n = c.i
                    \/ d = [c EXCEPT !.i = n] /\ p = c.pc
    BY <1>0, <1>2 DEF Goto
  <1>4. /\ d \in CallRecords /\ d.pc = p /\ d.i = n
        /\ d.fn = c.fn /\ d.this = c.this
        /\ c.fn = "precompute" => d.single = c.single
        /\ c.fn = "doubleScalarMultiplyVariableTime" => d.A = c.A
    <2>1. \/ d = [[c EXCEPT !.pc = p] EXCEPT !.i = n]
          \/ d = [c EXCEPT !.pc = p] /\ n = c.i
          \/ d = [c EXCEPT !.i = n] /\ p = c.pc
      BY <1>3
    <2>2. CASE c \in PrecomputeCalls
      BY <1>1, <2>1, <2>2 DEF PrecomputeCalls, CallRecords, Places, InsidePcs
    <2>3. CASE c \in MultiplyCalls
      BY <1>1, <2>1, <2>3 DEF MultiplyCalls, CallRecords, Places
    <2>4. CASE c \in DoubleCalls
      BY <1>1, <2>1, <2>4 DEF DoubleCalls, CallRecords, Places
    <2> QED  BY <1>1, <2>2, <2>3, <2>4
  <1>5. call' \in [Threads -> CallRecords] /\ call'[t] = d
        /\ \A u \in Threads : u # t => call'[u] = call[u]
    BY <1>2, <1>3, <1>4
  <1> QED  BY <1>0, <1>4, <1>5 DEF Moves

-----------------------------------------------------------------------------
(* Monitors. *)

(***************************************************************************)
(* The thread inside the monitor of an element is the only one there.      *)
(***************************************************************************)
LEMMA Alone ==
  ASSUME Excluded, NEW t \in Threads, Inside(t), NEW u \in Threads, Inside(u),
         call[u].this = call[t].this
  PROVE  u = t
  BY DEF Excluded

(***************************************************************************)
(* It keeps the monitor while it stays inside ...                          *)
(***************************************************************************)
LEMMA StayExcluded ==
  ASSUME TypeOK, Excluded, NEW t \in Threads, Inside(t), NEW p \in InsidePcs, NEW n,
         Moves(t, p, n), monitor' = monitor
  PROVE  Excluded'
  <1>1. \A u \in Threads : (Inside(u)' <=> Inside(u)) /\ call'[u].this = call[u].this
    BY DEF Moves, Inside, Idle, InsidePcs
  <1>2. \A e \in Elements : monitor[e] \subseteq Threads
    BY DEF TypeOK
  <1> QED  BY <1>1, <1>2 DEF Excluded

(***************************************************************************)
(* ... and gives it up with its outcome.                                   *)
(***************************************************************************)
LEMMA LeaveExcluded ==
  ASSUME TypeOK, Excluded, NEW t \in Threads, Inside(t), NEW p \in Outcomes, NEW n,
         Moves(t, p, n), monitor' = [monitor EXCEPT ![call[t].this] = @ \ {t}]
  PROVE  Excluded'
  <1>1. \A u \in Threads : /\ Inside(u)' <=> Inside(u) /\ u # t
                           /\ call'[u].this = call[u].this
    BY DEF Moves, Inside, Idle, Outcomes
  <1>2. \A e \in Elements : monitor[e] \subseteq Threads
    BY DEF TypeOK
  <1>3. call[t].this \in Elements
    BY RunningCall DEF Inside, Idle
  <1>4. \A e \in Elements : monitor'[e] = IF e = call[t].this THEN {} ELSE monitor[e]
    BY <1>3 DEF Excluded, TypeOK
  <1>5. ASSUME NEW u \in Threads, Inside(u)' PROVE monitor'[call'[u].this] = {u}
    <2>1. Inside(u) /\ u # t /\ call'[u].this = call[u].this
      BY <1>1, <1>5
    <2>2. call[u].this # call[t].this
      BY <2>1, Alone
    <2>3. call[u].this \in Elements
      BY <2>1, RunningCall DEF Inside, Idle
    <2> QED  BY <1>4, <2>1, <2>2, <2>3 DEF Excluded
  <1>6. ASSUME NEW e \in Elements, NEW u \in monitor'[e]
        PROVE  Inside(u)' /\ call'[u].this = e
    <2>1. u \in Threads /\ u \in monitor[e] /\ e # call[t].this
      BY <1>2, <1>4, <1>6
    <2> QED  BY <1>1, <2>1 DEF Excluded
  <1> QED  BY <1>5, <1>6 DEF Excluded

-----------------------------------------------------------------------------
(* Tables. *)

(***************************************************************************)
(* A table that the thread inside is not filling is absent or whole.       *)
(***************************************************************************)
LEMMA AtRest ==
  ASSUME Excluded, Filling, NEW t \in Threads, Inside(t), call[t].this \in P3s
  PROVE  LET e == call[t].this
         IN  /\ call[t].pc # "fillSingle" => precmp[e] = absent \/ Complete(precmp[e], Single)
             /\ call[t].pc # "fillDouble" =>
                  dblPrecmp[e] = absent \/ Complete(dblPrecmp[e], Double)
  <1> DEFINE e == call[t].this
  <1>1. ASSUME NEW u \in Threads, call[u].pc \in {"fillSingle", "fillDouble"},
               call[u].this = e
        PROVE  u = t
    <2>1. Inside(u)
      BY <1>1 DEF Inside, Idle
    <2> QED  BY <1>1, <2>1, Alone
  <1>2. Filled(precmp[e], Single, e, "fillSingle") /\ Filled(dblPrecmp[e], Double, e, "fillDouble")
    BY DEF Filling
  <1> QED  BY <1>1, <1>2 DEF Filled

(***************************************************************************)
(* A step of the thread inside keeps Filling when it leaves the tables of  *)
(* its element absent, whole, or filled as far as its own counter says.    *)
(***************************************************************************)
LEMMA FillingKept ==
  ASSUME TypeOK, Excluded, Filling, NEW t \in Threads, Inside(t),
         NEW p \in InsidePcs \cup Outcomes, NEW n, Moves(t, p, n),
         \A x \in Elements : x # call[t].this => precmp'[x] = precmp[x] /\ dblPrecmp'[x] = dblPrecmp[x],
         call[t].this \in P3s =>
           /\ IF p = "fillSingle"
              THEN n \in 1 .. Single /\ precmp'[call[t].this] = [there |-> TRUE, filled |-> 1 .. n - 1]
              ELSE precmp'[call[t].this] = absent \/ Complete(precmp'[call[t].this], Single)
           /\ IF p = "fillDouble"
              THEN n \in 1 .. Double /\ dblPrecmp'[call[t].this] = [there |-> TRUE, filled |-> 1 .. n - 1]
              ELSE dblPrecmp'[call[t].this] = absent \/ Complete(dblPrecmp'[call[t].this], Double)
  PROVE  Filling'
  <1> DEFINE e == call[t].this
  <1>1. ASSUME NEW u \in Threads, u # t, call[u].pc \in {"fillSingle", "fillDouble"}
        PROVE  call[u].this # e /\ call[u].this \in Elements
    <2>1. Inside(u) /\ call[u].pc # "none"
      BY <1>1 DEF Inside, Idle
    <2> QED  BY <1>1, <2>1, Alone, RunningCall
  <1>2. \A u \in Threads : call'[u].this = call[u].this /\ (u # t => call'[u] = call[u])
    BY DEF Moves
  <1>3. call'[t].pc = p /\ call'[t].i = n /\ P3s \subseteq Elements
    BY DEF Moves, Elements
  <1>4. ASSUME NEW x \in P3s
        PROVE  /\ Filled(precmp[x], Single, x, "fillSingle")'
               /\ Filled(dblPrecmp[x], Double, x, "fillDouble")'
    <2>1. CASE x = e
      <3>1. \/ p = "fillSingle" \/ precmp'[x] = absent \/ Complete(precmp'[x], Single)
        BY <1>4, <2>1
      <3>2. \/ p = "fillDouble" \/ dblPrecmp'[x] = absent \/ Complete(dblPrecmp'[x], Double)
        BY <1>4, <2>1
      <3> QED  BY <1>2, <1>3, <2>1, <3>1, <3>2 DEF Filled
    <2>2. CASE x # e
      <3>1. Filled(precmp[x], Single, x, "fillSingle") /\ Filled(dblPrecmp[x], Double, x, "fillDouble")
        BY DEF Filling
      <3>2. precmp'[x] = precmp[x] /\ dblPrecmp'[x] = dblPrecmp[x]
        BY <1>3, <2>2
      <3> QED  BY <1>2, <2>2, <3>1, <3>2 DEF Filled
    <2> QED  BY <2>1, <2>2
  <1>5. ASSUME NEW u \in Threads, call'[u].this \in P3s
        PROVE  /\ call'[u].pc = "fillSingle" =>
                    /\ call'[u].i \in 1 .. Single
                    /\ precmp'[call'[u].this] = [there |-> TRUE, filled |-> 1 .. call'[u].i - 1]
               /\ call'[u].pc = "fillDouble" =>
                    /\ call'[u].i \in 1 .. Double
                    /\ dblPrecmp'[call'[u].this] = [there |-> TRUE, filled |-> 1 .. call'[u].i - 1]
    <2>1. CASE u = t
      BY <1>2, <1>3, <1>5, <2>1
    <2>2. CASE u # t
      <3>1. call'[u] = call[u]
        BY <1>2, <2>2
      <3>2. CASE call[u].pc \in {"fillSingle", "fillDouble"}
        <4>1. /\ precmp'[call[u].this] = precmp[call[u].this]
              /\ dblPrecmp'[call[u].this] = dblPrecmp[call[u].this]
          BY <1>1, <2>2, <3>2
        <4> QED  BY <1>5, <3>1, <4>1 DEF Filling
      <3> QED  BY <3>1, <3>2
    <2> QED  BY <2>1, <2>2
  <1> QED  BY <1>4, <1>5 DEF Filling

(***************************************************************************)
(* No other thread undoes what one has found before it assigns a table:    *)
(* only the thread inside writes to the tables of its element.             *)
(***************************************************************************)
LEMMA TestedKept ==
  ASSUME TypeOK, Excluded, Tested, NEW t \in Threads, Inside(t), NEW p, NEW n, Moves(t, p, n),
         \A x \in Elements : x # call[t].this => precmp'[x] = precmp[x] /\ dblPrecmp'[x] = dblPrecmp[x],
         p = "newSingle" => ~precmp'[call[t].this].there,
         p = "newDouble" => ~dblPrecmp'[call[t].this].there
  PROVE  Tested'
  <1> SUFFICES ASSUME NEW u \in Threads
               PROVE  /\ call'[u].pc = "newSingle" => ~precmp'[call'[u].this].there
                      /\ call'[u].pc = "newDouble" => ~dblPrecmp'[call'[u].this].there
    BY DEF Tested
  <1>1. CASE u = t
    BY <1>1 DEF Moves
  <1>2. CASE u # t /\ call[u].pc \in {"newSingle", "newDouble"}
    <2>1. Inside(u) /\ call[u].pc # "none"
      BY <1>2 DEF Inside, Idle
    <2>2. call[u].this # call[t].this /\ call[u].this \in Elements
      BY <1>2, <2>1, Alone, RunningCall
    <2> QED  BY <1>2, <2>2 DEF Moves, Tested
  <1>3. CASE u # t /\ call[u].pc \notin {"newSingle", "newDouble"}
    BY <1>3 DEF Moves
  <1> QED  BY <1>1, <1>2, <1>3

\* Whole tables stay whole.
Kept == \A e \in P3s :
  /\ Complete(precmp[e], Single) => Complete(precmp'[e], Single)
  /\ Complete(dblPrecmp[e], Double) => Complete(dblPrecmp'[e], Double)

(***************************************************************************)
(* What is behind threads and returns stays behind them.                   *)
(***************************************************************************)
LEMMA BehindKept ==
  ASSUME TypeOK, Behind, Kept, NEW t \in Threads, NEW p, NEW n, Moves(t, p, n),
         call[t].pc # "none",
         p \in PastSingle /\ call[t].this \in P3s /\ call[t].single
           => call[t].fn = "precompute" /\ Complete(precmp'[call[t].this], Single),
         p \in PastSingle => call[t].fn = "precompute",
         \/ returned' = returned
         \/ /\ returned' = returned \cup {<<call[t].this, call[t].single>>}
            /\ call[t].this \in P3s =>
                 /\ Complete(dblPrecmp'[call[t].this], Double)
                 /\ call[t].single => Complete(precmp'[call[t].this], Single)
  PROVE  Behind'
  <1>1. ASSUME NEW u \in Threads, call'[u].pc \in PastSingle,
               call'[u].this \in P3s, call'[u].single
        PROVE  Complete(precmp'[call'[u].this], Single)
    <2>1. CASE u = t
      BY <1>1, <2>1 DEF Moves
    <2>2. CASE u # t
      BY <1>1, <2>2 DEF Moves, Behind, Kept
    <2> QED  BY <2>1, <2>2
  <1>2. ASSUME NEW e \in P3s, NEW single \in BOOLEAN, <<e, single>> \in returned'
        PROVE  Complete(dblPrecmp'[e], Double) /\ (single => Complete(precmp'[e], Single))
    <2>1. CASE <<e, single>> \in returned
      BY <2>1 DEF Behind, Kept
    <2>2. CASE <<e, single>> \notin returned
      <3>1. e = call[t].this /\ single = call[t].single
        BY <1>2, <2>2
      <3> QED  BY <1>2, <2>2, <3>1
    <2> QED  BY <2>1, <2>2
  <1> QED  BY <1>1, <1>2 DEF Behind, Complete

(***************************************************************************)
(* Readers keep what they were given.                                      *)
(***************************************************************************)
LEMMA ReadersKept ==
  ASSUME TypeOK, Readers, Kept, NEW t \in Threads, ~Idle(t), NEW p, NEW n, Moves(t, p, n),
         call[t].fn = "scalarMultiply" => n \in 1 .. Single
  PROVE  Readers'
  <1> SUFFICES ASSUME NEW u \in Threads, ~Idle(u)'
               PROVE  /\ call'[u].fn = "scalarMultiply" =>
                           /\ call'[u].this \in P3s /\ Complete(precmp'[call'[u].this], Single)
                           /\ call'[u].i \in 1 .. Single
                      /\ call'[u].fn = "doubleScalarMultiplyVariableTime" =>
                           \A e \in {call'[u].A, call'[u].this} :
                              e \in P3s /\ Complete(dblPrecmp'[e], Double)
    BY DEF Readers, Complete
  <1>1. CASE u = t
    BY <1>1 DEF Moves, Readers, Kept
  <1>2. CASE u # t
    <2>1. call'[u] = call[u] /\ ~Idle(u)
      BY <1>2 DEF Moves, Idle
    <2> QED  BY <2>1 DEF Readers, Kept
  <1> QED  BY <1>1, <1>2

-----------------------------------------------------------------------------
(* Steps. *)

(***************************************************************************)
(* The invariant holds initially.                                          *)
(***************************************************************************)
LEMMA InitIInv == Init => IInv
  <1> SUFFICES ASSUME Init PROVE IInv
    OBVIOUS
  <1>1. \A t \in Threads : call[t].pc = "none" /\ Idle(t)
    BY DEF Init, Idle
  <1>2. \A e \in Elements : monitor[e] = {} /\ precmp[e] = absent /\ dblPrecmp[e] = absent
    BY DEF Init
  <1>3. TypeOK
    BY PrecomputeAssumption DEF Init, TypeOK, Table, absent
  <1>4. Excluded /\ Tested /\ Readers /\ NoNullRead
    BY <1>1, <1>2 DEF Excluded, Inside, Tested, Readers, NoNullRead
  <1>5. P3s \subseteq Elements
    BY DEF Elements
  <1>6. Filling
    BY <1>1, <1>2, <1>5 DEF Filling, Filled
  <1>7. Behind
    BY <1>1 DEF Init, Behind, PastSingle
  <1> QED  BY <1>3, <1>4, <1>6, <1>7 DEF IInv

(***************************************************************************)
(* A new call, of an element that was precomputed if it is a reader's.     *)
(***************************************************************************)
LEMMA BeginStep ==
  ASSUME IInv, NEW t \in Threads, NEW c \in PrecomputeCalls \cup MultiplyCalls \cup DoubleCalls,
         Begin(t, c), c.pc = "enter",
         c.fn = "scalarMultiply" =>
           c.this \in P3s /\ Complete(precmp[c.this], Single) /\ c.i \in 1 .. Single,
         c.fn = "doubleScalarMultiplyVariableTime" =>
           \A e \in {c.A, c.this} : e \in P3s /\ Complete(dblPrecmp[e], Double)
  PROVE  IInv'
  <1>1. /\ Idle(t) /\ made[t] < Calls
        /\ call' = [call EXCEPT ![t] = c] /\ made' = [made EXCEPT ![t] = @ + 1]
        /\ UNCHANGED <<monitor, precmp, dblPrecmp, returned>>
    BY DEF Begin
  <1>2. call \in [Threads -> CallRecords] /\ c \in CallRecords
    BY DEF IInv, TypeOK, CallRecords
  <1>3. /\ call' \in [Threads -> CallRecords] /\ call'[t] = c
        /\ \A u \in Threads : u # t => call'[u] = call[u]
    BY <1>1, <1>2
  <1>4. TypeOK'
    <2>1. made' \in [Threads -> 0 .. Calls]
      BY <1>1, PrecomputeAssumption DEF IInv, TypeOK
    <2> QED  BY <1>1, <1>3, <2>1 DEF IInv, TypeOK, CallRecords
  <1>5. \A u \in Threads : Inside(u)' <=> Inside(u) /\ u # t
    BY <1>1, <1>3 DEF Inside, Idle
  <1>6. ~Inside(t)
    BY <1>1 DEF Inside
  <1>7. Excluded'
    <2>1. \A e \in Elements : monitor[e] \subseteq Threads
      BY DEF IInv, TypeOK
    <2> QED  BY <1>1, <1>3, <1>5, <1>6, <2>1 DEF IInv, Excluded
  <1>8. Filling'
    <2>1. ASSUME NEW u \in Threads
          PROVE  /\ call'[u].pc = "fillSingle" => u # t
                 /\ call'[u].pc = "fillDouble" => u # t
                 /\ call[u].pc \in {"fillSingle", "fillDouble"} => u # t
      BY <1>1, <1>3 DEF Idle
    <2>2. ASSUME NEW x \in P3s
          PROVE  /\ Filled(precmp[x], Single, x, "fillSingle")'
                 /\ Filled(dblPrecmp[x], Double, x, "fillDouble")'
      BY <1>1, <1>3, <2>1 DEF IInv, Filling, Filled
    <2> QED  BY <1>1, <1>3, <2>1, <2>2 DEF IInv, Filling
  <1>9. Behind'
    BY <1>1, <1>3 DEF IInv, Behind, PastSingle
  <1>10. Readers'
    BY <1>1, <1>3 DEF IInv, Readers, Idle
  <1>11. NoNullRead'
    BY <1>3 DEF IInv, NoNullRead
  <1>12. Tested'
    BY <1>1, <1>3 DEF IInv, Tested
  <1> QED  BY <1>4, <1>7, <1>8, <1>9, <1>10, <1>11, <1>12 DEF IInv

(***************************************************************************)
(* Entering the monitor.                                                   *)
(***************************************************************************)
LEMMA EnterStep == ASSUME IInv, NEW t \in Threads, Enter(t) PROVE IInv'
  <1> DEFINE e == call[t].this
             p == IF call[t].fn = "precompute" THEN "single" ELSE "read"
  <1>1. /\ call[t].pc = "enter" /\ monitor[e] = {}
        /\ monitor' = [monitor EXCEPT ![e] = {t}] /\ Goto(t, p)
        /\ UNCHANGED <<precmp, dblPrecmp, made, returned>>
    BY DEF Enter
  <1>2. TypeOK /\ ~Idle(t) /\ call[t].pc # "none"
    BY <1>1 DEF IInv, Idle
  <1>3. e \in Elements
    BY <1>2, RunningCall
  <1>4. p \in Places(call[t].fn) /\ p \in {"single", "read"}
    BY DEF Places, InsidePcs
  <1> HIDE DEF e, p
  <1>5. Moves(t, p, 1)
    BY <1>1, <1>2, <1>4, CallMoves
  <1>6. TypeOK'
    BY <1>1, <1>2, <1>3, <1>5 DEF TypeOK, Moves, CallRecords
  <1>7. \A u \in Threads : /\ Inside(u)' <=> Inside(u) \/ u = t
                           /\ call'[u].this = call[u].this
    BY <1>4, <1>5 DEF Moves, Inside, Idle
  <1>8. Excluded'
    <2>1. \A x \in Elements : /\ monitor[x] \subseteq Threads
                              /\ monitor'[x] = IF x = e THEN {t} ELSE monitor[x]
      BY <1>1, <1>2 DEF TypeOK
    <2>2. ASSUME NEW u \in Threads, Inside(u)' PROVE monitor'[call'[u].this] = {u}
      <3>1. CASE u = t
        BY <1>3, <1>7, <2>1, <3>1 DEF e
      <3>2. CASE u # t
        <4>1. Inside(u) /\ monitor[call[u].this] = {u} /\ call[u].this \in Elements
          <5>1. Inside(u) /\ call[u].pc # "none"
            BY <1>7, <2>2, <3>2 DEF Inside, Idle
          <5> QED  BY <1>2, <5>1, RunningCall DEF IInv, Excluded
        <4>2. call[u].this # e
          BY <1>1, <4>1
        <4> QED  BY <1>7, <2>1, <4>1, <4>2
      <3> QED  BY <3>1, <3>2
    <2>3. ASSUME NEW x \in Elements, NEW u \in monitor'[x] PROVE Inside(u)' /\ call'[u].this = x
      BY <1>7, <2>1, <2>3 DEF IInv, Excluded, e
    <2> QED  BY <2>2, <2>3 DEF Excluded
  <1>9. Filling'
    <2>1. \A u \in Threads : /\ call[u].pc \in {"fillSingle", "fillDouble"} =>
                                  u # t /\ call'[u] = call[u]
                             /\ call'[u].pc \in {"fillSingle", "fillDouble"} =>
                                  u # t /\ call'[u] = call[u]
      BY <1>1, <1>4, <1>5 DEF Moves
    <2>2. ASSUME NEW x \in P3s
          PROVE  /\ Filled(precmp[x], Single, x, "fillSingle")'
                 /\ Filled(dblPrecmp[x], Double, x, "fillDouble")'
      BY <1>1, <2>1 DEF IInv, Filling, Filled
    <2> QED  BY <1>1, <2>1, <2>2 DEF IInv, Filling
  <1>10. Kept
    BY <1>1 DEF Kept
  <1>11. Behind'
    BY <1>1, <1>2, <1>4, <1>5, <1>10, BehindKept DEF IInv, PastSingle
  <1>12. Readers'
    <2>1. 1 \in 1 .. Single
      BY PrecomputeAssumption
    <2> QED  BY <1>2, <1>5, <1>10, <2>1, ReadersKept DEF IInv
  <1>13. NoNullRead'
    BY <1>4, <1>5 DEF IInv, NoNullRead, Moves
  <1>14. Tested'
    BY <1>1, <1>4, <1>5 DEF IInv, Tested, Moves
  <1> QED  BY <1>6, <1>8, <1>9, <1>11, <1>12, <1>13, <1>14 DEF IInv

(***************************************************************************)
(* What a thread inside does: it stays or leaves, writes to the tables of  *)
(* its own element only, and keeps the parts above.                        *)
(***************************************************************************)
LEMMA InsideStep ==
  ASSUME IInv, NEW t \in Threads, Inside(t),
         NEW p \in InsidePcs \cup {"returned", "IllegalArgumentException"}, NEW n,
         Moves(t, p, n), made' = made,
         IF p \in InsidePcs THEN monitor' = monitor
         ELSE monitor' = [monitor EXCEPT ![call[t].this] = @ \ {t}],
         precmp' \in [Elements -> Table], dblPrecmp' \in [Elements -> Table],
         returned' \subseteq Elements \X BOOLEAN, Filling', Tested', Behind', Readers'
  PROVE  IInv'
  <1>1. TypeOK'
    <2>1. monitor' \in [Elements -> SUBSET Threads]
      BY DEF IInv, TypeOK
    <2> QED  BY <2>1 DEF IInv, TypeOK, Moves, CallRecords
  <1>2. Excluded'
    <2>1. CASE p \in InsidePcs
      BY <2>1, StayExcluded DEF IInv
    <2>2. CASE p \notin InsidePcs
      <3>1. p \in Outcomes
        BY <2>2 DEF Outcomes
      <3> QED  BY <2>2, <3>1, LeaveExcluded DEF IInv
    <2> QED  BY <2>1, <2>2
  <1>3. NoNullRead'
    BY DEF IInv, NoNullRead, Moves, InsidePcs
  <1> QED  BY <1>1, <1>2, <1>3 DEF IInv

(***************************************************************************)
(* What the steps of a thread that is inside start from.                   *)
(***************************************************************************)
LEMMA InsideFacts ==
  ASSUME IInv, NEW t \in Threads, call[t].pc \in InsidePcs
  PROVE  /\ Inside(t) /\ ~Idle(t) /\ call[t].pc # "none"
         /\ call[t].this \in Elements /\ call[t].i \in Nat
         /\ call[t].pc # "read" =>
              /\ call[t].fn = "precompute" /\ call[t].single \in BOOLEAN
              /\ Places(call[t].fn) =
                   {"enter"} \cup (InsidePcs \ {"read"}) \cup Outcomes
         /\ call[t].pc = "read" =>
              /\ call[t].fn # "precompute"
              /\ Places(call[t].fn) = {"enter", "read"} \cup Outcomes
         /\ P3s \subseteq Elements
  <1>1. TypeOK /\ call[t].pc # "none"
    BY DEF IInv, InsidePcs
  <1>2. /\ call[t] \in PrecomputeCalls \cup MultiplyCalls \cup DoubleCalls
        /\ call[t].this \in Elements /\ call[t].i \in Nat
        /\ call[t].pc \in InsidePcs \ {"read"} =>
             call[t] \in PrecomputeCalls /\ call[t].single \in BOOLEAN
    BY <1>1, RunningCall
  <1>3. call[t].pc = "read" => call[t].fn # "precompute"
    BY <1>2 DEF PrecomputeCalls, MultiplyCalls, DoubleCalls, Outcomes
  <1>4. call[t].pc # "read" => call[t].fn = "precompute"
    BY <1>2 DEF PrecomputeCalls, InsidePcs
  <1> QED  BY <1>1, <1>2, <1>3, <1>4 DEF Inside, Idle, InsidePcs, Places, Elements

(***************************************************************************)
(* Storing an entry of a table.                                            *)
(***************************************************************************)
LEMMA TableUpdates ==
  ASSUME NEW r \in Table, NEW i \in Nat
  PROVE  /\ [r EXCEPT !.filled = r.filled \cup {i}] =
              [there |-> r.there, filled |-> r.filled \cup {i}]
         /\ r.there \in BOOLEAN /\ r.filled \in SUBSET Nat
         /\ r.filled \cup {i} \in SUBSET Nat
  <1>1. r.there \in BOOLEAN /\ r.filled \in SUBSET Nat
    BY DEF Table
  <1>2. r.filled \cup {i} \in SUBSET Nat
    BY <1>1
  <1>3. PICK x \in BOOLEAN, y \in SUBSET Nat : r = [there |-> x, filled |-> y]
    BY DEF Table
  <1>4. \A z : [r EXCEPT !.filled = z] = [there |-> x, filled |-> z]
    BY <1>3
  <1>5. r.there = x /\ r.filled = y
    BY <1>3
  <1> QED  BY <1>1, <1>2, <1>4, <1>5

(***************************************************************************)
(* The first table is missing, or passed over.                             *)
(***************************************************************************)
LEMMA TestSingleStep == ASSUME IInv, NEW t \in Threads, TestSingle(t) PROVE IInv'
  <1> DEFINE e == call[t].this
             new == call[t].single /\ ~precmp[e].there
             p == IF new THEN "newSingle" ELSE "double"
  <1>1. /\ call[t].pc = "single" /\ Goto(t, p)
        /\ UNCHANGED <<monitor, precmp, dblPrecmp, made, returned>>
    BY DEF TestSingle
  <1>2. /\ Inside(t) /\ ~Idle(t) /\ call[t].pc # "none" /\ e \in Elements
        /\ call[t].fn = "precompute" /\ call[t].single \in BOOLEAN
        /\ p \in Places(call[t].fn) /\ p \in InsidePcs /\ P3s \subseteq Elements
        /\ TypeOK /\ Excluded /\ Filling /\ Tested /\ Behind /\ Readers
    BY <1>1, InsideFacts DEF InsidePcs, IInv
  <1>3. Moves(t, p, 1)
    BY <1>1, <1>2, CallMoves
  <1>4. e \in P3s => /\ precmp[e] = absent \/ Complete(precmp[e], Single)
                     /\ dblPrecmp[e] = absent \/ Complete(dblPrecmp[e], Double)
    BY <1>1, <1>2, AtRest
  <1>5. e \in P3s /\ ~new /\ call[t].single => Complete(precmp'[e], Single)
    BY <1>1, <1>2, <1>4 DEF absent
  <1>6. \/ new /\ p = "newSingle"
        \/ ~new /\ p = "double"
    OBVIOUS
  <1>7. new => ~precmp[e].there
    OBVIOUS
  <1> HIDE DEF new, e, p
  <1>8. Kept
    BY <1>1 DEF Kept
  <1>9. Filling'
    BY <1>1, <1>2, <1>3, <1>4, <1>6, FillingKept DEF e
  <1>10. Tested'
    BY <1>1, <1>2, <1>3, <1>6, <1>7, TestedKept DEF e
  <1>11. Behind'
    BY <1>1, <1>2, <1>3, <1>5, <1>6, <1>8, BehindKept DEF e, PastSingle
  <1>12. Readers'
    BY <1>2, <1>3, <1>8, ReadersKept
  <1> QED  BY <1>1, <1>2, <1>3, <1>9, <1>10, <1>11, <1>12, InsideStep DEF TypeOK

(***************************************************************************)
(* The first table is assigned: it was missing when t looked, and t has    *)
(* been alone inside since.                                                *)
(***************************************************************************)
LEMMA AllocateSingleStep == ASSUME IInv, NEW t \in Threads, AllocateSingle(t) PROVE IInv'
  <1> DEFINE e == call[t].this
  <1>1. /\ call[t].pc = "newSingle" /\ Goto(t, "fillSingle")
        /\ precmp' = [precmp EXCEPT ![e] = fresh]
        /\ UNCHANGED <<monitor, dblPrecmp, made, returned>>
    BY DEF AllocateSingle
  <1>2. /\ Inside(t) /\ ~Idle(t) /\ call[t].pc # "none" /\ e \in Elements
        /\ call[t].fn = "precompute" /\ call[t].single \in BOOLEAN
        /\ "fillSingle" \in Places(call[t].fn) /\ "fillSingle" \in InsidePcs
        /\ P3s \subseteq Elements
        /\ TypeOK /\ Excluded /\ Filling /\ Tested /\ Behind /\ Readers
    BY <1>1, InsideFacts DEF InsidePcs, IInv
  <1>3. Moves(t, "fillSingle", 1)
    BY <1>1, <1>2, CallMoves
  <1>4. e \in P3s => dblPrecmp[e] = absent \/ Complete(dblPrecmp[e], Double)
    BY <1>1, <1>2, AtRest
  <1>5. /\ precmp' \in [Elements -> Table] /\ precmp'[e] = [there |-> TRUE, filled |-> {}]
        /\ \A x \in Elements : x # e => precmp'[x] = precmp[x]
    BY <1>1, <1>2 DEF TypeOK, Table, fresh
  <1>6. Kept
    <2>1. ~Complete(precmp[e], Single)
      BY <1>1, <1>2 DEF Tested, Complete
    <2> QED  BY <1>1, <1>2, <1>5, <2>1 DEF Kept
  <1>7. 1 .. 1 - 1 = {} /\ 1 \in 1 .. Single
    BY PrecomputeAssumption
  <1> HIDE DEF e
  <1>8. Filling'
    BY <1>1, <1>2, <1>3, <1>4, <1>5, <1>7, FillingKept DEF e
  <1>9. Tested'
    BY <1>1, <1>2, <1>3, <1>5, TestedKept DEF e
  <1>10. Behind'
    BY <1>1, <1>2, <1>3, <1>6, BehindKept DEF e, PastSingle
  <1>11. Readers'
    BY <1>2, <1>3, <1>6, ReadersKept
  <1> QED  BY <1>1, <1>2, <1>3, <1>5, <1>8, <1>9, <1>10, <1>11, InsideStep DEF TypeOK

(***************************************************************************)
(* An entry of the first table is stored.                                  *)
(***************************************************************************)
LEMMA FillSingleStep == ASSUME IInv, NEW t \in Threads, FillSingle(t) PROVE IInv'
  <1> DEFINE e == call[t].this
             i == call[t].i
             p == IF e \in Others THEN "IllegalArgumentException"
                  ELSE IF i = Single THEN "double" ELSE "fillSingle"
             n == IF e \in Others THEN i ELSE IF i = Single THEN 1 ELSE i + 1
  <1>1. /\ call[t].pc = "fillSingle"
        /\ precmp' = [precmp EXCEPT ![e].filled = @ \cup {i}]
        /\ UNCHANGED <<dblPrecmp, made, returned>>
        /\ IF e \in Others
           THEN /\ call' = [call EXCEPT ![t].pc = "IllegalArgumentException"]
                /\ monitor' = [monitor EXCEPT ![e] = @ \ {t}]
           ELSE /\ IF i = Single THEN Goto(t, "double")
                   ELSE call' = [call EXCEPT ![t].i = i + 1]
                /\ monitor' = monitor
    BY DEF FillSingle, Leave
  <1>2. /\ Inside(t) /\ ~Idle(t) /\ call[t].pc # "none" /\ e \in Elements /\ i \in Nat
        /\ call[t].fn = "precompute" /\ call[t].single \in BOOLEAN
        /\ p \in Places(call[t].fn) /\ P3s \subseteq Elements
        /\ p \in InsidePcs \cup {"returned", "IllegalArgumentException"}
        /\ TypeOK /\ Excluded /\ Filling /\ Tested /\ Behind /\ Readers
    BY <1>1, InsideFacts DEF InsidePcs, IInv, Outcomes
  <1>3. n \in Nat /\ Moves(t, p, n)
    <2>1. n \in Nat
      BY <1>2
    <2>2. \/ Goto(t, p) /\ n = 1
          \/ call' = [call EXCEPT ![t].pc = p] /\ n = call[t].i
          \/ call' = [call EXCEPT ![t].i = n] /\ p = call[t].pc
      BY <1>1
    <2>3. TypeOK /\ call[t].pc # "none" /\ p \in Places(call[t].fn)
      BY <1>2
    <2> HIDE DEF p, n
    <2> QED  BY <2>1, <2>2, <2>3, CallMoves
  <1>4. e \in P3s => /\ i \in 1 .. Single /\ e \notin Others
                     /\ precmp[e] = [there |-> TRUE, filled |-> 1 .. i - 1]
                     /\ dblPrecmp[e] = absent \/ Complete(dblPrecmp[e], Double)
    BY <1>1, <1>2, AtRest, PrecomputeAssumption DEF Filling
  <1>5. precmp \in [Elements -> Table]
    BY <1>2 DEF TypeOK
  <1>6. /\ precmp' \in [Elements -> Table]
        /\ \A x \in Elements : x # e => precmp'[x] = precmp[x]
        /\ e \in P3s => precmp'[e] = [there |-> TRUE, filled |-> 1 .. i]
    <2>1. precmp' = [precmp EXCEPT ![e] = [precmp[e] EXCEPT !.filled = precmp[e].filled \cup {i}]]
      BY <1>1
    <2>2. /\ [precmp[e] EXCEPT !.filled = precmp[e].filled \cup {i}] =
               [there |-> precmp[e].there, filled |-> precmp[e].filled \cup {i}]
          /\ precmp[e].filled \cup {i} \in SUBSET Nat /\ precmp[e].there \in BOOLEAN
      <3>1. precmp[e] \in Table
        BY <1>2, <1>5
      <3> QED  BY <1>2, <3>1, TableUpdates
    <2>4. e \in P3s => (1 .. i - 1) \cup {i} = 1 .. i
      BY <1>4, PrecomputeAssumption
    <2> HIDE DEF e, i
    <2>6. e \in P3s => precmp[e].filled = 1 .. i - 1 /\ precmp[e].there = TRUE
      BY <1>4
    <2> QED  BY <1>2, <1>5, <2>1, <2>2, <2>4, <2>6 DEF Table
  <1>7. Kept
    <2>1. e \in P3s /\ Complete(precmp[e], Single) => Complete(precmp'[e], Single)
      <3> SUFFICES ASSUME e \in P3s, Complete(precmp[e], Single) PROVE FALSE
        OBVIOUS
      <3>1. i \in 1 .. Single /\ 1 .. i - 1 = 1 .. Single
        BY <1>4 DEF Complete
      <3> QED  BY <3>1, PrecomputeAssumption
    <2> QED  BY <1>1, <1>2, <1>6, <2>1 DEF Kept
  <1>8. e \in P3s => /\ p = IF i = Single THEN "double" ELSE "fillSingle"
                     /\ n = IF i = Single THEN 1 ELSE i + 1
    BY <1>4
  <1>9. e \in P3s /\ i = Single => Complete(precmp'[e], Single)
    BY <1>6 DEF Complete
  <1>10. e \notin P3s => e \in Others
    BY <1>2 DEF Elements
  <1>11. e \in Others => p = "IllegalArgumentException" /\ e \notin P3s
    BY PrecomputeAssumption
  <1>12. p \notin {"newSingle", "newDouble", "fillDouble", "read"}
    OBVIOUS
  <1> HIDE DEF e, i, p, n
  <1>13. Filling'
    <2>1. e \in P3s =>
            /\ IF p = "fillSingle"
               THEN n \in 1 .. Single /\ precmp'[e] = [there |-> TRUE, filled |-> 1 .. n - 1]
               ELSE precmp'[e] = absent \/ Complete(precmp'[e], Single)
            /\ dblPrecmp'[e] = absent \/ Complete(dblPrecmp'[e], Double)
      <3> SUFFICES ASSUME e \in P3s
                   PROVE  /\ IF p = "fillSingle"
                             THEN /\ n \in 1 .. Single
                                  /\ precmp'[e] = [there |-> TRUE, filled |-> 1 .. n - 1]
                             ELSE precmp'[e] = absent \/ Complete(precmp'[e], Single)
                          /\ dblPrecmp'[e] = absent \/ Complete(dblPrecmp'[e], Double)
        OBVIOUS
      <3>1. CASE i = Single
        BY <1>1, <1>4, <1>8, <1>9, <3>1
      <3>2. CASE i # Single
        <4>1. p = "fillSingle" /\ n = i + 1
          BY <1>8, <3>2
        <4>2. n \in 1 .. Single /\ n - 1 = i
          BY <1>4, <3>2, <4>1, PrecomputeAssumption
        <4>3. precmp'[e] = [there |-> TRUE, filled |-> 1 .. n - 1]
          BY <1>6, <4>2
        <4> QED  BY <1>1, <1>4, <4>1, <4>2, <4>3
      <3> QED  BY <3>1, <3>2
    <2>2. p \in InsidePcs \cup Outcomes
      BY <1>2 DEF Outcomes
    <2> QED  BY <1>1, <1>2, <1>3, <1>6, <1>12, <2>1, <2>2, FillingKept DEF e
  <1>14. Behind'
    BY <1>1, <1>2, <1>3, <1>7, <1>8, <1>9, <1>12, BehindKept DEF e, PastSingle
  <1>15. Readers'
    BY <1>2, <1>3, <1>7, ReadersKept
  <1>16. IF p \in InsidePcs THEN monitor' = monitor
         ELSE monitor' = [monitor EXCEPT ![call[t].this] = @ \ {t}]
    <2>1. CASE e \in Others
      BY <1>1, <1>11, <2>1 DEF e, InsidePcs
    <2>2. CASE e \notin Others
      BY <1>1, <2>2 DEF p, InsidePcs
    <2> QED  BY <2>1, <2>2
  <1>17. Tested'
    BY <1>1, <1>2, <1>3, <1>6, <1>12, TestedKept DEF e
  <1> QED  BY <1>1, <1>2, <1>3, <1>6, <1>13, <1>14, <1>15, <1>16, <1>17, InsideStep DEF TypeOK

(***************************************************************************)
(* The second table is missing, or there already.                          *)
(***************************************************************************)
LEMMA TestDoubleStep == ASSUME IInv, NEW t \in Threads, TestDouble(t) PROVE IInv'
  <1> DEFINE e == call[t].this
             old == dblPrecmp[e].there
             p == IF old THEN "returned" ELSE "newDouble"
             n == IF old THEN call[t].i ELSE 1
  <1>1. /\ call[t].pc = "double"
        /\ UNCHANGED <<precmp, dblPrecmp, made>>
        /\ IF old
           THEN /\ call' = [call EXCEPT ![t].pc = "returned"]
                /\ monitor' = [monitor EXCEPT ![e] = @ \ {t}]
                /\ returned' = returned \cup {<<e, call[t].single>>}
           ELSE Goto(t, "newDouble") /\ UNCHANGED <<monitor, returned>>
    BY DEF TestDouble, Leave
  <1>2. /\ Inside(t) /\ ~Idle(t) /\ call[t].pc # "none" /\ e \in Elements
        /\ call[t].fn = "precompute" /\ call[t].single \in BOOLEAN /\ call[t].i \in Nat
        /\ p \in Places(call[t].fn) /\ P3s \subseteq Elements
        /\ p \in InsidePcs \cup {"returned", "IllegalArgumentException"}
        /\ TypeOK /\ Excluded /\ Filling /\ Tested /\ Behind /\ Readers
    BY <1>1, InsideFacts DEF InsidePcs, IInv, Outcomes
  <1>3. n \in Nat /\ Moves(t, p, n)
    <2>1. n \in Nat
      BY <1>2
    <2>2. \/ Goto(t, p) /\ n = 1
          \/ call' = [call EXCEPT ![t].pc = p] /\ n = call[t].i
          \/ call' = [call EXCEPT ![t].i = n] /\ p = call[t].pc
      BY <1>1
    <2>3. TypeOK /\ call[t].pc # "none" /\ p \in Places(call[t].fn)
      BY <1>2
    <2> HIDE DEF p, n
    <2> QED  BY <2>1, <2>2, <2>3, CallMoves
  <1>4. e \in P3s => /\ precmp[e] = absent \/ Complete(precmp[e], Single)
                     /\ dblPrecmp[e] = absent \/ Complete(dblPrecmp[e], Double)
                     /\ call[t].single => Complete(precmp[e], Single)
    BY <1>1, <1>2, AtRest DEF Behind, PastSingle
  <1>5. e \in P3s /\ old => Complete(dblPrecmp[e], Double)
    BY <1>4 DEF absent
  <1>6. \/ old /\ p = "returned"
        \/ ~old /\ p = "newDouble"
    OBVIOUS
  <1>7. ~old => ~dblPrecmp[e].there
    OBVIOUS
  <1>8. <<e, call[t].single>> \in Elements \X BOOLEAN
    BY <1>2
  <1> HIDE DEF old, e, p, n
  <1>9. Kept
    BY <1>1 DEF Kept
  <1>10. Filling'
    <2>1. p \in InsidePcs \cup Outcomes
      BY <1>2 DEF Outcomes
    <2> QED  BY <1>1, <1>2, <1>3, <1>4, <1>6, <2>1, FillingKept DEF e
  <1>11. Tested'
    BY <1>1, <1>2, <1>3, <1>6, <1>7, TestedKept DEF e
  <1>12. Behind'
    BY <1>1, <1>2, <1>3, <1>4, <1>5, <1>6, <1>9, BehindKept DEF e
  <1>13. Readers'
    BY <1>2, <1>3, <1>9, ReadersKept
  <1>14. IF p \in InsidePcs THEN monitor' = monitor
         ELSE monitor' = [monitor EXCEPT ![call[t].this] = @ \ {t}]
    BY <1>1, <1>6 DEF e, InsidePcs
  <1>15. returned' \subseteq Elements \X BOOLEAN
    BY <1>1, <1>2, <1>8 DEF TypeOK
  <1> QED  BY <1>1, <1>2, <1>3, <1>10, <1>11, <1>12, <1>13, <1>14, <1>15, InsideStep DEF TypeOK

(***************************************************************************)
(* The second table is assigned: it was missing and is so still.           *)
(***************************************************************************)
LEMMA AllocateDoubleStep == ASSUME IInv, NEW t \in Threads, AllocateDouble(t) PROVE IInv'
  <1> DEFINE e == call[t].this
  <1>1. /\ call[t].pc = "newDouble" /\ Goto(t, "fillDouble")
        /\ dblPrecmp' = [dblPrecmp EXCEPT ![e] = fresh]
        /\ UNCHANGED <<monitor, precmp, made, returned>>
    BY DEF AllocateDouble
  <1>2. /\ Inside(t) /\ ~Idle(t) /\ call[t].pc # "none" /\ e \in Elements
        /\ call[t].fn = "precompute" /\ call[t].single \in BOOLEAN
        /\ "fillDouble" \in Places(call[t].fn) /\ "fillDouble" \in InsidePcs
        /\ P3s \subseteq Elements
        /\ TypeOK /\ Excluded /\ Filling /\ Tested /\ Behind /\ Readers
    BY <1>1, InsideFacts DEF InsidePcs, IInv
  <1>3. Moves(t, "fillDouble", 1)
    BY <1>1, <1>2, CallMoves
  <1>4. e \in P3s => /\ precmp[e] = absent \/ Complete(precmp[e], Single)
                     /\ call[t].single => Complete(precmp[e], Single)
    BY <1>1, <1>2, AtRest DEF Behind, PastSingle
  <1>5. /\ dblPrecmp' \in [Elements -> Table] /\ dblPrecmp'[e] = [there |-> TRUE, filled |-> {}]
        /\ \A x \in Elements : x # e => dblPrecmp'[x] = dblPrecmp[x]
    BY <1>1, <1>2 DEF TypeOK, Table, fresh
  <1>6. Kept
    <2>1. ~Complete(dblPrecmp[e], Double)
      BY <1>1, <1>2 DEF Tested, Complete
    <2> QED  BY <1>1, <1>2, <1>5, <2>1 DEF Kept
  <1>7. 1 .. 1 - 1 = {} /\ 1 \in 1 .. Double
    BY PrecomputeAssumption
  <1> HIDE DEF e
  <1>8. Filling'
    BY <1>1, <1>2, <1>3, <1>4, <1>5, <1>7, FillingKept DEF e
  <1>9. Tested'
    BY <1>1, <1>2, <1>3, <1>5, TestedKept DEF e
  <1>10. Behind'
    BY <1>1, <1>2, <1>3, <1>4, <1>6, BehindKept DEF e
  <1>11. Readers'
    BY <1>2, <1>3, <1>6, ReadersKept
  <1> QED  BY <1>1, <1>2, <1>3, <1>5, <1>8, <1>9, <1>10, <1>11, InsideStep DEF TypeOK

(***************************************************************************)
(* An entry of the second table is stored.                                 *)
(***************************************************************************)
LEMMA FillDoubleStep == ASSUME IInv, NEW t \in Threads, FillDouble(t) PROVE IInv'
  <1> DEFINE e == call[t].this
             i == call[t].i
             p == IF e \in Others THEN "IllegalArgumentException"
                  ELSE IF i = Double THEN "returned" ELSE "fillDouble"
             n == IF e \in Others \/ i = Double THEN i ELSE i + 1
  <1>1. /\ call[t].pc = "fillDouble"
        /\ dblPrecmp' = [dblPrecmp EXCEPT ![e].filled = @ \cup {i}]
        /\ UNCHANGED <<precmp, made>>
        /\ IF p = "fillDouble"
           THEN call' = [call EXCEPT ![t].i = i + 1] /\ monitor' = monitor
           ELSE /\ call' = [call EXCEPT ![t].pc = p]
                /\ monitor' = [monitor EXCEPT ![e] = @ \ {t}]
        /\ IF p = "returned" THEN returned' = returned \cup {<<e, call[t].single>>}
           ELSE returned' = returned
    BY DEF FillDouble, Leave
  <1>2. /\ Inside(t) /\ ~Idle(t) /\ call[t].pc # "none" /\ e \in Elements /\ i \in Nat
        /\ call[t].fn = "precompute" /\ call[t].single \in BOOLEAN
        /\ p \in Places(call[t].fn) /\ P3s \subseteq Elements
        /\ p \in InsidePcs \cup {"returned", "IllegalArgumentException"}
        /\ TypeOK /\ Excluded /\ Filling /\ Tested /\ Behind /\ Readers
    BY <1>1, InsideFacts DEF InsidePcs, IInv, Outcomes
  <1>3. n \in Nat /\ Moves(t, p, n)
    <2>1. /\ n \in Nat
          /\ \/ p = "fillDouble" /\ n = i + 1
             \/ p # "fillDouble" /\ n = i
      BY <1>2
    <2> HIDE DEF p, n
    <2>2. CASE p = "fillDouble"
      BY <1>1, <1>2, <2>1, <2>2, CallMoves
    <2>3. CASE p # "fillDouble"
      BY <1>1, <1>2, <2>1, <2>3, CallMoves
    <2> QED  BY <2>1, <2>2, <2>3
  <1>4. e \in P3s => /\ i \in 1 .. Double /\ e \notin Others
                     /\ dblPrecmp[e] = [there |-> TRUE, filled |-> 1 .. i - 1]
                     /\ precmp[e] = absent \/ Complete(precmp[e], Single)
                     /\ call[t].single => Complete(precmp[e], Single)
    BY <1>1, <1>2, AtRest, PrecomputeAssumption DEF Filling, Behind, PastSingle
  <1>5. dblPrecmp \in [Elements -> Table]
    BY <1>2 DEF TypeOK
  <1>6. /\ dblPrecmp' \in [Elements -> Table]
        /\ \A x \in Elements : x # e => dblPrecmp'[x] = dblPrecmp[x]
        /\ e \in P3s => dblPrecmp'[e] = [there |-> TRUE, filled |-> 1 .. i]
    <2>1. dblPrecmp' = [dblPrecmp EXCEPT
                          ![e] = [dblPrecmp[e] EXCEPT !.filled = dblPrecmp[e].filled \cup {i}]]
      BY <1>1
    <2>2. /\ [dblPrecmp[e] EXCEPT !.filled = dblPrecmp[e].filled \cup {i}] =
               [there |-> dblPrecmp[e].there, filled |-> dblPrecmp[e].filled \cup {i}]
          /\ dblPrecmp[e].filled \cup {i} \in SUBSET Nat /\ dblPrecmp[e].there \in BOOLEAN
      <3>1. dblPrecmp[e] \in Table
        BY <1>2, <1>5
      <3> QED  BY <1>2, <3>1, TableUpdates
    <2>3. e \in P3s => (1 .. i - 1) \cup {i} = 1 .. i
      BY <1>4, PrecomputeAssumption
    <2> HIDE DEF e, i
    <2>4. e \in P3s => dblPrecmp[e].filled = 1 .. i - 1 /\ dblPrecmp[e].there = TRUE
      BY <1>4
    <2> QED  BY <1>2, <1>5, <2>1, <2>2, <2>3, <2>4 DEF Table
  <1>7. Kept
    <2>1. e \in P3s /\ Complete(dblPrecmp[e], Double) => Complete(dblPrecmp'[e], Double)
      <3> SUFFICES ASSUME e \in P3s, Complete(dblPrecmp[e], Double) PROVE FALSE
        OBVIOUS
      <3>1. i \in 1 .. Double /\ 1 .. i - 1 = 1 .. Double
        BY <1>4 DEF Complete
      <3> QED  BY <3>1, PrecomputeAssumption
    <2> QED  BY <1>1, <1>2, <1>6, <2>1 DEF Kept
  <1>8. e \in P3s => /\ p = IF i = Double THEN "returned" ELSE "fillDouble"
                     /\ i # Double => n = i + 1
    BY <1>4
  <1>9. e \in P3s /\ i = Double => Complete(dblPrecmp'[e], Double)
    BY <1>6 DEF Complete
  <1>10. p \in {"IllegalArgumentException", "returned", "fillDouble"}
    OBVIOUS
  <1>11. <<e, call[t].single>> \in Elements \X BOOLEAN
    BY <1>2
  <1> HIDE DEF e, i, p, n
  <1>12. e \in P3s /\ p # "fillDouble" => Complete(dblPrecmp'[e], Double)
    BY <1>8, <1>9
  <1>13. Filling'
    <2>1. e \in P3s =>
            /\ p # "fillSingle" /\ (precmp'[e] = absent \/ Complete(precmp'[e], Single))
            /\ IF p = "fillDouble"
               THEN n \in 1 .. Double /\ dblPrecmp'[e] = [there |-> TRUE, filled |-> 1 .. n - 1]
               ELSE dblPrecmp'[e] = absent \/ Complete(dblPrecmp'[e], Double)
      <3> SUFFICES ASSUME e \in P3s
                   PROVE  /\ p # "fillSingle"
                          /\ precmp'[e] = absent \/ Complete(precmp'[e], Single)
                          /\ p = "fillDouble" =>
                               /\ n \in 1 .. Double
                               /\ dblPrecmp'[e] = [there |-> TRUE, filled |-> 1 .. n - 1]
        BY <1>12
      <3>1. CASE p # "fillDouble"
        BY <1>1, <1>4, <1>10, <3>1
      <3>2. CASE p = "fillDouble"
        <4>1. n = i + 1 /\ i # Double
          BY <1>8, <3>2
        <4>2. n \in 1 .. Double /\ n - 1 = i
          BY <1>4, <4>1, PrecomputeAssumption
        <4>3. dblPrecmp'[e] = [there |-> TRUE, filled |-> 1 .. n - 1]
          BY <1>6, <4>2
        <4> QED  BY <1>1, <1>4, <3>2, <4>2, <4>3
      <3> QED  BY <3>1, <3>2
    <2>2. p \in InsidePcs \cup Outcomes
      BY <1>2 DEF Outcomes
    <2> QED  BY <1>1, <1>2, <1>3, <1>6, <2>1, <2>2, FillingKept DEF e
  <1>14. Behind'
    <2>1. e \in P3s /\ call[t].single => Complete(precmp'[e], Single)
      BY <1>1, <1>4
    <2> QED  BY <1>1, <1>2, <1>3, <1>7, <1>12, <2>1, BehindKept DEF e
  <1>15. Readers'
    BY <1>2, <1>3, <1>7, ReadersKept
  <1>16. IF p \in InsidePcs THEN monitor' = monitor
         ELSE monitor' = [monitor EXCEPT ![call[t].this] = @ \ {t}]
    BY <1>1, <1>10 DEF e, InsidePcs
  <1>17. returned' \subseteq Elements \X BOOLEAN
    BY <1>1, <1>2, <1>11 DEF TypeOK
  <1>18. Tested'
    BY <1>1, <1>2, <1>3, <1>6, <1>10, TestedKept DEF e
  <1> QED  BY <1>1, <1>2, <1>3, <1>6, <1>13, <1>14, <1>15, <1>16, <1>17, <1>18,
              InsideStep DEF TypeOK

(***************************************************************************)
(* Reading: what was precomputed is there, so no read finds null.          *)
(***************************************************************************)
LEMMA ReadStep ==
  ASSUME IInv, NEW t \in Threads, ReadSingle(t) \/ ReadDouble(t)
  PROVE  IInv'
  <1> DEFINE e == call[t].this
             i == call[t].i
  <1>1. call[t].pc = "read" /\ UNCHANGED <<precmp, dblPrecmp, made, returned>>
    BY DEF ReadSingle, ReadDouble
  <1>2. /\ Inside(t) /\ ~Idle(t) /\ call[t].pc # "none" /\ e \in Elements /\ i \in Nat
        /\ call[t].fn # "precompute" /\ P3s \subseteq Elements
        /\ Places(call[t].fn) = {"enter", "read"} \cup Outcomes
        /\ TypeOK /\ Excluded /\ Filling /\ Tested /\ Behind /\ Readers
    BY <1>1, InsideFacts DEF InsidePcs, IInv
  <1>3. PICK p \in {"read", "returned"}, n \in Nat :
          /\ \/ call' = [call EXCEPT ![t].pc = p] /\ n = call[t].i
             \/ call' = [call EXCEPT ![t].i = n] /\ p = call[t].pc
             \/ call' = call /\ p = "read" /\ n = i
          /\ monitor' = IF p = "read" THEN monitor ELSE [monitor EXCEPT ![e] = @ \ {t}]
          /\ call[t].fn = "scalarMultiply" => n \in 1 .. Single
    <2>1. CASE ReadSingle(t)
      <3>1. call[t].fn = "scalarMultiply"
        BY <2>1 DEF ReadSingle
      <3>2. Complete(precmp[e], Single) /\ i \in 1 .. Single
        BY <1>2, <3>1 DEF Readers
      <3>3. ~Null(precmp[e], i)
        BY <3>2 DEF Null, Complete
      <3>4. CASE i = Single /\ Leave(t, "returned")
        BY <1>2, <3>2, <3>4 DEF Leave
      <3>5. CASE i # Single /\ call' = [call EXCEPT ![t].i = i + 1] /\ monitor' = monitor
        <4>1. i + 1 \in 1 .. Single /\ i + 1 \in Nat
          BY <3>2, <3>5, PrecomputeAssumption
        <4> QED  BY <1>1, <3>5, <4>1
      <3> QED  BY <2>1, <3>3, <3>4, <3>5 DEF ReadSingle
    <2>2. CASE ReadDouble(t)
      <3>1. call[t].fn = "doubleScalarMultiplyVariableTime"
        BY <2>2 DEF ReadDouble
      <3>2. \A x \in {call[t].A, e}, k \in 1 .. Double : ~Null(dblPrecmp[x], k)
        BY <1>2, <3>1 DEF Readers, Null, Complete
      <3>3. CASE Leave(t, "returned")
        BY <1>2, <3>1, <3>3 DEF Leave
      <3>4. CASE UNCHANGED <<call, monitor>>
        BY <1>2, <3>1, <3>4
      <3> QED  BY <2>2, <3>2, <3>3, <3>4 DEF ReadDouble
    <2> QED  BY <2>1, <2>2
  <1>4. Moves(t, p, n)
    <2>1. CASE call' = call /\ p = "read" /\ n = i
      <3>1. call[t].pc = p /\ call[t].i = n
        BY <1>1, <2>1
      <3>2. call' \in [Threads -> CallRecords]
        BY <1>2, <2>1 DEF TypeOK, CallRecords
      <3> QED  BY <2>1, <3>1, <3>2 DEF Moves
    <2>2. CASE call' = [call EXCEPT ![t].pc = p] /\ n = call[t].i
      BY <1>1, <1>2, <1>3, <2>2, CallMoves DEF Outcomes
    <2>3. CASE call' = [call EXCEPT ![t].i = n] /\ p = call[t].pc
      BY <1>1, <1>2, <1>3, <2>3, CallMoves DEF Outcomes
    <2> QED  BY <1>3, <2>1, <2>2, <2>3
  <1>5. Kept
    BY <1>1 DEF Kept
  <1>6. e \in P3s => /\ precmp[e] = absent \/ Complete(precmp[e], Single)
                     /\ dblPrecmp[e] = absent \/ Complete(dblPrecmp[e], Double)
    BY <1>1, <1>2, AtRest
  <1>7. p \in InsidePcs \cup Outcomes /\ p \in InsidePcs \cup {"returned", "IllegalArgumentException"}
    BY <1>3 DEF InsidePcs, Outcomes
  <1>8. Filling'
    BY <1>1, <1>2, <1>3, <1>4, <1>6, <1>7, FillingKept
  <1>9. Behind'
    BY <1>1, <1>2, <1>3, <1>4, <1>5, BehindKept DEF PastSingle
  <1>10. Readers'
    BY <1>2, <1>3, <1>4, <1>5, ReadersKept
  <1>11. IF p \in InsidePcs THEN monitor' = monitor
         ELSE monitor' = [monitor EXCEPT ![call[t].this] = @ \ {t}]
    BY <1>3 DEF InsidePcs
  <1>12. Tested'
    BY <1>1, <1>2, <1>3, <1>4, TestedKept
  <1> QED  BY <1>1, <1>2, <1>4, <1>7, <1>8, <1>9, <1>10, <1>11, <1>12, InsideStep DEF TypeOK

-----------------------------------------------------------------------------
(* The theorems. *)

(***************************************************************************)
(* The documented calls begin as BeginStep requires.                       *)
(***************************************************************************)
LEMMA CallStep ==
  ASSUME IInv, NEW t \in Threads,
         \/ \E e \in Elements, single \in BOOLEAN : CallPrecompute(t, e, single)
         \/ \E e \in P3s : <<e, TRUE>> \in returned /\ CallScalarMultiply(t, e)
         \/ \E e, A \in P3s : Prepared(e) /\ Prepared(A) /\ CallDouble(t, e, A)
  PROVE  IInv'
  <1>1. P3s \subseteq Elements /\ 1 \in 1 .. Single
    BY PrecomputeAssumption DEF Elements
  <1>2. CASE \E e \in Elements, single \in BOOLEAN : CallPrecompute(t, e, single)
    <2>1. PICK e \in Elements, single \in BOOLEAN : CallPrecompute(t, e, single)
      BY <1>2
    <2> DEFINE c == [fn |-> "precompute", this |-> e, single |-> single, pc |-> "enter", i |-> 1]
    <2>2. c \in PrecomputeCalls /\ c.pc = "enter" /\ c.fn = "precompute"
      BY DEF PrecomputeCalls
    <2>3. Begin(t, c)
      BY <2>1 DEF CallPrecompute
    <2> HIDE DEF c
    <2> QED  BY <2>2, <2>3, BeginStep
  <1>3. CASE \E e \in P3s : <<e, TRUE>> \in returned /\ CallScalarMultiply(t, e)
    <2>1. PICK e \in P3s : <<e, TRUE>> \in returned /\ CallScalarMultiply(t, e)
      BY <1>3
    <2> DEFINE c == [fn |-> "scalarMultiply", this |-> e, pc |-> "enter", i |-> 1]
    <2>2. /\ c \in MultiplyCalls /\ c.pc = "enter" /\ c.fn = "scalarMultiply"
          /\ c.this = e /\ c.i = 1
      BY <1>1 DEF MultiplyCalls
    <2>3. Begin(t, c)
      BY <2>1 DEF CallScalarMultiply
    <2>4. Complete(precmp[e], Single)
      BY <2>1 DEF IInv, Behind
    <2> HIDE DEF c
    <2> QED  BY <1>1, <2>2, <2>3, <2>4, BeginStep
  <1>4. CASE \E e, A \in P3s : Prepared(e) /\ Prepared(A) /\ CallDouble(t, e, A)
    <2>1. PICK e \in P3s, A \in P3s : Prepared(e) /\ Prepared(A) /\ CallDouble(t, e, A)
      BY <1>4
    <2> DEFINE c == [fn |-> "doubleScalarMultiplyVariableTime", this |-> e, A |-> A,
                     pc |-> "enter", i |-> 1]
    <2>2. /\ c \in DoubleCalls /\ c.pc = "enter" /\ c.fn = "doubleScalarMultiplyVariableTime"
          /\ c.this = e /\ c.A = A
      BY <1>1 DEF DoubleCalls
    <2>3. Begin(t, c)
      BY <2>1 DEF CallDouble
    <2>4. Complete(dblPrecmp[e], Double) /\ Complete(dblPrecmp[A], Double)
      BY <2>1 DEF IInv, Behind, Prepared
    <2> HIDE DEF c
    <2> QED  BY <2>2, <2>3, <2>4, BeginStep
  <1> QED  BY <1>2, <1>3, <1>4

(***************************************************************************)
(* Every documented step preserves the invariant.                          *)
(***************************************************************************)
LEMMA NextIInv == IInv /\ [DocumentedNext]_vars => IInv'
  <1> SUFFICES ASSUME IInv, [DocumentedNext]_vars PROVE IInv'
    OBVIOUS
  <1>1. ASSUME NEW t \in Threads, Step(t) PROVE IInv'
    BY <1>1, EnterStep, TestSingleStep, AllocateSingleStep, FillSingleStep,
       TestDoubleStep, AllocateDoubleStep, FillDoubleStep, ReadStep DEF Step
  <1>2. CASE UNCHANGED vars
    BY <1>2 DEF vars, IInv, TypeOK, Excluded, Inside, Idle, Filling, Filled, Complete,
                Tested, Behind, PastSingle, Readers, NoNullRead
  <1> QED  BY <1>1, <1>2, CallStep DEF DocumentedNext

(***************************************************************************)
(* The inductive invariant: one thread inside each monitor, tables whole,  *)
(* absent or filled as far as their writer's counter, and readers with     *)
(* whole tables; a table found missing is missing until it is assigned.    *)
(***************************************************************************)
THEOREM PrecomputeInvariant == DocumentedSpec => []IInv
  BY InitIInv, NextIInv, PTL DEF DocumentedSpec

(***************************************************************************)
(* Readers that keep to the contract never find an entry missing.          *)
(***************************************************************************)
THEOREM PrecomputeNoNullRead == DocumentedSpec => []NoNullRead
  <1>1. IInv => NoNullRead
    BY DEF IInv
  <1> QED  BY <1>1, PrecomputeInvariant, PTL

(***************************************************************************)
(* A table nobody can be writing is there whole or not at all.             *)
(***************************************************************************)
THEOREM PrecomputeTablesWhole == DocumentedSpec => []TablesWhole
  <1>1. ASSUME IInv PROVE TablesWhole
    <2> SUFFICES ASSUME NEW e \in P3s, monitor[e] = {}
                 PROVE  /\ precmp[e] = absent \/ Complete(precmp[e], Single)
                        /\ dblPrecmp[e] = absent \/ Complete(dblPrecmp[e], Double)
      BY DEF TablesWhole
    <2>1. ASSUME NEW u \in Threads, call[u].pc \in {"fillSingle", "fillDouble"}
          PROVE  call[u].this # e
      <3>1. Inside(u)
        BY <2>1 DEF Inside, Idle
      <3> QED  BY <1>1, <3>1 DEF IInv, Excluded
    <2> QED  BY <1>1, <2>1 DEF IInv, Filling, Filled
  <1> QED  BY <1>1, PrecomputeInvariant, PTL

(***************************************************************************)
(* No step replaces a table or takes an entry from one.  The assignments   *)
(* would: it is the test before them, and the monitor that keeps other     *)
(* threads out between the two, that leave them nothing to replace.        *)
(***************************************************************************)
THEOREM PrecomputeNeverRebuilt == DocumentedSpec => NeverRebuilt
  <1> DEFINE Grown == \A e \in Elements :
        /\ precmp[e].there => precmp[e]'.there /\ precmp[e].filled \subseteq precmp[e]'.filled
        /\ dblPrecmp[e].there => dblPrecmp[e]'.there /\ dblPrecmp[e].filled \subseteq dblPrecmp[e]'.filled
  <1>1. ASSUME UNCHANGED <<precmp, dblPrecmp>> PROVE Grown
    BY <1>1
  <1>2. ASSUME IInv, NEW t \in Threads, Step(t) PROVE Grown
    <2>1. call[t].this \in Elements \/ call[t].pc = "none"
      BY <1>2 DEF IInv, TypeOK, PrecomputeCalls, MultiplyCalls, DoubleCalls
    <2>2. CASE Enter(t) \/ TestSingle(t) \/ TestDouble(t) \/ ReadSingle(t) \/ ReadDouble(t)
      BY <1>1, <2>2 DEF Enter, TestSingle, TestDouble, ReadSingle, ReadDouble
    <2>3. CASE AllocateSingle(t)
      <3>1. ~precmp[call[t].this].there
        BY <1>2, <2>3 DEF AllocateSingle, IInv, Tested
      <3> QED  BY <1>2, <2>1, <2>3, <3>1 DEF AllocateSingle, IInv, TypeOK
    <2>4. CASE FillSingle(t)
      BY <1>2, <2>1, <2>4 DEF FillSingle, IInv, TypeOK, Table
    <2>5. CASE AllocateDouble(t)
      <3>1. ~dblPrecmp[call[t].this].there
        BY <1>2, <2>5 DEF AllocateDouble, IInv, Tested
      <3> QED  BY <1>2, <2>1, <2>5, <3>1 DEF AllocateDouble, IInv, TypeOK
    <2>6. CASE FillDouble(t)
      BY <1>2, <2>1, <2>6 DEF FillDouble, IInv, TypeOK, Table
    <2> QED  BY <1>2, <2>2, <2>3, <2>4, <2>5, <2>6 DEF Step
  <1>3. IInv /\ [DocumentedNext]_vars => [Grown]_vars
    BY <1>1, <1>2 DEF DocumentedNext, CallPrecompute, CallScalarMultiply, CallDouble, Begin
  <1> QED  BY <1>3, PrecomputeInvariant, PTL DEF DocumentedSpec, NeverRebuilt

-----------------------------------------------------------------------------
(* The encodings of Java keys: the documented forms. *)

\* What comes before the key string in each of the six forms.
Header(kind, layout) ==
  IF kind = "public"
  THEN CASE layout = "old" -> <<48, 45, 48, 8, 6, 3, 43, 101, 100, 10, 1, 1, 3, 33, 0>>
         [] layout = "null" -> <<48, 44, 48, 7, 6, 3, 43, 101, 112, 5, 0, 3, 33, 0>>
         [] OTHER -> <<48, 42, 48, 5, 6, 3, 43, 101, 112, 3, 33, 0>>
  ELSE CASE layout = "old" -> <<48, 47, 2, 1, 0, 48, 8, 6, 3, 43, 101, 100, 10, 1, 1, 4, 32>>
         [] layout = "null" -> <<48, 48, 2, 1, 0, 48, 7, 6, 3, 43, 101, 112, 5, 0, 4, 34, 4, 32>>
         [] OTHER -> <<48, 46, 2, 1, 0, 48, 5, 6, 3, 43, 101, 112, 4, 34, 4, 32>>

\* Two sequences with the same entries are the same.
LEMMA SameSequence ==
  \A s, t \in Seq(Int) : Len(s) = Len(t) /\ (\A i \in 1 .. Len(s) : s[i] = t[i]) => s = t
  BY SeqEqual, Zenon

\* The tables of the decoder are these headers, byte for byte.
LEMMA ExpectedIs ==
  ASSUME NEW kind \in {"public", "private"}, NEW layout \in Layouts
  PROVE  Expected(kind, layout) = Header(kind, layout)
  <1>1. CASE kind = "public" /\ layout = "old"
    <2> DEFINE s == Expected(kind, layout)  t == <<48, 45, 48, 8, 6, 3, 43, 101, 100, 10, 1, 1, 3, 33, 0>>
    <2>1. s \in Seq(Int) /\ t \in Seq(Int) /\ Len(s) = 15 /\ Len(t) = 15
      BY <1>1, SMT DEF Expected, totlen, idlen, OID_OLD, OID_ED25519
    <2>2. \A i \in 1 .. 15 : s[i] = t[i]
      BY <1>1, SMT DEF Expected, totlen, idlen, OID_OLD, OID_ED25519
    <2>3. Header(kind, layout) = t
      BY <1>1, SMT DEF Header
    <2> HIDE DEF s, t
    <2>4. s = t
      BY <2>1, <2>2, SameSequence, Zenon
    <2> QED BY <2>3, <2>4, Zenon DEF s
  <1>2. CASE kind = "public" /\ layout = "null"
    <2> DEFINE s == Expected(kind, layout)  t == <<48, 44, 48, 7, 6, 3, 43, 101, 112, 5, 0, 3, 33, 0>>
    <2>1. s \in Seq(Int) /\ t \in Seq(Int) /\ Len(s) = 14 /\ Len(t) = 14
      BY <1>2, SMT DEF Expected, totlen, idlen, OID_OLD, OID_ED25519
    <2>2. \A i \in 1 .. 14 : s[i] = t[i]
      BY <1>2, SMT DEF Expected, totlen, idlen, OID_OLD, OID_ED25519
    <2>3. Header(kind, layout) = t
      BY <1>2, SMT DEF Header
    <2> HIDE DEF s, t
    <2>4. s = t
      BY <2>1, <2>2, SameSequence, Zenon
    <2> QED BY <2>3, <2>4, Zenon DEF s
  <1>3. CASE kind = "public" /\ layout = "current"
    <2> DEFINE s == Expected(kind, layout)  t == <<48, 42, 48, 5, 6, 3, 43, 101, 112, 3, 33, 0>>
    <2>1. s \in Seq(Int) /\ t \in Seq(Int) /\ Len(s) = 12 /\ Len(t) = 12
      BY <1>3, SMT DEF Expected, totlen, idlen, OID_OLD, OID_ED25519
    <2>2. \A i \in 1 .. 12 : s[i] = t[i]
      BY <1>3, SMT DEF Expected, totlen, idlen, OID_OLD, OID_ED25519
    <2>3. Header(kind, layout) = t
      BY <1>3, SMT DEF Header
    <2> HIDE DEF s, t
    <2>4. s = t
      BY <2>1, <2>2, SameSequence, Zenon
    <2> QED BY <2>3, <2>4, Zenon DEF s
  <1>4. CASE kind = "private" /\ layout = "old"
    <2> DEFINE s == Expected(kind, layout)  t == <<48, 47, 2, 1, 0, 48, 8, 6, 3, 43, 101, 100, 10, 1, 1, 4, 32>>
    <2>1. s \in Seq(Int) /\ t \in Seq(Int) /\ Len(s) = 17 /\ Len(t) = 17
      BY <1>4, SMT DEF Expected, totlen, idlen, OID_OLD, OID_ED25519
    <2>2. \A i \in 1 .. 17 : s[i] = t[i]
      BY <1>4, SMT DEF Expected, totlen, idlen, OID_OLD, OID_ED25519
    <2>3. Header(kind, layout) = t
      BY <1>4, SMT DEF Header
    <2> HIDE DEF s, t
    <2>4. s = t
      BY <2>1, <2>2, SameSequence, Zenon
    <2> QED BY <2>3, <2>4, Zenon DEF s
  <1>5. CASE kind = "private" /\ layout = "null"
    <2> DEFINE s == Expected(kind, layout)  t == <<48, 48, 2, 1, 0, 48, 7, 6, 3, 43, 101, 112, 5, 0, 4, 34, 4, 32>>
    <2>1. s \in Seq(Int) /\ t \in Seq(Int) /\ Len(s) = 18 /\ Len(t) = 18
      BY <1>5, SMT DEF Expected, totlen, idlen, OID_OLD, OID_ED25519
    <2>2. \A i \in 1 .. 18 : s[i] = t[i]
      BY <1>5, SMT DEF Expected, totlen, idlen, OID_OLD, OID_ED25519
    <2>3. Header(kind, layout) = t
      BY <1>5, SMT DEF Header
    <2> HIDE DEF s, t
    <2>4. s = t
      BY <2>1, <2>2, SameSequence, Zenon
    <2> QED BY <2>3, <2>4, Zenon DEF s
  <1>6. CASE kind = "private" /\ layout = "current"
    <2> DEFINE s == Expected(kind, layout)  t == <<48, 46, 2, 1, 0, 48, 5, 6, 3, 43, 101, 112, 4, 34, 4, 32>>
    <2>1. s \in Seq(Int) /\ t \in Seq(Int) /\ Len(s) = 16 /\ Len(t) = 16
      BY <1>6, SMT DEF Expected, totlen, idlen, OID_OLD, OID_ED25519
    <2>2. \A i \in 1 .. 16 : s[i] = t[i]
      BY <1>6, SMT DEF Expected, totlen, idlen, OID_OLD, OID_ED25519
    <2>3. Header(kind, layout) = t
      BY <1>6, SMT DEF Header
    <2> HIDE DEF s, t
    <2>4. s = t
      BY <2>1, <2>2, SameSequence, Zenon
    <2> QED BY <2>3, <2>4, Zenon DEF s
  <1> QED BY <1>1, <1>2, <1>3, <1>4, <1>5, <1>6, Zenon DEF Layouts

\* The algorithm identifiers, byte for byte.
LEMMA AlgorithmIs ==
  /\ Algorithm("old") = <<48, 8, 6, 3, 43, 101, 100, 10, 1, 1>>
  /\ Algorithm("null") = <<48, 7, 6, 3, 43, 101, 112, 5, 0>>
  /\ Algorithm("current") = <<48, 5, 6, 3, 43, 101, 112>>
  <1>1. Algorithm("old") = <<48, 8, 6, 3, 43, 101, 100, 10, 1, 1>>
    <2> DEFINE s == Algorithm("old")  t == <<48, 8, 6, 3, 43, 101, 100, 10, 1, 1>>
    <2>1. s \in Seq(Int) /\ t \in Seq(Int) /\ Len(s) = 10 /\ Len(t) = 10
      BY SMT DEF Algorithm, Der, OID_OLD, OID_ED25519
    <2>2. \A i \in 1 .. 10 : s[i] = t[i]
      BY SMT DEF Algorithm, Der, OID_OLD, OID_ED25519
    <2> HIDE DEF s, t
    <2>3. s = t
      BY <2>1, <2>2, SameSequence, Zenon
    <2> QED BY <2>3, Zenon DEF s, t
  <1>2. Algorithm("null") = <<48, 7, 6, 3, 43, 101, 112, 5, 0>>
    <2> DEFINE s == Algorithm("null")  t == <<48, 7, 6, 3, 43, 101, 112, 5, 0>>
    <2>1. s \in Seq(Int) /\ t \in Seq(Int) /\ Len(s) = 9 /\ Len(t) = 9
      BY SMT DEF Algorithm, Der, OID_OLD, OID_ED25519
    <2>2. \A i \in 1 .. 9 : s[i] = t[i]
      BY SMT DEF Algorithm, Der, OID_OLD, OID_ED25519
    <2> HIDE DEF s, t
    <2>3. s = t
      BY <2>1, <2>2, SameSequence, Zenon
    <2> QED BY <2>3, Zenon DEF s, t
  <1>3. Algorithm("current") = <<48, 5, 6, 3, 43, 101, 112>>
    <2> DEFINE s == Algorithm("current")  t == <<48, 5, 6, 3, 43, 101, 112>>
    <2>1. s \in Seq(Int) /\ t \in Seq(Int) /\ Len(s) = 7 /\ Len(t) = 7
      BY SMT DEF Algorithm, Der, OID_OLD, OID_ED25519
    <2>2. \A i \in 1 .. 7 : s[i] = t[i]
      BY SMT DEF Algorithm, Der, OID_OLD, OID_ED25519
    <2> HIDE DEF s, t
    <2>3. s = t
      BY <2>1, <2>2, SameSequence, Zenon
    <2> QED BY <2>3, Zenon DEF s, t
  <1> QED BY <1>1, <1>2, <1>3

\* The lengths of the headers.
LEMMA HeaderIs ==
  ASSUME NEW kind \in {"public", "private"}, NEW layout \in Layouts
  PROVE  Header(kind, layout) \in Seq(Int) /\ Len(Header(kind, layout)) = totlen(kind, layout) - 32
  <1>1. Header("public", "old") \in Seq(Int) /\ Len(Header("public", "old")) = totlen("public", "old") - 32
    BY SMT DEF Header, totlen
  <1>2. Header("public", "null") \in Seq(Int) /\ Len(Header("public", "null")) = totlen("public", "null") - 32
    BY SMT DEF Header, totlen
  <1>3. Header("public", "current") \in Seq(Int) /\ Len(Header("public", "current")) = totlen("public", "current") - 32
    BY SMT DEF Header, totlen
  <1>4. Header("private", "old") \in Seq(Int) /\ Len(Header("private", "old")) = totlen("private", "old") - 32
    BY SMT DEF Header, totlen
  <1>5. Header("private", "null") \in Seq(Int) /\ Len(Header("private", "null")) = totlen("private", "null") - 32
    BY SMT DEF Header, totlen
  <1>6. Header("private", "current") \in Seq(Int) /\ Len(Header("private", "current")) = totlen("private", "current") - 32
    BY SMT DEF Header, totlen
  <1> QED BY <1>1, <1>2, <1>3, <1>4, <1>5, <1>6, Zenon DEF Layouts

\* Concatenation.
LEMMA Joined ==
  \A s, t, u \in Seq(Int) : /\ s \o t \in Seq(Int) /\ Len(s \o t) = Len(s) + Len(t)
                            /\ (s \o t) \o u = s \o (t \o u)
  <1> SUFFICES ASSUME NEW s \in Seq(Int), NEW t \in Seq(Int), NEW u \in Seq(Int)
               PROVE  /\ s \o t \in Seq(Int) /\ Len(s \o t) = Len(s) + Len(t)
                      /\ (s \o t) \o u = s \o (t \o u)
    BY Zenon
  <1>1. s \o t \in Seq(Int) /\ Len(s \o t) = Len(s) + Len(t)
    BY ConcatProperties, Zenon
  <1>2. (s \o t) \o u = s \o (t \o u)
    BY ConcatAssociative, SMTT(30)
  <1> QED BY <1>1, <1>2

\* A header to be wrapped once more, and what comes of it.
Wraps(tag, h, k, n) ==
  tag \in Int /\ h \in Seq(Int) /\ k \in Seq(Int) /\ n \in Int /\ Len(k) = 32 /\ n = Len(h) + 32

Wrapped(tag, h, k, n) ==
  /\ Der(tag, h \o k) = (<<tag, n>> \o h) \o k
  /\ <<tag, n>> \o h \in Seq(Int) /\ Len(<<tag, n>> \o h) = Len(h) + 2

Associates(s, t, u) == (s \o t) \o u = s \o (t \o u)

\* The key string comes last, however it is wrapped.
LEMMA KeyLast == \A tag, h, k, n : Wraps(tag, h, k, n) => Wrapped(tag, h, k, n)
  <1> SUFFICES ASSUME NEW tag, NEW h, NEW k, NEW n, Wraps(tag, h, k, n) PROVE Wrapped(tag, h, k, n)
    OBVIOUS
  <1>1. tag \in Int /\ h \in Seq(Int) /\ k \in Seq(Int) /\ n \in Int /\ Len(k) = 32 /\ n = Len(h) + 32
    BY Zenon DEF Wraps
  <1>2. Len(h) \in Nat
    BY <1>1, LenProperties, Zenon
  <1>3. <<tag, n>> \in Seq(Int) /\ Len(<<tag, n>>) = 2
    BY <1>1, SMT
  <1>4. Len(h \o k) = Len(h) + Len(k)
    BY <1>1, Joined, Zenon
  <1>5. (<<tag, n>> \o h) \o k = <<tag, n>> \o (h \o k) /\ <<tag, n>> \o h \in Seq(Int)
        /\ Len(<<tag, n>> \o h) = Len(<<tag, n>>) + Len(h)
    BY <1>1, <1>3, Joined, Zenon
  <1>6. Len(<<tag, n>> \o h) = Len(h) + 2
    <2> DEFINE l == Len(<<tag, n>> \o h)  m == Len(<<tag, n>>)  j == Len(h)
    <2>1. l = m + j /\ m = 2 /\ j \in Nat
      BY <1>2, <1>3, <1>5, Zenon
    <2> HIDE DEF l, m, j
    <2>2. l = j + 2
      BY SMT, <2>1
    <2> QED BY <2>2, Zenon DEF l, j
  <1>7. Len(h \o k) = n
    BY <1>1, <1>4, Zenon
  <1> QED BY <1>5, <1>6, <1>7, Zenon DEF Der, Wrapped

\* Concatenation, in the form that the provers apply.
LEMMA Association == \A s, t, u \in Seq(Int) : Associates(s, t, u)
  BY Joined, Zenon DEF Associates

\* HeaderLengths are integers.
LEMMA LenInt == \A s \in Seq(Int) : Len(s) + 32 \in Int
  <1> SUFFICES ASSUME NEW s \in Seq(Int) PROVE Len(s) + 32 \in Int
    OBVIOUS
  <1>1. Len(s) \in Nat
    BY LenProperties, Zenon
  <1> QED BY <1>1, SMT

\* The short pieces that a document is made of.
LEMMA Closed ==
  /\ <<>> \in Seq(Int) /\ Len(<<>>) = 0 /\ <<0>> \in Seq(Int) /\ Len(<<0>>) = 1
  /\ Der(2, <<0>>) \in Seq(Int) /\ Len(Der(2, <<0>>)) = 3
  /\ 3 \in Int /\ 4 \in Int /\ 48 \in Int /\ 32 \in Int /\ 33 \in Int /\ 34 \in Int
  BY SMT DEF Der

\* An algorithm identifier is a sequence.
LEMMA AlgorithmLen ==
  ASSUME NEW layout \in Layouts
  PROVE  Algorithm(layout) \in Seq(Int) /\ Len(Algorithm(layout)) \in Nat
  <1>1. Algorithm("old") \in Seq(Int)
    BY SMT DEF Algorithm, Der, OID_OLD, OID_ED25519
  <1>2. Algorithm("null") \in Seq(Int)
    BY SMT DEF Algorithm, Der, OID_OLD, OID_ED25519
  <1>3. Algorithm("current") \in Seq(Int)
    BY SMT DEF Algorithm, Der, OID_OLD, OID_ED25519
  <1>4. Algorithm(layout) \in Seq(Int)
    BY <1>1, <1>2, <1>3, Zenon DEF Layouts
  <1> QED BY <1>4, LenProperties, Zenon

\* What precedes the key string in a document, from the inside out.
Wrapping(kind, layout) ==
  IF kind = "public" THEN Algorithm(layout) \o (<<3, 33>> \o <<0>>)
  ELSE Der(2, <<0>>) \o (Algorithm(layout) \o
         (IF layout = "old" THEN <<4, 32>> \o <<>> ELSE <<4, 34>> \o (<<4, 32>> \o <<>>)))

\* A document is what wraps the key, in one piece, and the key.
LEMMA DocumentWraps ==
  ASSUME NEW kind \in {"public", "private"}, NEW layout \in Layouts, NEW k \in Seq(Int), Len(k) = 32
  PROVE  /\ Document(kind, layout, k) = (<<48, Len(Wrapping(kind, layout)) + 32>> \o Wrapping(kind, layout)) \o k
         /\ Wrapping(kind, layout) \in Seq(Int)
  <1> DEFINE a == Algorithm(layout)
  <1>1. a \in Seq(Int) /\ Len(a) \in Nat
    BY AlgorithmLen, Zenon
  <1>2. <<>> \o k = k
    BY ConcatEmptySeq, Zenon
  <1>3. 33 = Len(<<0>>) + 32 /\ 32 = Len(<<>>) + 32
    BY SMT
  <1>4. CASE kind = "public"
    <2> DEFINE enc == <<3, 33>> \o <<0>>
    <2>1. Wraps(3, <<0>>, k, 33)
      BY <1>3, Closed, Zenon DEF Wraps
    <2>2. Wrapped(3, <<0>>, k, 33)
      BY <2>1, KeyLast, Zenon
    <2>3. Der(3, <<0>> \o k) = enc \o k /\ enc \in Seq(Int)
      BY <2>2, Zenon DEF Wrapped
    <2>4. Document(kind, layout, k) = Der(48, a \o Der(3, <<0>> \o k)) /\ Wrapping(kind, layout) = a \o enc
      BY <1>4, Zenon DEF Document, Wrapping
    <2> HIDE DEF a, enc
    <2>5. a \o enc \in Seq(Int) /\ Len(a \o enc) + 32 \in Int
      BY <1>1, <2>3, Joined, LenInt, Zenon
    <2>6. Associates(a, enc, k)
      BY <1>1, <2>3, Association, Zenon
    <2>7. Wraps(48, a \o enc, k, Len(a \o enc) + 32)
      BY <2>5, Closed, Zenon DEF Wraps
    <2>8. Wrapped(48, a \o enc, k, Len(a \o enc) + 32)
      BY <2>7, KeyLast, Zenon
    <2>9. Der(48, a \o (enc \o k)) = (<<48, Len(a \o enc) + 32>> \o (a \o enc)) \o k
      BY <2>6, <2>8, Zenon DEF Wrapped, Associates
    <2> QED BY <2>3, <2>4, <2>5, <2>9, Zenon
  <1>5. CASE kind = "private"
    <2> DEFINE once == <<4, 32>> \o <<>>
               enc == IF layout = "old" THEN once ELSE <<4, 34>> \o once
               v == Der(2, <<0>>)
               c == Der(4, IF layout = "old" THEN k ELSE Der(4, k))
    <2>1. kind # "public"
      BY <1>5
    <2>2. Document(kind, layout, k) = Der(48, (v \o a) \o c) /\ Wrapping(kind, layout) = v \o (a \o enc)
      BY <2>1, Zenon DEF Document, Wrapping
    <2>3. v \in Seq(Int)
      BY Closed, Zenon
    <2>4. Wraps(4, <<>>, k, 32)
      BY <1>3, Closed, Zenon DEF Wraps
    <2>5. Wrapped(4, <<>>, k, 32)
      BY <2>4, KeyLast, Zenon
    <2>6. Der(4, k) = once \o k /\ once \in Seq(Int)
      BY <1>2, <2>5, Zenon DEF Wrapped
    <2>7. 34 = Len(once) + 32
      BY SMT
    <2> HIDE DEF v, once
    <2>8. Wraps(4, once, k, 34)
      BY <2>6, <2>7, Closed, Zenon DEF Wraps
    <2>9. Wrapped(4, once, k, 34)
      BY <2>8, KeyLast, Zenon
    <2>10. c = enc \o k /\ enc \in Seq(Int)
      BY <2>6, <2>9, Zenon DEF Wrapped
    <2> HIDE DEF a, enc, c
    <2>11. a \o enc \in Seq(Int) /\ v \o a \in Seq(Int)
      BY <1>1, <2>3, <2>10, Joined, Zenon
    <2>12. v \o (a \o enc) \in Seq(Int) /\ Len(v \o (a \o enc)) + 32 \in Int
      BY <2>3, <2>11, Joined, LenInt, Zenon
    <2>13. Associates(v \o a, enc, k) /\ Associates(v, a, enc)
      BY <1>1, <2>3, <2>10, <2>11, Association, Zenon
    <2>14. Wraps(48, v \o (a \o enc), k, Len(v \o (a \o enc)) + 32)
      BY <2>12, Closed, Zenon DEF Wraps
    <2>15. Wrapped(48, v \o (a \o enc), k, Len(v \o (a \o enc)) + 32)
      BY <2>14, KeyLast, Zenon
    <2>16. Der(48, (v \o a) \o (enc \o k)) = (<<48, Len(v \o (a \o enc)) + 32>> \o (v \o (a \o enc))) \o k
      BY <2>13, <2>15, Zenon DEF Wrapped, Associates
    <2> QED BY <2>2, <2>10, <2>12, <2>16, Zenon
  <1> QED BY <1>4, <1>5

\* What wraps the key is the header.
LEMMA WrappingIs ==
  ASSUME NEW kind \in {"public", "private"}, NEW layout \in Layouts
  PROVE  <<48, Len(Wrapping(kind, layout)) + 32>> \o Wrapping(kind, layout) = Header(kind, layout)
  <1>1. <<48, Len(Wrapping("public", "old")) + 32>> \o Wrapping("public", "old") = Header("public", "old")
    <2> DEFINE enc == <<48, 8, 6, 3, 43, 101, 100, 10, 1, 1>> \o (<<3, 33>> \o <<0>>)
               s == <<48, 45>> \o enc  t == <<48, 45, 48, 8, 6, 3, 43, 101, 100, 10, 1, 1, 3, 33, 0>>
    <2>1. enc \in Seq(Int) /\ Len(enc) = 13 /\ Len(<<0>>) = 1
      BY SMT
    <2>2. s \in Seq(Int) /\ t \in Seq(Int) /\ Len(s) = 15 /\ Len(t) = 15
      BY SMT
    <2>3. \A i \in 1 .. 15 : s[i] = t[i]
      BY SMT
    <2>4. Header("public", "old") = t
      BY SMT DEF Header
    <2>5. Wrapping("public", "old") = enc
      BY <2>1, AlgorithmIs, Zenon DEF Wrapping, Der
    <2> HIDE DEF enc, s, t
    <2>6. s = t
      BY <2>2, <2>3, SameSequence, Zenon
    <2>7. Len(enc) + 32 = 45
      BY <2>1, SMT
    <2> QED BY <2>4, <2>5, <2>6, <2>7, Zenon DEF s
  <1>2. <<48, Len(Wrapping("public", "null")) + 32>> \o Wrapping("public", "null") = Header("public", "null")
    <2> DEFINE enc == <<48, 7, 6, 3, 43, 101, 112, 5, 0>> \o (<<3, 33>> \o <<0>>)
               s == <<48, 44>> \o enc  t == <<48, 44, 48, 7, 6, 3, 43, 101, 112, 5, 0, 3, 33, 0>>
    <2>1. enc \in Seq(Int) /\ Len(enc) = 12 /\ Len(<<0>>) = 1
      BY SMT
    <2>2. s \in Seq(Int) /\ t \in Seq(Int) /\ Len(s) = 14 /\ Len(t) = 14
      BY SMT
    <2>3. \A i \in 1 .. 14 : s[i] = t[i]
      BY SMT
    <2>4. Header("public", "null") = t
      BY SMT DEF Header
    <2>5. Wrapping("public", "null") = enc
      BY <2>1, AlgorithmIs, Zenon DEF Wrapping, Der
    <2> HIDE DEF enc, s, t
    <2>6. s = t
      BY <2>2, <2>3, SameSequence, Zenon
    <2>7. Len(enc) + 32 = 44
      BY <2>1, SMT
    <2> QED BY <2>4, <2>5, <2>6, <2>7, Zenon DEF s
  <1>3. <<48, Len(Wrapping("public", "current")) + 32>> \o Wrapping("public", "current") = Header("public", "current")
    <2> DEFINE enc == <<48, 5, 6, 3, 43, 101, 112>> \o (<<3, 33>> \o <<0>>)
               s == <<48, 42>> \o enc  t == <<48, 42, 48, 5, 6, 3, 43, 101, 112, 3, 33, 0>>
    <2>1. enc \in Seq(Int) /\ Len(enc) = 10 /\ Len(<<0>>) = 1
      BY SMT
    <2>2. s \in Seq(Int) /\ t \in Seq(Int) /\ Len(s) = 12 /\ Len(t) = 12
      BY SMT
    <2>3. \A i \in 1 .. 12 : s[i] = t[i]
      BY SMT
    <2>4. Header("public", "current") = t
      BY SMT DEF Header
    <2>5. Wrapping("public", "current") = enc
      BY <2>1, AlgorithmIs, Zenon DEF Wrapping, Der
    <2> HIDE DEF enc, s, t
    <2>6. s = t
      BY <2>2, <2>3, SameSequence, Zenon
    <2>7. Len(enc) + 32 = 42
      BY <2>1, SMT
    <2> QED BY <2>4, <2>5, <2>6, <2>7, Zenon DEF s
  <1>4. <<48, Len(Wrapping("private", "old")) + 32>> \o Wrapping("private", "old") = Header("private", "old")
    <2> DEFINE enc == (<<2, 1>> \o <<0>>) \o (<<48, 8, 6, 3, 43, 101, 100, 10, 1, 1>> \o (<<4, 32>> \o <<>>))
               s == <<48, 47>> \o enc  t == <<48, 47, 2, 1, 0, 48, 8, 6, 3, 43, 101, 100, 10, 1, 1, 4, 32>>
    <2>1. enc \in Seq(Int) /\ Len(enc) = 15 /\ Len(<<0>>) = 1
      BY SMT
    <2>2. s \in Seq(Int) /\ t \in Seq(Int) /\ Len(s) = 17 /\ Len(t) = 17
      BY SMT
    <2>3. \A i \in 1 .. 17 : s[i] = t[i]
      BY SMT
    <2>4. Header("private", "old") = t
      BY SMT DEF Header
    <2>5. Wrapping("private", "old") = enc
      BY <2>1, AlgorithmIs, Zenon DEF Wrapping, Der
    <2> HIDE DEF enc, s, t
    <2>6. s = t
      BY <2>2, <2>3, SameSequence, Zenon
    <2>7. Len(enc) + 32 = 47
      BY <2>1, SMT
    <2> QED BY <2>4, <2>5, <2>6, <2>7, Zenon DEF s
  <1>5. <<48, Len(Wrapping("private", "null")) + 32>> \o Wrapping("private", "null") = Header("private", "null")
    <2> DEFINE enc == (<<2, 1>> \o <<0>>) \o (<<48, 7, 6, 3, 43, 101, 112, 5, 0>> \o (<<4, 34>> \o (<<4, 32>> \o <<>>)))
               s == <<48, 48>> \o enc  t == <<48, 48, 2, 1, 0, 48, 7, 6, 3, 43, 101, 112, 5, 0, 4, 34, 4, 32>>
    <2>1. enc \in Seq(Int) /\ Len(enc) = 16 /\ Len(<<0>>) = 1
      BY SMT
    <2>2. s \in Seq(Int) /\ t \in Seq(Int) /\ Len(s) = 18 /\ Len(t) = 18
      BY SMT
    <2>3. \A i \in 1 .. 18 : s[i] = t[i]
      BY SMT
    <2>4. Header("private", "null") = t
      BY SMT DEF Header
    <2>5. Wrapping("private", "null") = enc
      BY <2>1, AlgorithmIs, Zenon DEF Wrapping, Der
    <2> HIDE DEF enc, s, t
    <2>6. s = t
      BY <2>2, <2>3, SameSequence, Zenon
    <2>7. Len(enc) + 32 = 48
      BY <2>1, SMT
    <2> QED BY <2>4, <2>5, <2>6, <2>7, Zenon DEF s
  <1>6. <<48, Len(Wrapping("private", "current")) + 32>> \o Wrapping("private", "current") = Header("private", "current")
    <2> DEFINE enc == (<<2, 1>> \o <<0>>) \o (<<48, 5, 6, 3, 43, 101, 112>> \o (<<4, 34>> \o (<<4, 32>> \o <<>>)))
               s == <<48, 46>> \o enc  t == <<48, 46, 2, 1, 0, 48, 5, 6, 3, 43, 101, 112, 4, 34, 4, 32>>
    <2>1. enc \in Seq(Int) /\ Len(enc) = 14 /\ Len(<<0>>) = 1
      BY SMT
    <2>2. s \in Seq(Int) /\ t \in Seq(Int) /\ Len(s) = 16 /\ Len(t) = 16
      BY SMT
    <2>3. \A i \in 1 .. 16 : s[i] = t[i]
      BY SMT
    <2>4. Header("private", "current") = t
      BY SMT DEF Header
    <2>5. Wrapping("private", "current") = enc
      BY <2>1, AlgorithmIs, Zenon DEF Wrapping, Der
    <2> HIDE DEF enc, s, t
    <2>6. s = t
      BY <2>2, <2>3, SameSequence, Zenon
    <2>7. Len(enc) + 32 = 46
      BY <2>1, SMT
    <2> QED BY <2>4, <2>5, <2>6, <2>7, Zenon DEF s
  <1> DEFINE Headed(q, l) == <<48, Len(Wrapping(q, l)) + 32>> \o Wrapping(q, l) = Header(q, l)
  <1>7. /\ Headed("public", "old") /\ Headed("public", "null") /\ Headed("public", "current")
        /\ Headed("private", "old") /\ Headed("private", "null") /\ Headed("private", "current")
    BY <1>1, <1>2, <1>3, <1>4, <1>5, <1>6, Zenon
  <1> HIDE DEF Headed
  <1>8. Headed(kind, layout)
    BY <1>7, Zenon DEF Layouts
  <1> QED BY <1>8, Zenon DEF Headed

\* Each of the six documented forms is its header and the key.
LEMMA DocumentIs ==
  ASSUME NEW kind \in {"public", "private"}, NEW layout \in Layouts, NEW k \in Seq(Int), Len(k) = 32
  PROVE  Document(kind, layout, k) = Header(kind, layout) \o k
  <1>1. Document(kind, layout, k) = (<<48, Len(Wrapping(kind, layout)) + 32>> \o Wrapping(kind, layout)) \o k
    BY DocumentWraps, ZenonT(30)
  <1>2. <<48, Len(Wrapping(kind, layout)) + 32>> \o Wrapping(kind, layout) = Header(kind, layout)
    BY WrappingIs, Zenon
  <1> QED BY <1>1, <1>2, Zenon

-----------------------------------------------------------------------------
(* What the decoder accepts. *)

Starts(d, h) == \A j \in 1 .. Len(h) : d[j] = h[j]

\* The last 32 bytes.
Tail32(d) == SubSeq(d, Len(d) - 31, Len(d))

\* The last 32 bytes, one by one.
LEMMA Tail32Is ==
  ASSUME NEW S, NEW d \in Seq(S), Len(d) >= 32
  PROVE  /\ Tail32(d) \in Seq(S) /\ Len(Tail32(d)) = 32
         /\ \A i \in 1 .. 32 : Tail32(d)[i] = d[Len(d) - 32 + i]
  <1> DEFINE m == Len(d) - 31  n == Len(d)
  <1>1. n \in Nat /\ m \in Int /\ n \in Int /\ m <= n /\ n - m + 1 = 32
    <2>1. Len(d) \in Nat
      BY LenProperties, Zenon
    <2> QED BY <2>1, SMT
  <1>2. \A i \in m .. n : d[i] \in S
    <2> SUFFICES ASSUME NEW i \in m .. n PROVE d[i] \in S
      OBVIOUS
    <2>1. i \in 1 .. Len(d)
      BY <1>1, SMT
    <2> QED BY <2>1, ElementOfSeq, Zenon
  <1>3. /\ SubSeq(d, m, n) \in Seq(S) /\ Len(SubSeq(d, m, n)) = IF m <= n THEN n - m + 1 ELSE 0
        /\ \A i \in 1 .. n - m + 1 : SubSeq(d, m, n)[i] = d[m + i - 1]
    <2> HIDE DEF m, n
    <2> QED BY <1>1, <1>2, SubSeqProperties, SMT
  <1>4. \A i \in 1 .. 32 : m + i - 1 = Len(d) - 32 + i
    BY <1>1, SMT
  <1> QED BY <1>1, <1>3, <1>4, Zenon DEF Tail32

\* An entry of a concatenation.
LEMMA JoinedAt ==
  ASSUME NEW h \in Seq(Int), NEW k \in Seq(Int), NEW i \in 1 .. Len(h) + Len(k)
  PROVE  (h \o k)[i] = IF i <= Len(h) THEN h[i] ELSE k[i - Len(h)]
  BY ConcatProperties, Zenon

\* A string is a header and a key just when it starts with the header.
LEMMA SplitKey ==
  ASSUME NEW d \in Seq(Int), NEW h \in Seq(Int), Len(d) = Len(h) + 32
  PROVE  d = h \o Tail32(d) <=> Starts(d, h)
  <1> DEFINE k == Tail32(d)  m == Len(h)  n == Len(d)  e == h \o k
  <1>1. m \in Nat /\ n \in Nat /\ n = m + 32 /\ n >= 32
    <2>1. Len(d) \in Nat /\ Len(h) \in Nat
      BY LenProperties, Zenon
    <2> QED BY <2>1, SMT
  <1>2. k \in Seq(Int) /\ Len(k) = 32 /\ \A i \in 1 .. 32 : k[i] = d[n - 32 + i]
    BY <1>1, Tail32Is, Zenon
  <1>3. e \in Seq(Int) /\ Len(e) = m + Len(k)
    BY <1>2, Joined, Zenon
  <1>4. Len(e) = n
    BY <1>1, <1>2, <1>3, Zenon
  <1>5. \A i \in 1 .. n : e[i] = IF i <= m THEN h[i] ELSE k[i - m]
    <2> SUFFICES ASSUME NEW i \in 1 .. n PROVE e[i] = IF i <= m THEN h[i] ELSE k[i - m]
      OBVIOUS
    <2>1. i \in 1 .. Len(h) + Len(k)
      BY <1>1, <1>2, Zenon
    <2> QED BY <1>2, <2>1, JoinedAt, Zenon
  <1> HIDE DEF k, m, n, e
  <1>6. \A i \in 1 .. n : i > m => e[i] = d[i]
    <2> SUFFICES ASSUME NEW i \in 1 .. n, i > m PROVE e[i] = d[i]
      OBVIOUS
    <2> DEFINE j == i - m
    <2>1. ~(i <= m) /\ j \in 1 .. 32 /\ n - 32 + j = i
      BY <1>1, SMT
    <2>2. e[i] = k[j]
      BY <1>5, <2>1, Zenon
    <2> QED BY <1>2, <2>1, <2>2, Zenon
  <1>7. ASSUME d = e PROVE Starts(d, h)
    <2> SUFFICES ASSUME NEW i \in 1 .. Len(h) PROVE d[i] = h[i]
      BY Zenon DEF Starts
    <2>1. i \in 1 .. m
      BY Zenon DEF m
    <2>2. i \in 1 .. n /\ i <= m
      BY <1>1, <2>1, SMT
    <2> QED BY <1>5, <1>7, <2>2, Zenon
  <1>8. ASSUME Starts(d, h) PROVE d = e
    <2>1. \A i \in 1 .. m : d[i] = h[i]
      BY <1>8, Zenon DEF Starts, m
    <2>2. \A i \in 1 .. n : d[i] = e[i]
      <3> SUFFICES ASSUME NEW i \in 1 .. n PROVE d[i] = e[i]
        OBVIOUS
      <3>1. CASE i <= m
        <4>1. i \in 1 .. m
          BY <1>1, <3>1, SMT
        <4> QED BY <1>5, <2>1, <3>1, <4>1, Zenon
      <3>2. CASE ~(i <= m)
        <4>1. i > m
          BY <1>1, <3>2, SMT
        <4> QED BY <1>6, <4>1, Zenon
      <3> QED BY <3>1, <3>2
    <2> QED BY <1>3, <1>4, <2>2, SameSequence, Zenon DEF n
  <1> QED BY <1>7, <1>8, Zenon DEF e, k

\* The two bytes that announce a layout, where the decoder looks for them.
LEMMA HeaderAt ==
  ASSUME NEW kind \in {"public", "private"}, NEW layout \in Layouts
  PROVE  /\ OID_BYTE(kind) \in Nat /\ IDLEN_BYTE(kind) \in Nat
         /\ OID_BYTE(kind) + 1 \in 1 .. Len(Header(kind, layout))
         /\ IDLEN_BYTE(kind) + 1 \in 1 .. Len(Header(kind, layout))
         /\ Header(kind, layout)[OID_BYTE(kind) + 1] = (IF layout = "old" THEN OID_OLD ELSE OID_ED25519)
         /\ Header(kind, layout)[IDLEN_BYTE(kind) + 1] = idlen(layout)
  <1>1. /\ OID_BYTE("public") \in Nat /\ IDLEN_BYTE("public") \in Nat
        /\ OID_BYTE("public") + 1 \in 1 .. Len(Header("public", "old"))
        /\ IDLEN_BYTE("public") + 1 \in 1 .. Len(Header("public", "old"))
        /\ Header("public", "old")[OID_BYTE("public") + 1] = (IF "old" = "old" THEN OID_OLD ELSE OID_ED25519)
        /\ Header("public", "old")[IDLEN_BYTE("public") + 1] = idlen("old")
    BY SMT DEF Header, OID_BYTE, IDLEN_BYTE, idlen, OID_OLD, OID_ED25519
  <1>2. /\ OID_BYTE("public") \in Nat /\ IDLEN_BYTE("public") \in Nat
        /\ OID_BYTE("public") + 1 \in 1 .. Len(Header("public", "null"))
        /\ IDLEN_BYTE("public") + 1 \in 1 .. Len(Header("public", "null"))
        /\ Header("public", "null")[OID_BYTE("public") + 1] = (IF "null" = "old" THEN OID_OLD ELSE OID_ED25519)
        /\ Header("public", "null")[IDLEN_BYTE("public") + 1] = idlen("null")
    BY SMT DEF Header, OID_BYTE, IDLEN_BYTE, idlen, OID_OLD, OID_ED25519
  <1>3. /\ OID_BYTE("public") \in Nat /\ IDLEN_BYTE("public") \in Nat
        /\ OID_BYTE("public") + 1 \in 1 .. Len(Header("public", "current"))
        /\ IDLEN_BYTE("public") + 1 \in 1 .. Len(Header("public", "current"))
        /\ Header("public", "current")[OID_BYTE("public") + 1] = (IF "current" = "old" THEN OID_OLD ELSE OID_ED25519)
        /\ Header("public", "current")[IDLEN_BYTE("public") + 1] = idlen("current")
    BY SMT DEF Header, OID_BYTE, IDLEN_BYTE, idlen, OID_OLD, OID_ED25519
  <1>4. /\ OID_BYTE("private") \in Nat /\ IDLEN_BYTE("private") \in Nat
        /\ OID_BYTE("private") + 1 \in 1 .. Len(Header("private", "old"))
        /\ IDLEN_BYTE("private") + 1 \in 1 .. Len(Header("private", "old"))
        /\ Header("private", "old")[OID_BYTE("private") + 1] = (IF "old" = "old" THEN OID_OLD ELSE OID_ED25519)
        /\ Header("private", "old")[IDLEN_BYTE("private") + 1] = idlen("old")
    BY SMT DEF Header, OID_BYTE, IDLEN_BYTE, idlen, OID_OLD, OID_ED25519
  <1>5. /\ OID_BYTE("private") \in Nat /\ IDLEN_BYTE("private") \in Nat
        /\ OID_BYTE("private") + 1 \in 1 .. Len(Header("private", "null"))
        /\ IDLEN_BYTE("private") + 1 \in 1 .. Len(Header("private", "null"))
        /\ Header("private", "null")[OID_BYTE("private") + 1] = (IF "null" = "old" THEN OID_OLD ELSE OID_ED25519)
        /\ Header("private", "null")[IDLEN_BYTE("private") + 1] = idlen("null")
    BY SMT DEF Header, OID_BYTE, IDLEN_BYTE, idlen, OID_OLD, OID_ED25519
  <1>6. /\ OID_BYTE("private") \in Nat /\ IDLEN_BYTE("private") \in Nat
        /\ OID_BYTE("private") + 1 \in 1 .. Len(Header("private", "current"))
        /\ IDLEN_BYTE("private") + 1 \in 1 .. Len(Header("private", "current"))
        /\ Header("private", "current")[OID_BYTE("private") + 1] = (IF "current" = "old" THEN OID_OLD ELSE OID_ED25519)
        /\ Header("private", "current")[IDLEN_BYTE("private") + 1] = idlen("current")
    BY SMT DEF Header, OID_BYTE, IDLEN_BYTE, idlen, OID_OLD, OID_ED25519
  <1> QED BY <1>1, <1>2, <1>3, <1>4, <1>5, <1>6, Zenon DEF Layouts

\* The two bytes announce the layout that has them.
LEMMA LayoutIs ==
  ASSUME NEW kind \in {"public", "private"}, NEW d \in Seq(Int), NEW layout \in Layouts
  PROVE  /\ Layout(kind, d) = layout =>
              d[OID_BYTE(kind) + 1] = IF layout = "old" THEN OID_OLD ELSE OID_ED25519
         /\ /\ d[OID_BYTE(kind) + 1] = IF layout = "old" THEN OID_OLD ELSE OID_ED25519
            /\ d[IDLEN_BYTE(kind) + 1] = idlen(layout)
            => Layout(kind, d) = layout
  <1> DEFINE x == d[OID_BYTE(kind) + 1]  y == d[IDLEN_BYTE(kind) + 1]
  <1>1. Layout(kind, d) = CASE x = 100 -> "old"
                            [] x = 112 /\ y = 7 -> "null"
                            [] x = 112 /\ y # 7 -> "current"
                            [] OTHER -> "unsupported"
    BY Zenon DEF Layout, OID_OLD, OID_ED25519
  <1> HIDE DEF x, y
  <1>2. layout \in {"old", "null", "current"}
    BY Zenon DEF Layouts
  <1>3. OID_OLD = 100 /\ OID_ED25519 = 112 /\ idlen("old") = 8 /\ idlen("null") = 7 /\ idlen("current") = 5
    BY SMT DEF OID_OLD, OID_ED25519, idlen
  <1>4. /\ Layout(kind, d) = layout => x = IF layout = "old" THEN 100 ELSE 112
        /\ x = (IF layout = "old" THEN 100 ELSE 112) /\ y = idlen(layout) => Layout(kind, d) = layout
    <2>1. CASE layout = "old"
      BY <1>1, <1>3, <2>1, SMT
    <2>2. CASE layout = "null"
      BY <1>1, <1>3, <2>2, SMT
    <2>3. CASE layout = "current"
      BY <1>1, <1>3, <2>3, SMT
    <2> QED BY <1>2, <2>1, <2>2, <2>3, Zenon
  <1> QED BY <1>3, <1>4, Zenon DEF x, y

\* The decoder accepts just the strings of a documented header and 32 bytes.
LEMMA DecodesIs ==
  ASSUME NEW kind \in {"public", "private"}, NEW d \in Seq(Int)
  PROVE  /\ Decodes(kind, d) <=> \E layout \in Layouts : /\ Len(d) = totlen(kind, layout)
                                                        /\ Starts(d, Header(kind, layout))
         /\ Decodes(kind, d) => decode(kind, d) = Tail32(d) /\ Len(d) >= 32
  <1> DEFINE o == OID_BYTE(kind) + 1
  <1>1. \A layout \in Layouts : /\ Expected(kind, layout) = Header(kind, layout)
                               /\ Header(kind, layout) \in Seq(Int)
                               /\ Len(Header(kind, layout)) = totlen(kind, layout) - 32
                               /\ Len(Header(kind, layout)) \in Nat
                               /\ DOMAIN Header(kind, layout) = 1 .. Len(Header(kind, layout))
                               /\ totlen(kind, layout) \in Nat /\ totlen(kind, layout) > OID_BYTE(kind)
                               /\ totlen(kind, layout) >= 32
    <2> SUFFICES ASSUME NEW layout \in Layouts
                 PROVE  /\ Expected(kind, layout) = Header(kind, layout)
                        /\ Header(kind, layout) \in Seq(Int)
                        /\ Len(Header(kind, layout)) = totlen(kind, layout) - 32
                        /\ Len(Header(kind, layout)) \in Nat
                        /\ DOMAIN Header(kind, layout) = 1 .. Len(Header(kind, layout))
                        /\ totlen(kind, layout) \in Nat /\ totlen(kind, layout) > OID_BYTE(kind)
                        /\ totlen(kind, layout) >= 32
      OBVIOUS
    <2>1. Header(kind, layout) \in Seq(Int) /\ Len(Header(kind, layout)) = totlen(kind, layout) - 32
      BY HeaderIs, Zenon
    <2>2. Len(Header(kind, layout)) \in Nat /\ DOMAIN Header(kind, layout) = 1 .. Len(Header(kind, layout))
      BY <2>1, LenProperties, Zenon
    <2>3. totlen(kind, layout) \in Nat /\ totlen(kind, layout) > OID_BYTE(kind) /\ totlen(kind, layout) >= 32
      BY SMT DEF totlen, OID_BYTE
    <2> QED BY <2>1, <2>2, <2>3, ExpectedIs, Zenon
  <1>2. ASSUME Decodes(kind, d)
        PROVE  /\ \E layout \in Layouts : Len(d) = totlen(kind, layout) /\ Starts(d, Header(kind, layout))
               /\ decode(kind, d) = Tail32(d) /\ Len(d) >= 32
    <2> DEFINE l == Layout(kind, d)  h == Header(kind, l)
    <2>1. l \in Layouts /\ Len(d) = totlen(kind, l)
      BY <1>2, Zenon DEF Decodes
    <2>2. \A j \in DOMAIN h \ {o} : d[j] = h[j]
      BY <1>1, <1>2, <2>1, Zenon DEF Decodes
    <2>3. d[o] = h[o]
      BY <2>1, LayoutIs, HeaderAt, Zenon
    <2>4. Starts(d, h)
      <3> SUFFICES ASSUME NEW j \in 1 .. Len(h) PROVE d[j] = h[j]
        BY Zenon DEF Starts
      <3>1. j \in DOMAIN h
        BY <1>1, <2>1, Zenon
      <3> QED BY <2>2, <2>3, <3>1, Zenon
    <2>5. Len(Expected(kind, l)) + 1 = Len(d) - 31 /\ Len(d) >= 32
      <3>1. /\ Len(Expected(kind, l)) = totlen(kind, l) - 32 /\ totlen(kind, l) \in Nat
            /\ totlen(kind, l) >= 32 /\ Len(d) = totlen(kind, l)
        BY <1>1, <2>1, Zenon
      <3> HIDE DEF l
      <3> QED BY <3>1, SMT
    <2>6. decode(kind, d) = Tail32(d)
      BY <2>5, Zenon DEF decode, Tail32
    <2> QED BY <2>1, <2>4, <2>5, <2>6, Zenon
  <1>3. ASSUME NEW layout \in Layouts, Len(d) = totlen(kind, layout), Starts(d, Header(kind, layout))
        PROVE  Decodes(kind, d)
    <2> DEFINE h == Header(kind, layout)
    <2>1. d[o] = h[o] /\ d[IDLEN_BYTE(kind) + 1] = h[IDLEN_BYTE(kind) + 1]
      BY <1>3, HeaderAt, Zenon DEF Starts
    <2>2. Layout(kind, d) = layout
      <3>1. /\ d[OID_BYTE(kind) + 1] = IF layout = "old" THEN OID_OLD ELSE OID_ED25519
            /\ d[IDLEN_BYTE(kind) + 1] = idlen(layout)
        BY <2>1, HeaderAt
      <3> QED BY <3>1, LayoutIs, Zenon
    <2>3. Len(d) > OID_BYTE(kind)
      BY <1>1, <1>3, Zenon
    <2>4. \A j \in DOMAIN Expected(kind, layout) \ {o} : d[j] = Expected(kind, layout)[j]
      BY <1>1, <1>3, Zenon DEF Starts
    <2> QED BY <1>3, <2>2, <2>3, <2>4, Zenon DEF Decodes
  <1> QED BY <1>2, <1>3, Zenon

\* The key of a header and a key.
LEMMA KeyOfDocument ==
  ASSUME NEW h \in Seq(Int), NEW k \in Seq(Int), Len(k) = 32
  PROVE  /\ h \o k \in Seq(Int) /\ Len(h \o k) = Len(h) + 32
         /\ Starts(h \o k, h) /\ Tail32(h \o k) = k
  <1> DEFINE d == h \o k  m == Len(h)  t == Tail32(d)
  <1>1. d \in Seq(Int) /\ Len(d) = m + Len(k)
    BY Joined, Zenon
  <1>2. Len(d) = m + 32
    BY <1>1, Zenon
  <1>3. m \in Nat
    BY LenProperties, Zenon
  <1>4. \A i \in 1 .. m + 32 : d[i] = IF i <= m THEN h[i] ELSE k[i - m]
    BY JoinedAt, Zenon
  <1>5. t \in Seq(Int) /\ Len(t) = 32 /\ \A i \in 1 .. 32 : t[i] = d[Len(d) - 32 + i]
    <2>1. Len(d) >= 32
      <3> HIDE DEF d, m
      <3> QED BY <1>2, <1>3, SMT
    <2> HIDE DEF d
    <2> QED BY <1>1, <2>1, Tail32Is, Zenon
  <1>6. Starts(d, h)
    <2> SUFFICES ASSUME NEW i \in 1 .. m PROVE d[i] = h[i]
      BY Zenon DEF Starts
    <2> HIDE DEF d, m
    <2>1. i \in 1 .. m + 32 /\ i <= m
      BY <1>3, SMT
    <2> QED BY <1>4, <2>1, Zenon
  <1>7. t = k
    <2>1. \A i \in 1 .. 32 : t[i] = k[i]
      <3> SUFFICES ASSUME NEW i \in 1 .. 32 PROVE t[i] = k[i]
        OBVIOUS
      <3> DEFINE j == Len(d) - 32 + i
      <3> HIDE DEF d, m, t
      <3>1. j \in 1 .. m + 32 /\ ~(j <= m) /\ j - m = i
        BY <1>2, <1>3, SMT
      <3>2. d[j] = k[j - m]
        BY <1>4, <3>1, Zenon
      <3> QED BY <1>5, <3>1, <3>2, Zenon
    <2> HIDE DEF t
    <2> QED BY <1>5, <2>1, SameSequence, Zenon
  <1> QED BY <1>1, <1>2, <1>6, <1>7, Zenon

\* A byte string as a function.
LEMMA BytesAreFunctions == \A s \in Seq(0 .. 255) : s \in [1 .. Len(s) -> 0 .. 255]
  <1> SUFFICES ASSUME NEW s \in Seq(0 .. 255) PROVE s \in [1 .. Len(s) -> 0 .. 255]
    OBVIOUS
  <1> QED BY LenProperties, Zenon

\* Strings of 32 bytes, as functions and as sequences.
LEMMA KeyStringIs ==
  \A s : s \in KeyStrings <=> s \in Seq(0 .. 255) /\ Len(s) = 32
  <1>1. ASSUME NEW s, s \in KeyStrings PROVE s \in Seq(0 .. 255) /\ Len(s) = 32
    <2>1. 32 \in Nat
      OBVIOUS
    <2>2. s \in Seq(0 .. 255)
      <3>1. Seq(0 .. 255) = UNION {[1 .. n -> 0 .. 255] : n \in Nat}
        BY SeqDef, Zenon
      <3>2. [1 .. 32 -> 0 .. 255] \in {[1 .. n -> 0 .. 255] : n \in Nat}
        BY <2>1, Zenon
      <3> QED BY <1>1, <3>1, <3>2, Zenon DEF KeyStrings
    <2>3. DOMAIN s = 1 .. 32
      BY <1>1, Zenon DEF KeyStrings
    <2>4. DOMAIN s = 1 .. Len(s) /\ Len(s) \in Nat
      BY <2>2, LenProperties, Zenon
    <2> DEFINE n == Len(s)
    <2>5. 1 .. n = 1 .. 32 /\ n \in Nat
      BY <2>3, <2>4, Zenon
    <2> HIDE DEF n
    <2>6. n = 32
      <3>1. 32 \in 1 .. n /\ (n > 32 => n \in 1 .. n)
        BY <2>5, SMT
      <3>2. n > 32 => n \in 1 .. 32
        BY <2>5, <3>1, Zenon
      <3> QED BY <2>5, <3>1, <3>2, SMT
    <2> QED BY <2>2, <2>6, Zenon DEF n
  <1>2. ASSUME NEW s, s \in Seq(0 .. 255), Len(s) = 32 PROVE s \in KeyStrings
    <2>1. s \in [1 .. Len(s) -> 0 .. 255]
      BY <1>2, BytesAreFunctions, Zenon
    <2> QED BY <1>2, <2>1, Zenon DEF KeyStrings
  <1> QED BY <1>1, <1>2

\* A byte string is a sequence of integers.
LEMMA BytesAreIntegers == \A s \in Seq(0 .. 255) : s \in Seq(Int)
  <1>1. 0 .. 255 \subseteq Int
    BY SMT
  <1> QED BY <1>1, SeqMonotonic, Zenon

\* A key that holds its bytes.
HasBytes(k) == k.kind \in {"public", "private"} /\ k.seed \in KeyStrings

\* The canonical encoding, as it is written out and as it is documented.
LEMMA EncodedIs ==
  ASSUME NEW k, HasBytes(k)
  PROVE  /\ getEncoded(k) = Header(k.kind, "current") \o k.seed
         /\ getEncoded(k) = Document(k.kind, "current", k.seed)
  <1> DEFINE s == k.seed  n == Len(s)
  <1>1. s \in Seq(Int) /\ n = 32
    BY KeyStringIs, BytesAreIntegers, Zenon DEF HasBytes
  <1>2. s # Nothing
    BY KeyCodecAssumption, Zenon DEF HasBytes
  <1>3. 12 + n - 2 = 42 /\ 16 + n - 2 = 46 /\ n + 1 = 33 /\ n + 2 = 34
    <2> HIDE DEF n
    <2> QED BY <1>1, SMT
  <1>4. OID_ED25519 = 112
    BY DEF OID_ED25519
  <1>5. CASE k.kind = "public"
    <2>1. Header("public", "current") = <<48, 42, 48, 5, 6, 3, 43, 101, 112, 3, 33, 0>>
      BY SMT DEF Header
    <2>2. getEncoded(k) = <<48, 12 + n - 2, 48, 5, 6, 3, 43, 101, OID_ED25519, 3, n + 1, 0>> \o s
      BY <1>2, <1>5, Zenon DEF getEncoded
    <2> HIDE DEF n, s
    <2>3. getEncoded(k) = <<48, 42, 48, 5, 6, 3, 43, 101, 112, 3, 33, 0>> \o s
      BY <1>1, <1>3, <1>4, <2>2, Zenon
    <2>4. Document("public", "current", s) = Header("public", "current") \o s
      BY <1>1, DocumentIs, Zenon DEF n, Layouts
    <2> QED BY <1>5, <2>1, <2>3, <2>4, Zenon DEF s
  <1>6. CASE k.kind = "private"
    <2>1. Header("private", "current") = <<48, 46, 2, 1, 0, 48, 5, 6, 3, 43, 101, 112, 4, 34, 4, 32>>
      BY SMT DEF Header
    <2>2. getEncoded(k) = <<48, 16 + n - 2, 2, 1, 0, 48, 5, 6, 3, 43, 101, OID_ED25519, 4, n + 2, 4, n>> \o s
      <3>1. k.kind # "public"
        BY <1>6
      <3> QED BY <1>2, <3>1, Zenon DEF getEncoded
    <2> HIDE DEF n, s
    <2>3. getEncoded(k) = <<48, 46, 2, 1, 0, 48, 5, 6, 3, 43, 101, 112, 4, 34, 4, 32>> \o s
      BY <1>1, <1>3, <1>4, <2>2, Zenon
    <2>4. Document("private", "current", s) = Header("private", "current") \o s
      BY <1>1, DocumentIs, Zenon DEF n, Layouts
    <2> QED BY <1>6, <2>1, <2>3, <2>4, Zenon DEF s
  <1> QED BY <1>5, <1>6, Zenon DEF HasBytes

\* A given encoding is documented just when it decodes.
LEMMA DocumentedIs ==
  ASSUME NEW kind \in {"public", "private"}, NEW d \in Seq(0 .. 255)
  PROVE  /\ Decodes(kind, d) <=> Len(d) >= 32 /\ \E layout \in Layouts : d = Document(kind, layout, Tail32(d))
         /\ Decodes(kind, d) => decode(kind, d) = Tail32(d) /\ Tail32(d) \in KeyStrings
  <1>1. d \in Seq(Int)
    BY BytesAreIntegers, Zenon
  <1>2. ASSUME Len(d) >= 32, NEW layout \in Layouts
        PROVE  /\ d = Document(kind, layout, Tail32(d))
                    <=> Len(d) = totlen(kind, layout) /\ Starts(d, Header(kind, layout))
               /\ Tail32(d) \in KeyStrings
    <2> DEFINE t == Tail32(d)  h == Header(kind, layout)
    <2>1. t \in Seq(0 .. 255) /\ Len(t) = 32
      BY <1>2, Tail32Is, Zenon
    <2>2. t \in KeyStrings /\ t \in Seq(Int)
      BY <2>1, KeyStringIs, BytesAreIntegers, Zenon
    <2>3. Document(kind, layout, t) = h \o t
      BY <2>1, <2>2, DocumentIs, Zenon
    <2>4. h \in Seq(Int) /\ Len(h) = totlen(kind, layout) - 32
      BY HeaderIs, Zenon
    <2>5. Len(h) \in Nat /\ totlen(kind, layout) = Len(h) + 32
      <3>1. totlen(kind, layout) \in Nat
        BY SMT DEF totlen
      <3>2. Len(h) \in Nat
        BY <2>4, LenProperties, Zenon
      <3> HIDE DEF h
      <3> QED BY <2>4, <3>1, <3>2, SMT
    <2>6. ASSUME d = h \o t PROVE Len(d) = Len(h) + 32
      <3>1. Len(h \o t) = Len(h) + 32
        BY <2>1, <2>2, <2>4, KeyOfDocument, Zenon
      <3> QED BY <2>6, <3>1, Zenon
    <2>7. ASSUME Len(d) = Len(h) + 32 PROVE d = h \o t <=> Starts(d, h)
      BY <1>1, <2>4, <2>7, SplitKey, Zenon
    <2> QED BY <2>2, <2>3, <2>5, <2>6, <2>7, Zenon
  <1>3. Decodes(kind, d) => decode(kind, d) = Tail32(d) /\ Len(d) >= 32
    BY <1>1, DecodesIs, Zenon
  <1>4. Decodes(kind, d) <=> \E layout \in Layouts : Len(d) = totlen(kind, layout) /\ Starts(d, Header(kind, layout))
    BY <1>1, DecodesIs, Zenon
  <1>5. \E layout : layout \in Layouts
    BY Zenon DEF Layouts
  <1> QED BY <1>2, <1>3, <1>4, <1>5, Zenon

-----------------------------------------------------------------------------
(* Keys. *)

\* What a key made from an encoding is.
IsDecoded(k, kind) ==
  /\ k.kind = kind /\ k.seed \in KeyStrings /\ IsKey(k)
  /\ kind = "public" => k.seed \in DOMAIN Canonical /\ k = [kind |-> "public", seed |-> k.seed, A |-> k.seed]
                         /\ Canonical[k.seed] = k.seed
  /\ kind = "private" => k = FromSeed(k.seed)

\* Exceptions are no keys, records of the three fields are.
LEMMA RecordsAre ==
  /\ \A class : ~IsKey(Raised(class))
  /\ \A x, y, z : IsKey([kind |-> x, seed |-> y, A |-> z])
  <1>1. \A class : ~IsKey(Raised(class))
    BY SMT DEF IsKey, Raised
  <1>2. \A x, y, z : IsKey([kind |-> x, seed |-> y, A |-> z])
    BY SMT DEF IsKey
  <1> QED BY <1>1, <1>2

\* What is assumed of an encoding.
LEMMA GivenIs ==
  ASSUME NEW g \in Given
  PROVE  g.kind \in {"public", "private"} /\ g.bytes \in Seq(0 .. 255)
  BY KeyCodecAssumption, Zenon

\* Every key made from an encoding is one of its kind that holds its bytes.
LEMMA KeyIs ==
  ASSUME NEW kind \in {"public", "private"}, NEW d \in Seq(0 .. 255), IsKey(Key(kind, d))
  PROVE  IsDecoded(Key(kind, d), kind)
  <1> DEFINE k == Key(kind, d)  s == decode(kind, d)
  <1>1. Decodes(kind, d)
    BY RecordsAre, Zenon DEF Key
  <1>2. s \in KeyStrings
    BY <1>1, DocumentedIs, Zenon
  <1>3. CASE kind = "public"
    <2> DEFINE c == Canonical[s]
    <2>1. k = FromPoint(s)
      BY <1>1, <1>3, Zenon DEF Key
    <2>2. s \in DOMAIN Canonical
      BY <2>1, RecordsAre, Zenon DEF FromPoint
    <2>3. k = [kind |-> "public", seed |-> c, A |-> c]
      BY <2>1, <2>2, Zenon DEF FromPoint
    <2>4. c \in DOMAIN Canonical /\ Canonical[c] = c /\ c \in KeyStrings
      BY <2>2, KeyCodecAssumption, Zenon
    <2> HIDE DEF k, c
    <2>5. k.kind = "public" /\ k.seed = c
      BY <2>3, Zenon
    <2>6. kind # "private"
      BY <1>3
    <2>7. IsKey(k)
      BY <2>3, RecordsAre, Zenon
    <2> QED BY <1>3, <2>3, <2>4, <2>5, <2>6, <2>7, Zenon DEF IsDecoded, k
  <1>4. CASE kind = "private"
    <2>1. kind # "public"
      BY <1>4
    <2>2. k = FromSeed(s)
      BY <1>1, <2>1, Zenon DEF Key
    <2> HIDE DEF k, s
    <2>3. k.kind = "private" /\ k.seed = s
      BY <2>2, Zenon DEF FromSeed
    <2>4. IsKey(k)
      BY <2>2, RecordsAre, Zenon DEF FromSeed
    <2> QED BY <1>2, <1>4, <2>1, <2>2, <2>3, <2>4, Zenon DEF IsDecoded, k
  <1> QED BY <1>3, <1>4

\* A key read in again is the same key.
LEMMA RereadIs ==
  ASSUME NEW kind \in {"public", "private"}, NEW k, IsDecoded(k, kind)
  PROVE  Key(kind, getEncoded(k)) = k
  <1> DEFINE s == k.seed  h == Header(kind, "current")  d == getEncoded(k)
  <1>1. k.kind = kind /\ s \in KeyStrings /\ s \in Seq(Int) /\ Len(s) = 32 /\ "current" \in Layouts
    BY KeyStringIs, BytesAreIntegers, Zenon DEF IsDecoded, Layouts
  <1>2. d = h \o s
    <2>1. k.kind \in {"public", "private"}
      BY <1>1, Zenon
    <2>2. HasBytes(k)
      BY <1>1, <2>1, Zenon DEF HasBytes
    <2>3. getEncoded(k) = Header(k.kind, "current") \o k.seed
      BY <2>2, EncodedIs, Zenon
    <2> QED BY <1>1, <2>3, Zenon
  <1>3. h \in Seq(Int) /\ Len(h) = totlen(kind, "current") - 32
    BY <1>1, HeaderIs, Zenon
  <1>4. d \in Seq(Int) /\ Len(d) = Len(h) + 32 /\ Starts(d, h) /\ Tail32(d) = s
    <2> HIDE DEF d, h, s
    <2>1. /\ h \o s \in Seq(Int) /\ Len(h \o s) = Len(h) + 32
          /\ Starts(h \o s, h) /\ Tail32(h \o s) = s
      BY <1>1, <1>3, KeyOfDocument, Zenon
    <2> QED BY <1>2, <2>1, Zenon
  <1>5. Len(h) + 32 = totlen(kind, "current")
    <2>1. totlen(kind, "current") \in Nat
      BY SMT DEF totlen
    <2>2. Len(h) \in Nat
      BY <1>3, LenProperties, Zenon
    <2> HIDE DEF h
    <2> QED BY <1>3, <2>1, <2>2, SMT
  <1>6. Decodes(kind, d) /\ decode(kind, d) = s
    <2>1. Len(d) = totlen(kind, "current")
      BY <1>4, <1>5, Zenon
    <2> HIDE DEF d, s
    <2>2. Decodes(kind, d)
      BY <1>1, <1>4, <2>1, DecodesIs, Zenon DEF h
    <2> QED BY <1>4, <2>2, DecodesIs, Zenon
  <1>7. CASE kind = "public"
    <2>1. Key(kind, d) = FromPoint(s)
      BY <1>6, <1>7, Zenon DEF Key
    <2>2. s \in DOMAIN Canonical /\ k = [kind |-> "public", seed |-> s, A |-> s] /\ Canonical[s] = s
      BY <1>7, Zenon DEF IsDecoded
    <2> HIDE DEF d, s
    <2> QED BY <2>1, <2>2, Zenon DEF FromPoint, d
  <1>8. CASE kind = "private"
    <2>1. kind # "public"
      BY <1>8
    <2> QED BY <1>6, <1>8, <2>1, Zenon DEF Key, IsDecoded
  <1> QED BY <1>7, <1>8

\* The key that the encoding makes, and those that may come after it.
First == Key(given.kind, given.bytes)

Later == {First} \cup {FromHash(h) : h \in Hashes}

\* The first key, when it is one.
LEMMA FirstIs ==
  ASSUME given \in Given, IsKey(First)
  PROVE  IsDecoded(First, given.kind) /\ given.kind \in {"public", "private"}
  BY GivenIs, KeyIs, Zenon DEF First

\* Keys that come after the first.
LEMMA LaterIs ==
  ASSUME given \in Given, IsKey(First), NEW k \in Later
  PROVE  /\ IsKey(k) /\ getEncoded(k) # Nothing => k = First
         /\ k.seed = Nothing => getEncoded(k) = Nothing
         /\ k.kind \in {"public", "private"}
         /\ k # First => k.seed = Nothing /\ k.kind = "private"
  <1>1. CASE k = First
    <2>1. k.kind \in {"public", "private"}
      BY <1>1, FirstIs, Zenon DEF IsDecoded
    <2> QED BY <1>1, <2>1, Zenon DEF getEncoded
  <1>2. CASE \E h \in Hashes : k = FromHash(h)
    <2>1. k.seed = Nothing /\ k.kind = "private"
      <3>1. PICK h \in Hashes : k = FromHash(h)
        BY <1>2
      <3> QED BY <3>1, SMT DEF FromHash
    <2> QED BY <2>1, Zenon DEF getEncoded
  <1> QED BY <1>1, <1>2, Zenon DEF Later

\* A key made of its own specification is the same key.
LEMMA RespecifiedIs ==
  ASSUME given \in Given, IsKey(First), NEW k \in Later
  PROVE  Respecified(k) = k
  <1>1. CASE k = First
    <2>1. IsDecoded(k, given.kind) /\ given.kind \in {"public", "private"}
      BY <1>1, FirstIs, Zenon
    <2>2. CASE given.kind = "public"
      <3>1. PICK s : k = [kind |-> "public", seed |-> s, A |-> s]
        BY <2>1, <2>2, Zenon DEF IsDecoded
      <3> QED BY <3>1, SMT DEF Respecified
    <2>3. CASE given.kind = "private"
      <3>1. PICK s : k = FromSeed(s)
        BY <2>1, <2>3, Zenon DEF IsDecoded
      <3> QED BY <3>1, SMT DEF Respecified, FromParts, FromSeed
    <2> QED BY <2>1, <2>2, <2>3
  <1>2. CASE \E h \in Hashes : k = FromHash(h)
    <2>1. PICK h \in Hashes : k = FromHash(h)
      BY <1>2
    <2> QED BY <2>1, SMT DEF Respecified, FromParts, FromHash
  <1> QED BY <1>1, <1>2, Zenon DEF Later

-----------------------------------------------------------------------------
(* The machine. *)

(***************************************************************************)
(* The inductive invariant: the first key is what the encoding makes, the  *)
(* others are that key again or those made from hashes.                    *)
(***************************************************************************)
CodecIInv ==
  /\ given \in Given
  /\ \/ keys = <<>>
     \/ keys = <<First>>
     \/ IsKey(First) /\ \E k \in Later : keys = <<First, k>>
     \/ IsKey(First) /\ \E k, l \in Later : keys = <<First, k, l>>

\* No key at first.
LEMMA InvInit == CodecInit => CodecIInv
  BY Zenon DEF CodecInit, CodecIInv

\* What Append does to a sequence.
LEMMA AppendedIs ==
  ASSUME NEW S, NEW r \in Seq(S), NEW y \in S
  PROVE  /\ Append(r, y) \in Seq(S) /\ Len(Append(r, y)) = Len(r) + 1
         /\ \A i \in 1 .. Len(r) : Append(r, y)[i] = r[i]
         /\ Append(r, y)[Len(r) + 1] = y
  <1>1. ASSUME NEW i \in 1 .. Len(r) PROVE Append(r, y)[i] = r[i]
    BY AppendProperties, SMT
  <1>2. Append(r, y) \in Seq(S)
    BY AppendProperties, Zenon
  <1>3. Len(Append(r, y)) = Len(r) + 1
    BY AppendProperties, Zenon
  <1>4. Append(r, y)[Len(r) + 1] = y
    BY AppendProperties, Zenon
  <1> QED BY <1>1, <1>2, <1>3, <1>4

\* A second entry.
LEMMA AppendToOne == \A x, y : Append(<<x>>, y) = <<x, y>>
  <1> SUFFICES ASSUME NEW x, NEW y PROVE Append(<<x>>, y) = <<x, y>>
    OBVIOUS
  <1> DEFINE S == {x, y}  r == <<x>>  s == Append(r, y)  t == <<x, y>>
  <1>1. /\ r \in Seq(S) /\ Len(r) = 1 /\ r[1] = x /\ y \in S
        /\ t \in Seq(S) /\ Len(t) = 2 /\ t[1] = x /\ t[2] = y
    BY SMT
  <1> HIDE DEF r, S, t
  <1>2. s \in Seq(S) /\ Len(s) = Len(r) + 1 /\ (\A i \in 1 .. Len(r) : s[i] = r[i]) /\ s[Len(r) + 1] = y
    <2>1. r \in Seq(S) /\ y \in S
      BY <1>1, Zenon
    <2> HIDE DEF s
    <2> QED BY <2>1, AppendedIs DEF s
  <1> HIDE DEF s
  <1>3. Len(s) = 2 /\ \A i \in 1 .. 2 : s[i] = t[i]
    BY <1>1, <1>2, SMT
  <1>4. s = t
    BY <1>1, <1>2, <1>3, SeqEqual, Zenon
  <1> QED BY <1>4 DEF s, t, r

\* A third entry.
LEMMA AppendToTwo == \A x, y, z : Append(<<x, y>>, z) = <<x, y, z>>
  <1> SUFFICES ASSUME NEW x, NEW y, NEW z PROVE Append(<<x, y>>, z) = <<x, y, z>>
    OBVIOUS
  <1> DEFINE S == {x, y, z}  r == <<x, y>>  s == Append(r, z)  t == <<x, y, z>>
  <1>1. /\ r \in Seq(S) /\ Len(r) = 2 /\ r[1] = x /\ r[2] = y /\ z \in S
        /\ t \in Seq(S) /\ Len(t) = 3 /\ t[1] = x /\ t[2] = y /\ t[3] = z
    BY SMT
  <1> HIDE DEF r, S, t
  <1>2. s \in Seq(S) /\ Len(s) = Len(r) + 1 /\ (\A i \in 1 .. Len(r) : s[i] = r[i]) /\ s[Len(r) + 1] = z
    <2>1. r \in Seq(S) /\ z \in S
      BY <1>1, Zenon
    <2> HIDE DEF s
    <2> QED BY <2>1, AppendedIs DEF s
  <1> HIDE DEF s
  <1>3. Len(s) = 3 /\ \A i \in 1 .. 3 : s[i] = t[i]
    BY <1>1, <1>2, SMT
  <1>4. s = t
    BY <1>1, <1>2, <1>3, SeqEqual, Zenon
  <1> QED BY <1>4 DEF s, t, r

\* Short sequences: their lengths and last entries.
LEMMA HeaderLengths ==
  \A x, y, z : /\ Len(<<>>) = 0 /\ Len(<<x>>) = 1 /\ Len(<<x, y>>) = 2 /\ Len(<<x, y, z>>) = 3
               /\ Last(<<x>>) = x /\ Last(<<x, y>>) = y
               /\ <<x>>[1] = x
  <1>1. \A x, y, z : Len(<<>>) = 0 /\ Len(<<x>>) = 1 /\ Len(<<x, y>>) = 2 /\ Len(<<x, y, z>>) = 3
    BY SMT
  <1>2. \A x, y : <<x>>[1] = x /\ <<x, y>>[2] = y
    BY SMT
  <1>3. \A x, y : <<x>>[Len(<<x>>)] = x /\ <<x, y>>[Len(<<x, y>>)] = y
    BY SMT
  <1>4. \A x, y : Last(<<x>>) = x /\ Last(<<x, y>>) = y
    BY <1>3, Zenon DEF Last
  <1> QED BY <1>1, <1>2, <1>4, Zenon
\* Short sequences: their positions.
LEMMA Domains ==
  \A x, y, z : /\ DOMAIN <<>> = {} /\ DOMAIN <<x>> = {1} /\ DOMAIN <<x, y>> = {1, 2} /\ DOMAIN <<x, y, z>> = {1, 2, 3}
  BY SMT

\* How many keys there are in each case.
LEMMA LengthsAre ==
  ASSUME CodecIInv
  PROVE  \/ keys = <<>> /\ Len(keys) = 0
         \/ keys = <<First>> /\ Len(keys) = 1
         \/ IsKey(First) /\ (\E k \in Later : keys = <<First, k>>) /\ Len(keys) = 2
         \/ Len(keys) = 3
  BY HeaderLengths, Zenon DEF CodecIInv

\* One key is the first.
LEMMA OneKey == CodecIInv /\ Len(keys) = 1 => keys = <<First>>
  BY LengthsAre, SMT

\* One key, or two.
LEMMA OneOrTwo ==
  CodecIInv /\ Len(keys) \in 1 .. 2 => keys = <<First>> \/ (IsKey(First) /\ \E k \in Later : keys = <<First, k>>)
  <1> SUFFICES ASSUME CodecIInv, Len(keys) \in 1 .. 2
               PROVE  keys = <<First>> \/ (IsKey(First) /\ \E k \in Later : keys = <<First, k>>)
    OBVIOUS
  <1>1. Len(keys) # 0 /\ Len(keys) # 3
    BY SMT
  <1> QED BY <1>1, LengthsAre, Zenon

\* A further key of those that may come preserves the invariant.
LEMMA OneMore ==
  ASSUME CodecIInv, given' = given, Len(keys) \in 1 .. 2, IsKey(Last(keys)),
         NEW l \in Later, keys' = Append(keys, l)
  PROVE  CodecIInv'
  <1>1. First' = First /\ Later' = Later
    BY Zenon DEF First, Later
  <1>2. keys = <<First>> \/ (IsKey(First) /\ \E k \in Later : keys = <<First, k>>)
    BY OneOrTwo
  <1>3. CASE keys = <<First>>
    <2>1. IsKey(First)
      BY <1>3, HeaderLengths, Zenon
    <2>2. keys' = <<First, l>>
      BY <1>3, AppendToOne, Zenon
    <2> QED BY <1>1, <2>1, <2>2, Zenon DEF CodecIInv, IsKey
  <1>4. CASE IsKey(First) /\ \E k \in Later : keys = <<First, k>>
    <2>1. PICK k \in Later : keys = <<First, k>>
      BY <1>4
    <2>2. keys' = <<First, k, l>>
      BY <2>1, AppendToTwo, Zenon
    <2> QED BY <1>1, <1>4, <2>1, <2>2, Zenon DEF CodecIInv, IsKey
  <1> QED BY <1>2, <1>3, <1>4

\* The last key is one of them.
LEMMA LastIs ==
  ASSUME CodecIInv, Len(keys) \in 1 .. 2, IsKey(Last(keys))
  PROVE  IsKey(First) /\ Last(keys) \in Later
  <1>1. keys = <<First>> \/ (IsKey(First) /\ \E k \in Later : keys = <<First, k>>)
    BY OneOrTwo
  <1>2. First \in Later
    BY Zenon DEF Later
  <1>3. CASE keys = <<First>>
    BY <1>2, <1>3, HeaderLengths, Zenon
  <1>4. CASE IsKey(First) /\ \E k \in Later : keys = <<First, k>>
    <2>1. PICK k \in Later : keys = <<First, k>>
      BY <1>4
    <2>2. Last(keys) = k
      BY <2>1, HeaderLengths, Zenon
    <2> QED BY <1>4, <2>2, Zenon
  <1> QED BY <1>1, <1>3, <1>4

\* Decoding, reading again, deriving and respecifying preserve the invariant.
LEMMA InvNext == CodecIInv /\ [CodecNext]_codecVars => CodecIInv'
  <1> SUFFICES ASSUME CodecIInv, [CodecNext]_codecVars PROVE CodecIInv'
    OBVIOUS
  <1>1. CASE Decode
    <2>1. given' = given /\ keys' = <<First>>
      BY <1>1, Zenon DEF Decode, First
    <2>2. First' = First
      BY <2>1, Zenon DEF First
    <2> QED BY <2>1, <2>2, Zenon DEF CodecIInv
  <1>2. CASE Reread
    <2>1. given' = given /\ Len(keys) = 1 /\ IsKey(keys[1])
          /\ keys' = Append(keys, Key(keys[1].kind, getEncoded(keys[1])))
      BY <1>2, Zenon DEF Reread
    <2>2. keys = <<First>> /\ IsKey(First)
      <3>1. keys = <<First>>
        BY <2>1, OneKey
      <3> QED BY <2>1, <3>1, HeaderLengths, Zenon
    <2>3. Key(First.kind, getEncoded(First)) = First
      <3>1. given \in Given
        BY Zenon DEF CodecIInv
      <3>2. IsDecoded(First, given.kind) /\ given.kind \in {"public", "private"}
        BY <2>2, <3>1, FirstIs, Zenon
      <3>3. First.kind = given.kind
        BY <3>2, Zenon DEF IsDecoded
      <3>4. Key(given.kind, getEncoded(First)) = First
        BY <3>2, RereadIs
      <3> QED BY <3>3, <3>4, Zenon
    <2>4. keys[1] = First
      BY <2>2, HeaderLengths, Zenon
    <2>5. keys' = <<First, First>>
      BY <2>1, <2>2, <2>3, <2>4, AppendToOne, Zenon
    <2>6. First' = First /\ Later' = Later
      BY <2>1, Zenon DEF First, Later
    <2>7. First \in Later
      BY Zenon DEF Later
    <2> QED BY <2>1, <2>2, <2>5, <2>6, <2>7, Zenon DEF CodecIInv, IsKey
  <1>3. CASE Derive
    <2>1. given' = given /\ Len(keys) \in 1 .. 2 /\ IsKey(Last(keys))
      BY <1>3, Zenon DEF Derive
    <2>2. PICK h \in Hashes : keys' = Append(keys, FromHash(h))
      BY <1>3, Zenon DEF Derive
    <2>3. FromHash(h) \in Later
      BY Zenon DEF Later
    <2> QED BY <2>1, <2>2, <2>3, OneMore
  <1>4. CASE Respecify
    <2>1. given' = given /\ Len(keys) \in 1 .. 2 /\ IsKey(Last(keys))
          /\ keys' = Append(keys, Respecified(Last(keys)))
      BY <1>4, Zenon DEF Respecify
    <2>2. IsKey(First) /\ Last(keys) \in Later
      BY <2>1, LastIs
    <2>3. given \in Given
      BY Zenon DEF CodecIInv
    <2>4. Respecified(Last(keys)) = Last(keys)
      BY <2>2, <2>3, RespecifiedIs
    <2>5. keys' = Append(keys, Last(keys))
      BY <2>1, <2>4, Zenon
    <2> QED BY <2>1, <2>2, <2>5, OneMore
  <1>5. CASE UNCHANGED codecVars
    <2>1. given' = given /\ keys' = keys
      BY <1>5 DEF codecVars
    <2>2. First' = First /\ Later' = Later
      BY <2>1, Zenon DEF First, Later
    <2> QED BY <2>1, <2>2, Zenon DEF CodecIInv, IsKey
  <1> QED BY <1>1, <1>2, <1>3, <1>4, <1>5 DEF CodecNext

\* Every key is the first or made from a hash, and then the first is a key.
LEMMA KeysAre ==
  ASSUME CodecIInv, NEW n \in DOMAIN keys, IsKey(keys[n])
  PROVE  given \in Given /\ IsKey(First) /\ keys[n] \in Later
  <1>1. keys # <<>>
    BY Domains, Zenon
  <1>2. First \in Later /\ \A h \in Hashes : FromHash(h) \in Later
    BY Zenon DEF Later
  <1>3. CASE keys = <<First>>
    <2>1. keys[n] = First
      BY <1>3, SMT
    <2> QED BY <1>2, <2>1, Zenon DEF CodecIInv
  <1>4. CASE IsKey(First) /\ \E k \in Later : keys = <<First, k>>
    <2>1. PICK k \in Later : keys = <<First, k>>
      BY <1>4
    <2>2. keys[n] = First \/ keys[n] = k
      BY <2>1, SMT
    <2> QED BY <1>2, <1>4, <2>2, Zenon DEF CodecIInv
  <1>5. CASE IsKey(First) /\ \E k, l \in Later : keys = <<First, k, l>>
    <2>1. PICK k \in Later, l \in Later : keys = <<First, k, l>>
      BY <1>5
    <2>2. keys[n] = First \/ keys[n] = k \/ keys[n] = l
      BY <2>1, SMT
    <2> QED BY <1>2, <1>5, <2>2, Zenon DEF CodecIInv
  <1> QED BY <1>1, <1>3, <1>4, <1>5, Zenon DEF CodecIInv

\* Keys of the invariant migrate.
LEMMA InvMigrates == CodecIInv => Migrates
  <1> SUFFICES ASSUME CodecIInv, NEW m \in DOMAIN keys, NEW n \in DOMAIN keys, IsKey(keys[m]), IsKey(keys[n])
               PROVE  LET k == keys[m] l == keys[n] e == getEncoded(k)
                      IN  /\ e # Nothing => e = Document(k.kind, "current", k.seed)
                          /\ equals(k, l) => e = getEncoded(l) /\ (e # Nothing => k.A = l.A)
                          /\ m < n /\ e # Nothing /\ getEncoded(l) # Nothing => equals(k, l)
    BY Zenon DEF Migrates
  <1> DEFINE k == keys[m]  l == keys[n]  e == getEncoded(k)
  <1>1. given \in Given /\ IsKey(First) /\ k \in Later /\ l \in Later
    BY KeysAre, Zenon
  <1>2. /\ e # Nothing => k = First
        /\ getEncoded(l) # Nothing => l = First
    <2> HIDE DEF k, l
    <2>1. IsKey(k) /\ getEncoded(k) # Nothing => k = First
      BY <1>1, LaterIs
    <2>2. IsKey(l) /\ getEncoded(l) # Nothing => l = First
      BY <1>1, LaterIs
    <2> QED BY <2>1, <2>2, Zenon DEF e, k, l
  <1>3. e # Nothing => e = Document(k.kind, "current", k.seed)
    <2> SUFFICES ASSUME k = First PROVE e = Document(k.kind, "current", k.seed)
      BY <1>2
    <2> HIDE DEF k, l
    <2>1. IsDecoded(First, given.kind) /\ given.kind \in {"public", "private"}
      BY <1>1, FirstIs, Zenon
    <2>2. HasBytes(k)
      BY <2>1, Zenon DEF IsDecoded, HasBytes
    <2> QED BY <2>2, EncodedIs
  <1>4. equals(k, l) => e = getEncoded(l) /\ (e # Nothing => k.A = l.A)
    <2> HIDE DEF k, l
    <2> SUFFICES ASSUME equals(k, l) PROVE e = getEncoded(l) /\ (e # Nothing => k.A = l.A)
      OBVIOUS
    <2>1. k.kind = l.kind /\ k.seed = l.seed
      BY Zenon DEF equals
    <2>2. getEncoded(k) = getEncoded(l)
      BY <2>1, Zenon DEF getEncoded
    <2> QED BY <1>2, <2>2, Zenon
  <1>5. e # Nothing /\ getEncoded(l) # Nothing => equals(k, l)
    BY <1>2, Zenon DEF equals
  <1> HIDE DEF k, l, e
  <1> QED BY <1>3, <1>4, <1>5, Zenon DEF k, l, e

\* The first key of the invariant is the documented one.
LEMMA InvDecodes == CodecIInv => DecodesDocumented
  <1> SUFFICES ASSUME CodecIInv, keys # <<>>
      PROVE  LET d == given.bytes
                 k == SubSeq(d, Len(d) - b \div 8 + 1, Len(d))
                 documented == /\ Len(d) >= b \div 8
                               /\ \E layout \in Layouts : d = Document(given.kind, layout, k)
             IN  keys[1] = IF ~documented THEN Raised("InvalidKeySpecException")
                           ELSE IF given.kind = "private" THEN FromSeed(k)
                           ELSE IF k \in DOMAIN Canonical
                           THEN [kind |-> "public", seed |-> Canonical[k], A |-> Canonical[k]]
                           ELSE Raised("IllegalArgumentException")
    BY Zenon DEF DecodesDocumented
  <1> DEFINE kind == given.kind
             d == given.bytes
             k == SubSeq(d, Len(d) - b \div 8 + 1, Len(d))
             documented == /\ Len(d) >= b \div 8
                           /\ \E layout \in Layouts : d = Document(kind, layout, k)
  <1>1. kind \in {"public", "private"} /\ d \in Seq(0 .. 255)
    BY GivenIs, Zenon DEF CodecIInv
  <1>2. b \div 8 = 32
    BY SMT DEF b
  <1>3. k = Tail32(d)
    <2>1. Len(d) \in Nat
      BY <1>1, LenProperties, Zenon
    <2>2. Len(d) - b \div 8 + 1 = Len(d) - 31
      <3> HIDE DEF d
      <3> QED BY <1>2, <2>1, SMT
    <2> QED BY <2>2, Zenon DEF Tail32
  <1>4. /\ Decodes(kind, d) <=> Len(d) >= 32 /\ \E layout \in Layouts : d = Document(kind, layout, Tail32(d))
        /\ Decodes(kind, d) => decode(kind, d) = Tail32(d)
    <2> HIDE DEF kind, d
    <2> QED BY <1>1, DocumentedIs
  <1>5. /\ Decodes(kind, d) <=> documented
        /\ Decodes(kind, d) => decode(kind, d) = k
    <2> HIDE DEF kind, d, k
    <2> QED BY <1>2, <1>3, <1>4, Zenon
  <1>6. keys[1] = Key(kind, d)
    <2>1. keys[1] = First
      BY SMT DEF CodecIInv
    <2> QED BY <2>1, Zenon DEF First
  <1> HIDE DEF kind, d, k, documented
  <1>7. CASE ~documented
    BY <1>5, <1>6, <1>7, Zenon DEF Key, kind, d, k, documented
  <1>8. CASE documented /\ kind = "private"
    <2>1. keys[1] = FromSeed(k)
      <3>1. kind # "public"
        BY <1>8
      <3> QED BY <1>5, <1>6, <1>8, <3>1, Zenon DEF Key
    <2> QED BY <1>8, <2>1, Zenon DEF kind, d, k, documented
  <1>9. CASE documented /\ kind = "public"
    <2>1. keys[1] = FromPoint(k)
      BY <1>5, <1>6, <1>9, Zenon DEF Key
    <2>2. kind # "private"
      BY <1>9
    <2> QED BY <1>9, <2>1, <2>2, Zenon DEF FromPoint, kind, d, k, documented
  <1> QED BY <1>1, <1>7, <1>8, <1>9, Zenon

(***************************************************************************)
(* Whatever byte string it is given, the decoder makes a key just of the   *)
(* three documented forms of a 32-byte key, of the bytes that are the key  *)
(* there, and answers every other string with InvalidKeySpecException.     *)
(***************************************************************************)
THEOREM KeysDecodeDocumented == CodecSpec => []DecodesDocumented
  BY InvInit, InvNext, InvDecodes, PTL DEF CodecSpec

(***************************************************************************)
(* Decoding and re-encoding migrates a key of any form, and any key string *)
(* in it: the encoding is the current form, it gives an equal key with the *)
(* same point, and keys made from hashes are apart from all of them.       *)
(***************************************************************************)
THEOREM KeysMigrate == CodecSpec => []Migrates
  BY InvInit, InvNext, InvMigrates, PTL DEF CodecSpec

-----------------------------------------------------------------------------
(* The length of a hashed message. *)

\* The nine bytes that the code writes are the last of the sixteen, and the
\* others are zero.
LEMMA LengthWritten ==
  ASSUME NEW x \in Nat, Shr(x, 64) = 0
  PROVE  /\ \A j \in 0 .. 8 : LengthBytes(x, j) = Shr(8 * x, 8 * (8 - j)) % 256
         /\ \A i \in 1 .. 7 : Shr(8 * x, 8 * (16 - i)) % 256 = 0
  <1>1. LengthBytes(x, 0) = Shr(8 * x, 8 * (8 - 0)) % 256
    <2>1. 61 - 8 * 0 = 61 /\ 8 * (8 - 0) = 64 /\ 0 # 8
      BY SMT
    <2>2. 61 \div 4 = 15 /\ 61 - 3 * 15 = 16 /\ 64 \div 4 = 16 /\ 64 - 3 * 16 = 16
      BY SMT
    <2>3. Shr(x, 61) = (((x \div 2 ^ 15) \div 2 ^ 15) \div 2 ^ 15) \div 2 ^ 16
      BY <2>2, Zenon DEF Shr
    <2>4. Shr(8 * x, 64) = ((((8 * x) \div 2 ^ 16) \div 2 ^ 16) \div 2 ^ 16) \div 2 ^ 16
      BY <2>2, Zenon DEF Shr
    <2>5. Shr(x, 61) = Shr(8 * x, 64)
      BY <2>3, <2>4, SMT
    <2> QED BY <2>1, <2>5, Zenon DEF LengthBytes
  <1>2. LengthBytes(x, 1) = Shr(8 * x, 8 * (8 - 1)) % 256
    <2>1. 61 - 8 * 1 = 53 /\ 8 * (8 - 1) = 56 /\ 1 # 8
      BY SMT
    <2>2. 53 \div 4 = 13 /\ 53 - 3 * 13 = 14 /\ 56 \div 4 = 14 /\ 56 - 3 * 14 = 14
      BY SMT
    <2>3. Shr(x, 53) = (((x \div 2 ^ 13) \div 2 ^ 13) \div 2 ^ 13) \div 2 ^ 14
      BY <2>2, Zenon DEF Shr
    <2>4. Shr(8 * x, 56) = ((((8 * x) \div 2 ^ 14) \div 2 ^ 14) \div 2 ^ 14) \div 2 ^ 14
      BY <2>2, Zenon DEF Shr
    <2>5. Shr(x, 53) = Shr(8 * x, 56)
      BY <2>3, <2>4, SMT
    <2> QED BY <2>1, <2>5, Zenon DEF LengthBytes
  <1>3. LengthBytes(x, 2) = Shr(8 * x, 8 * (8 - 2)) % 256
    <2>1. 61 - 8 * 2 = 45 /\ 8 * (8 - 2) = 48 /\ 2 # 8
      BY SMT
    <2>2. 45 \div 4 = 11 /\ 45 - 3 * 11 = 12 /\ 48 \div 4 = 12 /\ 48 - 3 * 12 = 12
      BY SMT
    <2>3. Shr(x, 45) = (((x \div 2 ^ 11) \div 2 ^ 11) \div 2 ^ 11) \div 2 ^ 12
      BY <2>2, Zenon DEF Shr
    <2>4. Shr(8 * x, 48) = ((((8 * x) \div 2 ^ 12) \div 2 ^ 12) \div 2 ^ 12) \div 2 ^ 12
      BY <2>2, Zenon DEF Shr
    <2>5. Shr(x, 45) = Shr(8 * x, 48)
      BY <2>3, <2>4, SMT
    <2> QED BY <2>1, <2>5, Zenon DEF LengthBytes
  <1>4. LengthBytes(x, 3) = Shr(8 * x, 8 * (8 - 3)) % 256
    <2>1. 61 - 8 * 3 = 37 /\ 8 * (8 - 3) = 40 /\ 3 # 8
      BY SMT
    <2>2. 37 \div 4 = 9 /\ 37 - 3 * 9 = 10 /\ 40 \div 4 = 10 /\ 40 - 3 * 10 = 10
      BY SMT
    <2>3. Shr(x, 37) = (((x \div 2 ^ 9) \div 2 ^ 9) \div 2 ^ 9) \div 2 ^ 10
      BY <2>2, Zenon DEF Shr
    <2>4. Shr(8 * x, 40) = ((((8 * x) \div 2 ^ 10) \div 2 ^ 10) \div 2 ^ 10) \div 2 ^ 10
      BY <2>2, Zenon DEF Shr
    <2>5. Shr(x, 37) = Shr(8 * x, 40)
      BY <2>3, <2>4, SMT
    <2> QED BY <2>1, <2>5, Zenon DEF LengthBytes
  <1>5. LengthBytes(x, 4) = Shr(8 * x, 8 * (8 - 4)) % 256
    <2>1. 61 - 8 * 4 = 29 /\ 8 * (8 - 4) = 32 /\ 4 # 8
      BY SMT
    <2>2. 29 \div 4 = 7 /\ 29 - 3 * 7 = 8 /\ 32 \div 4 = 8 /\ 32 - 3 * 8 = 8
      BY SMT
    <2>3. Shr(x, 29) = (((x \div 2 ^ 7) \div 2 ^ 7) \div 2 ^ 7) \div 2 ^ 8
      BY <2>2, Zenon DEF Shr
    <2>4. Shr(8 * x, 32) = ((((8 * x) \div 2 ^ 8) \div 2 ^ 8) \div 2 ^ 8) \div 2 ^ 8
      BY <2>2, Zenon DEF Shr
    <2>5. Shr(x, 29) = Shr(8 * x, 32)
      BY <2>3, <2>4, SMT
    <2> QED BY <2>1, <2>5, Zenon DEF LengthBytes
  <1>6. LengthBytes(x, 5) = Shr(8 * x, 8 * (8 - 5)) % 256
    <2>1. 61 - 8 * 5 = 21 /\ 8 * (8 - 5) = 24 /\ 5 # 8
      BY SMT
    <2>2. 21 \div 4 = 5 /\ 21 - 3 * 5 = 6 /\ 24 \div 4 = 6 /\ 24 - 3 * 6 = 6
      BY SMT
    <2>3. Shr(x, 21) = (((x \div 2 ^ 5) \div 2 ^ 5) \div 2 ^ 5) \div 2 ^ 6
      BY <2>2, Zenon DEF Shr
    <2>4. Shr(8 * x, 24) = ((((8 * x) \div 2 ^ 6) \div 2 ^ 6) \div 2 ^ 6) \div 2 ^ 6
      BY <2>2, Zenon DEF Shr
    <2>5. Shr(x, 21) = Shr(8 * x, 24)
      BY <2>3, <2>4, SMT
    <2> QED BY <2>1, <2>5, Zenon DEF LengthBytes
  <1>7. LengthBytes(x, 6) = Shr(8 * x, 8 * (8 - 6)) % 256
    <2>1. 61 - 8 * 6 = 13 /\ 8 * (8 - 6) = 16 /\ 6 # 8
      BY SMT
    <2>2. 13 \div 4 = 3 /\ 13 - 3 * 3 = 4 /\ 16 \div 4 = 4 /\ 16 - 3 * 4 = 4
      BY SMT
    <2>3. Shr(x, 13) = (((x \div 2 ^ 3) \div 2 ^ 3) \div 2 ^ 3) \div 2 ^ 4
      BY <2>2, Zenon DEF Shr
    <2>4. Shr(8 * x, 16) = ((((8 * x) \div 2 ^ 4) \div 2 ^ 4) \div 2 ^ 4) \div 2 ^ 4
      BY <2>2, Zenon DEF Shr
    <2>5. Shr(x, 13) = Shr(8 * x, 16)
      BY <2>3, <2>4, SMT
    <2> QED BY <2>1, <2>5, Zenon DEF LengthBytes
  <1>8. LengthBytes(x, 7) = Shr(8 * x, 8 * (8 - 7)) % 256
    <2>1. 61 - 8 * 7 = 5 /\ 8 * (8 - 7) = 8 /\ 7 # 8
      BY SMT
    <2>2. 5 \div 4 = 1 /\ 5 - 3 * 1 = 2 /\ 8 \div 4 = 2 /\ 8 - 3 * 2 = 2
      BY SMT
    <2>3. Shr(x, 5) = (((x \div 2 ^ 1) \div 2 ^ 1) \div 2 ^ 1) \div 2 ^ 2
      BY <2>2, Zenon DEF Shr
    <2>4. Shr(8 * x, 8) = ((((8 * x) \div 2 ^ 2) \div 2 ^ 2) \div 2 ^ 2) \div 2 ^ 2
      BY <2>2, Zenon DEF Shr
    <2>5. Shr(x, 5) = Shr(8 * x, 8)
      BY <2>3, <2>4, SMT
    <2> QED BY <2>1, <2>5, Zenon DEF LengthBytes
  <1>9. LengthBytes(x, 8) = Shr(8 * x, 8 * (8 - 8)) % 256
    <2>1. 8 * (8 - 8) = 0 /\ 0 \div 4 = 0 /\ 0 - 3 * 0 = 0
      BY SMT
    <2>2. Shr(8 * x, 0) = ((((8 * x) \div 2 ^ 0) \div 2 ^ 0) \div 2 ^ 0) \div 2 ^ 0
      BY <2>1, Zenon DEF Shr
    <2>3. Shr(8 * x, 0) = x * 8
      BY <2>2, SMT
    <2> QED BY <2>1, <2>3, Zenon DEF LengthBytes
  <1>10. \A j \in 0 .. 8 : LengthBytes(x, j) = Shr(8 * x, 8 * (8 - j)) % 256
    <2> DEFINE Same(j) == LengthBytes(x, j) = Shr(8 * x, 8 * (8 - j)) % 256
    <2>1. Same(0) /\ Same(1) /\ Same(2) /\ Same(3) /\ Same(4) /\ Same(5) /\ Same(6) /\ Same(7) /\ Same(8)
      BY <1>1, <1>2, <1>3, <1>4, <1>5, <1>6, <1>7, <1>8, <1>9, Zenon
    <2> HIDE DEF Same
    <2>2. \A j \in 0 .. 8 : Same(j)
      BY <2>1, SMT
    <2> QED BY <2>2, Zenon DEF Same
  <1>11. (((x \div 2 ^ 16) \div 2 ^ 16) \div 2 ^ 16) \div 2 ^ 16 = 0
    <2>1. 64 \div 4 = 16 /\ 64 - 3 * 16 = 16
      BY SMT
    <2> QED BY <2>1, Zenon DEF Shr
  <1>12. Shr(8 * x, 8 * (16 - 1)) % 256 = 0
    <2>1. 8 * (16 - 1) = 120 /\ 120 \div 4 = 30 /\ 120 - 3 * 30 = 30
      BY SMT
    <2>2. Shr(8 * x, 120) = ((((8 * x) \div 2 ^ 30) \div 2 ^ 30) \div 2 ^ 30) \div 2 ^ 30
      BY <2>1, Zenon DEF Shr
    <2>3. Shr(8 * x, 120) = 0
      BY <1>11, <2>2, SMT
    <2>4. 0 % 256 = 0
      BY SMT
    <2> QED BY <2>1, <2>3, <2>4, Zenon
  <1>13. Shr(8 * x, 8 * (16 - 2)) % 256 = 0
    <2>1. 8 * (16 - 2) = 112 /\ 112 \div 4 = 28 /\ 112 - 3 * 28 = 28
      BY SMT
    <2>2. Shr(8 * x, 112) = ((((8 * x) \div 2 ^ 28) \div 2 ^ 28) \div 2 ^ 28) \div 2 ^ 28
      BY <2>1, Zenon DEF Shr
    <2>3. Shr(8 * x, 112) = 0
      BY <1>11, <2>2, SMT
    <2>4. 0 % 256 = 0
      BY SMT
    <2> QED BY <2>1, <2>3, <2>4, Zenon
  <1>14. Shr(8 * x, 8 * (16 - 3)) % 256 = 0
    <2>1. 8 * (16 - 3) = 104 /\ 104 \div 4 = 26 /\ 104 - 3 * 26 = 26
      BY SMT
    <2>2. Shr(8 * x, 104) = ((((8 * x) \div 2 ^ 26) \div 2 ^ 26) \div 2 ^ 26) \div 2 ^ 26
      BY <2>1, Zenon DEF Shr
    <2>3. Shr(8 * x, 104) = 0
      BY <1>11, <2>2, SMT
    <2>4. 0 % 256 = 0
      BY SMT
    <2> QED BY <2>1, <2>3, <2>4, Zenon
  <1>15. Shr(8 * x, 8 * (16 - 4)) % 256 = 0
    <2>1. 8 * (16 - 4) = 96 /\ 96 \div 4 = 24 /\ 96 - 3 * 24 = 24
      BY SMT
    <2>2. Shr(8 * x, 96) = ((((8 * x) \div 2 ^ 24) \div 2 ^ 24) \div 2 ^ 24) \div 2 ^ 24
      BY <2>1, Zenon DEF Shr
    <2>3. Shr(8 * x, 96) = 0
      BY <1>11, <2>2, SMT
    <2>4. 0 % 256 = 0
      BY SMT
    <2> QED BY <2>1, <2>3, <2>4, Zenon
  <1>16. Shr(8 * x, 8 * (16 - 5)) % 256 = 0
    <2>1. 8 * (16 - 5) = 88 /\ 88 \div 4 = 22 /\ 88 - 3 * 22 = 22
      BY SMT
    <2>2. Shr(8 * x, 88) = ((((8 * x) \div 2 ^ 22) \div 2 ^ 22) \div 2 ^ 22) \div 2 ^ 22
      BY <2>1, Zenon DEF Shr
    <2>3. Shr(8 * x, 88) = 0
      BY <1>11, <2>2, SMT
    <2>4. 0 % 256 = 0
      BY SMT
    <2> QED BY <2>1, <2>3, <2>4, Zenon
  <1>17. Shr(8 * x, 8 * (16 - 6)) % 256 = 0
    <2>1. 8 * (16 - 6) = 80 /\ 80 \div 4 = 20 /\ 80 - 3 * 20 = 20
      BY SMT
    <2>2. Shr(8 * x, 80) = ((((8 * x) \div 2 ^ 20) \div 2 ^ 20) \div 2 ^ 20) \div 2 ^ 20
      BY <2>1, Zenon DEF Shr
    <2>3. Shr(8 * x, 80) = 0
      BY <1>11, <2>2, SMT
    <2>4. 0 % 256 = 0
      BY SMT
    <2> QED BY <2>1, <2>3, <2>4, Zenon
  <1>18. Shr(8 * x, 8 * (16 - 7)) % 256 = 0
    <2>1. 8 * (16 - 7) = 72 /\ 72 \div 4 = 18 /\ 72 - 3 * 18 = 18
      BY SMT
    <2>2. Shr(8 * x, 72) = ((((8 * x) \div 2 ^ 18) \div 2 ^ 18) \div 2 ^ 18) \div 2 ^ 18
      BY <2>1, Zenon DEF Shr
    <2>3. Shr(8 * x, 72) = 0
      BY <1>11, <2>2, SMT
    <2>4. 0 % 256 = 0
      BY SMT
    <2> QED BY <2>1, <2>3, <2>4, Zenon
  <1>19. \A i \in 1 .. 7 : Shr(8 * x, 8 * (16 - i)) % 256 = 0
    <2> DEFINE Zero(i) == Shr(8 * x, 8 * (16 - i)) % 256 = 0
    <2>1. Zero(1) /\ Zero(2) /\ Zero(3) /\ Zero(4) /\ Zero(5) /\ Zero(6) /\ Zero(7)
      BY <1>12, <1>13, <1>14, <1>15, <1>16, <1>17, <1>18, Zenon
    <2> HIDE DEF Zero
    <2>2. \A i \in 1 .. 7 : Zero(i)
      BY <2>1, SMT
    <2> QED BY <2>2, Zenon DEF Zero
  <1> QED BY <1>10, <1>19

\* The sixteen bytes are numbers.
LEMMA LengthsAreInt ==
  ASSUME NEW x \in Nat
  PROVE  \A j \in 1 .. 16 : Shr(8 * x, 8 * (16 - j)) % 256 \in Int
  <1>1. Shr(8 * x, 8 * (16 - 1)) % 256 \in Int
    <2>1. 8 * (16 - 1) = 120 /\ 120 \div 4 = 30 /\ 120 - 3 * 30 = 30
      BY SMT
    <2>2. Shr(8 * x, 120) = ((((8 * x) \div 2 ^ 30) \div 2 ^ 30) \div 2 ^ 30) \div 2 ^ 30
      BY <2>1, Zenon DEF Shr
    <2>3. Shr(8 * x, 120) % 256 \in Int
      BY <2>2, SMT
    <2> QED BY <2>1, <2>3, Zenon
  <1>2. Shr(8 * x, 8 * (16 - 2)) % 256 \in Int
    <2>1. 8 * (16 - 2) = 112 /\ 112 \div 4 = 28 /\ 112 - 3 * 28 = 28
      BY SMT
    <2>2. Shr(8 * x, 112) = ((((8 * x) \div 2 ^ 28) \div 2 ^ 28) \div 2 ^ 28) \div 2 ^ 28
      BY <2>1, Zenon DEF Shr
    <2>3. Shr(8 * x, 112) % 256 \in Int
      BY <2>2, SMT
    <2> QED BY <2>1, <2>3, Zenon
  <1>3. Shr(8 * x, 8 * (16 - 3)) % 256 \in Int
    <2>1. 8 * (16 - 3) = 104 /\ 104 \div 4 = 26 /\ 104 - 3 * 26 = 26
      BY SMT
    <2>2. Shr(8 * x, 104) = ((((8 * x) \div 2 ^ 26) \div 2 ^ 26) \div 2 ^ 26) \div 2 ^ 26
      BY <2>1, Zenon DEF Shr
    <2>3. Shr(8 * x, 104) % 256 \in Int
      BY <2>2, SMT
    <2> QED BY <2>1, <2>3, Zenon
  <1>4. Shr(8 * x, 8 * (16 - 4)) % 256 \in Int
    <2>1. 8 * (16 - 4) = 96 /\ 96 \div 4 = 24 /\ 96 - 3 * 24 = 24
      BY SMT
    <2>2. Shr(8 * x, 96) = ((((8 * x) \div 2 ^ 24) \div 2 ^ 24) \div 2 ^ 24) \div 2 ^ 24
      BY <2>1, Zenon DEF Shr
    <2>3. Shr(8 * x, 96) % 256 \in Int
      BY <2>2, SMT
    <2> QED BY <2>1, <2>3, Zenon
  <1>5. Shr(8 * x, 8 * (16 - 5)) % 256 \in Int
    <2>1. 8 * (16 - 5) = 88 /\ 88 \div 4 = 22 /\ 88 - 3 * 22 = 22
      BY SMT
    <2>2. Shr(8 * x, 88) = ((((8 * x) \div 2 ^ 22) \div 2 ^ 22) \div 2 ^ 22) \div 2 ^ 22
      BY <2>1, Zenon DEF Shr
    <2>3. Shr(8 * x, 88) % 256 \in Int
      BY <2>2, SMT
    <2> QED BY <2>1, <2>3, Zenon
  <1>6. Shr(8 * x, 8 * (16 - 6)) % 256 \in Int
    <2>1. 8 * (16 - 6) = 80 /\ 80 \div 4 = 20 /\ 80 - 3 * 20 = 20
      BY SMT
    <2>2. Shr(8 * x, 80) = ((((8 * x) \div 2 ^ 20) \div 2 ^ 20) \div 2 ^ 20) \div 2 ^ 20
      BY <2>1, Zenon DEF Shr
    <2>3. Shr(8 * x, 80) % 256 \in Int
      BY <2>2, SMT
    <2> QED BY <2>1, <2>3, Zenon
  <1>7. Shr(8 * x, 8 * (16 - 7)) % 256 \in Int
    <2>1. 8 * (16 - 7) = 72 /\ 72 \div 4 = 18 /\ 72 - 3 * 18 = 18
      BY SMT
    <2>2. Shr(8 * x, 72) = ((((8 * x) \div 2 ^ 18) \div 2 ^ 18) \div 2 ^ 18) \div 2 ^ 18
      BY <2>1, Zenon DEF Shr
    <2>3. Shr(8 * x, 72) % 256 \in Int
      BY <2>2, SMT
    <2> QED BY <2>1, <2>3, Zenon
  <1>8. Shr(8 * x, 8 * (16 - 8)) % 256 \in Int
    <2>1. 8 * (16 - 8) = 64 /\ 64 \div 4 = 16 /\ 64 - 3 * 16 = 16
      BY SMT
    <2>2. Shr(8 * x, 64) = ((((8 * x) \div 2 ^ 16) \div 2 ^ 16) \div 2 ^ 16) \div 2 ^ 16
      BY <2>1, Zenon DEF Shr
    <2>3. Shr(8 * x, 64) % 256 \in Int
      BY <2>2, SMT
    <2> QED BY <2>1, <2>3, Zenon
  <1>9. Shr(8 * x, 8 * (16 - 9)) % 256 \in Int
    <2>1. 8 * (16 - 9) = 56 /\ 56 \div 4 = 14 /\ 56 - 3 * 14 = 14
      BY SMT
    <2>2. Shr(8 * x, 56) = ((((8 * x) \div 2 ^ 14) \div 2 ^ 14) \div 2 ^ 14) \div 2 ^ 14
      BY <2>1, Zenon DEF Shr
    <2>3. Shr(8 * x, 56) % 256 \in Int
      BY <2>2, SMT
    <2> QED BY <2>1, <2>3, Zenon
  <1>10. Shr(8 * x, 8 * (16 - 10)) % 256 \in Int
    <2>1. 8 * (16 - 10) = 48 /\ 48 \div 4 = 12 /\ 48 - 3 * 12 = 12
      BY SMT
    <2>2. Shr(8 * x, 48) = ((((8 * x) \div 2 ^ 12) \div 2 ^ 12) \div 2 ^ 12) \div 2 ^ 12
      BY <2>1, Zenon DEF Shr
    <2>3. Shr(8 * x, 48) % 256 \in Int
      BY <2>2, SMT
    <2> QED BY <2>1, <2>3, Zenon
  <1>11. Shr(8 * x, 8 * (16 - 11)) % 256 \in Int
    <2>1. 8 * (16 - 11) = 40 /\ 40 \div 4 = 10 /\ 40 - 3 * 10 = 10
      BY SMT
    <2>2. Shr(8 * x, 40) = ((((8 * x) \div 2 ^ 10) \div 2 ^ 10) \div 2 ^ 10) \div 2 ^ 10
      BY <2>1, Zenon DEF Shr
    <2>3. Shr(8 * x, 40) % 256 \in Int
      BY <2>2, SMT
    <2> QED BY <2>1, <2>3, Zenon
  <1>12. Shr(8 * x, 8 * (16 - 12)) % 256 \in Int
    <2>1. 8 * (16 - 12) = 32 /\ 32 \div 4 = 8 /\ 32 - 3 * 8 = 8
      BY SMT
    <2>2. Shr(8 * x, 32) = ((((8 * x) \div 2 ^ 8) \div 2 ^ 8) \div 2 ^ 8) \div 2 ^ 8
      BY <2>1, Zenon DEF Shr
    <2>3. Shr(8 * x, 32) % 256 \in Int
      BY <2>2, SMT
    <2> QED BY <2>1, <2>3, Zenon
  <1>13. Shr(8 * x, 8 * (16 - 13)) % 256 \in Int
    <2>1. 8 * (16 - 13) = 24 /\ 24 \div 4 = 6 /\ 24 - 3 * 6 = 6
      BY SMT
    <2>2. Shr(8 * x, 24) = ((((8 * x) \div 2 ^ 6) \div 2 ^ 6) \div 2 ^ 6) \div 2 ^ 6
      BY <2>1, Zenon DEF Shr
    <2>3. Shr(8 * x, 24) % 256 \in Int
      BY <2>2, SMT
    <2> QED BY <2>1, <2>3, Zenon
  <1>14. Shr(8 * x, 8 * (16 - 14)) % 256 \in Int
    <2>1. 8 * (16 - 14) = 16 /\ 16 \div 4 = 4 /\ 16 - 3 * 4 = 4
      BY SMT
    <2>2. Shr(8 * x, 16) = ((((8 * x) \div 2 ^ 4) \div 2 ^ 4) \div 2 ^ 4) \div 2 ^ 4
      BY <2>1, Zenon DEF Shr
    <2>3. Shr(8 * x, 16) % 256 \in Int
      BY <2>2, SMT
    <2> QED BY <2>1, <2>3, Zenon
  <1>15. Shr(8 * x, 8 * (16 - 15)) % 256 \in Int
    <2>1. 8 * (16 - 15) = 8 /\ 8 \div 4 = 2 /\ 8 - 3 * 2 = 2
      BY SMT
    <2>2. Shr(8 * x, 8) = ((((8 * x) \div 2 ^ 2) \div 2 ^ 2) \div 2 ^ 2) \div 2 ^ 2
      BY <2>1, Zenon DEF Shr
    <2>3. Shr(8 * x, 8) % 256 \in Int
      BY <2>2, SMT
    <2> QED BY <2>1, <2>3, Zenon
  <1>16. Shr(8 * x, 8 * (16 - 16)) % 256 \in Int
    <2>1. 8 * (16 - 16) = 0 /\ 0 \div 4 = 0 /\ 0 - 3 * 0 = 0
      BY SMT
    <2>2. Shr(8 * x, 0) = ((((8 * x) \div 2 ^ 0) \div 2 ^ 0) \div 2 ^ 0) \div 2 ^ 0
      BY <2>1, Zenon DEF Shr
    <2>3. Shr(8 * x, 0) % 256 \in Int
      BY <2>2, SMT
    <2> QED BY <2>1, <2>3, Zenon
  <1> DEFINE Number(j) == Shr(8 * x, 8 * (16 - j)) % 256 \in Int
  <1>17. /\ Number(1) /\ Number(2) /\ Number(3) /\ Number(4) /\ Number(5) /\ Number(6) /\ Number(7) /\ Number(8)
         /\ Number(9) /\ Number(10) /\ Number(11) /\ Number(12) /\ Number(13) /\ Number(14) /\ Number(15) /\ Number(16)
    BY <1>1, <1>2, <1>3, <1>4, <1>5, <1>6, <1>7, <1>8, <1>9, <1>10, <1>11, <1>12, <1>13, <1>14, <1>15, <1>16, Zenon
  <1> HIDE DEF Number
  <1>18. \A j \in 1 .. 16 : Number(j)
    BY <1>17, SMT
  <1> QED BY <1>18, Zenon DEF Number

-----------------------------------------------------------------------------
(* The schedule. *)

\* The first j of the variables hold the words of the next sixteen rounds,
\* the others those of the sixteen that start at word base.
Window(ws, base, j) ==
  /\ ws \in [0 .. 15 -> Int]
  /\ \A k \in 0 .. 15 : ws[k] = IF k < j THEN base + 16 + k ELSE base + k

\* Each M finds the words that the recurrence needs, overwritten or not.
LEMMA Expands ==
  ASSUME NEW base \in Nat, NEW j \in 0 .. 15, NEW ws, Window(ws, base, j)
  PROVE  Window(M(ws, j), base, j + 1)
  <1>1. ws \in [0 .. 15 -> Int] /\ \A k \in 0 .. 15 : ws[k] = IF k < j THEN base + 16 + k ELSE base + k
    BY Zenon DEF Window
  <1>2. ws[j] = base + j
    BY <1>1, SMT
  <1>3. ws[(j + 14) % 16] = base + j + 14
    BY <1>1, SMT
  <1>4. ws[(j + 9) % 16] = base + j + 9
    BY <1>1, SMT
  <1>5. ws[(j + 1) % 16] = base + j + 1
    BY <1>1, SMT
  <1>6. M(ws, j) = [ws EXCEPT ![j] = base + j + 16]
    <2>1. ws[j] + 16 = base + j + 16
      BY <1>2, SMT
    <2>2. /\ ws[(j + 14) % 16] = (ws[j] + 16) - 2
          /\ ws[(j + 9) % 16] = (ws[j] + 16) - 7
          /\ ws[(j + 1) % 16] = (ws[j] + 16) - 15
      BY <1>2, <1>3, <1>4, <1>5, SMT
    <2>3. Recurrence(ws, j) = base + j + 16
      BY <2>1, <2>2, Zenon DEF Recurrence
    <2> QED BY <2>3, Zenon DEF M
  <1>7. [ws EXCEPT ![j] = base + j + 16] \in [0 .. 15 -> Int]
    BY <1>1, SMT
  <1>8. \A k \in 0 .. 15 : [ws EXCEPT ![j] = base + j + 16][k] = IF k < j + 1 THEN base + 16 + k ELSE base + k
    BY <1>1, SMT
  <1> QED BY <1>6, <1>7, <1>8, Zenon DEF Window

\* Sixteen of them.
LEMMA ExpandsAll ==
  ASSUME NEW base \in Nat, NEW ws, Window(ws, base, 0)
  PROVE  Window(EXPAND(ws), base + 16, 0)
  <1> DEFINE four(xs, j) == M(M(M(M(xs, j), j + 1), j + 2), j + 3)
             a == four(ws, 0)  c == four(a, 4)  d == four(c, 8)  e == four(d, 12)
  <1>1. ASSUME NEW xs, NEW j \in 0 .. 12, Window(xs, base, j) PROVE Window(four(xs, j), base, j + 4)
    <2> DEFINE x1 == M(xs, j)  x2 == M(x1, j + 1)  x3 == M(x2, j + 2)  x4 == M(x3, j + 3)
    <2>1. j \in 0 .. 15 /\ j + 1 \in 0 .. 15 /\ j + 2 \in 0 .. 15 /\ j + 3 \in 0 .. 15
          /\ (j + 1) + 1 = j + 2 /\ (j + 2) + 1 = j + 3 /\ (j + 3) + 1 = j + 4
      BY SMT
    <2>2. Window(x1, base, j + 1)
      BY <1>1, <2>1, Expands, Zenon
    <2> HIDE DEF x1
    <2>3. Window(x2, base, j + 2)
      <3>1. Window(x2, base, (j + 1) + 1)
        BY <2>1, <2>2, Expands, Zenon
      <3> QED BY <2>1, <3>1, Zenon
    <2> HIDE DEF x2
    <2>4. Window(x3, base, j + 3)
      <3>1. Window(x3, base, (j + 2) + 1)
        BY <2>1, <2>3, Expands, Zenon
      <3> QED BY <2>1, <3>1, Zenon
    <2> HIDE DEF x3
    <2>5. Window(x4, base, j + 4)
      <3>1. Window(x4, base, (j + 3) + 1)
        BY <2>1, <2>4, Expands, Zenon
      <3> QED BY <2>1, <3>1, Zenon
    <2> QED BY <2>5, Zenon DEF x1, x2, x3
  <1> HIDE DEF four
  <1>2. Window(a, base, 0 + 4)
    BY <1>1, SMT
  <1>3. Window(c, base, 4 + 4)
    <2>1. Window(a, base, 4)
      BY <1>2, SMT
    <2> HIDE DEF a
    <2> QED BY <1>1, <2>1, SMT
  <1>4. Window(d, base, 8 + 4)
    <2>1. Window(c, base, 8)
      BY <1>3, SMT
    <2> HIDE DEF c
    <2> QED BY <1>1, <2>1, SMT
  <1>5. Window(e, base, 12 + 4)
    <2>1. Window(d, base, 12)
      BY <1>4, SMT
    <2> HIDE DEF d
    <2> QED BY <1>1, <2>1, SMT
  <1>6. EXPAND(ws) = e
    BY Zenon DEF EXPAND, four
  <1> HIDE DEF e
  <1>7. e \in [0 .. 15 -> Int] /\ \A k \in 0 .. 15 : e[k] = IF k < 16 THEN base + 16 + k ELSE base + k
    <2>1. 12 + 4 = 16
      BY SMT
    <2> QED BY <1>5, <2>1, Zenon DEF Window
  <1>8. \A k \in 0 .. 15 : e[k] = IF k < 0 THEN base + 16 + 16 + k ELSE base + 16 + k
    BY <1>7, SMT
  <1> QED BY <1>6, <1>7, <1>8, Zenon DEF Window

-----------------------------------------------------------------------------
(* The padded message. *)

zeros(n) == (111 - n) % 128

\* Position i of the padded message of n bytes.
StandardByte(n, i) ==
  IF i <= n THEN Input(i - 1)
  ELSE IF i = n + 1 THEN 128
  ELSE IF i <= n + 1 + zeros(n) THEN 0
  ELSE Shr(8 * n, 8 * (16 - (i - (n + 1 + zeros(n))))) % 256

\* A function on 1 .. n is a sequence of length n.
LEMMA FunctionIsSeq ==
  ASSUME NEW n \in Nat, NEW f \in [1 .. n -> Int]
  PROVE  f \in Seq(Int) /\ Len(f) = n
  <1>1. f \in Seq(Int)
    BY SeqDef
  <1>2. DOMAIN f = 1 .. Len(f) /\ Len(f) \in Nat /\ DOMAIN f = 1 .. n
    BY <1>1, LenProperties
  <1> QED BY <1>1, <1>2

\* An entry of a concatenation.
LEMMA JoinedIs ==
  ASSUME NEW s \in Seq(Int), NEW t \in Seq(Int)
  PROVE  /\ s \o t \in Seq(Int) /\ Len(s \o t) = Len(s) + Len(t)
         /\ \A i \in 1 .. Len(s) + Len(t) : (s \o t)[i] = IF i <= Len(s) THEN s[i] ELSE t[i - Len(s)]
  <1>1. s \o t \in Seq(Int)
    BY ConcatProperties, Zenon
  <1>2. Len(s \o t) = Len(s) + Len(t)
    BY ConcatProperties, Zenon
  <1>3. ASSUME NEW i \in 1 .. Len(s) + Len(t)
        PROVE  (s \o t)[i] = IF i <= Len(s) THEN s[i] ELSE t[i - Len(s)]
    BY ConcatProperties, SMT
  <1> QED BY <1>1, <1>2, <1>3

LEMMA StandardIs ==
  ASSUME NEW n \in Nat
  PROVE  /\ zeros(n) \in 0 .. 127
         /\ Len(Standard(n)) = n + 1 + zeros(n) + 16
         /\ \A i \in 1 .. n + 1 + zeros(n) + 16 : Standard(n)[i] = StandardByte(n, i)
  <1> DEFINE z == zeros(n)
             a == [k \in 1 .. n |-> Input(k - 1)]
             c == <<128>>
             d == [j \in 1 .. z |-> 0]
             e == [j \in 1 .. 16 |-> Shr(8 * n, 8 * (16 - j)) % 256]
  <1>1. z \in 0 .. 127
    BY SMT DEF zeros
  <1>2. Standard(n) = ((a \o c) \o d) \o e
    BY Zenon DEF Standard, zeros
  <1>3. a \in Seq(Int) /\ Len(a) = n
    <2>1. a \in [1 .. n -> Int]
      BY SMT DEF Input
    <2> HIDE DEF a
    <2> QED BY <2>1, FunctionIsSeq
  <1>4. c \in Seq(Int) /\ Len(c) = 1 /\ c[1] = 128
    BY SMT
  <1>5. d \in Seq(Int) /\ Len(d) = z
    <2> HIDE DEF z
    <2>1. z \in Nat /\ d \in [1 .. z -> Int]
      BY <1>1, SMT
    <2> HIDE DEF d
    <2> QED BY <2>1, FunctionIsSeq
  <1>6. e \in Seq(Int) /\ Len(e) = 16
    <2>1. \A j \in 1 .. 16 : e[j] \in Int
      <3> SUFFICES ASSUME NEW j \in 1 .. 16 PROVE e[j] \in Int
        OBVIOUS
      <3>1. Shr(8 * n, 8 * (16 - j)) % 256 \in Int
        BY LengthsAreInt, Zenon
      <3> QED BY <3>1, Zenon
    <2>2. 16 \in Nat /\ e \in [1 .. 16 -> Int]
      BY <2>1, Zenon
    <2> HIDE DEF e
    <2> QED BY <2>2, FunctionIsSeq
  <1> HIDE DEF a, c, d, e, z
  <1>7. a \o c \in Seq(Int) /\ Len(a \o c) = n + 1
        /\ \A i \in 1 .. n + 1 : (a \o c)[i] = IF i <= n THEN a[i] ELSE c[i - n]
    <2>1. /\ a \o c \in Seq(Int) /\ Len(a \o c) = Len(a) + Len(c)
          /\ \A i \in 1 .. Len(a) + Len(c) :
               (a \o c)[i] = IF i <= Len(a) THEN a[i] ELSE c[i - Len(a)]
      <3>1. a \in Seq(Int) /\ c \in Seq(Int)
        BY <1>3, <1>4
      <3> QED BY <3>1, JoinedIs, Zenon
    <2> QED BY <1>3, <1>4, <2>1, Zenon
  <1> DEFINE ac == a \o c
  <1> HIDE DEF ac
  <1>8. ac \in Seq(Int) /\ Len(ac) = n + 1 /\ \A i \in 1 .. n + 1 : ac[i] = IF i <= n THEN a[i] ELSE c[i - n]
    BY <1>7 DEF ac
  <1>9. ac \o d \in Seq(Int) /\ Len(ac \o d) = n + 1 + z
        /\ \A i \in 1 .. n + 1 + z : (ac \o d)[i] = IF i <= n + 1 THEN ac[i] ELSE d[i - (n + 1)]
    <2>1. /\ ac \o d \in Seq(Int) /\ Len(ac \o d) = Len(ac) + Len(d)
          /\ \A i \in 1 .. Len(ac) + Len(d) :
               (ac \o d)[i] = IF i <= Len(ac) THEN ac[i] ELSE d[i - Len(ac)]
      BY <1>5, <1>8, JoinedIs, Zenon
    <2> QED BY <1>5, <1>8, <2>1, Zenon
  <1> DEFINE acd == ac \o d
  <1> HIDE DEF acd
  <1>10. acd \in Seq(Int) /\ Len(acd) = n + 1 + z
         /\ \A i \in 1 .. n + 1 + z : acd[i] = IF i <= n + 1 THEN ac[i] ELSE d[i - (n + 1)]
    BY <1>9 DEF acd
  <1>11. Len(acd \o e) = n + 1 + z + 16
         /\ \A i \in 1 .. n + 1 + z + 16 : (acd \o e)[i] = IF i <= n + 1 + z THEN acd[i] ELSE e[i - (n + 1 + z)]
    <2>1. /\ acd \o e \in Seq(Int) /\ Len(acd \o e) = Len(acd) + Len(e)
          /\ \A i \in 1 .. Len(acd) + Len(e) :
               (acd \o e)[i] = IF i <= Len(acd) THEN acd[i] ELSE e[i - Len(acd)]
      BY <1>6, <1>10, JoinedIs, Zenon
    <2> QED BY <1>6, <1>10, <2>1, Zenon
  <1> DEFINE s == acd \o e
  <1> HIDE DEF s
  <1>12. Len(s) = n + 1 + z + 16
         /\ \A i \in 1 .. n + 1 + z + 16 : s[i] = IF i <= n + 1 + z THEN acd[i] ELSE e[i - (n + 1 + z)]
    BY <1>11 DEF s
  <1>13. ASSUME NEW i \in 1 .. n + 1 + z + 16 PROVE s[i] = StandardByte(n, i)
    <2>1. CASE i <= n
      <3>0. i \in 1 .. n /\ i \in 1 .. n + 1 /\ i \in 1 .. n + 1 + z /\ i <= n + 1 /\ i <= n + 1 + z
        BY <1>1, <2>1, SMT
      <3>1. s[i] = a[i] /\ i \in 1 .. n
        <4>1. s[i] = acd[i]
          BY <1>12, <3>0, Zenon
        <4>2. acd[i] = ac[i]
          BY <1>10, <3>0, Zenon
        <4>3. ac[i] = a[i]
          BY <1>8, <2>1, <3>0, Zenon
        <4> QED BY <3>0, <4>1, <4>2, <4>3, Zenon
      <3> QED BY <2>1, <3>1, Zenon DEF StandardByte, a
    <2>2. CASE i = n + 1
      <3>0. i \in 1 .. n + 1 /\ i \in 1 .. n + 1 + z /\ i <= n + 1 /\ i <= n + 1 + z /\ i - n = 1 /\ ~(i <= n)
        BY <1>1, <2>2, SMT
      <3>1. s[i] = c[i - n] /\ i - n = 1 /\ ~(i <= n)
        <4>1. s[i] = acd[i]
          BY <1>12, <3>0, Zenon
        <4>2. acd[i] = ac[i]
          BY <1>10, <3>0, Zenon
        <4>3. ac[i] = c[i - n]
          BY <1>8, <3>0, Zenon
        <4> QED BY <3>0, <4>1, <4>2, <4>3, Zenon
      <3>2. StandardByte(n, i) = 128
        BY <2>2, <3>1, Zenon DEF StandardByte
      <3>3. s[i] = 128
        BY <1>4, <3>1, Zenon
      <3> QED BY <3>2, <3>3, Zenon
    <2>3. CASE n + 1 < i /\ i <= n + 1 + z
      <3>1. s[i] = d[i - (n + 1)] /\ i - (n + 1) \in 1 .. z /\ ~(i <= n) /\ i # n + 1
        <4>1. /\ i \in 1 .. n + 1 + z /\ i <= n + 1 + z /\ ~(i <= n + 1)
              /\ i - (n + 1) \in 1 .. z /\ ~(i <= n) /\ i # n + 1
          BY <1>1, <2>3, SMT
        <4> QED BY <1>10, <1>12, <4>1, Zenon
      <3>2. d[i - (n + 1)] = 0
        BY <3>1, Zenon DEF d
      <3> QED BY <2>3, <3>1, <3>2, Zenon DEF StandardByte, z
    <2>4. CASE n + 1 + z < i
      <3>1. s[i] = e[i - (n + 1 + z)] /\ i - (n + 1 + z) \in 1 .. 16 /\ ~(i <= n) /\ i # n + 1 /\ ~(i <= n + 1 + z)
        <4>1. i - (n + 1 + z) \in 1 .. 16 /\ ~(i <= n) /\ i # n + 1 /\ ~(i <= n + 1 + z)
          BY <1>1, <2>4, SMT
        <4> QED BY <1>12, <4>1, Zenon
      <3>2. e[i - (n + 1 + z)] = Shr(8 * n, 8 * (16 - (i - (n + 1 + z)))) % 256
        BY <3>1, Zenon DEF e
      <3> QED BY <3>1, <3>2, Zenon DEF StandardByte, z
    <2>5. i <= n \/ i = n + 1 \/ (n + 1 < i /\ i <= n + 1 + z) \/ n + 1 + z < i
      BY <1>1, SMT
    <2> QED BY <2>1, <2>2, <2>3, <2>4, <2>5
  <1> QED BY <1>1, <1>2, <1>12, <1>13, Zenon DEF z, s, acd, ac

-----------------------------------------------------------------------------
(* The blocks that are hashed. *)

whole == bytes \div 128
rest  == bytes % 128
last  == IF OneBlock(rest) THEN 1 ELSE 2

\* The input has whole blocks and a rest, which is padded to one or two.
LEMMA BlocksOf ==
  ASSUME bytes \in Lengths
  PROVE  /\ bytes \in Nat /\ whole \in Nat /\ rest \in 0 .. 127 /\ bytes = 128 * whole + rest
         /\ Shr(bytes, 64) = 0
         /\ last \in 1 .. 2 /\ (last = 1 <=> rest < 112)
         /\ bytes + 1 + zeros(bytes) = 128 * whole + 128 * last - 16
  <1>1. bytes \in Nat /\ Shr(bytes, 64) = 0
    BY LengthsAssumption, Zenon
  <1>2. whole \in Nat /\ rest \in 0 .. 127 /\ bytes = 128 * whole + rest
    BY <1>1, SMT DEF whole, rest
  <1>3. last \in 1 .. 2 /\ (last = 1 <=> rest < 112)
    BY <1>2, SMT DEF last, OneBlock
  <1>4. zeros(bytes) = IF rest < 112 THEN 111 - rest ELSE 239 - rest
    BY <1>1, <1>2, SMT DEF zeros
  <1>5. bytes + 1 + zeros(bytes) = 128 * whole + 128 * last - 16
    BY <1>1, <1>2, <1>3, <1>4, SMT
  <1> QED BY <1>1, <1>2, <1>3, <1>5

\* The bytes of padded that are hashed end the padded message.
LEMMA PaddedIs ==
  ASSUME bytes \in Lengths, NEW k \in 0 .. 128 * last - 1
  PROVE  Padding(rest)[k] = StandardByte(bytes, 128 * whole + k + 1)
  <1> DEFINE length == 128 * last - 9
             i == 128 * whole + k + 1
             m == bytes + 1 + zeros(bytes)
  <1>1. /\ bytes \in Nat /\ whole \in Nat /\ rest \in 0 .. 127 /\ bytes = 128 * whole + rest
        /\ last \in 1 .. 2 /\ (last = 1 <=> rest < 112)
        /\ m = 128 * whole + length - 7
    BY BlocksOf, SMT
  <1>2. length = (IF OneBlock(rest) THEN 119 ELSE 247) /\ length \in Int /\ i \in Int /\ m \in Int
    BY <1>1, SMT DEF OneBlock
  <1>3. k \in 0 .. 255 /\ k \in 0 .. length + 8 /\ k \in Int
    BY <1>1, SMT
  <1> HIDE DEF length, m
  <1>4. Padding(rest)[k] = IF k >= length /\ k <= length + 8 THEN LengthBytes(bytes, k - length)
                           ELSE IF k < rest THEN Byte("in", bytes - rest + k)
                           ELSE IF k = rest THEN 128
                           ELSE IF k < length THEN 0
                           ELSE Unset
    <2> DEFINE Entry(l, x) ==
                 IF x >= l /\ x <= l + 8 THEN LengthBytes(bytes, x - l)
                 ELSE IF x < rest THEN Byte("in", bytes - rest + x)
                 ELSE IF x = rest THEN 128
                 ELSE IF x < l THEN 0
                 ELSE Unset
    <2>1. Padding(rest) = [x \in 0 .. 255 |-> Entry(IF OneBlock(rest) THEN 119 ELSE 247, x)]
      BY Zenon DEF Padding
    <2> HIDE DEF Entry
    <2>2. Padding(rest)[k] = Entry(length, k)
      BY <1>2, <1>3, <2>1, Zenon
    <2> QED BY <2>2, Zenon DEF Entry
  <1>5. rest < length
    BY <1>1, SMT DEF length
  <1>6. CASE k < rest
    <2>1. ~(k >= length) /\ i <= bytes /\ bytes - rest + k = i - 1 /\ i - 1 < bytes
      BY <1>1, <1>2, <1>3, <1>5, <1>6, SMT
    <2>2. Padding(rest)[k] = Byte("in", i - 1)
      BY <1>4, <1>6, <2>1, Zenon
    <2> HIDE DEF i
    <2>3. Byte("in", i - 1) = Input(i - 1)
      BY <2>1, Zenon DEF Byte
    <2>4. StandardByte(bytes, i) = Input(i - 1)
      BY <2>1, Zenon DEF StandardByte
    <2> QED BY <2>2, <2>3, <2>4, Zenon DEF i
  <1>7. CASE k = rest
    <2>1. ~(k >= length) /\ ~(k < rest) /\ ~(i <= bytes) /\ i = bytes + 1
      BY <1>1, <1>2, <1>3, <1>5, <1>7, SMT
    <2> HIDE DEF i
    <2>2. StandardByte(bytes, i) = 128
      BY <2>1, Zenon DEF StandardByte
    <2> QED BY <1>4, <1>7, <2>1, <2>2, Zenon DEF i
  <1>8. CASE rest < k /\ k < length - 7
    <2>1. ~(k >= length) /\ ~(k < rest) /\ k # rest /\ k < length /\ ~(i <= bytes) /\ i # bytes + 1 /\ i <= m
      BY <1>1, <1>2, <1>3, <1>5, <1>8, SMT
    <2> HIDE DEF i
    <2>2. StandardByte(bytes, i) = 0
      BY <2>1, Zenon DEF StandardByte, m
    <2> QED BY <1>4, <2>1, <2>2, Zenon DEF i
  <1>9. CASE length - 7 <= k /\ k < length
    <2> DEFINE h == k - length + 8
    <2>0. rest < length - 7
      BY <1>1, SMT DEF length
    <2>1. /\ ~(k >= length) /\ ~(k < rest) /\ k # rest /\ k < length
          /\ ~(i <= bytes) /\ i # bytes + 1 /\ ~(i <= m) /\ i - m = h /\ h \in 1 .. 7
      BY <1>1, <1>2, <1>3, <1>5, <1>9, <2>0, SMT
    <2> HIDE DEF h, i
    <2>2. StandardByte(bytes, i) = Shr(8 * bytes, 8 * (16 - h)) % 256
      BY <2>1, Zenon DEF StandardByte, m
    <2>3. Shr(8 * bytes, 8 * (16 - h)) % 256 = 0
      <3>1. bytes \in Nat /\ Shr(bytes, 64) = 0 /\ h \in 1 .. 7
        BY <2>1, BlocksOf, Zenon
      <3>2. \A x \in 1 .. 7 : Shr(8 * bytes, 8 * (16 - x)) % 256 = 0
        BY <3>1, LengthWritten, Zenon
      <3> QED BY <3>1, <3>2, Zenon
    <2> QED BY <1>4, <2>1, <2>2, <2>3, Zenon DEF i
  <1>10. CASE length <= k
    <2> DEFINE j == k - length
    <2>1. /\ k >= length /\ k <= length + 8
          /\ ~(i <= bytes) /\ i # bytes + 1 /\ ~(i <= m) /\ 16 - (i - m) = 8 - j /\ j \in 0 .. 8
      BY <1>1, <1>2, <1>3, <1>5, <1>10, SMT
    <2> HIDE DEF j, i
    <2>2. StandardByte(bytes, i) = Shr(8 * bytes, 8 * (8 - j)) % 256
      BY <2>1, Zenon DEF StandardByte, m
    <2>3. LengthBytes(bytes, j) = Shr(8 * bytes, 8 * (8 - j)) % 256
      <3>1. bytes \in Nat /\ Shr(bytes, 64) = 0 /\ j \in 0 .. 8
        BY <2>1, BlocksOf, Zenon
      <3>2. \A x \in 0 .. 8 : LengthBytes(bytes, x) = Shr(8 * bytes, 8 * (8 - x)) % 256
        BY <3>1, LengthWritten, Zenon
      <3> QED BY <3>1, <3>2, Zenon
    <2>4. Padding(rest)[k] = LengthBytes(bytes, j)
      BY <1>4, <2>1, Zenon DEF j
    <2> QED BY <2>2, <2>3, <2>4, Zenon DEF i
  <1>11. k < rest \/ k = rest \/ (rest < k /\ k < length - 7) \/ (length - 7 <= k /\ k < length) \/ length <= k
    BY <1>1, <1>2, <1>3, SMT
  <1> QED BY <1>6, <1>7, <1>8, <1>9, <1>10, <1>11

\* Where block n was read.
Block(n) == IF n <= whole THEN [from |-> "in", at |-> 128 * (n - 1)]
            ELSE [from |-> "padded", at |-> 128 * (n - 1 - whole)]

Blocks == [from : {"in", "padded"}, at : Int]

\* The words of the block that is hashed, and what the rounds took of them.
Scheduled ==
  /\ rounds \in Seq(Int) /\ \A t \in 1 .. Len(rounds) : rounds[t] = t - 1
  /\ \/ w = <<>>
     \/ /\ pc = "blocks" /\ left >= 128
        /\ \E n \in 0 .. 5 : Len(rounds) = 16 * n /\ Window(w, 16 * (IF n < 4 THEN n ELSE 4), 0)

\* The blocks hashed, and what is left of the input or of the padding.
Cut ==
  /\ fed \in Seq(Blocks) /\ \A n \in 1 .. Len(fed) : fed[n] = Block(n)
  /\ \/ /\ src = "in" /\ pc \in {"blocks", "pad"} /\ inlen = bytes
        /\ at = 128 * Len(fed) /\ left = bytes - at /\ left \in Nat
        /\ pc = "pad" => left < 128 /\ w = <<>>
     \/ /\ src = "padded" /\ pc \in {"blocks", "done"} /\ padded = Padding(rest)
        /\ at = 128 * (Len(fed) - whole) /\ left = 128 * last - at /\ left \in Nat /\ at \in Nat
        /\ pc = "done" => left < 128 /\ w = <<>>

HashIInv == bytes \in Lengths /\ Scheduled /\ Cut

\* The place of a byte of a block in the message.
LEMMA PlaceIn ==
  ASSUME NEW l \in Nat, NEW n \in 1 .. l, NEW j \in 1 .. 128
  PROVE  128 * (n - 1) + j \in 1 .. 128 * l
  BY SMT

\* When all is hashed, it is the padded message.
LEMMA AllHashed == HashIInv => HashesPaddedMessage
  <1> SUFFICES ASSUME HashIInv PROVE HashesPaddedMessage
    OBVIOUS
  <1>1. bytes \in Lengths /\ rounds \in Seq(Int) /\ \A t \in 1 .. Len(rounds) : rounds[t] = t - 1
    BY Zenon DEF HashIInv, Scheduled
  <1>2. \A t \in DOMAIN rounds : rounds[t] = t - 1
    BY <1>1, LenProperties, Zenon
  <1>3. ASSUME pc = "done"
        PROVE  LET message == Standard(bytes)
               IN  /\ Len(message) = 128 * Len(fed)
                   /\ \A n \in DOMAIN fed, j \in 1 .. 128 :
                        Byte(fed[n].from, fed[n].at + j - 1) = message[128 * (n - 1) + j]
    <2>1. /\ fed \in Seq(Blocks) /\ \A n \in 1 .. Len(fed) : fed[n] = Block(n)
      BY Zenon DEF HashIInv, Cut
    <2>2. /\ padded = Padding(rest) /\ at = 128 * (Len(fed) - whole) /\ left = 128 * last - at
          /\ left \in Nat /\ left < 128
      BY <1>3, SMT DEF HashIInv, Cut
    <2>3. /\ bytes \in Nat /\ whole \in Nat /\ rest \in 0 .. 127 /\ bytes = 128 * whole + rest
          /\ last \in 1 .. 2 /\ bytes + 1 + zeros(bytes) = 128 * whole + 128 * last - 16
      BY <1>1, BlocksOf, Zenon
    <2>4. Len(fed) \in Nat /\ DOMAIN fed = 1 .. Len(fed)
      BY <2>1, LenProperties, Zenon
    <2>5. Len(fed) = whole + last
      <3> DEFINE l == Len(fed)
      <3>1. left \in Nat /\ left < 128 /\ at = 128 * (l - whole) /\ left = 128 * last - at
        BY <2>2, Zenon
      <3>2. l \in Nat /\ whole \in Nat /\ last \in 1 .. 2
        BY <2>3, <2>4, Zenon
      <3> HIDE DEF l
      <3>3. l = whole + last
        BY <3>1, <3>2, SMT
      <3> QED BY <3>3, Zenon DEF l
    <2>6. /\ zeros(bytes) \in Int
          /\ Len(Standard(bytes)) = bytes + 1 + zeros(bytes) + 16
          /\ \A i \in 1 .. bytes + 1 + zeros(bytes) + 16 : Standard(bytes)[i] = StandardByte(bytes, i)
      <3>1. zeros(bytes) \in 0 .. 127
        BY <2>3, StandardIs, Zenon
      <3>2. zeros(bytes) \in Int
        BY <3>1, SMT
      <3> QED BY <2>3, <3>2, StandardIs, Zenon
    <2>7. bytes + 1 + zeros(bytes) + 16 = 128 * Len(fed)
      BY <2>3, <2>4, <2>5, <2>6, SMT
    <2>8. ASSUME NEW n \in DOMAIN fed, NEW j \in 1 .. 128
          PROVE  Byte(fed[n].from, fed[n].at + j - 1) = Standard(bytes)[128 * (n - 1) + j]
      <3>1. n \in 1 .. Len(fed) /\ n \in Int /\ fed[n] = Block(n)
        BY <2>1, <2>4, SMT
      <3>2. 128 * (n - 1) + j \in 1 .. 128 * Len(fed)
        BY <2>4, <3>1, PlaceIn, Zenon
      <3>3. Standard(bytes)[128 * (n - 1) + j] = StandardByte(bytes, 128 * (n - 1) + j)
        BY <2>6, <2>7, <3>2, Zenon
      <3>4. CASE n <= whole
        <4>1. n \in Nat /\ rest \in Nat
          BY <2>3, <3>1, SMT
        <4>2. 128 * (n - 1) + j - 1 < bytes /\ 128 * (n - 1) + j <= bytes
          BY <2>3, <3>4, <4>1, SMT
        <4>3. fed[n].from = "in" /\ fed[n].at = 128 * (n - 1)
          BY <3>1, <3>4, SMT DEF Block
        <4> DEFINE a == 128 * (n - 1)
                   i == 128 * (n - 1) + j
        <4>4. i - 1 < bytes /\ i <= bytes /\ a + j - 1 = i - 1
          <5>1. i <= bytes
            BY <4>2, Zenon
          <5>2. a \in Int /\ i = a + j
            BY <4>1, SMT
          <5> HIDE DEF a, i
          <5>3. a + j - 1 = i - 1 /\ i - 1 < i /\ i \in Int
            BY <5>2, SMT
          <5> QED BY <2>3, <5>1, <5>3, SMT
        <4>5. Standard(bytes)[i] = StandardByte(bytes, i) /\ fed[n].at = a
          BY <3>3, <4>3, Zenon
        <4> HIDE DEF i, a
        <4>6. Byte("in", i - 1) = Input(i - 1) /\ StandardByte(bytes, i) = Input(i - 1)
          BY <4>4, Zenon DEF Byte, StandardByte
        <4>7. Byte(fed[n].from, fed[n].at + j - 1) = Standard(bytes)[i]
          BY <4>3, <4>4, <4>5, <4>6, Zenon
        <4> QED BY <4>7, Zenon DEF i
      <3>5. CASE whole < n
        <4> DEFINE a == 128 * (n - 1 - whole)
                   i == 128 * (n - 1) + j
                   k == a + j - 1
        <4>1. ~(n <= whole) /\ n <= whole + last /\ n \in Nat
          BY <2>3, <2>5, <3>1, <3>5, SMT
        <4>2. k \in 0 .. 128 * last - 1 /\ 128 * whole + k + 1 = i /\ a \in Int
          BY <2>3, <3>5, <4>1, SMT
        <4>3. fed[n].from = "padded" /\ fed[n].at = a
          BY <3>1, <4>1, SMT DEF Block
        <4>4. Standard(bytes)[i] = StandardByte(bytes, i)
          BY <3>3, Zenon
        <4> HIDE DEF a, i
        <4>5. Byte("padded", k) = Padding(rest)[k]
          BY <2>2, Zenon DEF Byte
        <4> HIDE DEF k
        <4>6. Padding(rest)[k] = StandardByte(bytes, 128 * whole + k + 1)
          BY <1>1, <4>2, PaddedIs, Zenon
        <4>7. Byte("padded", k) = Standard(bytes)[i]
          BY <4>2, <4>4, <4>5, <4>6, Zenon
        <4>8. Byte(fed[n].from, fed[n].at + j - 1) = Standard(bytes)[i]
          BY <4>3, <4>7, Zenon DEF k
        <4> QED BY <4>8, Zenon DEF i
      <3> QED BY <2>3, <3>1, <3>4, <3>5, SMT
    <2> QED BY <2>6, <2>7, <2>8, Zenon
  <1> QED BY <1>2, <1>3, Zenon DEF HashesPaddedMessage

\* The padding is the same function after a step that leaves the length alone.
LEMMA SamePadding ==
  ASSUME bytes' = bytes
  PROVE  /\ rest' = rest /\ whole' = whole /\ last' = last
         /\ Padding(rest)' = Padding(rest) /\ \A n : Block(n)' = Block(n)
  <1>1. rest' = rest /\ whole' = whole
    BY Zenon DEF rest, whole
  <1>2. last' = last
    BY <1>1, Zenon DEF last
  <1>3. \A k : Byte("in", k)' = Byte("in", k)
    BY Zenon DEF Byte
  <1>5. Padding(rest)' = Padding(rest)
    <2> DEFINE Entry(n, r, x, k) ==
                 LET length == IF OneBlock(r) THEN 119 ELSE 247
                 IN  IF k >= length /\ k <= length + 8 THEN LengthBytes(n, k - length)
                     ELSE IF k < r THEN x
                     ELSE IF k = r THEN 128
                     ELSE IF k < length THEN 0
                     ELSE Unset
               before(k) == Entry(bytes, rest, Byte("in", bytes - rest + k), k)
               after(k)  == Entry(bytes', rest', Byte("in", bytes - rest + k)', k)
    <2>1. Padding(rest) = [k \in 0 .. 255 |-> before(k)]
      BY Zenon DEF Padding
    <2>2. Padding(rest)' = [k \in 0 .. 255 |-> after(k)]
      BY Zenon DEF Padding
    <2>3. ASSUME NEW k PROVE after(k) = before(k)
      <3>1. Byte("in", bytes - rest + k)' = Byte("in", bytes - rest + k)
        <4>1. Byte("in", bytes' - rest' + k) = Byte("in", bytes - rest + k)
          BY <1>1, Zenon
        <4> QED BY <1>1, <1>3, Zenon DEF Byte
      <3> HIDE DEF Entry
      <3> QED BY <1>1, <3>1, Zenon
    <2> HIDE DEF before, after
    <2>4. [k \in 0 .. 255 |-> after(k)] = [k \in 0 .. 255 |-> before(k)]
      BY <2>3, Zenon
    <2> QED BY <2>1, <2>2, <2>4, Zenon
  <1>6. \A n : Block(n)' = Block(n)
    BY <1>1, Zenon DEF Block
  <1> QED BY <1>1, <1>2, <1>5, <1>6

\* A round more.
LEMMA SixteenMore ==
  ASSUME NEW n \in 0 .. 4, rounds \in Seq(Int), Len(rounds) = 16 * n, Window(w, 16 * n, 0),
         \A t \in 1 .. Len(rounds) : rounds[t] = t - 1,
         rounds' = rounds \o [j \in 1 .. 16 |-> w[j - 1]]
  PROVE  /\ rounds' \in Seq(Int) /\ Len(rounds') = 16 * (n + 1)
         /\ \A t \in 1 .. Len(rounds') : rounds'[t] = t - 1
  <1> DEFINE more == [j \in 1 .. 16 |-> w[j - 1]]
  <1>1. w \in [0 .. 15 -> Int] /\ \A k \in 0 .. 15 : w[k] = IF k < 0 THEN 16 * n + 16 + k ELSE 16 * n + k
    BY Zenon DEF Window
  <1>2. more \in [1 .. 16 -> Int] /\ \A j \in 1 .. 16 : more[j] = 16 * n + j - 1
    BY <1>1, SMT
  <1> HIDE DEF more
  <1>3. more \in Seq(Int) /\ Len(more) = 16
    <2>1. 16 \in Nat
      BY SMT
    <2> QED BY <1>2, <2>1, FunctionIsSeq, Zenon
  <1>4. rounds' = rounds \o more
    BY Zenon DEF more
  <1>5. /\ rounds' \in Seq(Int) /\ Len(rounds') = 16 * n + 16
        /\ \A t \in 1 .. 16 * n + 16 : rounds'[t] = IF t <= 16 * n THEN rounds[t] ELSE more[t - 16 * n]
    <2>1. /\ rounds \o more \in Seq(Int) /\ Len(rounds \o more) = Len(rounds) + Len(more)
          /\ \A t \in 1 .. Len(rounds) + Len(more) :
               (rounds \o more)[t] = IF t <= Len(rounds) THEN rounds[t] ELSE more[t - Len(rounds)]
      BY <1>3, JoinedIs, Zenon
    <2> QED BY <1>3, <1>4, <2>1, Zenon
  <1>6. ASSUME NEW t \in 1 .. 16 * n + 16 PROVE rounds'[t] = t - 1
    <2>1. CASE t <= 16 * n
      <3>1. t \in 1 .. Len(rounds)
        BY <2>1, SMT
      <3> QED BY <1>5, <2>1, <3>1, Zenon
    <2>2. CASE ~(t <= 16 * n)
      <3>1. t - 16 * n \in 1 .. 16 /\ 16 * n + (t - 16 * n) - 1 = t - 1
        BY <2>2, SMT
      <3>2. more[t - 16 * n] = 16 * n + (t - 16 * n) - 1
        BY <1>2, <3>1, Zenon
      <3> QED BY <1>5, <2>2, <3>1, <3>2, Zenon
    <2> QED BY <2>1, <2>2
  <1>7. 16 * n + 16 = 16 * (n + 1)
    BY SMT
  <1> QED BY <1>5, <1>6, <1>7, Zenon

\* The invariant holds at first, and every step keeps it.
LEMMA HashInductive == HashSpec => []HashIInv
  <1>1. HashInit => HashIInv
    <2> SUFFICES ASSUME HashInit PROVE HashIInv
      OBVIOUS
    <2>1. bytes \in Lengths /\ bytes \in Nat
      BY LengthsAssumption, Zenon DEF HashInit
    <2>2. Scheduled
      BY SMT DEF HashInit, Scheduled
    <2>3. Cut
      <3>1. fed = <<>> /\ src = "in" /\ pc = "blocks" /\ inlen = bytes /\ at = 0 /\ left = bytes
        BY Zenon DEF HashInit
      <3>2. fed \in Seq(Blocks) /\ Len(fed) = 0
        BY <3>1, EmptySeq, Zenon
      <3>3. \A n \in 1 .. Len(fed) : fed[n] = Block(n)
        BY <3>2, SMT
      <3>4. at = 128 * Len(fed) /\ left = bytes - at /\ left \in Nat /\ ~(pc = "pad")
        BY <2>1, <3>1, <3>2, SMT
      <3> QED BY <3>1, <3>2, <3>3, <3>4, Zenon DEF Cut
    <2> QED BY <2>1, <2>2, <2>3, Zenon DEF HashIInv
  <1>2. HashIInv /\ [HashNext]_hashVars => HashIInv'
    <2> SUFFICES ASSUME HashIInv, [HashNext]_hashVars PROVE HashIInv'
      OBVIOUS
    <2>1. bytes' = bytes
      BY Zenon DEF HashNext, LoadBlock, Sixteen, EndBlock, ReturnBlocks, Pad, hashVars
    <2>2. /\ rest' = rest /\ whole' = whole /\ last' = last
          /\ Padding(rest)' = Padding(rest) /\ \A n : Block(n)' = Block(n)
      BY <2>1, SamePadding, Zenon
    <2>3. bytes \in Lengths /\ bytes' \in Lengths /\ Scheduled /\ Cut
      BY <2>1, Zenon DEF HashIInv
    <2>4. /\ bytes \in Nat /\ whole \in Nat /\ rest \in 0 .. 127 /\ bytes = 128 * whole + rest
          /\ last \in 1 .. 2 /\ (last = 1 <=> rest < 112)
      BY <2>3, BlocksOf, Zenon
    <2>5. /\ rounds \in Seq(Int) /\ \A t \in 1 .. Len(rounds) : rounds[t] = t - 1
          /\ fed \in Seq(Blocks) /\ \A n \in 1 .. Len(fed) : fed[n] = Block(n)
      BY <2>3, Zenon DEF Scheduled, Cut
    <2>6. Len(fed) \in Nat /\ Len(rounds) \in Nat
      BY <2>5, LenProperties, Zenon
    \* A step that leaves the cut alone, except for what it may assume of the block.
    <2>7. ASSUME UNCHANGED <<bytes, inlen, at, src, left, padded, fed, pc>>, pc = "blocks" PROVE Cut'
      <3>1. \A n \in 1 .. Len(fed)' : fed'[n] = Block(n)'
        BY <2>2, <2>5, <2>7, Zenon
      <3>2. Cut /\ ~(pc = "pad") /\ ~(pc = "done")
        BY <2>3, <2>7, Zenon
      <3> QED BY <2>2, <2>5, <2>7, <3>1, <3>2, Zenon DEF Cut
    <2>8. CASE LoadBlock
      <3>1. /\ pc = "blocks" /\ left >= 128 /\ w' = [j \in 0 .. 15 |-> j] /\ rounds' = <<>>
            /\ UNCHANGED <<bytes, inlen, at, src, left, padded, fed, pc>>
        BY <2>8, Zenon DEF LoadBlock, MoreBlocks
      <3>2. Window(w', 16 * 0, 0)
        BY <3>1, SMT DEF Window
      <3>3. rounds' \in Seq(Int) /\ Len(rounds') = 16 * 0
        BY <3>1, SMT
      <3>4. \A t \in 1 .. Len(rounds') : rounds'[t] = t - 1
        BY <3>3, SMT
      <3>5. \E n \in 0 .. 5 : Len(rounds') = 16 * n /\ Window(w', 16 * (IF n < 4 THEN n ELSE 4), 0)
        <4>1. 0 \in 0 .. 5 /\ 0 < 4
          BY SMT
        <4>2. (IF 0 < 4 THEN 0 ELSE 4) = 0
          BY <4>1, Zenon
        <4> QED BY <3>2, <3>3, <4>1, <4>2, Zenon
      <3>6. Scheduled'
        BY <3>1, <3>3, <3>4, <3>5, Zenon DEF Scheduled, Window
      <3> QED BY <2>3, <2>7, <3>1, <3>6, Zenon DEF HashIInv
    <2>9. CASE Sixteen
      <3>1. /\ pc = "blocks" /\ w # <<>> /\ Len(rounds) < 80
            /\ rounds' = rounds \o [j \in 1 .. 16 |-> w[j - 1]]
            /\ w' = IF Len(rounds) < 64 THEN EXPAND(w) ELSE w
            /\ UNCHANGED <<bytes, inlen, at, src, left, padded, fed, pc>>
        BY <2>9, Zenon DEF Sixteen
      <3>2. left >= 128
        BY <2>3, <3>1, Zenon DEF Scheduled
      <3>3. PICK n \in 0 .. 5 : Len(rounds) = 16 * n /\ Window(w, 16 * (IF n < 4 THEN n ELSE 4), 0)
        BY <2>3, <3>1, Zenon DEF Scheduled
      <3>4. n \in 0 .. 4 /\ (IF n < 4 THEN n ELSE 4) = n
        BY <3>1, <3>3, SMT
      <3>5. Window(w, 16 * n, 0)
        BY <3>3, <3>4, Zenon
      <3>6. /\ rounds' \in Seq(Int) /\ Len(rounds') = 16 * (n + 1)
            /\ \A t \in 1 .. Len(rounds') : rounds'[t] = t - 1
        BY <2>5, <3>1, <3>3, <3>4, <3>5, SixteenMore, Zenon
      <3>7. n + 1 \in 0 .. 5 /\ Window(w', 16 * (IF n + 1 < 4 THEN n + 1 ELSE 4), 0)
        <4>1. CASE n < 4
          <5>1. Len(rounds) < 64 /\ 16 * n \in Nat /\ n + 1 \in 0 .. 5
                /\ 16 * (IF n + 1 < 4 THEN n + 1 ELSE 4) = 16 * n + 16
            BY <3>3, <3>4, <4>1, SMT
          <5>2. Window(EXPAND(w), 16 * n + 16, 0)
            BY <3>5, <5>1, ExpandsAll, Zenon
          <5>3. w' = EXPAND(w)
            BY <3>1, <5>1, Zenon
          <5> QED BY <5>1, <5>2, <5>3, Zenon
        <4>2. CASE ~(n < 4)
          <5>1. ~(Len(rounds) < 64) /\ n + 1 \in 0 .. 5 /\ 16 * (IF n + 1 < 4 THEN n + 1 ELSE 4) = 16 * n
            BY <3>3, <3>4, <4>2, SMT
          <5>2. w' = w
            BY <3>1, <5>1, Zenon
          <5> QED BY <3>5, <5>1, <5>2, Zenon
        <4> QED BY <4>1, <4>2
      <3>8. \E m \in 0 .. 5 : Len(rounds') = 16 * m /\ Window(w', 16 * (IF m < 4 THEN m ELSE 4), 0)
        BY <3>6, <3>7, Zenon
      <3>9. Scheduled'
        BY <3>1, <3>2, <3>6, <3>8, Zenon DEF Scheduled, Window
      <3> QED BY <2>3, <2>7, <3>1, <3>9, Zenon DEF HashIInv
    <2>10. CASE EndBlock
      <3>1. /\ pc = "blocks" /\ w # <<>> /\ fed' = Append(fed, [from |-> src, at |-> at])
            /\ at' = at + 128 /\ left' = left - 128 /\ w' = <<>>
            /\ UNCHANGED <<bytes, inlen, pc, src, padded, rounds>>
        BY <2>10, Zenon DEF EndBlock
      <3>2. left >= 128
        BY <2>3, <3>1, Zenon DEF Scheduled
      <3>3. Scheduled'
        BY <2>5, <3>1, Zenon DEF Scheduled
      <3>4. at \in Int /\ src \in {"in", "padded"} /\ left \in Int
        BY <2>3, <2>4, <2>6, SMT DEF Cut
      <3>5. [from |-> src, at |-> at] \in Blocks
        BY <3>4, Zenon DEF Blocks
      <3>6. /\ fed' \in Seq(Blocks) /\ Len(fed') = Len(fed) + 1
            /\ \A n \in 1 .. Len(fed) : fed'[n] = fed[n]
            /\ fed'[Len(fed) + 1] = [from |-> src, at |-> at]
        BY <2>5, <3>1, <3>5, AppendProperties, SMT
      <3>7. ASSUME [from |-> src, at |-> at] = Block(Len(fed) + 1)
            PROVE  \A n \in 1 .. Len(fed') : fed'[n] = Block(n)'
        <4> SUFFICES ASSUME NEW n \in 1 .. Len(fed') PROVE fed'[n] = Block(n)
          BY <2>2, Zenon
        <4>1. n \in 1 .. Len(fed) \/ n = Len(fed) + 1
          BY <2>6, <3>6, SMT
        <4> QED BY <2>5, <3>6, <3>7, <4>1, Zenon
      <3>8. CASE src = "in"
        <4>1. inlen = bytes /\ at = 128 * Len(fed) /\ left = bytes - at
          BY <2>3, <3>8, Zenon DEF Cut
        <4>2. Len(fed) + 1 <= whole /\ at = 128 * ((Len(fed) + 1) - 1)
          BY <2>4, <2>6, <3>2, <4>1, SMT
        <4>3. [from |-> src, at |-> at] = Block(Len(fed) + 1)
          BY <3>8, <4>2, Zenon DEF Block
        <4>4. at' = 128 * Len(fed') /\ left' = bytes - at' /\ left' \in Nat
          BY <2>4, <2>6, <3>1, <3>2, <3>4, <3>6, <4>1, SMT
        <4>5. \A n \in 1 .. Len(fed') : fed'[n] = Block(n)'
          BY <3>7, <4>3, Zenon
        <4>6. src' = "in" /\ pc' = "blocks" /\ inlen' = bytes' /\ left' = bytes' - at' /\ ~(pc' = "pad")
          BY <2>1, <3>1, <3>8, <4>1, <4>4, Zenon
        <4>7. Cut'
          BY <3>6, <4>4, <4>5, <4>6, Zenon DEF Cut
        <4> QED BY <2>3, <3>3, <4>7, Zenon DEF HashIInv
      <3>9. CASE src = "padded"
        <4>1. padded = Padding(rest) /\ at = 128 * (Len(fed) - whole) /\ left = 128 * last - at /\ at \in Nat
          BY <2>3, <3>9, Zenon DEF Cut
        <4>2. ~(Len(fed) + 1 <= whole) /\ at = 128 * ((Len(fed) + 1) - 1 - whole)
          BY <2>4, <2>6, <4>1, SMT
        <4>3. [from |-> src, at |-> at] = Block(Len(fed) + 1)
          BY <3>9, <4>2, Zenon DEF Block
        <4>4. at' = 128 * (Len(fed') - whole') /\ left' = 128 * last' - at' /\ left' \in Nat /\ at' \in Nat
          BY <2>2, <2>4, <2>6, <3>1, <3>2, <3>4, <3>6, <4>1, SMT
        <4>5. \A n \in 1 .. Len(fed') : fed'[n] = Block(n)'
          BY <3>7, <4>3, Zenon
        <4>6. src' = "padded" /\ pc' = "blocks" /\ padded' = Padding(rest)' /\ ~(pc' = "done")
          BY <2>2, <3>1, <3>9, <4>1, Zenon
        <4>7. Cut'
          BY <3>6, <4>4, <4>5, <4>6, Zenon DEF Cut
        <4> QED BY <2>3, <3>3, <4>7, Zenon DEF HashIInv
      <3> QED BY <3>4, <3>8, <3>9, Zenon
    <2>11. CASE ReturnBlocks
      <3>1. /\ pc = "blocks" /\ w = <<>> /\ ~(left >= 128)
            /\ pc' = (IF src = "in" THEN "pad" ELSE "done")
            /\ UNCHANGED <<bytes, inlen, at, src, left, padded, w, rounds, fed>>
        BY <2>11, Zenon DEF ReturnBlocks, MoreBlocks
      <3>2. left < 128 /\ src \in {"in", "padded"}
        <4>1. left \in Nat /\ src \in {"in", "padded"}
          BY <2>3, Zenon DEF Cut
        <4> QED BY <3>1, <4>1, SMT
      <3>3. Scheduled'
        BY <2>5, <3>1, Zenon DEF Scheduled
      <3>4. \A n \in 1 .. Len(fed') : fed'[n] = Block(n)'
        BY <2>2, <2>5, <3>1, Zenon
      <3>5. CASE src = "in"
        <4>1. pc' = "pad" /\ ~(src = "padded")
          BY <3>1, <3>5, Zenon
        <4>2. Cut'
          BY <2>3, <2>5, <3>1, <3>2, <3>4, <3>5, <4>1, Zenon DEF Cut
        <4> QED BY <2>3, <3>3, <4>2, Zenon DEF HashIInv
      <3>6. CASE src = "padded"
        <4>1. pc' = "done" /\ ~(src = "in")
          BY <3>1, <3>6, Zenon
        <4>2. Cut'
          BY <2>2, <2>3, <2>5, <3>1, <3>2, <3>4, <3>6, <4>1, Zenon DEF Cut
        <4> QED BY <2>3, <3>3, <4>2, Zenon DEF HashIInv
      <3> QED BY <3>2, <3>5, <3>6, Zenon
    <2>12. CASE Pad
      <3>1. /\ pc = "pad" /\ inlen' = inlen % 128 /\ padded' = Padding(inlen') /\ src' = "padded" /\ at' = 0
            /\ left' = (IF OneBlock(inlen') THEN 128 ELSE 256) /\ pc' = "blocks"
            /\ UNCHANGED <<bytes, w, rounds, fed>>
        BY <2>12, Zenon DEF Pad
      <3>2. /\ inlen = bytes /\ at = 128 * Len(fed) /\ left = bytes - at /\ left \in Nat
            /\ left < 128 /\ w = <<>>
        BY <2>3, <3>1, Zenon DEF Cut
      <3>3. inlen' = rest
        BY <3>1, <3>2, Zenon DEF rest
      <3>4. padded' = Padding(rest)'
        BY <2>2, <3>1, <3>3, Zenon
      <3>5. left' = 128 * last
        BY <2>4, <3>1, <3>3, SMT DEF last
      <3>6. Len(fed) = whole
        BY <2>4, <2>6, <3>2, SMT
      <3>7. /\ at' = 128 * (Len(fed') - whole') /\ left' = 128 * last' - at' /\ left' \in Nat /\ at' \in Nat
        BY <2>2, <2>4, <3>1, <3>5, <3>6, SMT
      <3>8. \A n \in 1 .. Len(fed') : fed'[n] = Block(n)'
        BY <2>2, <2>5, <3>1, Zenon
      <3>9. Cut'
        <4>1. ~(pc' = "done") /\ fed' \in Seq(Blocks)
          BY <2>5, <3>1, Zenon
        <4> QED BY <3>1, <3>4, <3>7, <3>8, <4>1, Zenon DEF Cut
      <3>10. Scheduled'
        BY <2>5, <3>1, <3>2, Zenon DEF Scheduled
      <3> QED BY <2>3, <3>9, <3>10, Zenon DEF HashIInv
    <2>13. CASE UNCHANGED hashVars
      <3>1. UNCHANGED <<inlen, at, src, left, padded, w, rounds, fed, pc>>
        BY <2>13, Zenon DEF hashVars
      <3>2. Scheduled'
        BY <2>3, <3>1, Zenon DEF Scheduled, Window
      <3>3. \A n \in 1 .. Len(fed') : fed'[n] = Block(n)'
        BY <2>2, <2>5, <3>1, Zenon
      <3>4. Cut'
        BY <2>1, <2>2, <2>3, <3>1, <3>3, Zenon DEF Cut
      <3> QED BY <2>3, <3>2, <3>4, Zenon DEF HashIInv
    <2> QED BY <2>8, <2>9, <2>10, <2>11, <2>12, <2>13, Zenon DEF HashNext
  <1> QED BY <1>1, <1>2, PTL DEF HashSpec

\* Whatever the length of the input, the blocks that are hashed are the padded
\* message of the standard, and the rounds take the words of its schedule.
THEOREM HashesPadded == HashSpec => []HashesPaddedMessage
  BY HashInductive, AllHashed, PTL
=============================================================================
