----------------------------- MODULE Precompute -----------------------------
(***************************************************************************)
(* The tables of a GroupElement (GroupElement.java): precompute builds     *)
(* them under the monitor of the element, scalarMultiply reads one under   *)
(* it, and doubleScalarMultiplyVariableTime reads its own under it and the *)
(* one of A without.  Threads call these methods on shared elements.       *)
(*                                                                         *)
(* A table is absent or the set of its entries that are filled; only that  *)
(* matters here, and the points they hold are the subject of PointOps.     *)
(***************************************************************************)
EXTENDS Naturals, FiniteSets

CONSTANTS
  Threads,
  P3s,       \* elements in P3 representation
  Others,    \* elements in another one, which cannot be added
  Single,    \* entries of precmp (32 * 8)
  Double,    \* entries of dblPrecmp (8)
  Calls      \* how many calls each thread makes

Elements == P3s \cup Others

ASSUME PrecomputeAssumption ==
  /\ P3s \cap Others = {} /\ IsFiniteSet(Elements)
  /\ Single \in Nat \ {0} /\ Double \in Nat \ {0} /\ Calls \in Nat

VARIABLES
  monitor,    \* element -> the threads that hold its monitor (at most one)
  precmp,     \* element -> its table for scalarMultiply
  dblPrecmp,  \* element -> its table for doubleScalarMultiplyVariableTime
  call,       \* thread -> the call it is in, or the outcome of the last
  made,       \* thread -> the calls it has made
  returned    \* the arguments of the calls of precompute that returned

vars == <<monitor, precmp, dblPrecmp, call, made, returned>>

absent == [there |-> FALSE, filled |-> {}]  \* null
fresh == [there |-> TRUE, filled |-> {}]    \* a new array, of nulls
Complete(table, size) == table.there /\ table.filled = 1 .. size

Idle(t) ==
  call[t].pc \notin {"enter", "single", "newSingle", "fillSingle",
                     "double", "newDouble", "fillDouble", "read"}

-----------------------------------------------------------------------------

Init ==
  /\ monitor = [e \in Elements |-> {}]
  /\ precmp = [e \in Elements |-> absent] /\ dblPrecmp = [e \in Elements |-> absent]
  /\ call = [t \in Threads |-> [pc |-> "none"]]
  /\ made = [t \in Threads |-> 0] /\ returned = {}

Begin(t, c) ==
  /\ Idle(t) /\ made[t] < Calls
  /\ call' = [call EXCEPT ![t] = c]
  /\ made' = [made EXCEPT ![t] = @ + 1]
  /\ UNCHANGED <<monitor, precmp, dblPrecmp, returned>>

CallPrecompute(t, e, single) ==
  Begin(t, [fn |-> "precompute", this |-> e, single |-> single, pc |-> "enter", i |-> 1])

CallScalarMultiply(t, e) ==
  Begin(t, [fn |-> "scalarMultiply", this |-> e, pc |-> "enter", i |-> 1])

CallDouble(t, e, A) ==
  Begin(t, [fn |-> "doubleScalarMultiplyVariableTime", this |-> e, A |-> A, pc |-> "enter", i |-> 1])

-----------------------------------------------------------------------------

Goto(t, pc) == call' = [call EXCEPT ![t].pc = pc, ![t].i = 1]

\* Mutant of Enter: a table that is there is not waited for.
EnterChecked(t) ==
  /\ call[t].pc = "enter"
  /\ IF call[t].fn = "precompute" /\ dblPrecmp[call[t].this].there
     THEN /\ call' = [call EXCEPT ![t].pc = "returned"]
          /\ returned' = returned \cup {<<call[t].this, FALSE>>}
          /\ UNCHANGED monitor
     ELSE /\ monitor[call[t].this] = {}
          /\ monitor' = [monitor EXCEPT ![call[t].this] = {t}]
          /\ Goto(t, IF call[t].fn = "precompute" THEN "single" ELSE "read")
          /\ UNCHANGED returned
  /\ UNCHANGED <<precmp, dblPrecmp, made>>

\* Mutant of Enter: the methods are not synchronized.
EnterUnsynchronized(t) ==
  /\ call[t].pc = "enter"
  /\ monitor' = [monitor EXCEPT ![call[t].this] = @ \cup {t}]
  /\ Goto(t, IF call[t].fn = "precompute" THEN "single" ELSE "read")
  /\ UNCHANGED <<precmp, dblPrecmp, made, returned>>

\* synchronized: wait for the monitor of this.
Enter(t) ==
  /\ call[t].pc = "enter" /\ monitor[call[t].this] = {}
  /\ monitor' = [monitor EXCEPT ![call[t].this] = {t}]
  /\ Goto(t, IF call[t].fn = "precompute" THEN "single" ELSE "read")
  /\ UNCHANGED <<precmp, dblPrecmp, made, returned>>

\* Mutant of Leave: the monitor is not released.
LeaveLocked(t, outcome) ==
  /\ call' = [call EXCEPT ![t].pc = outcome]
  /\ UNCHANGED monitor

\* Return or throw; either way the monitor is released.
Leave(t, outcome) ==
  /\ call' = [call EXCEPT ![t].pc = outcome]
  /\ monitor' = [monitor EXCEPT ![call[t].this] = @ \ {t}]

\* if (precomputeSingle && this.precmp == null) ...
TestSingle(t) ==
  /\ call[t].pc = "single"
  /\ Goto(t, IF call[t].single /\ ~precmp[call[t].this].there THEN "newSingle" ELSE "double")
  /\ UNCHANGED <<monitor, precmp, dblPrecmp, made, returned>>

\* ... this.precmp = new GroupElement[32][8]: whatever was there is dropped.
AllocateSingle(t) ==
  /\ call[t].pc = "newSingle"
  /\ precmp' = [precmp EXCEPT ![call[t].this] = fresh]
  /\ Goto(t, "fillSingle")
  /\ UNCHANGED <<monitor, dblPrecmp, made, returned>>

\* An entry is stored; then the next point is made, which only a P3 can.
FillSingle(t) ==
  LET e == call[t].this
      i == call[t].i
  IN  /\ call[t].pc = "fillSingle"
      /\ precmp' = [precmp EXCEPT ![e].filled = @ \cup {i}]
      /\ IF e \in Others THEN Leave(t, "IllegalArgumentException")
         ELSE /\ IF i = Single THEN Goto(t, "double") ELSE call' = [call EXCEPT ![t].i = i + 1]
              /\ UNCHANGED monitor
      /\ UNCHANGED <<dblPrecmp, made, returned>>

\* Mutant of TestDouble: without the test.
TestDoubleNot(t) ==
  /\ call[t].pc = "double" /\ Goto(t, "newDouble")
  /\ UNCHANGED <<monitor, precmp, dblPrecmp, made, returned>>

\* if (this.dblPrecmp != null) return; ...
TestDouble(t) ==
  /\ call[t].pc = "double"
  /\ IF dblPrecmp[call[t].this].there
     THEN /\ Leave(t, "returned")
          /\ returned' = returned \cup {<<call[t].this, call[t].single>>}
     ELSE Goto(t, "newDouble") /\ UNCHANGED <<monitor, returned>>
  /\ UNCHANGED <<precmp, dblPrecmp, made>>

\* ... this.dblPrecmp = new GroupElement[8].
AllocateDouble(t) ==
  /\ call[t].pc = "newDouble"
  /\ dblPrecmp' = [dblPrecmp EXCEPT ![call[t].this] = fresh]
  /\ Goto(t, "fillDouble")
  /\ UNCHANGED <<monitor, precmp, made, returned>>

\* Mutant of FillDouble: the loop ends one entry early.
FillDoubleShort(t) ==
  LET e == call[t].this
      i == call[t].i
  IN  /\ call[t].pc = "fillDouble"
      /\ dblPrecmp' = [dblPrecmp EXCEPT ![e].filled = @ \cup {i}]
      /\ IF e \in Others THEN Leave(t, "IllegalArgumentException") /\ UNCHANGED returned
         ELSE IF i >= Double - 1
              THEN /\ Leave(t, "returned")
                   /\ returned' = returned \cup {<<e, call[t].single>>}
              ELSE call' = [call EXCEPT ![t].i = i + 1] /\ UNCHANGED <<monitor, returned>>
      /\ UNCHANGED <<precmp, made>>

FillDouble(t) ==
  LET e == call[t].this
      i == call[t].i
  IN  /\ call[t].pc = "fillDouble"
      /\ dblPrecmp' = [dblPrecmp EXCEPT ![e].filled = @ \cup {i}]
      /\ IF e \in Others THEN Leave(t, "IllegalArgumentException") /\ UNCHANGED returned
         ELSE IF i = Double
              THEN /\ Leave(t, "returned")
                   /\ returned' = returned \cup {<<e, call[t].single>>}
              ELSE call' = [call EXCEPT ![t].i = i + 1] /\ UNCHANGED <<monitor, returned>>
      /\ UNCHANGED <<precmp, made>>

\* A table or entry that is null.
Null(table, k) == ~table.there \/ k \notin table.filled

\* select reads every entry in turn.
ReadSingle(t) ==
  /\ call[t].pc = "read" /\ call[t].fn = "scalarMultiply"
  /\ IF Null(precmp[call[t].this], call[t].i) THEN Leave(t, "NullPointerException")
     ELSE IF call[t].i = Single THEN Leave(t, "returned")
     ELSE call' = [call EXCEPT ![t].i = @ + 1] /\ UNCHANGED monitor
  /\ UNCHANGED <<precmp, dblPrecmp, made, returned>>

\* A digit of a or b that is not zero reads an entry, of A's table or of
\* this one's; there are as many digits as it takes.
ReadDouble(t) ==
  /\ call[t].pc = "read" /\ call[t].fn = "doubleScalarMultiplyVariableTime"
  /\ \/ \E e \in {call[t].A, call[t].this}, k \in 1 .. Double :
          IF Null(dblPrecmp[e], k) THEN Leave(t, "NullPointerException")
          ELSE UNCHANGED <<call, monitor>>
     \/ Leave(t, "returned")
  /\ UNCHANGED <<precmp, dblPrecmp, made, returned>>

Step(t) == \/ Enter(t)
           \/ TestSingle(t) \/ AllocateSingle(t) \/ FillSingle(t)
           \/ TestDouble(t) \/ AllocateDouble(t) \/ FillDouble(t)
           \/ ReadSingle(t) \/ ReadDouble(t)

Next ==
  \E t \in Threads :
    \/ \E e \in Elements, single \in BOOLEAN : CallPrecompute(t, e, single)
    \/ \E e \in Elements : CallScalarMultiply(t, e)
    \/ \E e, A \in Elements : CallDouble(t, e, A)
    \/ Step(t)

Spec == Init /\ [][Next]_vars

\* "A must have been previously precomputed", and so must this.
Prepared(e) == \E single \in BOOLEAN : <<e, single>> \in returned

DocumentedNext ==
  \E t \in Threads :
    \/ \E e \in Elements, single \in BOOLEAN : CallPrecompute(t, e, single)
    \/ \E e \in P3s : <<e, TRUE>> \in returned /\ CallScalarMultiply(t, e)
    \/ \E e, A \in P3s : Prepared(e) /\ Prepared(A) /\ CallDouble(t, e, A)
    \/ Step(t)

\* A thread that can run is run.  Reads change nothing, so that a loop of
\* them ends; a monitor need not be fair, as the calls of others are bounded.
Fairness == \A t \in Threads : WF_vars(Step(t))

DocumentedSpec == Init /\ [][DocumentedNext]_vars /\ Fairness

-----------------------------------------------------------------------------

(***************************************************************************)
(* When elements are precomputed before they are used, no reader finds an  *)
(* entry missing, although A's table is read without A's monitor and other *)
(* threads may call precompute again at any time.                          *)
(***************************************************************************)
NoNullRead == \A t \in Threads : call[t].pc # "NullPointerException"

(***************************************************************************)
(* While nobody holds the monitor, a table is there whole or not at all.   *)
(***************************************************************************)
TablesWhole ==
  \A e \in P3s : monitor[e] = {} =>
    /\ precmp[e] = absent \/ Complete(precmp[e], Single)
    /\ dblPrecmp[e] = absent \/ Complete(dblPrecmp[e], Double)

(***************************************************************************)
(* A table is never replaced and never loses an entry: nobody assigns a    *)
(* fresh array between another thread's test for null and its own.  So a   *)
(* reader of A's table, outside A's monitor, keeps what it was promised.   *)
(***************************************************************************)
NeverRebuilt ==
  [][\A e \in Elements :
       /\ precmp[e].there => precmp[e]'.there /\ precmp[e].filled \subseteq precmp[e]'.filled
       /\ dblPrecmp[e].there => dblPrecmp[e]'.there /\ dblPrecmp[e].filled \subseteq dblPrecmp[e]'.filled
    ]_vars

(***************************************************************************)
(* Every call ends: no thread waits forever for a monitor.                 *)
(***************************************************************************)
Completes == \A t \in Threads : ~Idle(t) ~> Idle(t)

(***************************************************************************)
(* scalarMultiply: "If its lookup table has not been precomputed, it will  *)
(* be at the start of the method".  (Violated: that call is commented      *)
(* out, and a table that is not there is read.)                            *)
(***************************************************************************)
DocumentedMultiply ==
  \A t \in Threads :
    call[t].pc = "NullPointerException" => call[t].fn # "scalarMultiply"

-----------------------------------------------------------------------------
(* The inductive invariant, under DocumentedSpec. *)

Table == [there : BOOLEAN, filled : SUBSET Nat]

Outcomes == {"returned", "IllegalArgumentException", "NullPointerException"}

PrecomputeCalls ==
  [fn : {"precompute"}, this : Elements, single : BOOLEAN, i : Nat,
   pc : {"enter", "single", "newSingle", "fillSingle",
         "double", "newDouble", "fillDouble"} \cup Outcomes]
MultiplyCalls ==
  [fn : {"scalarMultiply"}, this : Elements, i : Nat, pc : {"enter", "read"} \cup Outcomes]
DoubleCalls ==
  [fn : {"doubleScalarMultiplyVariableTime"}, this : Elements, A : Elements, i : Nat,
   pc : {"enter", "read"} \cup Outcomes]

\* The types of the variables.
TypeOK ==
  /\ monitor \in [Elements -> SUBSET Threads]
  /\ precmp \in [Elements -> Table] /\ dblPrecmp \in [Elements -> Table]
  /\ call \in [Threads -> [pc : {"none"}] \cup PrecomputeCalls \cup MultiplyCalls \cup DoubleCalls]
  /\ made \in [Threads -> 0 .. Calls] /\ returned \subseteq Elements \X BOOLEAN

\* t is past Enter.
Inside(t) == ~Idle(t) /\ call[t].pc # "enter"

\* A thread that is past Enter is alone in the monitor of its element.
Excluded ==
  /\ \A t \in Threads : Inside(t) => monitor[call[t].this] = {t}
  /\ \A e \in Elements : \A t \in monitor[e] : Inside(t) /\ call[t].this = e

\* A table is whole, absent, or being filled by a thread inside.
Filled(table, size, e, pc) ==
  \/ table = absent \/ Complete(table, size)
  \/ \E t \in Threads : call[t].pc = pc /\ call[t].this = e

Filling ==
  /\ \A e \in P3s : /\ Filled(precmp[e], Single, e, "fillSingle")
                    /\ Filled(dblPrecmp[e], Double, e, "fillDouble")
  /\ \A t \in Threads :
       /\ call[t].pc = "fillSingle" /\ call[t].this \in P3s =>
            /\ call[t].i \in 1 .. Single
            /\ precmp[call[t].this] = [there |-> TRUE, filled |-> 1 .. call[t].i - 1]
       /\ call[t].pc = "fillDouble" /\ call[t].this \in P3s =>
            /\ call[t].i \in 1 .. Double
            /\ dblPrecmp[call[t].this] = [there |-> TRUE, filled |-> 1 .. call[t].i - 1]

\* What a thread that is about to assign a table found is still so.
Tested ==
  \A t \in Threads :
    /\ call[t].pc = "newSingle" => ~precmp[call[t].this].there
    /\ call[t].pc = "newDouble" => ~dblPrecmp[call[t].this].there

PastSingle == {"double", "newDouble", "fillDouble"}

\* What is behind a thread past the first table, and behind a return.
Behind ==
  /\ \A t \in Threads :
       call[t].pc \in PastSingle /\ call[t].this \in P3s /\ call[t].single
         => Complete(precmp[call[t].this], Single)
  /\ \A e \in P3s, single \in BOOLEAN :
       <<e, single>> \in returned => /\ Complete(dblPrecmp[e], Double)
                                     /\ single => Complete(precmp[e], Single)

\* Readers were given elements that had been precomputed.
Readers ==
  \A t \in Threads : ~Idle(t) =>
    /\ call[t].fn = "scalarMultiply" =>
         /\ call[t].this \in P3s /\ Complete(precmp[call[t].this], Single)
         /\ call[t].i \in 1 .. Single
    /\ call[t].fn = "doubleScalarMultiplyVariableTime" =>
         \A e \in {call[t].A, call[t].this} : e \in P3s /\ Complete(dblPrecmp[e], Double)

IInv == TypeOK /\ Excluded /\ Filling /\ Tested /\ Behind /\ Readers /\ NoNullRead
=============================================================================
