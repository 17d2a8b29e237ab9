------------------------------- MODULE Words -------------------------------
(***************************************************************************)
(* The integers of int32_t, int64_t and uint32_t.                          *)
(***************************************************************************)
EXTENDS Integers

Int32 == {x \in Int : -2147483648 <= x /\ x <= 2147483647}
Int64 == {x \in Int : -9223372036854775808 <= x /\ x <= 9223372036854775807}

Unsigned32 == {x \in Int : 0 <= x /\ x <= 4294967295}

Magnitude(x) == IF x < 0 THEN -x ELSE x

Within(x, bound) == -bound <= x /\ x <= bound
=============================================================================
