-------------------------- MODULE Ladders_proofs --------------------------
(***************************************************************************)
(* The recodings stand for the scalar and the multiplications compute its  *)
(* multiple, for every number of bits and every scalar below 2^255; of the *)
(* others slide leaves all of it or 2^256 less.                            *)
(*                                                                         *)
(* The sums over positions are recursive functions: that they have values  *)
(* at all, and what changing one digit does to them, is shown by induction *)
(* over sets of positions, from the least element theorem.                 *)
(***************************************************************************)
EXTENDS Ladders, TLAPS, WellFoundedInduction

-----------------------------------------------------------------------------
(* Division with remainder. *)

(***************************************************************************)
(* Quotient and remainder.                                                 *)
(***************************************************************************)
LEMMA DivFacts ==
  ASSUME NEW a \in Int, NEW d \in Nat, d > 0
  PROVE  /\ a \div d \in Int /\ a % d \in 0 .. d - 1
         /\ a = (a \div d) * d + (a % d)
  BY SMT

(***************************************************************************)
(* Multiplying by a number that is not negative keeps the order.           *)
(***************************************************************************)
LEMMA TimesMonotone ==
  ASSUME NEW x \in Int, NEW y \in Int, NEW d \in Nat, x <= y
  PROVE  x * d <= y * d
  BY SMT

(***************************************************************************)
(* Quotient and remainder are unique.                                      *)
(***************************************************************************)
LEMMA DivUnique ==
  ASSUME NEW a \in Int, NEW d \in Nat, d > 0, NEW q \in Int, q * d <= a, a < q * d + d
  PROVE  a \div d = q /\ a % d = a - q * d
  <1> DEFINE p == a \div d
  <1>1. p \in Int /\ p * d <= a /\ a < p * d + d /\ a % d = a - p * d
    BY DivFacts
  <1> HIDE DEF p
  <1>2. ~ p < q
    <2> SUFFICES ASSUME p < q PROVE FALSE
      OBVIOUS
    <2>1. (p + 1) * d <= q * d
      BY <1>1, TimesMonotone
    <2>2. (p + 1) * d = p * d + d
      BY <1>1
    <2> QED BY <1>1, <2>1, <2>2
  <1>3. ~ q < p
    <2> SUFFICES ASSUME q < p PROVE FALSE
      OBVIOUS
    <2>1. (q + 1) * d <= p * d
      BY <1>1, TimesMonotone
    <2>2. (q + 1) * d = q * d + d
      OBVIOUS
    <2> QED BY <1>1, <2>1, <2>2
  <1>4. p = q
    BY <1>1, <1>2, <1>3
  <1> QED BY <1>1, <1>4 DEF p

(***************************************************************************)
(* Dividing twice: the next digit in base 2 or 16.                         *)
(***************************************************************************)
LEMMA DivTimes ==
  ASSUME NEW a \in Nat, NEW d \in Nat, d > 0, NEW c \in {2, 16}
  PROVE  (a \div d) \div c = a \div (c * d)
  <1> DEFINE p == a \div d
             q == p \div c
  <1>1. p \in Int /\ p * d <= a /\ a < p * d + d
    BY DivFacts
  <1> HIDE DEF p
  <1>2. q \in Int /\ c * q <= p /\ p + 1 <= c * q + c
    BY <1>1
  <1> HIDE DEF q
  <1>3. (c * q) * d <= p * d /\ (p + 1) * d <= (c * q + c) * d
    BY <1>1, <1>2, TimesMonotone
  <1>4. /\ (c * q) * d = q * (c * d)
        /\ (p + 1) * d = p * d + d
        /\ (c * q + c) * d = q * (c * d) + c * d
    BY <1>1, <1>2
  <1>5. q * (c * d) <= a /\ a < q * (c * d) + c * d
    BY <1>1, <1>2, <1>3, <1>4
  <1>6. a \div (c * d) = q
    BY <1>2, <1>5, DivUnique
  <1> QED BY <1>6 DEF p, q

-----------------------------------------------------------------------------
(* Induction and recursion over positions. *)

(***************************************************************************)
(* A set of numbers that is not empty has a least element.                 *)
(***************************************************************************)
LEMMA NatMin ==
  ASSUME NEW T \in SUBSET Nat, T # {}
  PROVE  \E m \in T : \A q \in T : m <= q
  <1>1. PICK m \in T : \A q \in T : <<q, m>> \notin OpToRel(<, Nat)
    BY NatLessThanWellFounded, WFMin, Zenon
  <1>2. \A q \in T : ~ (q < m)
    BY <1>1, Zenon DEF OpToRel
  <1> QED BY <1>2

(***************************************************************************)
(* What holds of 0 and steps up holds of every number, as sets: the form   *)
(* of induction that needs no operator.                                    *)
(***************************************************************************)
LEMMA Induct ==
  ASSUME NEW S, 0 \in S, \A n \in Nat : n \in S => n + 1 \in S
  PROVE  Nat \subseteq S
  <1> DEFINE T == Nat \ S
  <1>1. SUFFICES ASSUME T # {} PROVE FALSE
    OBVIOUS
  <1>2. PICK m \in T : \A q \in T : m <= q
    <2>1. T \in SUBSET Nat OBVIOUS
    <2> HIDE DEF T
    <2> QED BY <1>1, <2>1, NatMin
  <1>3. m - 1 \in Nat /\ m - 1 \notin T
    BY <1>2
  <1>4. (m-1)+1 = m
    BY <1>2
  <1> QED BY <1>2, <1>3, <1>4

(***************************************************************************)
(* The same up to a bound.                                                 *)
(***************************************************************************)
LEMMA InductUpTo ==
  ASSUME NEW n \in Nat, NEW S, 0 \in S, \A q \in 0 .. n - 1 : q \in S => q + 1 \in S
  PROVE  0 .. n \subseteq S
  <1> DEFINE R == S \cup {q \in Nat : q > n}
  <1>1. \A q \in Nat : q \in R => q + 1 \in R
    OBVIOUS
  <1>2. 0 \in R
    OBVIOUS
  <1> HIDE DEF R
  <1>3. Nat \subseteq R
    BY <1>1, <1>2, Induct
  <1> QED BY <1>3 DEF R

(***************************************************************************)
(* A linear recursion has a solution.                                      *)
(***************************************************************************)
LEMMA Recursion ==
  ASSUME NEW n \in Nat, NEW m \in Int, NEW a \in Int, NEW t \in [0 .. n - 1 -> Int]
  PROVE  \E f \in [0 .. n -> Int] :
           f[0] = a /\ \A q \in 0 .. n - 1 : f[q + 1] = m * f[q] + t[q]
  <1> DEFINE Good(l, f) == f[0] = a /\ \A q \in 0 .. l - 1 : f[q + 1] = m * f[q] + t[q]
             G == {l \in 0 .. n : \E f \in [0 .. l -> Int] : Good(l, f)}
  <1>1. 0 \in G
    <2> DEFINE f == [q \in 0 .. 0 |-> a]
    <2>1. f \in [0 .. 0 -> Int] /\ Good(0, f)
      OBVIOUS
    <2> HIDE DEF f, Good
    <2> QED BY <2>1
  <1>2. ASSUME NEW l \in 0 .. n - 1, l \in G PROVE l + 1 \in G
    <2>1. PICK f \in [0 .. l -> Int] : Good(l, f)
      BY <1>2
    <2> DEFINE g == [q \in 0 .. l + 1 |-> IF q = l + 1 THEN m * f[l] + t[l] ELSE f[q]]
    <2>2. g \in [0 .. l + 1 -> Int]
      OBVIOUS
    <2>3. \A q \in 0 .. l : g[q + 1] = m * g[q] + t[q]
      BY <2>1
    <2>4. Good(l + 1, g)
      BY <2>1, <2>3
    <2> HIDE DEF g, Good
    <2> QED BY <2>2, <2>4
  <1> HIDE DEF G
  <1>3. 0 .. n \subseteq G
    BY <1>1, <1>2, InductUpTo
  <1>4. n \in G
    BY <1>3
  <1> QED BY <1>4 DEF G

(***************************************************************************)
(* Two[n] is 2^n: the recursion that Two is declared by has a solution,    *)
(* and Two is one.                                                         *)
(***************************************************************************)
LEMMA TwoFacts ==
  /\ Two \in [0 .. NumBits -> Nat]
  /\ Two[0] = 1
  /\ \A q \in 0 .. NumBits - 1 : Two[q + 1] = 2 * Two[q]
  <1>0. NumBits \in Nat
    BY NumBitsAssumption
  <1> DEFINE t == [q \in 0 .. NumBits - 1 |-> 0]
  <1>1. PICK f \in [0 .. NumBits -> Int] :
          f[0] = 1 /\ \A q \in 0 .. NumBits - 1 : f[q + 1] = 2 * f[q] + t[q]
    <2>1. \A m, a \in Int : \E f \in [0 .. NumBits -> Int] :
            f[0] = a /\ \A q \in 0 .. NumBits - 1 : f[q + 1] = m * f[q] + t[q]
      <3>1. t \in [0 .. NumBits - 1 -> Int]
        OBVIOUS
      <3> HIDE DEF t
      <3> QED BY <3>1, Recursion, <1>0
    <2> HIDE DEF t
    <2>2. 1 \in Int /\ 2 \in Int
      OBVIOUS
    <2> QED BY <2>1, <2>2, Zenon
  <1>2. f = [q \in 0 .. NumBits |-> IF q = 0 THEN 1 ELSE 2 * f[q - 1]]
    <2>1. \A q \in 0 .. NumBits - 1 : f[q + 1] = 2 * f[q]
      BY <1>1, <1>0
    <2>2. \A q \in 1 .. NumBits : q - 1 \in 0 .. NumBits - 1 /\ (q - 1) + 1 = q
      BY <1>0
    <2>3. \A q \in 0 .. NumBits : f[q] = IF q = 0 THEN 1 ELSE 2 * f[q - 1]
      BY <1>1, <2>1, <2>2, <1>0
    <2> QED BY <1>1, <2>3, <1>0
  <1>3. Two = [q \in 0 .. NumBits |-> IF q = 0 THEN 1 ELSE 2 * Two[q - 1]]
    BY <1>2, Zenon DEF Two
  <1>4. Two[0] = 1 /\ \A q \in 0 .. NumBits - 1 : Two[q + 1] = 2 * Two[q]
    <2> HIDE DEF t
    <2>1. Two[0] = 1
      BY <1>0, <1>3
    <2>2. ASSUME NEW n \in 0 .. NumBits - 1 PROVE Two[n + 1] = 2 * Two[n]
      <3>1. n + 1 \in 0 .. NumBits /\ n + 1 # 0 /\ (n + 1) - 1 = n
        BY <1>0
      <3> QED BY <1>3, <3>1
    <2> QED BY <2>1, <2>2
  <1>5. 0 .. NumBits \subseteq {q \in 0 .. NumBits : Two[q] \in Nat}
    <2> DEFINE R == {q \in 0 .. NumBits : Two[q] \in Nat}
    <2>1. 0 \in R /\ \A q \in 0 .. NumBits - 1 : q \in R => q + 1 \in R
      BY <1>4, <1>0
    <2>2. 0 .. NumBits \subseteq R
      <3> HIDE DEF R
      <3> QED BY <2>1, <1>0, InductUpTo
    <2> QED BY <2>2
  <1> QED BY <1>3, <1>4, <1>5

(***************************************************************************)
(* Sum is the last of the partial sums.                                    *)
(***************************************************************************)
LEMMA SumFacts ==
  ASSUME NEW n \in Nat, NEW t \in [0 .. n - 1 -> Int]
  PROVE  \E s \in [0 .. n -> Int] :
           /\ s[0] = 0
           /\ \A q \in 0 .. n - 1 : s[q + 1] = s[q] + t[q]
           /\ Sum(t, n) = s[n]
  <1> DEFINE E(s) == s = [q \in 0 .. n |-> IF q = 0 THEN 0 ELSE s[q - 1] + t[q - 1]]
             s == CHOOSE s : E(s)
  <1>1. PICK f \in [0 .. n -> Int] :
          f[0] = 0 /\ \A q \in 0 .. n - 1 : f[q + 1] = 1 * f[q] + t[q]
    <2> HIDE DEF s
    <2>1. \A m, a \in Int : \E f \in [0 .. n -> Int] :
            f[0] = a /\ \A q \in 0 .. n - 1 : f[q + 1] = m * f[q] + t[q]
      BY Recursion
    <2>2. 0 \in Int /\ 1 \in Int
      OBVIOUS
    <2> QED BY <2>1, <2>2, Zenon
  <1>2. E(f)
    <2> HIDE DEF s
    <2>1. \A q \in 0 .. n - 1 : f[q + 1] = f[q] + t[q]
      BY <1>1
    <2>2. \A q \in 1 .. n : q - 1 \in 0 .. n - 1 /\ (q - 1) + 1 = q
      OBVIOUS
    <2>3. \A q \in 0 .. n : f[q] = IF q = 0 THEN 0 ELSE f[q - 1] + t[q - 1]
      BY <1>1, <2>1, <2>2
    <2> QED BY <1>1, <2>3
  <1>3. E(s)
    <2> HIDE DEF E
    <2> QED BY <1>2
  <1>4. s[0] = 0 /\ \A q \in 0 .. n - 1 : s[q + 1] = s[q] + t[q]
    <2> HIDE DEF s
    <2> QED BY <1>3
  <1>5. 0 .. n \subseteq {q \in 0 .. n : s[q] \in Int}
    <2> HIDE DEF s, E
    <2> DEFINE R == {q \in 0 .. n : s[q] \in Int}
    <2>1. 0 \in R
      BY <1>4
    <2>2. ASSUME NEW q \in 0 .. n - 1, q \in R PROVE q + 1 \in R
      <3>1. s[q] \in Int /\ t[q] \in Int /\ s[q + 1] = s[q] + t[q]
        BY <1>4, <2>2
      <3> QED BY <3>1
    <2>3. 0 .. n \subseteq R
      <3> HIDE DEF R
      <3> QED BY <2>1, <2>2, InductUpTo
    <2> QED BY <2>3
  <1>6. Sum(t, n) = s[n]
    BY Zenon DEF Sum
  <1>7. s \in [0 .. n -> Int]
    <2> HIDE DEF s
    <2> QED BY <1>3, <1>5
  <1> HIDE DEF s, E
  <1> QED BY <1>4, <1>6, <1>7

(***************************************************************************)
(* Powers of two are positive.                                             *)
(***************************************************************************)
LEMMA TwoPositive == \A n \in 0 .. NumBits : Two[n] \in Nat /\ Two[n] > 0
  <1> DEFINE R == {n \in 0 .. NumBits : Two[n] > 0}
  <1>1. 0 \in R /\ \A n \in 0 .. NumBits - 1 : n \in R => n + 1 \in R
    BY TwoFacts, NumBitsAssumption
  <1>2. 0 .. NumBits \subseteq R
    <2> HIDE DEF R
    <2> QED BY <1>1, NumBitsAssumption, InductUpTo
  <1> QED BY <1>2, TwoFacts

-----------------------------------------------------------------------------
(* Sums and values. *)

(***************************************************************************)
(* A sum of numbers is a number.                                           *)
(***************************************************************************)
LEMMA SumType ==
  ASSUME NEW n \in Nat, NEW t \in [0 .. n - 1 -> Int]
  PROVE  Sum(t, n) \in Int
  <1>1. PICK s \in [0 .. n -> Int] : Sum(t, n) = s[n]
    BY SumFacts
  <1> QED BY <1>1

(***************************************************************************)
(* A sum of zeros is zero.                                                 *)
(***************************************************************************)
LEMMA SumZero ==
  ASSUME NEW n \in Nat, NEW t \in [0 .. n - 1 -> Int], \A j \in 0 .. n - 1 : t[j] = 0
  PROVE  Sum(t, n) = 0
  <1>1. PICK s \in [0 .. n -> Int] :
          /\ s[0] = 0
          /\ \A m \in 0 .. n - 1 : s[m + 1] = s[m] + t[m]
          /\ Sum(t, n) = s[n]
    BY SumFacts
  <1> DEFINE R == {m \in 0 .. n : s[m] = 0}
  <1>2. 0 \in R /\ \A m \in 0 .. n - 1 : m \in R => m + 1 \in R
    BY <1>1
  <1>3. 0 .. n \subseteq R
    <2> HIDE DEF R
    <2> QED BY <1>2, InductUpTo
  <1> QED BY <1>1, <1>3

\* f and d differ at p at most.
SameBut(d, f, S, p) == \A j \in S \ {p} : f[j] = d[j]

(***************************************************************************)
(* A sum changes by what one of its terms changes.                         *)
(***************************************************************************)
LEMMA SumUpdate ==
  ASSUME NEW n \in Nat, NEW t \in [0 .. n - 1 -> Int], NEW u \in [0 .. n - 1 -> Int],
         NEW p \in 0 .. n - 1, SameBut(t, u, 0 .. n - 1, p)
  PROVE  Sum(u, n) = Sum(t, n) + (u[p] - t[p])
  <1>1. PICK s \in [0 .. n -> Int] :
          /\ s[0] = 0
          /\ \A m \in 0 .. n - 1 : s[m + 1] = s[m] + t[m]
          /\ Sum(t, n) = s[n]
    BY SumFacts
  <1>2. PICK v \in [0 .. n -> Int] :
          /\ v[0] = 0
          /\ \A m \in 0 .. n - 1 : v[m + 1] = v[m] + u[m]
          /\ Sum(u, n) = v[n]
    BY SumFacts
  <1> DEFINE change == [m \in 0 .. n |-> IF m > p THEN u[p] - t[p] ELSE 0]
             R == {m \in 0 .. n : v[m] = s[m] + change[m]}
  <1>3. 0 \in R
    BY <1>1, <1>2
  <1>4. ASSUME NEW m \in 0 .. n - 1, m \in R PROVE m + 1 \in R
    <2>1. v[m] = s[m] + change[m]
      BY <1>4
    <2>2. v[m + 1] = v[m] + u[m] /\ s[m + 1] = s[m] + t[m]
      BY <1>1, <1>2, Zenon
    <2> HIDE DEF R
    <2>3. u[m] \in Int /\ t[m] \in Int /\ s[m] \in Int /\ v[m] \in Int
      OBVIOUS
    <2>4. /\ m + 1 \in 0 .. n /\ u[p] \in Int /\ t[p] \in Int
          /\ change[m] \in Int /\ change[m + 1] \in Int
      OBVIOUS
    <2>5. change[m + 1] = change[m] + (u[m] - t[m])
      <3>1. CASE m = p
        BY <2>4, <3>1
      <3>2. CASE m # p
        <4>1. u[m] = t[m]
          BY <3>2 DEF SameBut
        <4>2. m + 1 > p <=> m > p
          BY <3>2
        <4>3. change[m + 1] = change[m]
          BY <4>2
        <4>4. u[m] - t[m] = 0
          BY <2>3, <4>1
        <4> HIDE DEF change
        <4>5. \A c \in Int : c = c + 0
          OBVIOUS
        <4> QED BY <2>4, <4>3, <4>4, <4>5, Zenon
      <3> QED BY <3>1, <3>2
    <2> HIDE DEF change
    <2>6. v[m] + u[m] = (s[m] + t[m]) + change[m + 1]
      <3> DEFINE x == s[m]   y == u[m]   z == t[m]   c == change[m]   d == change[m + 1]   f == v[m]
      <3>1. /\ x \in Int /\ y \in Int /\ z \in Int /\ c \in Int /\ d \in Int
            /\ f = x + c /\ d = c + (y - z)
        BY <2>1, <2>3, <2>4, <2>5
      <3> HIDE DEF x, y, z, c, d, f
      <3>2. f + y = (x + z) + d
        BY <3>1
      <3> QED BY <3>2 DEF x, y, z, d, f
    <2>7. v[m + 1] = s[m + 1] + change[m + 1]
      BY <2>2, <2>6, Zenon
    <2>8. m + 1 \in 0 .. n
      OBVIOUS
    <2> QED BY <2>7, <2>8 DEF R
  <1>5. 0 .. n \subseteq R
    <2> HIDE DEF R
    <2> QED BY <1>3, <1>4, InductUpTo
  <1>6. n \in R /\ n > p
    BY <1>5
  <1>7. v[n] = s[n] + (u[p] - t[p])
    BY <1>6
  <1> QED BY <1>1, <1>2, <1>7

(***************************************************************************)
(* The bits fill the places of both widths, and every digit has its        *)
(* weight.                                                                 *)
(***************************************************************************)
LEMMA Widths ==
  ASSUME NEW width \in {1, 4}
  PROVE  /\ NumBits \div width \in Nat /\ width * (NumBits \div width) = NumBits
         /\ \A j \in Places(width) :
              /\ j \in Nat
              /\ width * j \in 0 .. NumBits - 1
              /\ width * (j + 1) \in 0 .. NumBits
  BY NumBitsAssumption DEF Places

(***************************************************************************)
(* The weight of a digit.                                                  *)
(***************************************************************************)
LEMMA TwoType ==
  ASSUME NEW width \in {1, 4}, NEW p \in Places(width)
  PROVE  Two[width * p] \in Nat /\ Two[width * p] > 0
  BY Widths, TwoPositive

(***************************************************************************)
(* The terms of a value are numbers.                                       *)
(***************************************************************************)
LEMMA TermsType ==
  ASSUME NEW width \in {1, 4}, NEW d \in [Places(width) -> Int], NEW ps
  PROVE  Terms(d, width, ps) \in [Places(width) -> Int]
  <1>1. \A j \in Places(width) : d[j] \in Int /\ Two[width * j] \in Int
    BY Widths, TwoPositive
  <1>2. \A j \in Places(width) : d[j] * Two[width * j] \in Int
    BY <1>1
  <1> QED BY <1>2 DEF Terms

(***************************************************************************)
(* SumUpdate for the places of a width.                                    *)
(***************************************************************************)
LEMMA PlacesUpdate ==
  ASSUME NEW width \in {1, 4},
         NEW t \in [Places(width) -> Int], NEW u \in [Places(width) -> Int],
         NEW p \in Places(width), SameBut(t, u, Places(width), p)
  PROVE  Sum(u, NumBits \div width) = Sum(t, NumBits \div width) + (u[p] - t[p])
  <1> DEFINE n == NumBits \div width
  <1>1. n \in Nat
    BY Widths
  <1>2. /\ t \in [0 .. n - 1 -> Int] /\ u \in [0 .. n - 1 -> Int]
        /\ p \in 0 .. n - 1 /\ SameBut(t, u, 0 .. n - 1, p)
    BY DEF Places
  <1> HIDE DEF n
  <1>3. Sum(u, n) = Sum(t, n) + (u[p] - t[p])
    BY <1>1, <1>2, SumUpdate
  <1> QED BY <1>3 DEF n

(***************************************************************************)
(* Digits stand for a number.                                              *)
(***************************************************************************)
LEMMA ValueType ==
  ASSUME NEW width \in {1, 4}, NEW d \in [Places(width) -> Int], NEW ps
  PROVE  Value(d, width, ps) \in Int
  <1>1. Terms(d, width, ps) \in [0 .. NumBits \div width - 1 -> Int]
    BY TermsType DEF Places
  <1>2. NumBits \div width \in Nat
    BY Widths
  <1> QED BY <1>1, <1>2, SumType DEF Value

(***************************************************************************)
(* Where every counted digit is zero, the value is.                        *)
(***************************************************************************)
LEMMA ValueZero ==
  ASSUME NEW width \in {1, 4}, NEW d \in [Places(width) -> Int], NEW ps,
         \A j \in Places(width) : j \in ps => d[j] = 0
  PROVE  Value(d, width, ps) = 0
  <1> DEFINE t == Terms(d, width, ps)
             n == NumBits \div width
  <1>1. n \in Nat
    BY Widths
  <1>2. t \in [0 .. n - 1 -> Int]
    BY TermsType DEF Places
  <1>3. \A j \in Places(width) : t[j] = 0
    <2>1. \A j \in Places(width) : Two[width * j] \in Int
      BY TwoType
    <2> QED BY <2>1 DEF Terms
  <1>4. \A j \in 0 .. n - 1 : t[j] = 0
    BY <1>3 DEF Places
  <1>5. Sum(t, n) = 0
    <2> HIDE DEF t, n
    <2> QED BY <1>1, <1>2, <1>4, SumZero
  <1> QED BY <1>5 DEF Value

(***************************************************************************)
(* When one digit changes, the value changes by the difference times its   *)
(* weight.                                                                 *)
(***************************************************************************)
LEMMA ValueUpdate ==
  ASSUME NEW width \in {1, 4}, NEW ps,
         NEW d \in [Places(width) -> Int], NEW f \in [Places(width) -> Int],
         NEW p \in Places(width), p \in ps, SameBut(d, f, Places(width), p)
  PROVE  Value(f, width, ps) = Value(d, width, ps) + (f[p] - d[p]) * Two[width * p]
  <1> DEFINE t == Terms(d, width, ps)
             u == Terms(f, width, ps)
  <1>1. t \in [Places(width) -> Int] /\ u \in [Places(width) -> Int]
    BY TermsType
  <1>2. SameBut(t, u, Places(width), p)
    BY DEF SameBut, Terms
  <1>3. u[p] = f[p] * Two[width * p] /\ t[p] = d[p] * Two[width * p]
    BY DEF Terms
  <1> HIDE DEF t, u
  <1>4. Sum(u, NumBits \div width) = Sum(t, NumBits \div width) + (u[p] - t[p])
    BY <1>1, <1>2, PlacesUpdate
  <1>5. Two[width * p] \in Nat
    BY TwoType
  <1>6. f[p] \in Int /\ d[p] \in Int
    OBVIOUS
  <1>7. u[p] - t[p] = (f[p] - d[p]) * Two[width * p]
    BY <1>3, <1>5, <1>6
  <1> QED BY <1>4, <1>7 DEF Value, t, u

(***************************************************************************)
(* When one digit more is counted, the value grows by the digit times its  *)
(* weight.                                                                 *)
(***************************************************************************)
LEMMA ValueInsert ==
  ASSUME NEW width \in {1, 4}, NEW ps,
         NEW d \in [Places(width) -> Int],
         NEW p \in Places(width), p \notin ps
  PROVE  Value(d, width, ps \cup {p}) = Value(d, width, ps) + d[p] * Two[width * p]
  <1> DEFINE t == Terms(d, width, ps)
             u == Terms(d, width, ps \cup {p})
  <1>1. t \in [Places(width) -> Int] /\ u \in [Places(width) -> Int]
    BY TermsType
  <1>2. SameBut(t, u, Places(width), p)
    BY DEF SameBut, Terms
  <1>3. u[p] = d[p] * Two[width * p] /\ t[p] = 0
    BY DEF Terms
  <1> HIDE DEF t, u
  <1>4. Sum(u, NumBits \div width) = Sum(t, NumBits \div width) + (u[p] - t[p])
    BY <1>1, <1>2, PlacesUpdate
  <1>5. Two[width * p] \in Nat
    BY TwoType
  <1>6. d[p] \in Int
    OBVIOUS
  <1>7. d[p] * Two[width * p] \in Int
    BY <1>5, <1>6
  <1>8. u[p] - t[p] = d[p] * Two[width * p]
    BY <1>3, <1>7
  <1> QED BY <1>4, <1>8 DEF Value, t, u

-----------------------------------------------------------------------------
(* Bits and nibbles. *)

(***************************************************************************)
(* The numbers of bits and digits, and their positions.                    *)
(***************************************************************************)
LEMMA Shape ==
  /\ NumBits \in Nat /\ NumBits >= 8
  /\ NumDigits \in Nat /\ NumDigits >= 2 /\ NumDigits % 2 = 0 /\ 4 * NumDigits = NumBits
  /\ NumBits = NumBits \div 1 /\ NumDigits = NumBits \div 4
  /\ Positions = 0 .. NumBits - 1 /\ DigitPositions = 0 .. NumDigits - 1
  /\ Positions = Places(1) /\ DigitPositions = Places(4)
  BY NumBitsAssumption DEF NumDigits, Positions, DigitPositions, Places

(***************************************************************************)
(* A power of two within the scalar.                                       *)
(***************************************************************************)
LEMMA TwoAt ==
  ASSUME NEW n \in Nat, n <= NumBits
  PROVE  Two[n] \in Nat /\ Two[n] > 0
  <1>1. n \in 0 .. NumBits
    BY Shape
  <1> QED BY <1>1, TwoPositive

(***************************************************************************)
(* The next power of two.                                                  *)
(***************************************************************************)
LEMMA TwoStep ==
  ASSUME NEW n \in Nat, n < NumBits
  PROVE  Two[n] \in Nat /\ Two[n] > 0 /\ Two[n + 1] = 2 * Two[n]
  <1>1. n \in 0 .. NumBits - 1
    BY Shape
  <1>2. Two[n + 1] = 2 * Two[n]
    BY <1>1, TwoFacts, Zenon
  <1>3. n <= NumBits
    BY Shape
  <1> QED BY <1>2, <1>3, TwoAt

(***************************************************************************)
(* Four places up.                                                         *)
(***************************************************************************)
LEMMA TwoSixteen ==
  ASSUME NEW n \in Nat, n + 4 <= NumBits
  PROVE  Two[n + 4] = 16 * Two[n]
  <1>1. /\ n + 1 \in Nat /\ n + 2 \in Nat /\ n + 3 \in Nat /\ NumBits \in Nat
        /\ n < NumBits /\ n + 1 < NumBits /\ n + 2 < NumBits /\ n + 3 < NumBits
        /\ (n + 1) + 1 = n + 2 /\ (n + 2) + 1 = n + 3 /\ (n + 3) + 1 = n + 4
    BY Shape
  <1>2. Two[n] \in Nat /\ Two[n + 1] = 2 * Two[n]
    BY <1>1, TwoStep
  <1>3. Two[n + 2] = 2 * Two[n + 1]
    BY <1>1, TwoStep
  <1>4. Two[n + 3] = 2 * Two[n + 2]
    BY <1>1, TwoStep
  <1>5. Two[n + 4] = 2 * Two[n + 3]
    BY <1>1, TwoStep
  <1> QED BY <1>2, <1>3, <1>4, <1>5

(***************************************************************************)
(* A number below its divisor has the quotient 0.                          *)
(***************************************************************************)
LEMMA DivSmall ==
  ASSUME NEW a \in Nat, NEW d \in Nat, a < d
  PROVE  a \div d = 0
  <1>1. d > 0 /\ 0 * d <= a /\ a < 0 * d + d
    OBVIOUS
  <1> QED BY <1>1, DivUnique

(***************************************************************************)
(* Splitting one more digit off a number: the digits so far and the rest   *)
(* of the number still make it up.                                         *)
(***************************************************************************)
LEMMA DigitStep ==
  ASSUME NEW a \in Nat, NEW d \in Nat, d > 0, NEW c \in {2, 16},
         NEW s \in Int, s + (a \div d) * d = a
  PROVE  (s + ((a \div d) % c) * d) + (a \div (c * d)) * (c * d) = a
  <1> DEFINE q == a \div d
  <1>1. q \in Int /\ q \div c = a \div (c * d)
    <2>1. q \in Int
      BY DivFacts
    <2>2. q \div c = a \div (c * d)
      BY DivTimes
    <2> QED BY <2>1, <2>2
  <1> HIDE DEF q
  <1>2. q % c \in Int /\ q \div c \in Int /\ q = c * (q \div c) + (q % c)
    BY <1>1
  <1>3. \A y \in Int, x \in Int : x * d + y * (c * d) = (c * y + x) * d
    OBVIOUS
  <1>4. (q % c) * d + (q \div c) * (c * d) = q * d
    BY <1>2, <1>3
  <1>5. (q % c) * d \in Int /\ (q \div c) * (c * d) \in Int /\ q * d \in Int
    BY <1>1, <1>2
  <1>6. s + q * d = a
    BY DEF q
  <1>7. (s + (q % c) * d) + (q \div c) * (c * d) = a
    BY <1>4, <1>5, <1>6
  <1>8. (s + (q % c) * d) + (a \div (c * d)) * (c * d) = a
    BY <1>1, <1>7
  <1> QED BY <1>8 DEF q

\* The digits of a in one of the two bases, each times its weight.
WeightedDigits(t, P, c, a, n) == \A m \in 0 .. n - 1 : t[m] = ((a \div P[m]) % c) * P[m]

(***************************************************************************)
(* The digits of a number, each times its weight, add up to it.            *)
(***************************************************************************)
LEMMA SumOfDigits ==
  ASSUME NEW n \in Nat, NEW c \in {2, 16}, NEW P \in [0 .. n -> Nat], P[0] = 1,
         \A m \in 0 .. n : P[m] > 0,
         \A m \in 0 .. n - 1 : P[m + 1] = c * P[m],
         NEW a \in Nat, a < P[n],
         NEW t \in [0 .. n - 1 -> Int], WeightedDigits(t, P, c, a, n)
  PROVE  Sum(t, n) = a
  <1>a. \A d \in Nat, x \in Int : d > 0 /\ x + (a \div d) * d = a =>
           (x + ((a \div d) % c) * d) + (a \div (c * d)) * (c * d) = a
    <2> SUFFICES ASSUME NEW d \in Nat, NEW x \in Int, d > 0, x + (a \div d) * d = a
                 PROVE  (x + ((a \div d) % c) * d) + (a \div (c * d)) * (c * d) = a
      BY Zenon
    <2> QED BY DigitStep, Zenon
  <1>1. PICK s \in [0 .. n -> Int] :
          /\ s[0] = 0
          /\ \A m \in 0 .. n - 1 : s[m + 1] = s[m] + t[m]
          /\ Sum(t, n) = s[n]
    BY SumFacts
  <1> DEFINE R == {m \in 0 .. n : s[m] + (a \div P[m]) * P[m] = a}
  <1>2. a \div 1 = a /\ a * 1 = a
    OBVIOUS
  <1>3. 0 \in R
    BY <1>1, <1>2
  <1>4. ASSUME NEW m \in 0 .. n - 1, m \in R PROVE m + 1 \in R
    <2> HIDE DEF R
    <2>1. P[m] \in Nat /\ P[m] > 0 /\ P[m + 1] = c * P[m]
      OBVIOUS
    <2>2. m + 1 \in 0 .. n /\ s[m + 1] \in Int /\ s[m] \in Int
      OBVIOUS
    <2>3. s[m + 1] = s[m] + t[m]
      BY <1>1
    <2>4. s[m + 1] = s[m] + ((a \div P[m]) % c) * P[m]
      BY <2>3 DEF WeightedDigits
    <2>5. s[m] + (a \div P[m]) * P[m] = a
      BY <1>4 DEF R
    <2>6. (s[m] + ((a \div P[m]) % c) * P[m]) + (a \div (c * P[m])) * (c * P[m]) = a
      BY <1>a, <2>1, <2>2, <2>5, Zenon
    <2>7. s[m + 1] + (a \div P[m + 1]) * P[m + 1] = a
      BY <2>1, <2>4, <2>6, Zenon
    <2> QED BY <2>2, <2>7 DEF R
  <1>5. 0 .. n \subseteq R
    <2> HIDE DEF R
    <2> QED BY <1>3, <1>4, InductUpTo
  <1>6. n \in 0 .. n /\ P[n] \in Nat /\ s[n] \in Int
    OBVIOUS
  <1>7. s[n] + (a \div P[n]) * P[n] = a
    BY <1>5, <1>6
  <1> HIDE DEF R
  <1>8. a \div P[n] = 0
    BY <1>6, DivSmall
  <1> QED BY <1>1, <1>6, <1>7, <1>8

(***************************************************************************)
(* The bits that slide starts from stand for the scalar.                   *)
(***************************************************************************)
LEMMA BitsFacts ==
  ASSUME NEW a \in 0 .. Two[NumBits] - 1
  PROVE  /\ Bits(a) \in [Positions -> 0 .. 1]
         /\ SlideValue(Bits(a)) = a
         /\ a < Two[NumBits - 1] => Bits(a)[NumBits - 1] = 0
  <1> DEFINE n == NumBits
             t == Terms(Bits(a), 1, Positions)
  <1>1. n \in Nat /\ n >= 8 /\ n = NumBits \div 1 /\ Positions = 0 .. n - 1
    BY Shape
  <1>2. a \in Nat
    BY <1>1, TwoAt
  <1>3. \A m \in Positions : (a \div Two[m]) % 2 \in 0 .. 1
    <2> SUFFICES ASSUME NEW m \in Positions PROVE (a \div Two[m]) % 2 \in 0 .. 1
      OBVIOUS
    <2>1. Two[m] \in Nat /\ Two[m] > 0
      BY <1>1, TwoAt
    <2>2. a \div Two[m] \in Int
      BY <1>2, <2>1, DivFacts
    <2> QED BY <2>2
  <1>4. Bits(a) \in [Positions -> 0 .. 1]
    BY <1>3 DEF Bits
  <1>5. SlideValue(Bits(a)) = a
    <2>1. t \in [0 .. n - 1 -> Int]
      BY <1>1, <1>4, Shape, TermsType
    <2>2. WeightedDigits(t, Two, 2, a, n)
      <3>1. \A m \in 0 .. n - 1 : Bits(a)[m] = (a \div Two[m]) % 2 /\ m \in Positions /\ 1 * m = m
        BY <1>1 DEF Bits
      <3> QED BY <1>1, <3>1, Shape DEF Terms, WeightedDigits
    <2>3. Two \in [0 .. n -> Nat] /\ Two[0] = 1 /\ \A m \in 0 .. n - 1 : Two[m + 1] = 2 * Two[m]
      BY TwoFacts
    <2>4. \A m \in 0 .. n : Two[m] > 0
      BY TwoPositive
    <2>5. Sum(t, n) = a
      <3> HIDE DEF t
      <3>1. a < Two[n]
        BY <1>1, TwoAt
      <3> HIDE DEF n
      <3> QED BY <1>1, <1>2, <2>1, <2>2, <2>3, <2>4, <3>1, SumOfDigits
    <2> QED BY <1>1, <2>5 DEF SlideValue, Value
  <1>6. ASSUME a < Two[NumBits - 1] PROVE Bits(a)[NumBits - 1] = 0
    <2> DEFINE T == Two[NumBits - 1]
    <2>1. T \in Nat /\ T > 0
      BY <1>1, TwoAt
    <2> HIDE DEF T
    <2>2. a < T
      BY <1>6 DEF T
    <2>3. a \div T = 0
      <3>1. 0 * T <= a /\ a < 0 * T + T
        BY <1>2, <2>1, <2>2
      <3> QED BY <1>2, <2>1, <3>1, DivUnique
    <2> QED BY <1>1, <2>3 DEF T, Bits
  <1> QED BY <1>4, <1>5, <1>6

(***************************************************************************)
(* The nibbles that toRadix16 starts from stand for the scalar, and the    *)
(* last is at most 7.                                                      *)
(***************************************************************************)
LEMMA NibblesFacts ==
  ASSUME NEW a \in 0 .. Two[NumBits - 1] - 1
  PROVE  /\ Nibbles(a) \in [DigitPositions -> 0 .. 15]
         /\ Radix16Value(Nibbles(a)) = a
         /\ Nibbles(a)[NumDigits - 1] \in 0 .. 7
  <1> DEFINE n == NumDigits
             t == Terms(Nibbles(a), 4, DigitPositions)
             P == [m \in 0 .. n |-> Two[4 * m]]
  <1>1. /\ n \in Nat /\ n >= 2 /\ n = NumBits \div 4 /\ 4 * n = NumBits
        /\ DigitPositions = 0 .. n - 1
    BY Shape
  <1>2. \A m \in 0 .. n : Two[4 * m] \in Nat /\ Two[4 * m] > 0
    <2> SUFFICES ASSUME NEW m \in 0 .. n PROVE Two[4 * m] \in Nat /\ Two[4 * m] > 0
      OBVIOUS
    <2>1. 4 * m \in Nat /\ 4 * m <= NumBits
      BY <1>1
    <2> QED BY <2>1, TwoAt
  <1>3. a \in Nat /\ a < Two[NumBits - 1] /\ Two[NumBits] = 2 * Two[NumBits - 1]
        /\ Two[NumBits - 1] \in Nat
    <2>1. NumBits - 1 \in Nat /\ NumBits - 1 < NumBits /\ (NumBits - 1) + 1 = NumBits
      BY <1>1
    <2>2. Two[NumBits - 1] \in Nat /\ Two[NumBits] = 2 * Two[NumBits - 1]
      BY <2>1, TwoStep
    <2> QED BY <2>2
  <1>4. \A m \in DigitPositions : (a \div Two[4 * m]) % 16 \in 0 .. 15
    <2> SUFFICES ASSUME NEW m \in DigitPositions PROVE (a \div Two[4 * m]) % 16 \in 0 .. 15
      OBVIOUS
    <2>1. Two[4 * m] \in Nat /\ Two[4 * m] > 0
      BY <1>1, <1>2
    <2>2. a \div Two[4 * m] \in Int
      BY <1>3, <2>1, DivFacts
    <2> QED BY <2>2
  <1>5. Nibbles(a) \in [DigitPositions -> 0 .. 15]
    BY <1>4 DEF Nibbles
  <1>6. Radix16Value(Nibbles(a)) = a
    <2>1. t \in [0 .. n - 1 -> Int]
      BY <1>1, <1>5, Shape, TermsType
    <2>2. WeightedDigits(t, P, 16, a, n)
      <3>1. \A m \in 0 .. n - 1 :
              Nibbles(a)[m] = (a \div Two[4 * m]) % 16 /\ m \in DigitPositions /\ P[m] = Two[4 * m]
        BY <1>1 DEF Nibbles
      <3> QED BY <1>1, <3>1, Shape DEF Terms, WeightedDigits
    <2>3. P \in [0 .. n -> Nat] /\ \A m \in 0 .. n : P[m] > 0
      BY <1>2
    <2>4. P[0] = 1
      BY <1>1, TwoFacts
    <2>5. ASSUME NEW m \in 0 .. n - 1 PROVE P[m + 1] = 16 * P[m]
      <3>1. 4 * m \in Nat /\ 4 * m + 4 <= NumBits /\ 4 * (m + 1) = 4 * m + 4 /\ m + 1 \in 0 .. n
        BY <1>1
      <3>2. Two[4 * m + 4] = 16 * Two[4 * m]
        BY <3>1, TwoSixteen
      <3> QED BY <1>1, <3>1, <3>2
    <2>6. a < P[n]
      BY <1>1, <1>3
    <2>7. Sum(t, n) = a
      <3> HIDE DEF t, n, P
      <3> QED BY <1>1, <1>3, <2>1, <2>2, <2>3, <2>4, <2>5, <2>6, SumOfDigits
    <2> QED BY <1>1, <2>7 DEF Radix16Value, Value
  <1>7. Nibbles(a)[n - 1] \in 0 .. 7
    <2> DEFINE T == Two[4 * (n - 1)]
               q == a \div T
    <2>1. T \in Nat /\ T > 0
      BY <1>1, <1>2
    <2>2. a < 8 * T
      <3>1. 4 * (n - 1) \in Nat /\ 4 * (n - 1) + 4 = NumBits
        BY <1>1
      <3>2. Two[NumBits] = 16 * T
        BY <3>1, TwoSixteen, <1>1
      <3> QED BY <1>3, <2>1, <3>2
    <2>3. q \in Int /\ q * T <= a /\ a < q * T + T
      BY <1>3, <2>1, DivFacts
    <2>4. q \in 0 .. 7
      <3> HIDE DEF T, q
      <3>1. ~ q <= -1
        <4> SUFFICES ASSUME q <= -1 PROVE FALSE
          OBVIOUS
        <4>1. (q + 1) * T <= 0 * T
          BY <2>1, <2>3, TimesMonotone
        <4> QED BY <1>3, <2>1, <2>3, <4>1
      <3>2. ~ 8 <= q
        <4> SUFFICES ASSUME 8 <= q PROVE FALSE
          OBVIOUS
        <4>1. 8 * T <= q * T
          BY <2>1, <2>3, TimesMonotone
        <4> QED BY <1>3, <2>1, <2>2, <2>3, <4>1
      <3> QED BY <2>3, <3>1, <3>2
    <2>5. n - 1 \in DigitPositions
      BY <1>1
    <2> QED BY <2>4, <2>5 DEF Nibbles
  <1> QED BY <1>5, <1>6, <1>7

-----------------------------------------------------------------------------
(* select. *)

(***************************************************************************)
(* negative is 1 just for negative digits, in machine words.               *)
(***************************************************************************)
LEMMA NegativeFacts ==
  ASSUME NEW x \in -8 .. 8
  PROVE  negative(x) = IF x < 0 THEN 1 ELSE 0
  <1>1. /\ Word \in Nat /\ Word >= 512 /\ Word \div 2 \in Nat /\ 2 * (Word \div 2) = Word
        /\ x \in Int
    BY LaddersAssumption
  <1>2. CASE x < 0
    <2>1. (-1) * Word <= x /\ x < (-1) * Word + Word /\ x - (-1) * Word = x + Word
      BY <1>1, <1>2
    <2>2. -1 \in Int /\ Word > 0
      BY <1>1
    <2>3. x % Word = x + Word
      BY <1>1, <2>1, <2>2, DivUnique
    <2>4. x + Word \in Int /\ Word \div 2 > 0 /\ 1 * (Word \div 2) <= x + Word
          /\ x + Word < 1 * (Word \div 2) + (Word \div 2)
      BY <1>1, <1>2
    <2>5. (x + Word) \div (Word \div 2) = 1
      BY <1>1, <2>4, DivUnique
    <2> QED BY <1>2, <2>3, <2>5 DEF negative
  <1>3. CASE x >= 0
    <2>1. 0 * Word <= x /\ x < 0 * Word + Word /\ x - 0 * Word = x /\ Word > 0
      BY <1>1, <1>3
    <2>2. x % Word = x
      BY <1>1, <2>1, DivUnique
    <2>3. x \div (Word \div 2) = 0
      BY <1>1, <1>3, DivSmall
    <2> QED BY <1>3, <2>2, <2>3 DEF negative
  <1> QED BY <1>1, <1>2, <1>3

(***************************************************************************)
(* equal is 1 just for equal bytes, in machine words.                      *)
(***************************************************************************)
LEMMA EqualFacts ==
  ASSUME NEW x \in 0 .. 8, NEW c \in 1 .. 8
  PROVE  equal(x, c) = IF x = c THEN 1 ELSE 0
  <1>1. /\ Word \in Nat /\ Word >= 512 /\ Word \div 2 \in Nat /\ 2 * (Word \div 2) = Word
        /\ Word \div 2 > 0
    BY LaddersAssumption
  <1>2. UnsignedByte(x) = x /\ UnsignedByte(c) = c
    BY DEF UnsignedByte
  <1>3. (0 - 1) % Word = Word - 1
    <2>1. /\ (-1) * Word <= 0 - 1 /\ 0 - 1 < (-1) * Word + Word
          /\ (0 - 1) - (-1) * Word = Word - 1 /\ Word > 0
      BY <1>1
    <2> QED BY <1>1, <2>1, DivUnique
  <1>4. (Word - 1) \div (Word \div 2) = 1
    <2>1. /\ 1 * (Word \div 2) <= Word - 1
          /\ Word - 1 < 1 * (Word \div 2) + (Word \div 2)
      BY <1>1
    <2> QED BY <1>1, <2>1, DivUnique
  <1>5. (1 - 1) % Word = 0
    <2>1. 0 * Word <= 0 /\ 0 < 0 * Word + Word /\ 0 - 0 * Word = 0 /\ Word > 0
      BY <1>1
    <2> QED BY <1>1, <2>1, DivUnique
  <1>6. 0 \div (Word \div 2) = 0
    BY <1>1, DivSmall
  <1>7. CASE x = c
    BY <1>2, <1>3, <1>4, <1>7 DEF equal
  <1>8. CASE x # c
    BY <1>2, <1>5, <1>6, <1>8 DEF equal
  <1> QED BY <1>7, <1>8

(***************************************************************************)
(* select gives the digit's multiple of the table row for every digit from *)
(* -8 to 8.                                                                *)
(***************************************************************************)
LEMMA SelectFacts ==
  ASSUME NEW pos \in Nat, 8 * pos <= NumBits, NEW x \in -8 .. 8
  PROVE  select(pos, x) = <<0, x * Two[8 * pos]>>
  <1> DEFINE T == Two[8 * pos]
             babs == IF x < 0 THEN -x ELSE x
             Pick(t, j) == cmov(t, base(pos, j), equal(babs, j + 1))
             t0 == Pick(Pick(Pick(Pick(Pick(Pick(Pick(Pick(Neutral, 0), 1), 2), 3), 4), 5), 6), 7)
  <1>1. T \in Nat
    <2>1. 8 * pos \in Nat
      OBVIOUS
    <2> QED BY <2>1, TwoAt
  <1>2. babs \in 0 .. 8 /\ UnsignedByte(x - 2 * (negative(x) * x)) = babs
    BY NegativeFacts DEF UnsignedByte
  <1>3. select(pos, x) = cmov(t0, Opposite(t0), negative(x))
    BY <1>2, Zenon DEF select
  <1>4. t0 = <<0, babs * T>>
    <2> HIDE DEF babs, T
    <2>1. \A j \in 0 .. 7 : equal(babs, j + 1) = IF babs = j + 1 THEN 1 ELSE 0
      BY <1>2, EqualFacts
    <2>2. \A t : \A j \in 0 .. 7 : Pick(t, j) = IF babs = j + 1 THEN <<0, (j + 1) * T>> ELSE t
      BY <2>1 DEF cmov, base, T
    <2> HIDE DEF Pick
    <2>3. babs \in {0, 1, 2, 3, 4, 5, 6, 7, 8}
      BY <1>2
    <2>4. 0 * T = 0
      BY <1>1
    <2> QED BY <2>2, <2>3, <2>4 DEF Neutral
  <1>5. negative(x) = IF x < 0 THEN 1 ELSE 0
    BY NegativeFacts
  <1>6. -(babs * T) = (-babs) * T
    <2>1. \A y \in Nat, z \in Nat : -(y * z) = (-y) * z
      OBVIOUS
    <2> HIDE DEF babs, T, Pick, t0
    <2>2. babs \in Nat
      BY <1>2
    <2> QED BY <1>1, <2>1, <2>2, Zenon
  <1>7. Opposite(t0) = <<0, (-babs) * T>>
    <2>1. \A y, z \in Int : y + z = 0 => -y = z
      OBVIOUS
    <2> HIDE DEF t0, babs, T
    <2>2. 0 \in Int /\ t0[1] + 0 = 0 /\ t0[1] \in Int /\ t0[2] = babs * T
      BY <1>4
    <2>3. -t0[1] = 0 /\ -t0[2] = (-babs) * T
      BY <1>6, <2>1, <2>2, Zenon
    <2> QED BY <2>3, Zenon DEF Opposite
  <1>8. CASE x < 0
    <2> HIDE DEF t0, T
    <2>1. -babs = x
      BY <1>8
    <2> QED BY <1>3, <1>5, <1>7, <1>8, <2>1 DEF cmov, T
  <1>9. CASE ~ x < 0
    <2> HIDE DEF t0, T
    <2>1. babs = x
      BY <1>9
    <2> QED BY <1>3, <1>5, <1>4, <1>9, <2>1 DEF cmov, T
  <1> QED BY <1>8, <1>9

-----------------------------------------------------------------------------
(* The inductive invariant. *)

\* Which of the two functions runs, and where its recoding may be.
IsBase   == task.fn = "ge_scalarmult_base"
BasePcs  == {"nibbles", "carry", "odd", "even"}
SlidePcs == {"bits", "window", "absorb", "ripple"}

Types ==
  /\ task \in Tasks
  /\ pc \in (IF IsBase THEN BasePcs ELSE SlidePcs \cup {"skip", "add"}) \cup {"done"}
  /\ e \in [DigitPositions -> Int] /\ carry \in Int
  /\ slides \in [1 .. 2 -> [Positions -> Int]]
  /\ w \in 1 .. 2 /\ b \in Nat /\ k \in Nat /\ i \in Int
  /\ h \in Int \X Int

\* Before the carry at i: the digits below are signed, those from i on not.
Carrying ==
  pc = "carry" =>
    /\ i \in 0 .. NumDigits - 1 /\ carry \in 0 .. 1
    /\ \A j \in DigitPositions : e[j] \in IF j < i THEN -8 .. 7 ELSE 0 .. 15
    /\ e[NumDigits - 1] \in 0 .. 7
    /\ Radix16Value(e) + carry * Two[4 * i] = task.a

\* The digits of a, done.
Recoded16 ==
  /\ Radix16Value(e) = task.a
  /\ \A j \in DigitPositions : e[j] \in -8 .. 8
  /\ \A j \in DigitPositions \ {NumDigits - 1} : e[j] # 8

\* What h holds while the odd, then the even digits are added.
AddingBase ==
  /\ pc \in {"nibbles", "carry"} => h = Neutral
  /\ pc \in {"odd", "even"} => Recoded16 /\ h[1] = 0
  /\ pc = "odd" => /\ i \in 1 .. NumDigits + 1 /\ i % 2 = 1
                   /\ 16 * h[2] = Value(e, 4, {j \in Odds : j < i})
  /\ pc = "even" => /\ i \in 0 .. NumDigits /\ i % 2 = 0
                    /\ h[2] = Value(e, 4, Odds \cup {j \in Evens : j < i})
  /\ pc = "done" /\ IsBase => h = <<0, task.a>>

BaseInv == Carrying /\ AddingBase

(* slide: d are the digits of x, n the one whose window is open or next. *)

\* Arrays of slide; what is below, at and above position n of one.
SlideFn == [Positions -> Int]

Low(d, n)       == \A j \in Positions : j < n => SlideDigit(d, j)
High(d, n)      == \A j \in Positions : j >= n => d[j] \in 0 .. 1
Clear(d, lo, n) == \A j \in Positions : lo <= j /\ j < n => d[j] = 0

\* The digits stand for x; or the carry has left the array, and no bits are left.
Stands(d, x, n) ==
  \/ SlideValue(d) = x
  \/ /\ x >= Two[NumBits - 1] /\ SlideValue(d) = x - Two[NumBits]
     /\ Clear(d, n, NumBits)

\* Below 2^255 the top bit is one that a carry set, and the only one left.
TopAlone(d, x, n) ==
  x < Two[NumBits - 1] /\ n < NumBits /\ d[NumBits - 1] = 1 => Clear(d, n, NumBits - 1)

\* Between two windows: below n the digits are final, from n on there are bits.
WindowInv(d, x, n) ==
  /\ n \in 0 .. NumBits
  /\ Low(d, n) /\ High(d, n) /\ Stands(d, x, n) /\ TopAlone(d, x, n)

\* Window n is open and has looked at the c - 1 bits above: they are clear.
AbsorbInv(d, x, n, c) ==
  /\ n \in 0 .. NumBits - 1 /\ c \in 1 .. 7
  /\ Low(d, n) /\ High(d, n + 1) /\ Stands(d, x, n + 1) /\ TopAlone(d, x, n + 1)
  /\ d[n] % 2 = 1
  /\ c <= 4 => d[n] \in 1 .. Two[c] - 1
  /\ c > 4 => d[n] \in -15 .. 15
  /\ Clear(d, n + 1, n + c)
  /\ x < Two[NumBits - 1] /\ n + 1 < NumBits /\ c < 5 => d[NumBits - 1] = 0

\* The digit took a bit too much, the fourth above it, and 2^m is owed: the
\* ones passed on the way to position m are clear.
RippleInv(d, x, n, c, m) ==
  /\ n \in 0 .. NumBits - 1 /\ c = 4 /\ m \in n + 4 .. NumBits /\ n + 4 < NumBits
  /\ Low(d, n) /\ High(d, n + 1) /\ d[n] % 2 = 1 /\ d[n] \in -15 .. 15
  /\ Clear(d, n + 1, m) /\ (m = n + 4 => d[m] = 1)
  /\ SlideValue(d) + Two[m] = x
  /\ x < Two[NumBits - 1] => m < NumBits /\ d[NumBits - 1] = 0

\* The numbers that the digits of x may stand for: from 2^255 on a carry may
\* leave the array.
Off(x) == IF x < Two[NumBits - 1] THEN {x} ELSE {x, x - Two[NumBits]}

\* An array that slide has finished.
Slid(d, x) == SlideValue(d) \in Off(x) /\ \A j \in Positions : SlideDigit(d, j)

\* The array being recoded, and the one before it.
SlideInv ==
  /\ pc \in SlidePcs /\ w = 2 => Slid(slides[1], task.scalars[1])
  /\ pc = "window" => WindowInv(r, task.scalars[w], i)
  /\ pc = "absorb" => AbsorbInv(r, task.scalars[w], i, b)
  /\ pc = "ripple" => RippleInv(r, task.scalars[w], i, b, k)
  /\ pc \in {"skip", "add"} => \A x \in 1 .. 2 : Slid(slides[x], task.scalars[x])

\* Horner's rule.
Adding ==
  /\ pc \in SlidePcs \cup {"skip"} => h = Neutral
  /\ pc \in {"skip", "add"} =>
       /\ i \in -1 .. NumBits - 1
       /\ \A x \in 1 .. 2 :
            Value(slides[x], 1, {j \in Positions : j > i}) = h[x] * Two[i + 1]
  /\ pc = "done" /\ ~IsBase => \A x \in 1 .. 2 : h[x] \in Off(task.scalars[x])

IInv == Types /\ BaseInv /\ SlideInv /\ Adding

-----------------------------------------------------------------------------
(* ge_scalarmult_base. *)

(***************************************************************************)
(* The scalars of a task.                                                  *)
(***************************************************************************)
LEMMA TaskFacts ==
  ASSUME task \in Tasks
  PROVE  /\ IsBase => task.a \in 0 .. Two[NumBits - 1] - 1
         /\ ~IsBase => task.scalars \in (0 .. Two[NumBits] - 1) \X (0 .. Two[NumBits] - 1)
  BY LaddersAssumption DEF Tasks, IsBase

(***************************************************************************)
(* ValueUpdate for the digits of toRadix16.                                *)
(***************************************************************************)
LEMMA Radix16Update ==
  ASSUME NEW d \in [DigitPositions -> Int], NEW f \in [DigitPositions -> Int],
         NEW p \in DigitPositions, SameBut(d, f, DigitPositions, p)
  PROVE  /\ Radix16Value(d) \in Int
         /\ Radix16Value(f) = Radix16Value(d) + (f[p] - d[p]) * Two[4 * p]
  <1>1. DigitPositions = Places(4) /\ 4 \in {1, 4}
    BY Shape
  <1>2. Value(d, 4, DigitPositions) \in Int
    BY <1>1, ValueType
  <1>3. Value(f, 4, DigitPositions) = Value(d, 4, DigitPositions) + (f[p] - d[p]) * Two[4 * p]
    BY <1>1, ValueUpdate
  <1> QED BY <1>2, <1>3 DEF Radix16Value

(***************************************************************************)
(* ValueUpdate for the digits of slide.                                    *)
(***************************************************************************)
LEMMA SlideUpdate ==
  ASSUME NEW d \in [Positions -> Int], NEW f \in [Positions -> Int],
         NEW p \in Positions, SameBut(d, f, Positions, p)
  PROVE  /\ SlideValue(d) \in Int
         /\ SlideValue(f) = SlideValue(d) + (f[p] - d[p]) * Two[p]
  <1>1. Positions = Places(1) /\ 1 \in {1, 4}
    BY Shape
  <1>2. 1 * p = p
    BY Shape
  <1>3. Value(d, 1, Positions) \in Int
    BY <1>1, ValueType
  <1>4. Value(f, 1, Positions) = Value(d, 1, Positions) + (f[p] - d[p]) * Two[1 * p]
    BY <1>1, ValueUpdate
  <1> QED BY <1>2, <1>3, <1>4 DEF SlideValue

(***************************************************************************)
(* A carry of d takes 16 d from one digit and gives d to the next: no      *)
(* change.                                                                 *)
(***************************************************************************)
LEMMA CarryArithmetic ==
  ASSUME NEW V \in Int, NEW T \in Nat, NEW c \in Int, NEW d \in Int
  PROVE  (V + (c - 16 * d) * T) + d * (16 * T) = V + c * T
  OBVIOUS

(***************************************************************************)
(* The odd and the even loop add a digit's multiple of its table row, not  *)
(* of its own power of 16.                                                 *)
(***************************************************************************)
LEMMA AddsDigit ==
  ASSUME Types, BaseInv, Odd \/ Even
  PROVE  /\ i \in 0 .. NumDigits - 1 /\ i \in DigitPositions /\ e[i] \in -8 .. 8
         /\ e[i] * Two[8 * (i \div 2)] \in Int
         /\ Two[8 * (i \div 2)] \in Nat
         /\ h' = <<h[1], h[2] + e[i] * Two[8 * (i \div 2)]>>
         /\ h[1] = 0 /\ h[2] \in Int
  <1>1. pc \in {"odd", "even"} /\ i < NumDigits /\ h' = Plus(h, select(i \div 2, e[i]))
    BY DEF Odd, Even
  <1>2. i \in 0 .. NumDigits - 1
    BY <1>1, Shape DEF BaseInv, AddingBase
  <1>3. Recoded16 /\ h[1] = 0
    BY <1>1 DEF BaseInv, AddingBase
  <1>4. i \in DigitPositions /\ e[i] \in -8 .. 8
    BY <1>2, <1>3, Shape DEF Recoded16
  <1>5. i \div 2 \in Nat /\ 8 * (i \div 2) <= NumBits /\ 8 * (i \div 2) \in Nat
    BY <1>2, Shape
  <1>6. select(i \div 2, e[i]) = <<0, e[i] * Two[8 * (i \div 2)]>>
    BY <1>4, <1>5, SelectFacts
  <1>7. Two[8 * (i \div 2)] \in Nat
    BY <1>5, TwoAt
  <1>8. e[i] * Two[8 * (i \div 2)] \in Int
    BY <1>4, <1>7
  <1>9. h \in Int \X Int
    BY DEF Types
  <1>10. h' = <<h[1], h[2] + e[i] * Two[8 * (i \div 2)]>>
    BY <1>1, <1>3, <1>6, <1>8, <1>9 DEF Plus
  <1> QED BY <1>2, <1>3, <1>4, <1>7, <1>8, <1>9, <1>10

(***************************************************************************)
(* The steps of ge_scalarmult_base keep the types and their own variables. *)
(***************************************************************************)
LEMMA BaseTypes ==
  ASSUME Types, BaseInv, BaseNext
  PROVE  Types' /\ IsBase /\ pc' \in BasePcs /\ UNCHANGED <<task, slides, w, b, k>>
  <1>1. IsBase /\ pc' \in BasePcs /\ UNCHANGED <<task, slides, w, b, k>>
    BY DEF Types, BaseNext, SplitNibbles, CarryDigit, LastDigit, Odd, Double, Even,
           IsBase, BasePcs, SlidePcs
  <1>2. IsBase'
    BY <1>1 DEF IsBase
  <1>3. task' \in Tasks /\ slides' \in [1 .. 2 -> [Positions -> Int]] /\ w' \in 1 .. 2
        /\ b' \in Nat /\ k' \in Nat
    BY <1>1 DEF Types
  <1>4. i' \in Int
    <2>1. NumDigits \in Int
      BY Shape
    <2> QED BY <2>1 DEF Types, BaseNext, SplitNibbles, CarryDigit, LastDigit, Odd, Double, Even
  <1>5. e' \in [DigitPositions -> Int] /\ carry' \in Int
    <2>1. CASE SplitNibbles
      <3>1. Nibbles(task.a) \in [DigitPositions -> 0 .. 15]
        BY <1>1, TaskFacts, NibblesFacts DEF Types
      <3> QED BY <2>1, <3>1 DEF SplitNibbles
    <2>2. CASE CarryDigit
      <3>1. i \in DigitPositions /\ e[i] \in Int /\ carry \in Int
        BY <2>2, Shape DEF CarryDigit, BaseInv, Carrying, Types
      <3>2. carry' \in Int
        BY <2>2, <3>1 DEF CarryDigit
      <3> QED BY <2>2, <3>1, <3>2 DEF CarryDigit, Types
    <2>3. CASE LastDigit
      <3>1. i \in DigitPositions /\ e[i] \in Int /\ carry \in Int
        BY <2>3, Shape DEF LastDigit, Types
      <3> QED BY <2>3, <3>1 DEF LastDigit, Types
    <2> QED BY <2>1, <2>2, <2>3 DEF BaseNext, Odd, Double, Even, Types
  <1>6. h' \in Int \X Int
    <2>1. CASE Odd \/ Even
      BY <2>1, AddsDigit DEF Types
    <2>2. CASE Double
      <3>1. \A P \in Int \X Int : Twice(P) \in Int \X Int
        BY DEF Twice, Plus
      <3>2. h' = Twice(Twice(Twice(Twice(h)))) /\ h \in Int \X Int
        BY <2>2 DEF Double, Types
      <3> QED BY <3>1, <3>2, Zenon
    <2> QED BY <2>1, <2>2 DEF BaseNext, SplitNibbles, CarryDigit, LastDigit, Types
  <1> QED BY <1>1, <1>2, <1>3, <1>4, <1>5, <1>6 DEF Types

(***************************************************************************)
(* CarryDigit: the digit gets signed, and the carry keeps the sum.         *)
(***************************************************************************)
LEMMA CarryDigitPreserves ==
  ASSUME Types, BaseInv, CarryDigit
  PROVE  BaseInv'
  <1> DEFINE x == e[i] + carry - 16 * carry'
  <1>1. /\ pc = "carry" /\ pc' = "carry" /\ i < NumDigits - 1 /\ i' = i + 1
        /\ carry' = (e[i] + carry + 8) \div 16 /\ e' = [e EXCEPT ![i] = x] /\ task' = task /\ h' = h
    BY DEF CarryDigit
  <1>2. /\ i \in 0 .. NumDigits - 1 /\ carry \in 0 .. 1
        /\ \A j \in DigitPositions : e[j] \in IF j < i THEN -8 .. 7 ELSE 0 .. 15
        /\ e[NumDigits - 1] \in 0 .. 7
        /\ Radix16Value(e) + carry * Two[4 * i] = task.a
    BY <1>1 DEF BaseInv, Carrying
  <1>3. e \in [DigitPositions -> Int]/\ i \in DigitPositions
    BY <1>2, Shape DEF Types
  <1>4. e[i] \in 0 .. 15
    BY <1>2, <1>3
  <1>5. carry' \in 0 .. 1 /\ x \in -8 .. 7
    BY <1>1, <1>2, <1>4
  <1>6. i' \in 0 .. NumDigits - 1 /\ NumDigits - 1 \in DigitPositions /\ NumDigits - 1 # i
    BY <1>1, <1>2, <1>3, Shape
  <1>7. e'[i] = x /\ \A j \in DigitPositions : j # i => e'[j] = e[j]
    BY <1>1, <1>3
  <1>8. ASSUME NEW j \in DigitPositions
        PROVE  e'[j] \in IF j < i' THEN -8 .. 7 ELSE 0 .. 15
    <2>1. CASE j = i
      <3>1. e'[j] = x /\ j < i'
        BY <1>1, <1>2, <1>7, <2>1
      <3> HIDE DEF x
      <3> QED BY <1>5, <3>1
    <2>2. CASE j # i
      <3>1. e'[j] = e[j] /\ (j < i' <=> j < i)
        BY <1>1, <1>2, <1>3, <1>7, <2>2
      <3> QED BY <1>2, <3>1
    <2> QED BY <2>1, <2>2
  <1>9. e'[NumDigits - 1] \in 0 .. 7
    BY <1>2, <1>6, <1>7
  <1>10. Radix16Value(e') + carry' * Two[4 * i'] = task.a
    <2>1. e' \in [DigitPositions -> Int]
      BY <1>1, <1>3, <1>5
    <2>2. Radix16Value(e') = Radix16Value(e) + (e'[i] - e[i]) * Two[4 * i]
      <3>1. SameBut(e, e', DigitPositions, i)
        BY <1>7 DEF SameBut
      <3> QED BY <1>3, <2>1, <3>1, Radix16Update
    <2>3. Two[4 * i] \in Nat /\ Two[4 * i'] = 16 * Two[4 * i]
      <3>1. 4 * i \in Nat /\ 4 * i + 4 <= NumBits /\ 4 * i' = 4 * i + 4 /\ 4 * i <= NumBits
        BY <1>1, <1>2, Shape
      <3> QED BY <3>1, TwoAt, TwoSixteen
    <2>4. Radix16Value(e) \in Int
      <3>1. SameBut(e, e, DigitPositions, i)
        BY DEF SameBut
      <3> QED BY <1>3, <3>1, Radix16Update
    <2>5. e'[i] - e[i] = carry - 16 * carry'
      BY <1>2, <1>4, <1>5, <1>7
    <2>6. carry \in Int /\ carry' \in Int
      BY <1>2, <1>5
    <2>7. (Radix16Value(e) + (carry - 16 * carry') * Two[4 * i]) + carry' * (16 * Two[4 * i])
            = Radix16Value(e) + carry * Two[4 * i]
      BY <2>3, <2>4, <2>6, CarryArithmetic, Zenon
    <2> HIDE DEF x
    <2> QED BY <1>2, <2>2, <2>3, <2>5, <2>7, Zenon
  <1>11. Carrying'
    BY <1>1, <1>5, <1>6, <1>8, <1>9, <1>10 DEF Carrying
  <1>12. AddingBase'
    BY <1>1 DEF BaseInv, AddingBase
  <1> QED BY <1>11, <1>12 DEF BaseInv

(***************************************************************************)
(* LastDigit: the digits stand for the scalar, and only the last may be 8. *)
(***************************************************************************)
LEMMA LastDigitPreserves ==
  ASSUME Types, BaseInv, LastDigit
  PROVE  BaseInv'
  <1>1. /\ pc = "carry" /\ pc' = "odd" /\ i = NumDigits - 1 /\ i' = 1
        /\ e' = [e EXCEPT ![i] = e[i] + carry] /\ task' = task /\ h' = h
    BY DEF LastDigit
  <1>2. /\ carry \in 0 .. 1
        /\ \A j \in DigitPositions : e[j] \in IF j < i THEN -8 .. 7 ELSE 0 .. 15
        /\ e[NumDigits - 1] \in 0 .. 7
        /\ Radix16Value(e) + carry * Two[4 * i] = task.a
        /\ h = Neutral
    BY <1>1 DEF BaseInv, Carrying, AddingBase
  <1>3. e \in [DigitPositions -> Int]/\ i \in DigitPositions
    BY <1>1, Shape DEF Types
  <1>4. e'[i] = e[i] + carry /\ \A j \in DigitPositions : j # i => e'[j] = e[j]
    BY <1>1, <1>3
  <1>5. e[i] \in 0 .. 7 /\ e'[i] \in 0 .. 8
    BY <1>1, <1>2, <1>4
  <1>6. e' \in [DigitPositions -> Int]
    BY <1>1, <1>2, <1>3, <1>5
  <1>7. Radix16Value(e') = task.a
    <2>1. Radix16Value(e') = Radix16Value(e) + (e'[i] - e[i]) * Two[4 * i]
      <3>1. SameBut(e, e', DigitPositions, i)
        BY <1>4 DEF SameBut
      <3> QED BY <1>3, <1>6, <3>1, Radix16Update
    <2>2. e'[i] - e[i] = carry
      BY <1>2, <1>4, <1>5
    <2> QED BY <1>2, <2>1, <2>2
  <1>8. \A j \in DigitPositions : e'[j] \in -8 .. 8
    <2>1. \A j \in DigitPositions : j # i => j < i
      BY <1>1, <1>3, Shape
    <2> QED BY <1>2, <1>4, <1>5, <2>1
  <1>9. \A j \in DigitPositions \ {NumDigits - 1} : e'[j] # 8
    <2>1. \A j \in DigitPositions : j # i => j < i
      BY <1>1, <1>3, Shape
    <2> QED BY <1>1, <1>2, <1>4, <2>1
  <1>10. Recoded16'
    BY <1>1, <1>7, <1>8, <1>9 DEF Recoded16
  <1>11. Value(e, 4, {j \in Odds : j < i})' = 0
    <2>1. {j \in Odds : j < 1} = {}
      BY Shape DEF Odds
    <2>2. Value(e', 4, {}) = 0
      BY <1>3, <1>6, Shape, ValueZero
    <2> QED BY <1>1, <2>1, <2>2 DEF Odds
  <1>12. 1 \in 1 .. NumDigits + 1 /\ 1 % 2 = 1
    BY Shape
  <1>13. AddingBase'
    BY <1>1, <1>2, <1>10, <1>11, <1>12 DEF AddingBase, Neutral
  <1>14. Carrying'
    BY <1>1 DEF Carrying
  <1> QED BY <1>13, <1>14 DEF BaseInv

(***************************************************************************)
(* SplitNibbles: the nibbles stand for the scalar.                         *)
(***************************************************************************)
LEMMA SplitNibblesPreserves ==
  ASSUME Types, BaseInv, SplitNibbles
  PROVE  BaseInv'
  <1>1. /\ pc = "nibbles" /\ e' = Nibbles(task.a) /\ carry' = 0 /\ i' = 0 /\ pc' = "carry"
        /\ task' = task /\ h' = h
    BY DEF SplitNibbles
  <1>2. task.a \in 0 .. Two[NumBits - 1] - 1
    BY <1>1, TaskFacts DEF Types, SlidePcs
  <1>3. /\ e' \in [DigitPositions -> 0 .. 15] /\ Radix16Value(e') = task.a
        /\ e'[NumDigits - 1] \in 0 .. 7
    BY <1>1, <1>2, NibblesFacts
  <1>4. 0 \in 0 .. NumDigits - 1 /\ \A j \in DigitPositions : ~ j < 0
    BY Shape
  <1>5. Radix16Value(e') + carry' * Two[4 * i'] = task.a
    <2>1. 4 * 0 = 0 /\ Two[0] = 1 /\ task.a \in Int
      BY <1>2, TwoFacts
    <2> QED BY <1>1, <1>3, <2>1
  <1>6. Carrying'
    BY <1>1, <1>3, <1>4, <1>5 DEF Carrying
  <1>7. AddingBase'
    BY <1>1 DEF BaseInv, AddingBase
  <1> QED BY <1>6, <1>7 DEF BaseInv

(***************************************************************************)
(* ValueInsert for the digits of toRadix16.                                *)
(***************************************************************************)
LEMMA Radix16Insert ==
  ASSUME Types, NEW ps, NEW p \in DigitPositions, p \notin ps
  PROVE  /\ Value(e, 4, ps) \in Int
         /\ Value(e, 4, ps \cup {p}) = Value(e, 4, ps) + e[p] * Two[4 * p]
  <1>1. DigitPositions = Places(4) /\ 4 \in {1, 4} /\ e \in [DigitPositions -> Int]
    BY Shape DEF Types
  <1> QED BY <1>1, ValueType, ValueInsert

(***************************************************************************)
(* Odd: row i div 2 is 16 times too low for digit i, and h with it.        *)
(***************************************************************************)
LEMMA OddPreserves ==
  ASSUME Types, BaseInv, Odd
  PROVE  BaseInv'
  <1> DEFINE T == Two[8 * (i \div 2)]
  <1>1. pc = "odd" /\ pc' = "odd" /\ i < NumDigits /\ i' = i + 2 /\ UNCHANGED <<task, e>>
    BY DEF Odd
  <1>2. /\ i \in 0 .. NumDigits - 1 /\ i \in DigitPositions /\ e[i] \in -8 .. 8
        /\ T \in Nat /\ h' = <<h[1], h[2] + e[i] * T>> /\ h[1] = 0 /\ h[2] \in Int
        /\ e[i] * T \in Int
    BY AddsDigit
  <1>3. i % 2 = 1 /\ Recoded16 /\ 16 * h[2] = Value(e, 4, {j \in Odds : j < i})
    BY <1>1 DEF BaseInv, AddingBase
  <1>4. i' \in 1 .. NumDigits + 1 /\ i' % 2 = 1
    BY <1>1, <1>2, <1>3, Shape
  <1>5. Two[4 * i] = 16 * T
    <2>1. 8 * (i \div 2) \in Nat /\ 8 * (i \div 2) + 4 = 4 * i /\ 4 * i <= NumBits
      BY <1>2, <1>3, Shape
    <2> QED BY <2>1, TwoSixteen
  <1>6. Value(e, 4, {j \in Odds : j < i + 2})
          = Value(e, 4, {j \in Odds : j < i}) + e[i] * Two[4 * i]
    <2>1. {j \in Odds : j < i + 2} = {j \in Odds : j < i} \cup {i}
      <3>1. ASSUME NEW j \in Odds PROVE j < i + 2 <=> (j < i \/ j = i)
        BY <1>2, <1>3, Shape DEF Odds
      <3>2. i \in Odds
        BY <1>2, <1>3 DEF Odds
      <3> QED BY <3>1, <3>2
    <2>2. i \notin {j \in Odds : j < i}
      BY <1>2
    <2> QED BY <1>2, <2>1, <2>2, Radix16Insert
  <1>7. 16 * h'[2] = Value(e, 4, {j \in Odds : j < i + 2})
    <2>1. h'[2] = h[2] + e[i] * T
      BY <1>2
    <2>2. 16 * (h[2] + e[i] * T) = 16 * h[2] + e[i] * (16 * T)
      BY <1>2
    <2> HIDE DEF T
    <2> QED BY <1>3, <1>5, <1>6, <2>1, <2>2
  <1>8. Recoded16' /\ h'[1] = 0
    BY <1>1, <1>2, <1>3 DEF Recoded16
  <1>9. AddingBase'
    BY <1>1, <1>4, <1>7, <1>8 DEF AddingBase, Odds
  <1>10. Carrying'
    BY <1>1 DEF Carrying
  <1> QED BY <1>9, <1>10 DEF BaseInv

(***************************************************************************)
(* Even: row i div 2 is that of digit i.                                   *)
(***************************************************************************)
LEMMA EvenPreserves ==
  ASSUME Types, BaseInv, Even
  PROVE  BaseInv'
  <1> DEFINE T == Two[8 * (i \div 2)]
             S(n) == Odds \cup {j \in Evens : j < n}
  <1>1. pc = "even" /\ pc' = "even" /\ i < NumDigits /\ i' = i + 2 /\ UNCHANGED <<task, e>>
    BY DEF Even
  <1>2. /\ i \in 0 .. NumDigits - 1 /\ i \in DigitPositions /\ e[i] \in -8 .. 8
        /\ T \in Nat /\ h' = <<h[1], h[2] + e[i] * T>> /\ h[1] = 0 /\ h[2] \in Int
        /\ e[i] * T \in Int
    BY AddsDigit
  <1>3. i % 2 = 0 /\ Recoded16 /\ h[2] = Value(e, 4, S(i))
    BY <1>1 DEF BaseInv, AddingBase
  <1>4. i' \in 0 .. NumDigits /\ i' % 2 = 0
    <2>1. i \in Nat /\ i % 2 = 0 /\ i < NumDigits /\ i' = i + 2
      BY <1>1, <1>2, <1>3, Shape
    <2>2. NumDigits \in Nat /\ NumDigits % 2 = 0
      BY Shape
    <2> HIDE DEF T, S
    <2> QED BY <2>1, <2>2
  <1>5. Two[4 * i] = T
    <2>1. 8 * (i \div 2) = 4 * i
      BY <1>2, <1>3
    <2> QED BY <2>1
  <1>6. Value(e, 4, S(i + 2)) = Value(e, 4, S(i)) + e[i] * Two[4 * i]
    <2>1. S(i + 2) = S(i) \cup {i}
      <3>1. ASSUME NEW j \in Evens PROVE j < i + 2 <=> (j < i \/ j = i)
        BY <1>2, <1>3, Shape DEF Evens
      <3>2. i \in Evens
        BY <1>2, <1>3 DEF Evens
      <3> QED BY <3>1, <3>2
    <2>2. i \notin S(i)
      BY <1>2, <1>3 DEF Odds
    <2> HIDE DEF S
    <2> QED BY <1>2, <2>1, <2>2, Radix16Insert
  <1>7. h'[2] = Value(e, 4, S(i + 2))
    <2>1. h'[2] = h[2] + e[i] * T
      BY <1>2
    <2> HIDE DEF T, S
    <2> QED BY <1>3, <1>5, <1>6, <2>1
  <1>8. Recoded16' /\ h'[1] = 0
    BY <1>1, <1>2, <1>3 DEF Recoded16
  <1>9. AddingBase'
    BY <1>1, <1>4, <1>7, <1>8 DEF AddingBase, Odds, Evens
  <1>10. Carrying'
    BY <1>1 DEF Carrying
  <1> QED BY <1>9, <1>10 DEF BaseInv

(***************************************************************************)
(* Double: the four doublings make up for the factor 16 of the odd digits. *)
(***************************************************************************)
LEMMA DoublePreserves ==
  ASSUME Types, BaseInv, Double
  PROVE  BaseInv'
  <1>1. /\ pc = "odd" /\ pc' = "even" /\ i >= NumDigits /\ i' = 0 /\ UNCHANGED <<task, e>>
        /\ h' = Twice(Twice(Twice(Twice(h))))
    BY DEF Double
  <1>2. i \in Int /\ Recoded16 /\ h[1] = 0 /\ 16 * h[2] = Value(e, 4, {j \in Odds : j < i})
    BY <1>1 DEF BaseInv, AddingBase, Types
  <1>3. h' = <<0, 16 * h[2]>>
    <2>1. \A y \in Int : Twice(<<0, y>>) = <<0, 2 * y>>
      BY DEF Twice, Plus
    <2>2. h = <<0, h[2]>> /\ h[2] \in Int
      BY <1>2 DEF Types
    <2>3. Twice(h) = <<0, 2 * h[2]>> /\ 2 * h[2] \in Int
      BY <2>1, <2>2
    <2>4. Twice(Twice(h)) = <<0, 4 * h[2]>> /\ 4 * h[2] \in Int
      BY <2>1, <2>2, <2>3
    <2>5. Twice(Twice(Twice(h))) = <<0, 8 * h[2]>> /\ 8 * h[2] \in Int
      BY <2>1, <2>2, <2>4
    <2> QED BY <1>1, <2>1, <2>2, <2>5
  <1>4. {j \in Odds : j < i} = Odds \cup {j \in Evens : j < 0}
    <2>1. \A j \in DigitPositions : j < i /\ ~ j < 0
      BY <1>1, <1>2, Shape
    <2> QED BY <2>1 DEF Odds, Evens
  <1>5. Recoded16'
    BY <1>1, <1>2 DEF Recoded16
  <1>6. h'[1] = 0 /\ h'[2] = Value(e, 4, Odds \cup {j \in Evens : j < 0})
    BY <1>2, <1>3, <1>4
  <1>7. 0 \in 0 .. NumDigits /\ 0 % 2 = 0
    BY Shape
  <1>8. AddingBase'
    BY <1>1, <1>5, <1>6, <1>7 DEF AddingBase, Odds, Evens
  <1>9. Carrying'
    BY <1>1 DEF Carrying
  <1> QED BY <1>8, <1>9 DEF BaseInv

(***************************************************************************)
(* When the even digits are in, h is the scalar's multiple of B.           *)
(***************************************************************************)
LEMMA BaseReturns ==
  ASSUME Types, BaseInv, pc = "even", i >= NumDigits
  PROVE  h = <<0, task.a>>
  <1>1. i \in Int /\ Recoded16 /\ h[1] = 0 /\ h[2] = Value(e, 4, Odds \cup {j \in Evens : j < i})
    BY DEF BaseInv, AddingBase, Types
  <1>2. Odds \cup {j \in Evens : j < i} = DigitPositions
    <2>1. \A j \in DigitPositions : j < i /\ (j % 2 = 1 \/ j % 2 = 0)
      BY <1>1, Shape
    <2> QED BY <2>1 DEF Odds, Evens
  <1>3. h[2] = task.a
    BY <1>1, <1>2 DEF Recoded16, Radix16Value
  <1> QED BY <1>1, <1>3 DEF Types

(***************************************************************************)
(* Every step of ge_scalarmult_base keeps its invariant.                   *)
(***************************************************************************)
LEMMA BaseStep ==
  ASSUME Types, BaseInv, BaseNext
  PROVE  BaseInv'
  BY CarryDigitPreserves, LastDigitPreserves, SplitNibblesPreserves, OddPreserves,
     EvenPreserves, DoublePreserves DEF BaseNext

-----------------------------------------------------------------------------
(* slide: the digits and the number they stand for. *)

(***************************************************************************)
(* The powers of two that a window reaches.                                *)
(***************************************************************************)
LEMMA TwoSmall ==
  /\ Two[0] = 1 /\ Two[1] = 2 /\ Two[2] = 4 /\ Two[3] = 8 /\ Two[4] = 16
  /\ Two[5] = 32 /\ Two[6] = 64
  <1>1. NumBits \in Nat /\ NumBits >= 8
    BY Shape
  <1>2. \A n \in 0 .. 5 : Two[n + 1] = 2 * Two[n]
    <2> SUFFICES ASSUME NEW n \in 0 .. 5 PROVE Two[n + 1] = 2 * Two[n]
      OBVIOUS
    <2>1. n \in Nat /\ n < NumBits
      BY <1>1
    <2> QED BY <2>1, TwoStep
  <1>3. Two[0] = 1
    BY TwoFacts
  <1>4. Two[0 + 1] = 2 * Two[0] /\ Two[1 + 1] = 2 * Two[1] /\ Two[2 + 1] = 2 * Two[2]
        /\ Two[3 + 1] = 2 * Two[3] /\ Two[4 + 1] = 2 * Two[4] /\ Two[5 + 1] = 2 * Two[5]
    BY <1>2
  <1> QED BY <1>3, <1>4

(***************************************************************************)
(* A place above another.                                                  *)
(***************************************************************************)
LEMMA TwoShift ==
  ASSUME NEW n \in Nat, NEW c \in 1 .. 4, n + c <= NumBits
  PROVE  Two[n + c] = Two[c] * Two[n] /\ Two[n] \in Nat
  <1>1. NumBits \in Nat
    BY Shape
  <1>2. n < NumBits /\ Two[n] \in Nat /\ Two[n + 1] = 2 * Two[n]
    BY <1>1, TwoStep
  <1>3. CASE c = 1
    BY <1>2, <1>3, TwoSmall
  <1>4. CASE c = 2
    <2>1. n + 1 \in Nat /\ n + 1 < NumBits /\ (n + 1) + 1 = n + 2
      BY <1>1, <1>4
    <2>2. Two[n + 2] = 2 * Two[n + 1]
      BY <2>1, TwoStep
    <2> QED BY <1>2, <1>4, <2>2, TwoSmall
  <1>5. CASE c = 3
    <2>1. /\ n + 1 \in Nat /\ n + 1 < NumBits /\ (n + 1) + 1 = n + 2
          /\ n + 2 \in Nat /\ n + 2 < NumBits /\ (n + 2) + 1 = n + 3
      BY <1>1, <1>5
    <2>2. Two[n + 2] = 2 * Two[n + 1]
      BY <2>1, TwoStep
    <2>3. Two[n + 3] = 2 * Two[n + 2]
      BY <2>1, TwoStep
    <2> QED BY <1>2, <1>5, <2>2, <2>3, TwoSmall
  <1>6. CASE c = 4
    BY <1>1, <1>2, <1>6, TwoSixteen, TwoSmall
  <1> QED BY <1>3, <1>4, <1>5, <1>6

(***************************************************************************)
(* The digits below an open window stay good, whatever happens above it:   *)
(* the window's digit is not zero, so they are five places below.          *)
(***************************************************************************)
LEMMA LowStays ==
  ASSUME NEW d, NEW f, NEW n \in Positions, Low(d, n), d[n] # 0,
         \A j \in Positions : j < n => f[j] = d[j]
  PROVE  Low(f, n)
  <1> SUFFICES ASSUME NEW j \in Positions, j < n, f[j] # 0 PROVE SlideDigit(f, j)
    BY DEF Low, SlideDigit
  <1>1. j \in Nat /\ n \in Nat
    BY Shape
  <1>2. SlideDigit(d, j) /\ d[j] = f[j]
    BY DEF Low
  <1>3. \A above \in j + 1 .. j + 4 : above \in Positions => d[above] = 0
    BY <1>2 DEF SlideDigit
  <1>4. j + 4 < n
    <2> SUFFICES ASSUME n <= j + 4 PROVE FALSE
      BY <1>1
    <2>1. n \in j + 1 .. j + 4
      BY <1>1
    <2> QED BY <1>3, <2>1
  <1>5. \A above \in j + 1 .. j + 4 : above \in Positions => f[above] = 0
    BY <1>1, <1>3, <1>4
  <1> QED BY <1>2, <1>5 DEF SlideDigit

(***************************************************************************)
(* One more digit is final.                                                *)
(***************************************************************************)
LEMMA LowUp ==
  ASSUME NEW d, NEW n \in Positions, Low(d, n), SlideDigit(d, n)
  PROVE  Low(d, n + 1)
  <1>1. \A j \in Positions : j < n + 1 => j < n \/ j = n
    BY Shape
  <1> QED BY <1>1 DEF Low

(***************************************************************************)
(* One more position is clear.                                             *)
(***************************************************************************)
LEMMA ClearUp ==
  ASSUME NEW d, NEW lo \in Nat, NEW n \in Nat, Clear(d, lo, n), n \in Positions => d[n] = 0
  PROVE  Clear(d, lo, n + 1)
  <1>1. \A j \in Positions : j < n + 1 => j < n \/ j = n
    BY Shape
  <1> QED BY <1>1 DEF Clear

(***************************************************************************)
(* Clear without its lowest position.                                      *)
(***************************************************************************)
LEMMA ClearFrom ==
  ASSUME NEW d, NEW lo \in Nat, NEW n \in Nat, Clear(d, lo, n)
  PROVE  Clear(d, lo + 1, n)
  <1>1. \A j \in Positions : lo + 1 <= j => lo <= j
    BY Shape
  <1> QED BY <1>1 DEF Clear

(***************************************************************************)
(* Stands for a higher window.                                             *)
(***************************************************************************)
LEMMA StandsUp ==
  ASSUME NEW d, NEW x, NEW n \in Nat, Stands(d, x, n)
  PROVE  Stands(d, x, n + 1)
  <1>1. NumBits \in Nat
    BY Shape
  <1> QED BY <1>1, ClearFrom DEF Stands

(***************************************************************************)
(* While a bit is left, no carry has left the array.                       *)
(***************************************************************************)
LEMMA StandsFor ==
  ASSUME NEW d, NEW x, NEW n \in Nat, Stands(d, x, n),
         NEW j \in Positions, n <= j, d[j] # 0
  PROVE  SlideValue(d) = x
  <1>1. j < NumBits
    BY Shape
  <1> QED BY <1>1 DEF Stands, Clear

(***************************************************************************)
(* A zero digit is final.                                                  *)
(***************************************************************************)
LEMMA WindowSkips ==
  ASSUME NEW d \in SlideFn, NEW x \in Nat, NEW n \in Nat,
         WindowInv(d, x, n), n < NumBits, d[n] = 0
  PROVE  WindowInv(d, x, n + 1)
  <1>1. NumBits \in Nat /\ n \in Positions /\ n + 1 \in 0 .. NumBits
    BY Shape
  <1>2. Low(d, n + 1)
    BY <1>1, LowUp DEF WindowInv, SlideDigit
  <1>3. High(d, n + 1)
    BY <1>1, Shape DEF WindowInv, High
  <1>4. Stands(d, x, n + 1)
    BY <1>1, StandsUp DEF WindowInv
  <1>5. TopAlone(d, x, n + 1)
    BY <1>1, ClearFrom DEF WindowInv, TopAlone
  <1> QED BY <1>1, <1>2, <1>3, <1>4, <1>5 DEF WindowInv

(***************************************************************************)
(* A window opens at a bit: no carry has left the array, and the top bit   *)
(* is not alone.                                                           *)
(***************************************************************************)
LEMMA WindowOpens ==
  ASSUME NEW d \in SlideFn, NEW x \in Nat, NEW n \in Nat,
         WindowInv(d, x, n), n < NumBits, d[n] # 0
  PROVE  AbsorbInv(d, x, n, 1)
  <1>1. NumBits \in Nat /\ n \in Positions /\ n \in 0 .. NumBits - 1 /\ n + 1 \in 0 .. NumBits
    BY Shape
  <1>2. Low(d, n) /\ High(d, n) /\ Stands(d, x, n) /\ TopAlone(d, x, n)
    BY DEF WindowInv
  <1>3. d[n] = 1
    BY <1>1, <1>2 DEF High
  <1>4. High(d, n + 1)
    BY <1>1, <1>2, Shape DEF High
  <1>5. Stands(d, x, n + 1)
    BY <1>2, StandsUp
  <1>6. x < Two[NumBits - 1] /\ n + 1 < NumBits => d[NumBits - 1] = 0
    <2> SUFFICES ASSUME x < Two[NumBits - 1], n + 1 < NumBits, d[NumBits - 1] # 0
                 PROVE  FALSE
      OBVIOUS
    <2>1. NumBits - 1 \in Positions /\ n <= NumBits - 1 /\ n < NumBits - 1
      BY <1>1, Shape
    <2>2. d[NumBits - 1] = 1
      BY <1>2, <2>1 DEF High
    <2>3. Clear(d, n, NumBits - 1)
      BY <1>2, <2>2 DEF TopAlone
    <2> QED BY <1>1, <1>3, <2>1, <2>3 DEF Clear
  <1>7. TopAlone(d, x, n + 1)
    BY <1>6 DEF TopAlone
  <1>8. Clear(d, n + 1, n + 1)
    BY <1>1, Shape DEF Clear
  <1>9. d[n] % 2 = 1 /\ d[n] \in 1 .. Two[1] - 1
    BY <1>3, TwoSmall
  <1>10. 1 \in 1 .. 7 /\ 1 <= 4 /\ 1 < 5
    OBVIOUS
  <1> QED BY <1>1, <1>2, <1>4, <1>5, <1>6, <1>7, <1>8, <1>9, <1>10 DEF AbsorbInv

(***************************************************************************)
(* A zero bit leaves the digit as it is.                                   *)
(***************************************************************************)
LEMMA Passes ==
  ASSUME NEW d \in SlideFn, NEW x \in Nat, NEW n \in Nat, NEW c \in Nat,
         AbsorbInv(d, x, n, c), c <= 6, n + c < NumBits, d[n + c] = 0
  PROVE  AbsorbInv(d, x, n, c + 1)
  <1>1. /\ n \in 0 .. NumBits - 1 /\ c \in 1 .. 7
        /\ Low(d, n) /\ High(d, n + 1) /\ Stands(d, x, n + 1) /\ TopAlone(d, x, n + 1)
        /\ d[n] % 2 = 1
        /\ (c <= 4 => d[n] \in 1 .. Two[c] - 1) /\ (c > 4 => d[n] \in -15 .. 15)
        /\ Clear(d, n + 1, n + c)
        /\ (x < Two[NumBits - 1] /\ n + 1 < NumBits /\ c < 5 => d[NumBits - 1] = 0)
    BY DEF AbsorbInv
  <1>2. c + 1 \in 1 .. 7 /\ (c + 1 < 5 => c < 5) /\ n + (c + 1) = (n + c) + 1
    BY <1>1
  <1>3. Clear(d, n + 1, n + (c + 1))
    BY <1>1, <1>2, ClearUp
  <1>4. /\ c + 1 <= 4 => d[n] \in 1 .. Two[c + 1] - 1
        /\ c + 1 > 4 => d[n] \in -15 .. 15
    <2>1. CASE c <= 3
      <3>1. c < NumBits /\ c <= 4 /\ c + 1 <= 4
        BY <2>1, Shape
      <3>2. Two[c] \in Nat /\ Two[c + 1] = 2 * Two[c]
        BY <3>1, TwoStep
      <3>3. d[n] \in 1 .. Two[c] - 1
        BY <1>1, <3>1
      <3>4. ~ c + 1 > 4
        BY <2>1
      <3> QED BY <3>2, <3>3, <3>4
    <2>2. CASE c = 4
      BY <1>1, <2>2, TwoSmall
    <2>3. CASE c > 4
      BY <1>1, <2>3
    <2> QED BY <2>1, <2>2, <2>3
  <1> QED BY <1>1, <1>2, <1>3, <1>4 DEF AbsorbInv

(***************************************************************************)
(* Clearing a bit and adding it to the digit: no change.                   *)
(***************************************************************************)
LEMMA MoveArithmetic ==
  ASSUME NEW V \in Int, NEW y \in Int, NEW S \in Nat, NEW T \in Nat
  PROVE  (V + (0 - y) * (S * T)) + (y * S) * T = V
  OBVIOUS

(***************************************************************************)
(* The bit that is added moves into the digit: the array stands for the    *)
(* same number.                                                            *)
(***************************************************************************)
LEMMA BitMoves ==
  ASSUME NEW d \in SlideFn, NEW f \in SlideFn, NEW n \in Positions, NEW c \in 1 .. 4,
         n + c \in Positions, f[n] = d[n] + d[n + c] * Two[c], f[n + c] = 0,
         \A j \in Positions \ {n, n + c} : f[j] = d[j]
  PROVE  SlideValue(f) = SlideValue(d)
  <1> DEFINE m == [j \in Positions |-> IF j = n + c THEN 0 ELSE d[j]]
  <1>1. n \in Nat /\ c \in Nat /\ n # n + c /\ n + c <= NumBits
    BY Shape
  <1>2. d \in [Positions -> Int] /\ f \in [Positions -> Int] /\ m \in [Positions -> Int]
    BY DEF SlideFn
  <1>3. SameBut(d, m, Positions, n + c) /\ SameBut(m, f, Positions, n)
    BY DEF SameBut
  <1>4. m[n + c] = 0 /\ m[n] = d[n]
    BY <1>1
  <1> HIDE DEF m
  <1>5. SlideValue(d) \in Int
    BY <1>2, <1>3, SlideUpdate
  <1>6. SlideValue(m) = SlideValue(d) + (m[n + c] - d[n + c]) * Two[n + c]
    BY <1>2, <1>3, SlideUpdate
  <1>7. SlideValue(f) = SlideValue(m) + (f[n] - m[n]) * Two[n]
    BY <1>2, <1>3, SlideUpdate
  <1>8. Two[n + c] = Two[c] * Two[n] /\ Two[n] \in Nat
    BY <1>1, TwoShift
  <1>9. Two[c] \in Nat
    <2>1. c <= NumBits
      BY Shape
    <2> QED BY <1>1, <2>1, TwoAt
  <1>10. d[n + c] \in Int /\ d[n] \in Int
    BY <1>2
  <1>11. f[n] - m[n] = d[n + c] * Two[c]
    BY <1>4, <1>9, <1>10
  <1>13. (SlideValue(d) + (0 - d[n + c]) * (Two[c] * Two[n])) + (d[n + c] * Two[c]) * Two[n]
           = SlideValue(d)
    <2>1. Two[n] \in Nat
      BY <1>8
    <2>2. d[n + c] \in Int
      BY <1>10
    <2> QED BY <1>5, <1>9, <2>1, <2>2, MoveArithmetic, ZenonT(30)
  <1> QED BY <1>4, <1>6, <1>7, <1>8, <1>11, <1>13, Zenon

(***************************************************************************)
(* A bit fits in the digit in the first three places above it, can be      *)
(* subtracted in the fourth, and closes the window from the fifth on.      *)
(***************************************************************************)
LEMMA AddsBelowFour ==
  ASSUME NEW d \in SlideFn, NEW x \in Nat, NEW n \in Nat, NEW c \in Nat,
         AbsorbInv(d, x, n, c), c <= 6, n + c < NumBits, d[n + c] # 0
  PROVE  /\ d[n + c] = 1 /\ SlideValue(d) = x
         /\ d[n] + 1 * Two[c] <= 15 <=> c <= 3
         /\ d[n] - 1 * Two[c] >= -15 <=> c <= 4
  <1>1. /\ n \in 0 .. NumBits - 1 /\ c \in 1 .. 7
        /\ High(d, n + 1) /\ Stands(d, x, n + 1)
        /\ (c <= 4 => d[n] \in 1 .. Two[c] - 1) /\ (c > 4 => d[n] \in -15 .. 15)
    BY DEF AbsorbInv
  <1>2. n + c \in Positions /\ n + 1 <= n + c
    BY <1>1, Shape
  <1>3. d[n + c] = 1
    BY <1>1, <1>2 DEF High
  <1>4. SlideValue(d) = x
    BY <1>1, <1>2, StandsFor
  <1>6. (d[n] + 1 * Two[c] <= 15 <=> c <= 3) /\ (d[n] - 1 * Two[c] >= -15 <=> c <= 4)
    <2>1. CASE c <= 3
      <3>1. c \in 1 .. 3 /\ c \in {1, 2, 3}
        BY <1>1, <2>1
      <3>2. Two[c] \in {2, 4, 8}
        BY <3>1, TwoSmall
      <3>3. d[n] \in 1 .. Two[c] - 1
        BY <1>1, <2>1
      <3> QED BY <2>1, <3>1, <3>2, <3>3
    <2>2. CASE c = 4
      BY <1>1, <2>2, TwoSmall
    <2>3. CASE c = 5
      BY <1>1, <2>3, TwoSmall
    <2>4. CASE c = 6
      BY <1>1, <2>4, TwoSmall
    <2> QED BY <1>1, <2>1, <2>2, <2>3, <2>4
  <1> QED BY <1>3, <1>4, <1>6

(***************************************************************************)
(* Adding a bit keeps the window's invariant.                              *)
(***************************************************************************)
LEMMA Adds ==
  ASSUME NEW d \in SlideFn, NEW f \in SlideFn, NEW x \in Nat, NEW n \in Nat, NEW c \in Nat,
         AbsorbInv(d, x, n, c), c <= 3, n + c < NumBits, d[n + c] = 1, SlideValue(d) = x,
         f[n] = d[n] + 1 * Two[c], f[n + c] = 0,
         \A j \in Positions \ {n, n + c} : f[j] = d[j]
  PROVE  AbsorbInv(f, x, n, c + 1)
  <1>1. /\ n \in 0 .. NumBits - 1 /\ c \in 1 .. 3 /\ NumBits \in Nat
        /\ Low(d, n) /\ High(d, n + 1)
        /\ d[n] % 2 = 1 /\ d[n] \in 1 .. Two[c] - 1
        /\ Clear(d, n + 1, n + c)
        /\ (x < Two[NumBits - 1] /\ n + 1 < NumBits => d[NumBits - 1] = 0)
    <2>1. c <= 4 /\ c < 5 /\ NumBits \in Nat /\ (c \in 1 .. 7 => c \in 1 .. 3)
      BY Shape
    <2> QED BY <2>1 DEF AbsorbInv
  <1>2. n \in Positions /\ n + c \in Positions /\ NumBits - 1 \in Positions
    BY <1>1, Shape
  <1>3. f[n] % 2 = 1 /\ f[n] \in 1 .. Two[c + 1] - 1
    <2>1. c \in {1, 2, 3}
      BY <1>1
    <2>2. Two[c] \in {2, 4, 8} /\ Two[c + 1] = 2 * Two[c]
      BY <2>1, TwoSmall
    <2>3. \A y, s \in Int : y % 2 = 1 /\ s \in {2, 4, 8} /\ y \in 1 .. s - 1 =>
            (y + 1 * s) % 2 = 1 /\ y + 1 * s \in 1 .. 2 * s - 1
      OBVIOUS
    <2>4. d[n] \in Int /\ Two[c] \in Int
      BY <1>1, <2>2
    <2>5. (d[n] + 1 * Two[c]) % 2 = 1 /\ d[n] + 1 * Two[c] \in 1 .. 2 * Two[c] - 1
      BY <1>1, <2>2, <2>3, <2>4, Zenon
    <2> QED BY <2>2, <2>5, Zenon
  <1>4. Low(f, n)
    <2>1. d[n] # 0
      BY <1>1
    <2>2. \A j \in Positions : j < n => f[j] = d[j]
      BY <1>1, Shape
    <2> QED BY <1>1, <1>2, <2>1, <2>2, LowStays
  <1>5. High(f, n + 1)
    BY <1>1, Shape DEF High
  <1>6. SlideValue(f) = x
    BY <1>1, <1>2, BitMoves
  <1>7. Clear(f, n + 1, n + (c + 1))
    <2>1. \A j \in Positions : n + 1 <= j /\ j < n + (c + 1) => j = n + c \/ (j < n + c /\ j # n)
      BY <1>1, Shape
    <2> QED BY <1>1, <2>1 DEF Clear
  <1>8. x < Two[NumBits - 1] /\ n + 1 < NumBits => f[NumBits - 1] = 0
    BY <1>1, <1>2
  <1>9. TopAlone(f, x, n + 1)
    BY <1>8 DEF TopAlone
  <1>10. c + 1 \in 1 .. 7 /\ c + 1 <= 4
    BY <1>1
  <1> QED BY <1>1, <1>3, <1>4, <1>5, <1>6, <1>7, <1>8, <1>9, <1>10 DEF AbsorbInv, Stands

(***************************************************************************)
(* Subtracting the fourth bit starts a ripple: the carry stands for what   *)
(* is missing.                                                             *)
(***************************************************************************)
LEMMA Subtracts ==
  ASSUME NEW d \in SlideFn, NEW f \in SlideFn, NEW x \in Nat, NEW n \in Nat,
         AbsorbInv(d, x, n, 4), n + 4 < NumBits, d[n + 4] = 1, SlideValue(d) = x,
         f[n] = d[n] - 1 * Two[4], SameBut(d, f, Positions, n)
  PROVE  RippleInv(f, x, n, 4, n + 4)
  <1>1. /\ n \in 0 .. NumBits - 1 /\ NumBits \in Nat
        /\ Low(d, n) /\ High(d, n + 1)
        /\ d[n] % 2 = 1 /\ d[n] \in 1 .. 15
        /\ Clear(d, n + 1, n + 4)
        /\ (x < Two[NumBits - 1] /\ n + 1 < NumBits => d[NumBits - 1] = 0)
    BY Shape, TwoSmall DEF AbsorbInv
  <1>2. n \in Positions /\ n + 4 \in Positions /\ NumBits - 1 \in Positions
    BY <1>1, Shape
  <1>3. \A j \in Positions \ {n} : f[j] = d[j]
    BY DEF SameBut
  <1>4. f[n] % 2 = 1 /\ f[n] \in -15 .. 15
    BY <1>1, TwoSmall
  <1>5. Low(f, n)
    <2>1. d[n] # 0
      BY <1>1
    <2>2. \A j \in Positions : j < n => f[j] = d[j]
      BY <1>1, <1>3, Shape
    <2> QED BY <1>1, <1>2, <2>1, <2>2, LowStays
  <1>6. High(f, n + 1)
    BY <1>1, <1>3, Shape DEF High
  <1>7. SlideValue(f) + Two[n + 4] = x
    <2>1. SlideValue(f) = SlideValue(d) + (f[n] - d[n]) * Two[n] /\ SlideValue(d) \in Int
      BY <1>2, SlideUpdate DEF SlideFn
    <2>2. Two[n + 4] = 16 * Two[n] /\ Two[n] \in Nat
      <3>1. n + 4 <= NumBits /\ n <= NumBits
        BY <1>1
      <3> QED BY <3>1, TwoSixteen, TwoAt
    <2>3. f[n] - d[n] = -16
      BY <1>1, TwoSmall
    <2> QED BY <2>1, <2>2, <2>3
  <1>8. Clear(f, n + 1, n + 4)
    BY <1>1, <1>3, Shape DEF Clear
  <1>9. f[n + 4] = 1 /\ n + 4 \in n + 4 .. NumBits
    BY <1>1, <1>2, <1>3
  <1>10. x < Two[NumBits - 1] => f[NumBits - 1] = 0
    BY <1>1, <1>2, <1>3
  <1> QED BY <1>1, <1>4, <1>5, <1>6, <1>7, <1>8, <1>9, <1>10 DEF RippleInv

(***************************************************************************)
(* What holds during a ripple.                                             *)
(***************************************************************************)
LEMMA RippleFacts ==
  ASSUME NEW d \in SlideFn, NEW x \in Nat, NEW n \in Nat, NEW c \in Nat, NEW m \in Nat,
         RippleInv(d, x, n, c, m)
  PROVE  /\ n \in 0 .. NumBits - 1 /\ c = 4 /\ m \in n + 4 .. NumBits /\ n + 4 < NumBits
         /\ n \in Positions /\ NumBits - 1 \in Positions /\ NumBits \in Nat
         /\ Low(d, n) /\ High(d, n + 1) /\ d[n] % 2 = 1 /\ d[n] \in -15 .. 15 /\ d[n] # 0
         /\ Clear(d, n + 1, m) /\ (m = n + 4 => d[m] = 1)
         /\ SlideValue(d) + Two[m] = x
         /\ (x < Two[NumBits - 1] => m < NumBits /\ d[NumBits - 1] = 0)
  <1>1. n \in 0 .. NumBits - 1 => n \in Positions
    BY Shape
  <1>2. NumBits - 1 \in Positions /\ NumBits \in Nat
    BY Shape
  <1>3. d[n] % 2 = 1 => d[n] # 0
    OBVIOUS
  <1> QED BY <1>1, <1>2, <1>3 DEF RippleInv

(***************************************************************************)
(* The carry moves up past a one.                                          *)
(***************************************************************************)
LEMMA RipplesOn ==
  ASSUME NEW d \in SlideFn, NEW f \in SlideFn, NEW x \in Nat,
         NEW n \in Nat, NEW c \in Nat, NEW m \in Nat,
         RippleInv(d, x, n, c, m), m < NumBits, d[m] # 0,
         f[m] = 0, SameBut(d, f, Positions, m)
  PROVE  RippleInv(f, x, n, c, m + 1)
  <1>1. /\ n \in 0 .. NumBits - 1 /\ c = 4 /\ m \in n + 4 .. NumBits /\ n + 4 < NumBits
        /\ n \in Positions /\ NumBits - 1 \in Positions /\ NumBits \in Nat
        /\ Low(d, n) /\ High(d, n + 1) /\ d[n] % 2 = 1 /\ d[n] \in -15 .. 15 /\ d[n] # 0
        /\ Clear(d, n + 1, m)
        /\ SlideValue(d) + Two[m] = x
        /\ (x < Two[NumBits - 1] => m < NumBits /\ d[NumBits - 1] = 0)
    BY RippleFacts
  <1>2. m \in Positions /\ m # n /\ n + 1 <= m
    BY <1>1, Shape
  <1>3. d[m] = 1
    BY <1>1, <1>2 DEF High
  <1>4. \A j \in Positions \ {m} : f[j] = d[j]
    BY DEF SameBut
  <1>5. Low(f, n)
    <2>1. \A j \in Positions : j < n => f[j] = d[j]
      BY <1>1, <1>4, Shape
    <2> QED BY <1>1, <2>1, LowStays
  <1>6. High(f, n + 1)
    <2> SUFFICES ASSUME NEW j \in Positions, j >= n + 1 PROVE f[j] \in 0 .. 1
      BY DEF High
    <2>1. d[j] \in 0 .. 1
      BY <1>1 DEF High
    <2> QED BY <1>4, <2>1
  <1>7. Clear(f, n + 1, m + 1)
    <2> SUFFICES ASSUME NEW j \in Positions, n + 1 <= j, j < m + 1 PROVE f[j] = 0
      BY DEF Clear
    <2>1. j = m \/ (j < m /\ j # m)
      BY Shape
    <2> QED BY <1>1, <1>4, <2>1 DEF Clear
  <1>8. SlideValue(f) + Two[m + 1] = x
    <2>1. SlideValue(f) = SlideValue(d) + (f[m] - d[m]) * Two[m] /\ SlideValue(d) \in Int
      BY <1>2, SlideUpdate DEF SlideFn
    <2>2. Two[m] \in Nat /\ Two[m + 1] = 2 * Two[m]
      BY <1>1, TwoStep
    <2>3. f[m] - d[m] = -1
      BY <1>3
    <2> QED BY <1>1, <2>1, <2>2, <2>3
  <1>9. x < Two[NumBits - 1] => m + 1 < NumBits /\ f[NumBits - 1] = 0
    <2> SUFFICES ASSUME x < Two[NumBits - 1] PROVE m + 1 < NumBits /\ f[NumBits - 1] = 0
      OBVIOUS
    <2>1. d[NumBits - 1] = 0
      BY <1>1
    <2>2. m # NumBits - 1
      BY <1>3, <2>1
    <2>3. f[NumBits - 1] = d[NumBits - 1]
      BY <1>1, <1>4, <2>2
    <2> QED BY <1>1, <2>1, <2>2, <2>3
  <1>10. f[n] = d[n]
    BY <1>1, <1>2, <1>4
  <1>11. m + 1 \in n + 4 .. NumBits /\ m + 1 # n + 4
    BY <1>1
  <1> QED BY <1>1, <1>5, <1>6, <1>7, <1>8, <1>9, <1>10, <1>11 DEF RippleInv

(***************************************************************************)
(* The carry settles in a zero; at the top, only zeros are left below it.  *)
(***************************************************************************)
LEMMA RippleSettles ==
  ASSUME NEW d \in SlideFn, NEW f \in SlideFn, NEW x \in Nat,
         NEW n \in Nat, NEW c \in Nat, NEW m \in Nat,
         RippleInv(d, x, n, c, m), m < NumBits, d[m] = 0,
         f[m] = 1, SameBut(d, f, Positions, m)
  PROVE  AbsorbInv(f, x, n, c + 1)
  <1>1. /\ n \in 0 .. NumBits - 1 /\ c = 4 /\ m \in n + 4 .. NumBits /\ n + 4 < NumBits
        /\ n \in Positions /\ NumBits - 1 \in Positions /\ NumBits \in Nat
        /\ Low(d, n) /\ High(d, n + 1) /\ d[n] % 2 = 1 /\ d[n] \in -15 .. 15 /\ d[n] # 0
        /\ Clear(d, n + 1, m) /\ m # n + 4
        /\ SlideValue(d) + Two[m] = x
        /\ (x < Two[NumBits - 1] => d[NumBits - 1] = 0)
    BY RippleFacts
  <1>2. m \in Positions /\ m # n /\ n + 1 <= m /\ n + 5 <= m
    BY <1>1, Shape
  <1>4. \A j \in Positions \ {m} : f[j] = d[j]
    BY DEF SameBut
  <1>5. Low(f, n)
    <2>1. \A j \in Positions : j < n => f[j] = d[j]
      BY <1>1, <1>4, Shape
    <2> QED BY <1>1, <2>1, LowStays
  <1>6. High(f, n + 1)
    <2> SUFFICES ASSUME NEW j \in Positions, j >= n + 1 PROVE f[j] \in 0 .. 1
      BY DEF High
    <2>1. d[j] \in 0 .. 1
      BY <1>1 DEF High
    <2> QED BY <1>4, <2>1
  <1>7. Clear(f, n + 1, m)
    <2> SUFFICES ASSUME NEW j \in Positions, n + 1 <= j, j < m PROVE f[j] = 0
      BY DEF Clear
    <2>1. j # m
      BY Shape
    <2> QED BY <1>1, <1>4, <2>1 DEF Clear
  <1>8. SlideValue(f) = x
    <2>1. SlideValue(f) = SlideValue(d) + (f[m] - d[m]) * Two[m] /\ SlideValue(d) \in Int
      BY <1>2, SlideUpdate DEF SlideFn
    <2>2. Two[m] \in Nat
      BY <1>1, TwoStep
    <2>3. f[m] - d[m] = 1
      OBVIOUS
    <2> QED BY <1>1, <2>1, <2>2, <2>3
  <1>9. TopAlone(f, x, n + 1)
    <2> SUFFICES ASSUME x < Two[NumBits - 1], f[NumBits - 1] = 1
                 PROVE  Clear(f, n + 1, NumBits - 1)
      BY DEF TopAlone
    <2>1. d[NumBits - 1] # 1
      BY <1>1
    <2>2. m = NumBits - 1
      BY <1>1, <1>4, <2>1
    <2> QED BY <1>7, <2>2
  <1>10. f[n] = d[n]
    BY <1>1, <1>2, <1>4
  <1>11. Clear(f, n + 1, n + (c + 1))
    <2> SUFFICES ASSUME NEW j \in Positions, n + 1 <= j, j < n + (c + 1) PROVE f[j] = 0
      BY DEF Clear
    <2>1. j < m
      BY <1>1, <1>2, Shape
    <2> QED BY <1>7, <2>1 DEF Clear
  <1>12. c + 1 \in 1 .. 7 /\ ~ c + 1 <= 4 /\ c + 1 > 4 /\ ~ c + 1 < 5
    BY <1>1
  <1> QED BY <1>1, <1>5, <1>6, <1>8, <1>9, <1>10, <1>11, <1>12 DEF AbsorbInv, Stands

(***************************************************************************)
(* The carry leaves the array, which only a scalar from 2^255 on can make  *)
(* it do: the array stands for 2^256 less.                                 *)
(***************************************************************************)
LEMMA RippleLost ==
  ASSUME NEW d \in SlideFn, NEW x \in Nat,
         NEW n \in Nat, NEW c \in Nat, NEW m \in Nat,
         RippleInv(d, x, n, c, m), m >= NumBits
  PROVE  AbsorbInv(d, x, n, c + 1)
  <1>1. /\ n \in 0 .. NumBits - 1 /\ c = 4 /\ m \in n + 4 .. NumBits /\ n + 4 < NumBits
        /\ n \in Positions /\ NumBits - 1 \in Positions /\ NumBits \in Nat
        /\ Low(d, n) /\ High(d, n + 1) /\ d[n] % 2 = 1 /\ d[n] \in -15 .. 15 /\ d[n] # 0
        /\ Clear(d, n + 1, m)
        /\ SlideValue(d) + Two[m] = x
        /\ ~ x < Two[NumBits - 1]
    BY RippleFacts
  <1>2. m = NumBits
    BY <1>1
  <1>3. Stands(d, x, n + 1)
    <2>1. SlideValue(d) \in Int
      <3>1. SameBut(d, d, Positions, n)
        BY DEF SameBut
      <3> QED BY <1>1, <3>1, SlideUpdate DEF SlideFn
    <2>2. Two[NumBits] \in Nat /\ Two[NumBits - 1] \in Nat
      <3>1. NumBits <= NumBits /\ NumBits - 1 \in Nat /\ NumBits - 1 <= NumBits
        BY <1>1
      <3> QED BY <1>1, <3>1, TwoAt
    <2>3. SlideValue(d) = x - Two[NumBits]
      BY <1>1, <1>2, <2>1, <2>2
    <2>4. x >= Two[NumBits - 1]
      BY <1>1, <2>2
    <2> QED BY <1>1, <1>2, <2>3, <2>4 DEF Stands
  <1>4. TopAlone(d, x, n + 1)
    BY <1>1 DEF TopAlone
  <1>5. Clear(d, n + 1, n + (c + 1))
    <2> SUFFICES ASSUME NEW j \in Positions, n + 1 <= j, j < n + (c + 1) PROVE d[j] = 0
      BY DEF Clear
    <2>1. j < m
      BY <1>1, <1>2, Shape
    <2> QED BY <1>1, <2>1 DEF Clear
  <1>6. c + 1 \in 1 .. 7 /\ ~ c + 1 <= 4 /\ c + 1 > 4 /\ ~ c + 1 < 5
    BY <1>1
  <1> QED BY <1>1, <1>3, <1>4, <1>5, <1>6 DEF AbsorbInv

(***************************************************************************)
(* When the window closes its digit is final: odd, small, and with zeros   *)
(* above it.                                                               *)
(***************************************************************************)
LEMMA Closes ==
  ASSUME NEW d \in SlideFn, NEW x \in Nat, NEW n \in Nat, NEW c \in Nat,
         AbsorbInv(d, x, n, c), c >= 5 \/ n + c >= NumBits
  PROVE  WindowInv(d, x, n + 1)
  <1>1. /\ n \in 0 .. NumBits - 1 /\ c \in 1 .. 7
        /\ Low(d, n) /\ High(d, n + 1) /\ Stands(d, x, n + 1) /\ TopAlone(d, x, n + 1)
        /\ d[n] % 2 = 1
        /\ (c <= 4 => d[n] \in 1 .. Two[c] - 1) /\ (c > 4 => d[n] \in -15 .. 15)
        /\ Clear(d, n + 1, n + c)
    BY DEF AbsorbInv
  <1>2. NumBits \in Nat /\ n \in Positions
    BY <1>1, Shape
  <1>3. d[n] \in -15 .. 15
    <2>1. CASE c <= 3
      <3>1. c \in {1, 2, 3}
        BY <1>1, <2>1
      <3>2. Two[c] \in {2, 4, 8}
        BY <3>1, TwoSmall
      <3>3. d[n] \in 1 .. Two[c] - 1
        BY <1>1, <2>1
      <3> QED BY <3>2, <3>3
    <2>2. CASE c = 4
      BY <1>1, <2>2, TwoSmall
    <2>3. CASE c > 4
      BY <1>1, <2>3
    <2> QED BY <1>1, <2>1, <2>2, <2>3
  <1>4. SlideDigit(d, n)
    <2> SUFFICES ASSUME NEW above \in n + 1 .. n + 4, above \in Positions PROVE d[above] = 0
      BY <1>1, <1>3 DEF SlideDigit
    <2>1. n + 1 <= above /\ above < n + c
      BY <1>1, <1>2, Shape
    <2> QED BY <1>1, <2>1 DEF Clear
  <1>5. Low(d, n + 1)
    BY <1>1, <1>2, <1>4, LowUp
  <1> QED BY <1>1, <1>2, <1>5 DEF WindowInv

(***************************************************************************)
(* slide starts with its invariant.                                        *)
(***************************************************************************)
LEMMA BitsWindow ==
  ASSUME NEW x \in 0 .. Two[NumBits] - 1
  PROVE  Bits(x) \in SlideFn /\ WindowInv(Bits(x), x, 0)
  <1>1. /\ Bits(x) \in [Positions -> 0 .. 1]
        /\ SlideValue(Bits(x)) = x
        /\ x < Two[NumBits - 1] => Bits(x)[NumBits - 1] = 0
    BY BitsFacts
  <1>2. Bits(x) \in SlideFn /\ High(Bits(x), 0)
    BY <1>1 DEF SlideFn, High
  <1>3. 0 \in 0 .. NumBits /\ \A j \in Positions : ~ j < 0
    BY Shape
  <1>4. Low(Bits(x), 0)
    BY <1>3 DEF Low
  <1> QED BY <1>1, <1>2, <1>3, <1>4 DEF WindowInv, Stands, TopAlone

(***************************************************************************)
(* At the end of slide all digits are final.                               *)
(***************************************************************************)
LEMMA WindowEnds ==
  ASSUME NEW d \in SlideFn, NEW x \in Nat, NEW n \in Nat,
         WindowInv(d, x, n), n >= NumBits
  PROVE  Slid(d, x)
  <1>1. NumBits \in Nat /\ n = NumBits /\ \A j \in Positions : j < NumBits
    BY Shape DEF WindowInv
  <1>2. \A j \in Positions : SlideDigit(d, j)
    BY <1>1 DEF WindowInv, Low
  <1>3. SlideValue(d) \in Off(x)
    <2>1. Two[NumBits - 1] \in Nat
      <3>1. NumBits - 1 \in Nat /\ NumBits - 1 <= NumBits
        BY Shape
      <3> QED BY <3>1, TwoAt
    <2>2. x >= Two[NumBits - 1] => ~ x < Two[NumBits - 1]
      BY <2>1
    <2> QED BY <2>2 DEF WindowInv, Stands, Off
  <1> QED BY <1>2, <1>3 DEF Slid

-----------------------------------------------------------------------------
(* slide: its steps. *)

(***************************************************************************)
(* The array and the scalar slide works on.                                *)
(***************************************************************************)
LEMMA SlideContext ==
  ASSUME Types, pc \in SlidePcs
  PROVE  /\ ~IsBase /\ r \in SlideFn /\ w \in 1 .. 2
         /\ slides \in [1 .. 2 -> SlideFn]
         /\ task.scalars[w] \in 0 .. Two[NumBits] - 1 /\ task.scalars[w] \in Nat
         /\ i \in Int /\ b \in Nat /\ k \in Nat /\ NumBits \in Nat /\ NumBits >= 8
  <1>1. ~IsBase
    BY DEF Types, SlidePcs, BasePcs
  <1>2. task.scalars \in (0 .. Two[NumBits] - 1) \X (0 .. Two[NumBits] - 1)
    BY <1>1, TaskFacts DEF Types
  <1>3. w \in 1 .. 2 /\ w \in {1, 2}
    BY DEF Types
  <1>4. Two[NumBits] \in Nat
    <2>1. NumBits \in Nat /\ NumBits <= NumBits
      BY Shape
    <2> QED BY <2>1, TwoAt
  <1>5. task.scalars[w] \in 0 .. Two[NumBits] - 1
    BY <1>2, <1>3
  <1>6. slides \in [1 .. 2 -> SlideFn] /\ i \in Int /\ b \in Nat /\ k \in Nat
    BY DEF Types, SlideFn
  <1>7. r \in SlideFn
    BY <1>3, <1>6 DEF r
  <1>8. task.scalars[w] \in Nat
    BY <1>4, <1>5
  <1>9. NumBits \in Nat /\ NumBits >= 8
    BY Shape
  <1> QED BY <1>1, <1>3, <1>5, <1>6, <1>7, <1>8, <1>9

(***************************************************************************)
(* A step that writes to the array of slide leaves the other alone.        *)
(***************************************************************************)
LEMMA Writes ==
  ASSUME Types, NEW f \in SlideFn, slides' = [slides EXCEPT ![w] = f], w' = w
  PROVE  /\ r' = f
         /\ slides' \in [1 .. 2 -> [Positions -> Int]]
         /\ w = 2 => slides'[1] = slides[1]
  <1>1. w \in 1 .. 2 /\ slides \in [1 .. 2 -> [Positions -> Int]]
    BY DEF Types
  <1>2. f \in [Positions -> Int]
    BY DEF SlideFn
  <1>3. slides'[w] = f
    BY <1>1
  <1>4. r' = f
    BY <1>3 DEF r
  <1>5. slides' \in [1 .. 2 -> [Positions -> Int]]
    BY <1>1, <1>2
  <1>6. w = 2 => slides'[1] = slides[1]
    BY <1>1
  <1> QED BY <1>4, <1>5, <1>6

(***************************************************************************)
(* What a step of slide has to show.                                       *)
(***************************************************************************)
LEMMA SlideSteps ==
  ASSUME Types, SlideInv, Adding, pc \in SlidePcs, pc' \in {"window", "absorb", "ripple"},
         task' = task, w' = w, UNCHANGED <<e, carry, h>>,
         slides' \in [1 .. 2 -> [Positions -> Int]],
         w = 2 => slides'[1] = slides[1],
         i' \in Int, b' \in Nat, k' \in Nat,
         pc' = "window" => WindowInv(r', task.scalars[w], i'),
         pc' = "absorb" => AbsorbInv(r', task.scalars[w], i', b'),
         pc' = "ripple" => RippleInv(r', task.scalars[w], i', b', k')
  PROVE  Types' /\ SlideInv' /\ Adding'
  <1>1. ~IsBase /\ ~IsBase'
    BY SlideContext DEF IsBase
  <1>2. Types'
    BY <1>1 DEF Types, SlidePcs
  <1>3. pc' \in SlidePcs /\ ~ pc' \in {"skip", "add"} /\ pc' # "done"
    BY DEF SlidePcs
  <1>4. w = 2 => Slid(slides'[1], task.scalars[1])
    BY DEF SlideInv
  <1>5. SlideInv'
    BY <1>3, <1>4 DEF SlideInv, Slid
  <1>6. Adding'
    BY <1>3 DEF Adding
  <1> QED BY <1>2, <1>5, <1>6

(***************************************************************************)
(* SplitBits starts a slide.                                               *)
(***************************************************************************)
LEMMA SplitBitsPreserves ==
  ASSUME Types, SlideInv, Adding, SplitBits
  PROVE  Types' /\ SlideInv' /\ Adding'
  <1> DEFINE x == task.scalars[w]
  <1>1. /\ pc = "bits" /\ slides' = [slides EXCEPT ![w] = Bits(x)] /\ i' = 0 /\ pc' = "window"
        /\ UNCHANGED <<task, e, carry, w, b, k, h>>
    BY DEF SplitBits
  <1>2. pc \in SlidePcs
    BY <1>1 DEF SlidePcs
  <1>3. x \in 0 .. Two[NumBits] - 1 /\ b \in Nat /\ k \in Nat
    BY <1>2, SlideContext
  <1> HIDE DEF x
  <1>4. Bits(x) \in SlideFn /\ WindowInv(Bits(x), x, 0)
    BY <1>3, BitsWindow
  <1>5. /\ r' = Bits(x)
        /\ slides' \in [1 .. 2 -> [Positions -> Int]]
        /\ w = 2 => slides'[1] = slides[1]
    BY <1>1, <1>4, Writes
  <1> QED BY <1>1, <1>2, <1>3, <1>4, <1>5, SlideSteps DEF x

(***************************************************************************)
(* A step that leaves the arrays alone.                                    *)
(***************************************************************************)
LEMMA Kept ==
  ASSUME Types, UNCHANGED <<slides, w>>
  PROVE  /\ r' = r /\ slides' \in [1 .. 2 -> [Positions -> Int]]
         /\ w = 2 => slides'[1] = slides[1]
  BY DEF Types, r

(***************************************************************************)
(* SkipZero passes over a digit.                                           *)
(***************************************************************************)
LEMMA SkipZeroPreserves ==
  ASSUME Types, SlideInv, Adding, SkipZero
  PROVE  Types' /\ SlideInv' /\ Adding'
  <1>1. /\ pc = "window" /\ i < NumBits /\ r[i] = 0 /\ i' = i + 1 /\ pc' = "window"
        /\ UNCHANGED <<task, e, carry, slides, w, b, k, h>>
    BY DEF SkipZero
  <1>2. pc \in SlidePcs
    BY <1>1 DEF SlidePcs
  <1>3. WindowInv(r, task.scalars[w], i) /\ i \in Nat
    BY <1>1 DEF SlideInv, WindowInv
  <1>4. WindowInv(r, task.scalars[w], i')
    BY <1>1, <1>2, <1>3, SlideContext, WindowSkips
  <1>5. i' \in Int /\ b' \in Nat /\ k' \in Nat
    BY <1>1, <1>2, SlideContext
  <1> QED BY <1>1, <1>2, <1>4, <1>5, Kept, SlideSteps

(***************************************************************************)
(* OpenWindow starts a digit.                                              *)
(***************************************************************************)
LEMMA OpenWindowPreserves ==
  ASSUME Types, SlideInv, Adding, OpenWindow
  PROVE  Types' /\ SlideInv' /\ Adding'
  <1>1. /\ pc = "window" /\ i < NumBits /\ r[i] # 0 /\ b' = 1 /\ pc' = "absorb"
        /\ UNCHANGED <<task, e, carry, slides, w, k, i, h>>
    BY DEF OpenWindow
  <1>2. pc \in SlidePcs
    BY <1>1 DEF SlidePcs
  <1>3. WindowInv(r, task.scalars[w], i) /\ i \in Nat
    BY <1>1 DEF SlideInv, WindowInv
  <1>4. AbsorbInv(r, task.scalars[w], i, 1)
    BY <1>1, <1>2, <1>3, SlideContext, WindowOpens
  <1>5. i' \in Int /\ b' \in Nat /\ k' \in Nat
    BY <1>1, <1>2, SlideContext
  <1> QED BY <1>1, <1>2, <1>4, <1>5, Kept, SlideSteps

(***************************************************************************)
(* PassBit passes over a zero bit.                                         *)
(***************************************************************************)
LEMMA PassBitPreserves ==
  ASSUME Types, SlideInv, Adding, PassBit
  PROVE  Types' /\ SlideInv' /\ Adding'
  <1>1. /\ pc = "absorb" /\ b <= 6 /\ i + b < NumBits /\ r[i + b] = 0
        /\ b' = b + 1 /\ pc' = "absorb"
        /\ UNCHANGED <<task, e, carry, slides, w, k, i, h>>
    BY DEF PassBit, InWindow
  <1>2. pc \in SlidePcs
    BY <1>1 DEF SlidePcs
  <1>3. AbsorbInv(r, task.scalars[w], i, b) /\ i \in Nat
    BY <1>1 DEF SlideInv, AbsorbInv
  <1>4. AbsorbInv(r, task.scalars[w], i, b + 1)
    BY <1>1, <1>2, <1>3, SlideContext, Passes
  <1>5. i' \in Int /\ b' \in Nat /\ k' \in Nat
    BY <1>1, <1>2, SlideContext
  <1> QED BY <1>1, <1>2, <1>4, <1>5, Kept, SlideSteps

(***************************************************************************)
(* What AddBit and SubtractBit know of the bit in front of the window.     *)
(***************************************************************************)
LEMMA SetBit ==
  ASSUME Types, SlideInv, InWindow, r[i + b] # 0
  PROVE  /\ pc \in SlidePcs /\ i \in Positions /\ i \in Nat /\ i + b \in Positions
         /\ AbsorbInv(r, task.scalars[w], i, b) /\ b \in 1 .. 6
         /\ r[i + b] = 1 /\ Bit = 1 * Two[b] /\ Two[b] \in Nat
         /\ SlideValue(r) = task.scalars[w]
         /\ CanAdd <=> b <= 3
         /\ CanSubtract <=> b <= 4
  <1>1. pc = "absorb" /\ b <= 6 /\ i + b < NumBits
    BY DEF InWindow
  <1>2. pc \in SlidePcs
    BY <1>1 DEF SlidePcs
  <1>3. AbsorbInv(r, task.scalars[w], i, b)
    BY <1>1 DEF SlideInv
  <1>4. /\ r \in SlideFn /\ task.scalars[w] \in Nat /\ i \in Int /\ b \in Nat
        /\ NumBits \in Nat /\ NumBits >= 8
    BY <1>2, SlideContext
  <1>5. i \in 0 .. NumBits - 1 /\ b \in 1 .. 7
    BY <1>3 DEF AbsorbInv
  <1>6. /\ r[i + b] = 1 /\ SlideValue(r) = task.scalars[w]
        /\ (r[i] + 1 * Two[b] <= 15 <=> b <= 3)
        /\ (r[i] - 1 * Two[b] >= -15 <=> b <= 4)
    BY <1>1, <1>3, <1>4, <1>5, AddsBelowFour
  <1>7. Bit = 1 * Two[b]
    BY <1>6 DEF Bit
  <1>8. Two[b] \in Nat
    BY <1>1, <1>4, <1>5, TwoAt
  <1>9. (CanAdd <=> b <= 3) /\ (CanSubtract <=> b <= 4)
    BY <1>6, <1>7 DEF CanAdd, CanSubtract
  <1>10. i \in Positions /\ i + b \in Positions /\ i \in Nat /\ b \in 1 .. 6
    BY <1>1, <1>4, <1>5, Shape
  <1> QED BY <1>2, <1>3, <1>6, <1>7, <1>8, <1>9, <1>10

(***************************************************************************)
(* AddBit adds a bit to the digit.                                         *)
(***************************************************************************)
LEMMA AddBitPreserves ==
  ASSUME Types, SlideInv, Adding, AddBit
  PROVE  Types' /\ SlideInv' /\ Adding'
  <1> DEFINE f == [j \in Positions |-> IF j = i + b THEN 0
                                       ELSE IF j = i THEN r[i] + Bit ELSE r[j]]
  <1>1. /\ InWindow /\ r[i + b] # 0 /\ CanAdd
        /\ slides' = [slides EXCEPT ![w][i] = r[i] + Bit, ![w][i + b] = 0]
        /\ b' = b + 1 /\ pc' = "absorb"
        /\ UNCHANGED <<task, e, carry, w, k, i, h>>
    BY DEF AddBit, InWindow, r
  <1>2. /\ pc \in SlidePcs /\ i \in Positions /\ i \in Nat /\ i + b \in Positions
        /\ AbsorbInv(r, task.scalars[w], i, b) /\ b \in 1 .. 6 /\ b \in Nat
        /\ r[i + b] = 1 /\ Bit = 1 * Two[b] /\ Two[b] \in Nat
        /\ SlideValue(r) = task.scalars[w] /\ b <= 3
    BY <1>1, SetBit
  <1>3. /\ r \in SlideFn /\ w \in 1 .. 2 /\ slides \in [1 .. 2 -> SlideFn] /\ k \in Nat
        /\ task.scalars[w] \in Nat /\ i + b < NumBits
    BY <1>1, <1>2, SlideContext DEF InWindow
  <1>4. f \in SlideFn
    BY <1>2, <1>3 DEF SlideFn
  <1>5. slides' = [slides EXCEPT ![w] = f]
    BY <1>1, <1>2, <1>3 DEF SlideFn, r
  <1>6. f[i] = r[i] + 1 * Two[b] /\ f[i + b] = 0 /\ \A j \in Positions \ {i, i + b} : f[j] = r[j]
    BY <1>2
  <1> HIDE DEF f
  <1>7. AbsorbInv(f, task.scalars[w], i, b + 1)
    BY <1>2, <1>3, <1>4, <1>6, Adds
  <1>8. /\ r' = f
        /\ slides' \in [1 .. 2 -> [Positions -> Int]]
        /\ w = 2 => slides'[1] = slides[1]
    BY <1>1, <1>4, <1>5, Writes
  <1>9. i' \in Int /\ b' \in Nat /\ k' \in Nat
    BY <1>1, <1>2, <1>3
  <1> QED BY <1>1, <1>2, <1>7, <1>8, <1>9, SlideSteps

(***************************************************************************)
(* SubtractBit subtracts a bit from the digit.                             *)
(***************************************************************************)
LEMMA SubtractBitPreserves ==
  ASSUME Types, SlideInv, Adding, SubtractBit
  PROVE  Types' /\ SlideInv' /\ Adding'
  <1> DEFINE f == [r EXCEPT ![i] = r[i] - Bit]
  <1>1. /\ InWindow /\ r[i + b] # 0 /\ ~CanAdd /\ CanSubtract
        /\ slides' = [slides EXCEPT ![w][i] = r[i] - Bit]
        /\ k' = i + b /\ pc' = "ripple"
        /\ UNCHANGED <<task, e, carry, w, b, i, h>>
    BY DEF SubtractBit, r
  <1>2. /\ pc \in SlidePcs /\ i \in Positions /\ i \in Nat
        /\ AbsorbInv(r, task.scalars[w], i, b)
        /\ r[i + b] = 1 /\ Bit = 1 * Two[b] /\ Two[b] \in Nat
        /\ SlideValue(r) = task.scalars[w] /\ b = 4
    BY <1>1, SetBit
  <1>3. /\ r \in SlideFn /\ w \in 1 .. 2 /\ slides \in [1 .. 2 -> SlideFn]
        /\ task.scalars[w] \in Nat /\ i + b < NumBits
    BY <1>1, <1>2, SlideContext DEF InWindow
  <1>4. f \in SlideFn
    BY <1>2, <1>3 DEF SlideFn
  <1>5. slides' = [slides EXCEPT ![w] = f]
    BY <1>1, <1>2, <1>3 DEF SlideFn, r
  <1>6. f[i] = r[i] - 1 * Two[4] /\ SameBut(r, f, Positions, i)
    BY <1>2, <1>3 DEF SlideFn, SameBut
  <1> HIDE DEF f
  <1>7. RippleInv(f, task.scalars[w], i, b, i + b)
    BY <1>2, <1>3, <1>4, <1>6, Subtracts
  <1>8. /\ r' = f
        /\ slides' \in [1 .. 2 -> [Positions -> Int]]
        /\ w = 2 => slides'[1] = slides[1]
    BY <1>1, <1>4, <1>5, Writes
  <1>9. i' \in Int /\ b' \in Nat /\ k' \in Nat
    BY <1>1, <1>2
  <1> QED BY <1>1, <1>2, <1>7, <1>8, <1>9, SlideSteps

(***************************************************************************)
(* The array and the scalar of a ripple.                                   *)
(***************************************************************************)
LEMMA RippleContext ==
  ASSUME Types, SlideInv, pc = "ripple"
  PROVE  /\ pc \in SlidePcs /\ RippleInv(r, task.scalars[w], i, b, k)
         /\ i \in Nat /\ b \in Nat /\ k \in Nat /\ r \in SlideFn /\ task.scalars[w] \in Nat
         /\ k < NumBits => k \in Positions
  <1>1. pc \in SlidePcs /\ RippleInv(r, task.scalars[w], i, b, k)
    BY DEF SlidePcs, SlideInv
  <1>2. i \in Nat
    BY <1>1 DEF RippleInv
  <1>3. b \in Nat /\ k \in Nat /\ r \in SlideFn /\ task.scalars[w] \in Nat
    BY <1>1, SlideContext
  <1>4. k < NumBits => k \in Positions
    BY <1>3, Shape
  <1> QED BY <1>1, <1>2, <1>3, <1>4

(***************************************************************************)
(* A step that writes one bit.                                             *)
(***************************************************************************)
LEMMA WritesBit ==
  ASSUME Types, r \in SlideFn, NEW p \in Positions, NEW y \in Int,
         slides' = [slides EXCEPT ![w][p] = y], w' = w
  PROVE  /\ r' \in SlideFn /\ r'[p] = y /\ SameBut(r, r', Positions, p)
         /\ slides' \in [1 .. 2 -> [Positions -> Int]]
         /\ w = 2 => slides'[1] = slides[1]
  <1> DEFINE f == [r EXCEPT ![p] = y]
  <1>1. w \in 1 .. 2 /\ slides \in [1 .. 2 -> [Positions -> Int]]
    BY DEF Types
  <1>2. slides' = [slides EXCEPT ![w] = f]
    BY <1>1 DEF r
  <1>3. f \in SlideFn /\ f[p] = y /\ SameBut(r, f, Positions, p)
    BY DEF SlideFn, SameBut
  <1> HIDE DEF f
  <1>4. r' = f
    BY <1>2, <1>3, Writes
  <1>5. /\ slides' \in [1 .. 2 -> [Positions -> Int]]
        /\ w = 2 => slides'[1] = slides[1]
    BY <1>2, <1>3, Writes
  <1>6. r' \in SlideFn /\ r'[p] = y
    BY <1>3, <1>4
  <1>7. SameBut(r, r', Positions, p)
    BY <1>3, <1>4 DEF SameBut
  <1> QED BY <1>5, <1>6, <1>7

(***************************************************************************)
(* RippleOn clears a bit.                                                  *)
(***************************************************************************)
LEMMA RippleOnPreserves ==
  ASSUME Types, SlideInv, Adding, RippleOn
  PROVE  Types' /\ SlideInv' /\ Adding'
  <1>1. /\ pc = "ripple" /\ k < NumBits /\ r[k] # 0 /\ slides' = [slides EXCEPT ![w][k] = 0]
        /\ k' = k + 1 /\ pc' = "ripple"
        /\ UNCHANGED <<task, e, carry, w, b, i, h>>
    BY DEF RippleOn
  <1>2. /\ pc \in SlidePcs /\ RippleInv(r, task.scalars[w], i, b, k)
        /\ i \in Nat /\ b \in Nat /\ k \in Nat /\ r \in SlideFn /\ task.scalars[w] \in Nat
        /\ k \in Positions
    BY <1>1, RippleContext
  <1>3. 0 \in Int
    OBVIOUS
  <1>4. r' \in SlideFn /\ r'[k] = 0 /\ SameBut(r, r', Positions, k)
    BY <1>1, <1>2, <1>3, WritesBit
  <1>5. /\ slides' \in [1 .. 2 -> [Positions -> Int]]
        /\ w = 2 => slides'[1] = slides[1]
    BY <1>1, <1>2, <1>3, WritesBit
  <1>6. RippleInv(r', task.scalars[w], i, b, k + 1)
    BY <1>1, <1>2, <1>4, RipplesOn
  <1>7. i' \in Int /\ b' \in Nat /\ k' \in Nat
    BY <1>1, <1>2
  <1> QED BY <1>1, <1>2, <1>5, <1>6, <1>7, SlideSteps

(***************************************************************************)
(* RippleEnd sets a bit, or loses the carry.                               *)
(***************************************************************************)
LEMMA RippleEndPreserves ==
  ASSUME Types, SlideInv, Adding, RippleEnd
  PROVE  Types' /\ SlideInv' /\ Adding'
  <1>1. /\ pc = "ripple" /\ b' = b + 1 /\ pc' = "absorb"
        /\ UNCHANGED <<task, e, carry, w, k, i, h>>
    BY DEF RippleEnd
  <1>2. /\ pc \in SlidePcs /\ RippleInv(r, task.scalars[w], i, b, k)
        /\ i \in Nat /\ b \in Nat /\ k \in Nat /\ r \in SlideFn /\ task.scalars[w] \in Nat
        /\ k < NumBits => k \in Positions
    BY <1>1, RippleContext
  <1>3. i' \in Int /\ b' \in Nat /\ k' \in Nat
    BY <1>1, <1>2
  <1>4. CASE k < NumBits /\ r[k] = 0 /\ slides' = [slides EXCEPT ![w][k] = 1]
    <2>1. 1 \in Int /\ k \in Positions /\ w' = w
      BY <1>1, <1>2, <1>4
    <2>2. r' \in SlideFn /\ r'[k] = 1 /\ SameBut(r, r', Positions, k)
      BY <1>2, <1>4, <2>1, WritesBit
    <2>3. /\ slides' \in [1 .. 2 -> [Positions -> Int]]
          /\ w = 2 => slides'[1] = slides[1]
      BY <1>2, <1>4, <2>1, WritesBit
    <2>4. AbsorbInv(r', task.scalars[w], i, b + 1)
      BY <1>2, <1>4, <2>2, RippleSettles
    <2> QED BY <1>1, <1>2, <1>3, <2>3, <2>4, SlideSteps
  <1>5. CASE k >= NumBits /\ UNCHANGED slides
    <2>1. AbsorbInv(r, task.scalars[w], i, b + 1)
      BY <1>2, <1>5, RippleLost
    <2>2. /\ r' = r /\ slides' \in [1 .. 2 -> [Positions -> Int]]
          /\ w = 2 => slides'[1] = slides[1]
      BY <1>1, <1>5, Kept
    <2> QED BY <1>1, <1>2, <1>3, <2>1, <2>2, SlideSteps
  <1> QED BY <1>4, <1>5 DEF RippleEnd

(***************************************************************************)
(* CloseWindow: the window is at least five wide or at the top.            *)
(***************************************************************************)
LEMMA CloseWindowPreserves ==
  ASSUME Types, SlideInv, Adding, CloseWindow
  PROVE  Types' /\ SlideInv' /\ Adding'
  <1>1. /\ pc = "absorb" /\ i' = i + 1 /\ pc' = "window"
        /\ ~(InWindow /\ (r[i + b] = 0 \/ CanAdd \/ CanSubtract))
        /\ UNCHANGED <<task, e, carry, slides, w, b, k, h>>
    BY DEF CloseWindow
  <1>2. pc \in SlidePcs
    BY <1>1 DEF SlidePcs
  <1>3. AbsorbInv(r, task.scalars[w], i, b) /\ i \in Nat
    BY <1>1 DEF SlideInv, AbsorbInv
  <1>4. r \in SlideFn /\ task.scalars[w] \in Nat /\ b \in Nat /\ k \in Nat /\ NumBits \in Nat
    BY <1>2, SlideContext
  <1>5. b >= 5 \/ i + b >= NumBits
    <2>1. CASE ~InWindow
      BY <1>1, <1>3, <1>4, <2>1 DEF InWindow
    <2>2. CASE InWindow
      <3>1. ~ CanSubtract /\ r[i + b] # 0
        BY <1>1, <2>2
      <3>2. ~ b <= 4
        BY <2>2, <3>1, SetBit
      <3> QED BY <1>4, <3>2
    <2> QED BY <2>1, <2>2
  <1>6. WindowInv(r, task.scalars[w], i + 1)
    BY <1>3, <1>4, <1>5, Closes
  <1>7. i' \in Int /\ b' \in Nat /\ k' \in Nat
    BY <1>1, <1>3, <1>4
  <1> QED BY <1>1, <1>2, <1>6, <1>7, Kept, SlideSteps

(***************************************************************************)
(* No digit is above the top.                                              *)
(***************************************************************************)
LEMMA NothingAbove ==
  ASSUME NEW d \in SlideFn
  PROVE  Value(d, 1, {j \in Positions : j > NumBits - 1}) = 0
  <1>1. \A j \in Positions : ~ j > NumBits - 1
    BY Shape
  <1>2. {j \in Positions : j > NumBits - 1} = {}
    BY <1>1
  <1>3. Value(d, 1, {}) = 0
    BY Shape, ValueZero DEF SlideFn
  <1> QED BY <1>2, <1>3

(***************************************************************************)
(* SlideReturn: the second slide starts, or the multiplication does.       *)
(***************************************************************************)
LEMMA SlideReturnPreserves ==
  ASSUME Types, SlideInv, Adding, SlideReturn
  PROVE  Types' /\ SlideInv' /\ Adding'
  <1>1. /\ pc = "window" /\ i >= NumBits /\ UNCHANGED <<task, e, carry, slides, b, k, h>>
        /\ IF w = 1 THEN w' = 2 /\ pc' = "bits" /\ i' = i
                    ELSE i' = NumBits - 1 /\ pc' = "skip" /\ w' = w
    BY DEF SlideReturn
  <1>2. pc \in SlidePcs
    BY <1>1 DEF SlidePcs
  <1>3. WindowInv(r, task.scalars[w], i) /\ i \in Nat
    BY <1>1 DEF SlideInv, WindowInv
  <1>4. ~IsBase /\ r \in SlideFn /\ task.scalars[w] \in Nat /\ w \in 1 .. 2 /\ NumBits \in Nat
        /\ slides \in [1 .. 2 -> SlideFn]
    BY <1>2, SlideContext
  <1>5. Slid(slides[w], task.scalars[w])
    BY <1>1, <1>3, <1>4, WindowEnds DEF r
  <1>6. h = Neutral /\ h' = Neutral
    BY <1>1, <1>2 DEF Adding
  <1>7. pc' \in {"bits", "skip"} /\ ~IsBase' /\ w' \in 1 .. 2 /\ i' \in Int
    BY <1>1, <1>3, <1>4 DEF IsBase
  <1>8. Types'
    BY <1>1, <1>7 DEF Types, SlidePcs
  <1>9. CASE w = 1
    <2>1. pc' = "bits"
      BY <1>1, <1>9
    <2>2. SlideInv'
      BY <1>1, <1>5, <1>9, <2>1 DEF SlideInv, Slid
    <2>3. Adding'
      BY <1>6, <2>1 DEF Adding
    <2> QED BY <1>8, <2>2, <2>3
  <1>10. CASE w = 2
    <2>1. pc' = "skip" /\ i' = NumBits - 1
      BY <1>1, <1>10
    <2>2. Slid(slides[1], task.scalars[1])
      BY <1>2, <1>10 DEF SlideInv
    <2>3. \A x \in 1 .. 2 : Slid(slides[x], task.scalars[x])
      <3>1. \A x \in 1 .. 2 : x = 1 \/ x = 2
        OBVIOUS
      <3> QED BY <1>5, <1>10, <2>2, <3>1, Zenon
    <2>4. SlideInv'
      <3>1. ~ pc' \in SlidePcs
        BY <2>1 DEF SlidePcs
      <3> QED BY <1>1, <2>1, <2>3, <3>1 DEF SlideInv, Slid
    <2>5. \A x \in 1 .. 2 :
            Value(slides[x], 1, {j \in Positions : j > NumBits - 1}) = h[x] * Two[(NumBits - 1) + 1]
      <3> SUFFICES ASSUME NEW x \in 1 .. 2
                   PROVE  Value(slides[x], 1, {j \in Positions : j > NumBits - 1})
                            = h[x] * Two[(NumBits - 1) + 1]
        OBVIOUS
      <3>1. slides[x] \in SlideFn
        BY <1>4
      <3>2. h[x] = 0
        BY <1>6 DEF Neutral
      <3>3. Two[(NumBits - 1) + 1] \in Nat
        <4>1. (NumBits - 1) + 1 \in Nat /\ (NumBits - 1) + 1 <= NumBits
          BY <1>4
        <4> QED BY <4>1, TwoAt
      <3>4. Value(slides[x], 1, {j \in Positions : j > NumBits - 1}) = 0
        BY <3>1, NothingAbove
      <3> QED BY <3>2, <3>3, <3>4
    <2>6. NumBits - 1 \in -1 .. NumBits - 1
      BY <1>4
    <2>7. Adding'
      BY <1>1, <1>6, <2>1, <2>5, <2>6 DEF Adding
    <2> QED BY <1>8, <2>4, <2>7
  <1> QED BY <1>4, <1>9, <1>10

(***************************************************************************)
(* Every step of slide keeps the invariant.                                *)
(***************************************************************************)
LEMMA SlideStep ==
  ASSUME Types, SlideInv, Adding, SlideNext
  PROVE  Types' /\ SlideInv' /\ Adding'
  BY SplitBitsPreserves, SkipZeroPreserves, OpenWindowPreserves, PassBitPreserves,
     AddBitPreserves, SubtractBitPreserves, RippleOnPreserves, RippleEndPreserves,
   CloseWindowPreserves, SlideReturnPreserves DEF SlideNext

-----------------------------------------------------------------------------
(* ge_double_scalarmult_vartime: Horner's rule. *)

(***************************************************************************)
(* The opposite of a point.                                                *)
(***************************************************************************)
LEMMA OppositeFacts ==
  ASSUME NEW y \in Int, NEW z \in Int
  PROVE  Opposite(<<y, z>>) = <<0 - y, 0 - z>>
  <1>1. \A t, u \in Int : t + u = 0 => -t = u
    OBVIOUS
  <1>2. 0 - y \in Int /\ 0 - z \in Int /\ y + (0 - y) = 0 /\ z + (0 - z) = 0
    OBVIOUS
  <1>3. -y = 0 - y /\ -z = 0 - z
    BY <1>1, <1>2, Zenon
  <1>4. Opposite(<<y, z>>) = <<-y, -z>>
    BY DEF Opposite
  <1> QED BY <1>3, <1>4, Zenon

(***************************************************************************)
(* The table of A holds the odd multiples that it is built for.            *)
(***************************************************************************)
LEMMA AiFacts == \A j \in 0 .. 7 : Ai[j] = <<2 * j + 1, 0>>
  <1> DEFINE f == [j \in 0 .. 7 |-> <<2 * j + 1, 0>>]
  <1>1. f = [j \in 0 .. 7 |-> IF j = 0 THEN <<1, 0>> ELSE Plus(<<2, 0>>, f[j - 1])]
    <2>1. ASSUME NEW j \in 0 .. 7
          PROVE  f[j] = IF j = 0 THEN <<1, 0>> ELSE Plus(<<2, 0>>, f[j - 1])
      <3>1. CASE j = 0
        BY <3>1
      <3>2. CASE j # 0
        <4>1. j - 1 \in 0 .. 7 /\ 2 + (2 * (j - 1) + 1) = 2 * j + 1
          BY <3>2
        <4> QED BY <3>2, <4>1 DEF Plus
      <3> QED BY <3>1, <3>2
    <2> QED BY <2>1
  <1>2. Ai = [j \in 0 .. 7 |-> IF j = 0 THEN <<1, 0>> ELSE Plus(<<2, 0>>, Ai[j - 1])]
    <2> HIDE DEF f
    <2> QED BY <1>1, Zenon DEF Ai
  <1> DEFINE R == {j \in 0 .. 7 : Ai[j] = <<2 * j + 1, 0>>}
  <1>3. 0 \in R
    <2>1. Ai[0] = <<1, 0>>
      BY <1>2
    <2> QED BY <2>1
  <1>4. ASSUME NEW j \in 0 .. 6, j \in R PROVE j + 1 \in R
    <2>1. j + 1 \in 0 .. 7 /\ j + 1 # 0 /\ (j + 1) - 1 = j
      OBVIOUS
    <2>2. Ai[j + 1] = Plus(<<2, 0>>, Ai[j])
      BY <1>2, <2>1
    <2>3. Ai[j] = <<2 * j + 1, 0>>
      BY <1>4
    <2>4. 2 + (2 * j + 1) = 2 * (j + 1) + 1
      OBVIOUS
    <2>5. Ai[j + 1] = <<2 * (j + 1) + 1, 0>>
      BY <2>2, <2>3, <2>4 DEF Plus
    <2> QED BY <2>1, <2>5
  <1>5. 0 .. 7 \subseteq R
    <2> HIDE DEF R
    <2>1. 7 \in Nat /\ \A j \in 0 .. 7 - 1 : j \in R => j + 1 \in R
      BY <1>4
    <2> QED BY <1>3, <2>1, InductUpTo
  <1> QED BY <1>5

(***************************************************************************)
(* Half of an odd digit is its row of the table.                           *)
(***************************************************************************)
LEMMA OddHalf ==
  ASSUME NEW x \in -15 .. 15, x # 0 => x % 2 = 1
  PROVE  /\ x > 0 => x \div 2 \in 0 .. 7 /\ 2 * (x \div 2) + 1 = x
         /\ x < 0 => (-x) \div 2 \in 0 .. 7 /\ 0 - (2 * ((-x) \div 2) + 1) = x
  OBVIOUS

(***************************************************************************)
(* AddDigit adds a digit's multiple of A or of B.                          *)
(***************************************************************************)
LEMMA AddDigitFacts ==
  ASSUME NEW P \in Int \X Int, NEW x \in -15 .. 15, x # 0 => x % 2 = 1
  PROVE  /\ AddDigit(P, Ai, x) = <<P[1] + x, P[2]>>
         /\ AddDigit(P, Bi, x) = <<P[1], P[2] + x>>
  <1>1. P = <<P[1], P[2]>> /\ P[1] \in Int /\ P[2] \in Int
    OBVIOUS
  <1>2. CASE x > 0
    <2> DEFINE n == x \div 2
    <2>1. n \in 0 .. 7 /\ 2 * n + 1 = x
      BY <1>2, OddHalf
    <2>2. AddDigit(P, Ai, x) = Plus(P, Ai[n]) /\ AddDigit(P, Bi, x) = Plus(P, Bi[n])
      BY <1>2 DEF AddDigit
    <2> HIDE DEF n
    <2>3. Ai[n] = <<x, 0>>
      BY <2>1, AiFacts
    <2>4. Bi[n] = <<0, x>>
      BY <2>1 DEF Bi
    <2> QED BY <1>1, <2>2, <2>3, <2>4 DEF Plus
  <1>3. CASE x < 0
    <2> DEFINE n == (-x) \div 2
    <2>1. n \in 0 .. 7 /\ 0 - (2 * n + 1) = x
      BY <1>3, OddHalf
    <2>2. /\ AddDigit(P, Ai, x) = Plus(P, Opposite(Ai[n]))
          /\ AddDigit(P, Bi, x) = Plus(P, Opposite(Bi[n]))
      BY <1>3 DEF AddDigit
    <2> HIDE DEF n
    <2>3. Ai[n] = <<2 * n + 1, 0>>
      BY <2>1, AiFacts
    <2>4. Bi[n] = <<0, 2 * n + 1>>
      BY <2>1 DEF Bi
    <2>5. 2 * n + 1 \in Int /\ 0 \in Int /\ 0 - 0 = 0
      BY <2>1
    <2>6. Opposite(Ai[n]) = <<x, 0>> /\ Opposite(Bi[n]) = <<0, x>>
      <3>1. Opposite(<<2 * n + 1, 0>>) = <<0 - (2 * n + 1), 0 - 0>>
        BY <2>5, OppositeFacts
      <3>2. Opposite(<<0, 2 * n + 1>>) = <<0 - 0, 0 - (2 * n + 1)>>
        BY <2>5, OppositeFacts
      <3> QED BY <2>1, <2>3, <2>4, <2>5, <3>1, <3>2
    <2> QED BY <1>1, <2>2, <2>6 DEF Plus
  <1>4. CASE x = 0
    BY <1>1, <1>4 DEF AddDigit
  <1> QED BY <1>2, <1>3, <1>4

(***************************************************************************)
(* What the loops of the double multiplication know.                       *)
(***************************************************************************)
LEMMA AddingContext ==
  ASSUME Types, SlideInv, Adding, pc \in {"skip", "add"}
  PROVE  /\ ~IsBase /\ i \in -1 .. NumBits - 1 /\ NumBits \in Nat /\ h \in Int \X Int
         /\ slides \in [1 .. 2 -> SlideFn]
         /\ \A x \in 1 .. 2 :
              /\ Slid(slides[x], task.scalars[x])
              /\ Value(slides[x], 1, {j \in Positions : j > i}) = h[x] * Two[i + 1]
         /\ i >= 0 => i \in Positions /\ Two[i] \in Nat /\ Two[i + 1] = 2 * Two[i]
  <1>1. ~IsBase
    BY DEF Types, SlidePcs, BasePcs
  <1>2. i \in -1 .. NumBits - 1 /\ \A x \in 1 .. 2 :
           Value(slides[x], 1, {j \in Positions : j > i}) = h[x] * Two[i + 1]
    BY DEF Adding
  <1>3. \A x \in 1 .. 2 : Slid(slides[x], task.scalars[x])
    BY DEF SlideInv
  <1>4. NumBits \in Nat
    BY Shape
  <1>5. i >= 0 => i \in Positions
    BY <1>2, Shape
  <1>6. i >= 0 => Two[i] \in Nat /\ Two[i + 1] = 2 * Two[i]
    <2>1. i >= 0 => i \in Nat /\ i < NumBits
      BY <1>2, <1>4
    <2> QED BY <2>1, TwoStep
  <1>7. h \in Int \X Int /\ slides \in [1 .. 2 -> SlideFn]
    BY DEF Types, SlideFn
  <1> QED BY <1>1, <1>2, <1>3, <1>4, <1>5, <1>6, <1>7

(***************************************************************************)
(* The next digit joins those above it.                                    *)
(***************************************************************************)
LEMMA OneMore ==
  ASSUME NEW d \in SlideFn, NEW n \in Positions
  PROVE  /\ d[n] \in Int
         /\ Value(d, 1, {j \in Positions : j > n - 1})
              = Value(d, 1, {j \in Positions : j > n}) + d[n] * Two[n]
  <1>1. {j \in Positions : j > n - 1} = {j \in Positions : j > n} \cup {n}
    <2>1. \A j \in Positions : j > n - 1 <=> (j > n \/ j = n)
      BY Shape
    <2> QED BY <2>1
  <1>2. n \notin {j \in Positions : j > n}
    BY Shape
  <1>3. d \in [Places(1) -> Int] /\ n \in Places(1) /\ 1 \in {1, 4} /\ 1 * n = n
    BY Shape DEF SlideFn
  <1>4. Value(d, 1, {j \in Positions : j > n} \cup {n})
          = Value(d, 1, {j \in Positions : j > n}) + d[n] * Two[1 * n]
    BY <1>2, <1>3, ValueInsert
  <1>5. d[n] \in Int
    BY <1>3
  <1> QED BY <1>1, <1>3, <1>4, <1>5, Zenon

(***************************************************************************)
(* Skip: zero digits leave the neutral element as it is.                   *)
(***************************************************************************)
LEMMA SkipPreserves ==
  ASSUME Types, SlideInv, Adding, Skip
  PROVE  Types' /\ SlideInv' /\ Adding'
  <1>1. /\ pc = "skip" /\ UNCHANGED <<task, e, carry, slides, w, b, k, h>>
        /\ IF i >= 0 /\ slides[1][i] = 0 /\ slides[2][i] = 0
           THEN i' = i - 1 /\ pc' = "skip"
           ELSE pc' = "add" /\ i' = i
    BY DEF Skip
  <1>2. /\ ~IsBase /\ i \in -1 .. NumBits - 1 /\ NumBits \in Nat
        /\ slides \in [1 .. 2 -> SlideFn]
        /\ \A x \in 1 .. 2 :
                /\ Slid(slides[x], task.scalars[x])
                /\ Value(slides[x], 1, {j \in Positions : j > i}) = h[x] * Two[i + 1]
        /\ (i >= 0 => i \in Positions /\ Two[i] \in Nat /\ Two[i + 1] = 2 * Two[i])
    BY <1>1, AddingContext
  <1>3. pc' \in {"skip", "add"} /\ ~IsBase' /\ i' \in -1 .. NumBits - 1
    BY <1>1, <1>2 DEF IsBase
  <1>4. Types'
    BY <1>1, <1>3 DEF Types, SlidePcs
  <1>5. h = Neutral /\ h' = Neutral
    BY <1>1 DEF Adding
  <1>6. SlideInv'
    BY <1>1, <1>2, <1>3 DEF SlideInv, SlidePcs, Slid
  <1>7. ASSUME NEW x \in 1 .. 2
        PROVE  Value(slides[x], 1, {j \in Positions : j > i'}) = h'[x] * Two[i' + 1]
    <2>1. CASE pc' = "add"
      <3>1. i' = i /\ h' = h
        BY <1>1, <2>1
      <3> QED BY <1>2, <3>1
    <2>2. CASE pc' = "skip"
      <3>1. i >= 0 /\ slides[1][i] = 0 /\ slides[2][i] = 0 /\ i' = i - 1
        BY <1>1, <2>2
      <3>2. i \in Positions /\ slides[x] \in SlideFn /\ slides[x][i] = 0
        BY <1>2, <3>1
      <3>3. /\ slides[x][i] \in Int
            /\ Value(slides[x], 1, {j \in Positions : j > i - 1})
                = Value(slides[x], 1, {j \in Positions : j > i}) + slides[x][i] * Two[i]
        BY <3>2, OneMore
      <3>4. h[x] = 0 /\ h'[x] = 0
        BY <1>5 DEF Neutral
      <3>5. Value(slides[x], 1, {j \in Positions : j > i}) = 0
        BY <1>2, <3>1, <3>4
      <3>6. (i - 1) + 1 = i
        BY <1>2
      <3> QED BY <1>2, <3>1, <3>2, <3>3, <3>4, <3>5, <3>6
    <2> QED BY <1>3, <2>1, <2>2
  <1>8. Adding'
    <2>1. ~ pc' = "done"
      BY <1>3
    <2> QED BY <1>1, <1>3, <1>5, <1>7, <2>1 DEF Adding
  <1> QED BY <1>4, <1>6, <1>8

(***************************************************************************)
(* One turn of Horner's rule.                                              *)
(***************************************************************************)
LEMMA HornerArithmetic ==
  ASSUME NEW y \in Int, NEW z \in Int, NEW T \in Int
  PROVE  y * (2 * T) + z * T = (2 * y + z) * T
  OBVIOUS

(***************************************************************************)
(* DoubleAndAdd: one turn of Horner's rule for both scalars.               *)
(***************************************************************************)
LEMMA DoubleAndAddPreserves ==
  ASSUME Types, SlideInv, Adding, DoubleAndAdd
  PROVE  Types' /\ SlideInv' /\ Adding'
  <1> DEFINE x1 == slides[1][i]
             x2 == slides[2][i]
  <1>1. /\ pc = "add" /\ i >= 0 /\ pc' = "add" /\ i' = i - 1
        /\ h' = AddDigit(AddDigit(Twice(h), Ai, x1), Bi, x2)
        /\ UNCHANGED <<task, e, carry, slides, w, b, k>>
    BY DEF DoubleAndAdd
  <1>2. /\ ~IsBase /\ i \in -1 .. NumBits - 1 /\ NumBits \in Nat /\ h \in Int \X Int
        /\ slides \in [1 .. 2 -> SlideFn]
        /\ \A x \in 1 .. 2 :
                /\ Slid(slides[x], task.scalars[x])
                /\ Value(slides[x], 1, {j \in Positions : j > i}) = h[x] * Two[i + 1]
        /\ i \in Positions /\ Two[i] \in Nat /\ Two[i + 1] = 2 * Two[i]
    BY <1>1, AddingContext
  <1>3. \A x \in 1 .. 2 : slides[x][i] \in -15 .. 15 /\ (slides[x][i] # 0 => slides[x][i] % 2 = 1)
    <2> SUFFICES ASSUME NEW x \in 1 .. 2
                 PROVE  slides[x][i] \in -15 .. 15 /\ (slides[x][i] # 0 => slides[x][i] % 2 = 1)
      OBVIOUS
    <2>1. SlideDigit(slides[x], i)
      BY <1>2 DEF Slid
    <2> QED BY <2>1 DEF SlideDigit
  <1>4. /\ x1 \in -15 .. 15 /\ (x1 # 0 => x1 % 2 = 1)
        /\ x2 \in -15 .. 15 /\ (x2 # 0 => x2 % 2 = 1)
    BY <1>3
  <1> HIDE DEF x1, x2
  <1>5. Twice(h) = <<2 * h[1], 2 * h[2]>> /\ h[1] \in Int /\ h[2] \in Int
    BY <1>2 DEF Twice, Plus
  <1>6. AddDigit(Twice(h), Ai, x1) = <<2 * h[1] + x1, 2 * h[2]>>
    <2>1. Twice(h) \in Int \X Int
      BY <1>5
    <2>2. AddDigit(Twice(h), Ai, x1) = <<Twice(h)[1] + x1, Twice(h)[2]>>
      BY <1>4, <2>1, AddDigitFacts
    <2> QED BY <1>5, <2>2
  <1>7. h' = <<2 * h[1] + x1, 2 * h[2] + x2>>
    <2> DEFINE P == <<2 * h[1] + x1, 2 * h[2]>>
    <2>1. P \in Int \X Int
      BY <1>4, <1>5
    <2>2. AddDigit(P, Bi, x2) = <<P[1], P[2] + x2>>
      <3> HIDE DEF P
      <3> QED BY <1>4, <2>1, AddDigitFacts
    <2> QED BY <1>1, <1>6, <2>2
  <1>8. \A x \in 1 .. 2 : h'[x] = 2 * h[x] + slides[x][i] /\ h[x] \in Int
    BY <1>5, <1>7 DEF x1, x2
  <1>9. h' \in Int \X Int
    BY <1>4, <1>5, <1>7
  <1>10. ~IsBase' /\ i' \in -1 .. NumBits - 1
    BY <1>1, <1>2 DEF IsBase
  <1>11. Types'
    BY <1>1, <1>9, <1>10 DEF Types, SlidePcs
  <1>12. SlideInv'
    BY <1>1, <1>2 DEF SlideInv, SlidePcs, Slid
  <1>13. ASSUME NEW x \in 1 .. 2
         PROVE  Value(slides[x], 1, {j \in Positions : j > i - 1}) = h'[x] * Two[(i - 1) + 1]
    <2>1. /\ slides[x][i] \in Int
          /\ Value(slides[x], 1, {j \in Positions : j > i - 1})
                = Value(slides[x], 1, {j \in Positions : j > i}) + slides[x][i] * Two[i]
      BY <1>2, OneMore
    <2>2. Value(slides[x], 1, {j \in Positions : j > i}) = h[x] * (2 * Two[i])
      BY <1>2
    <2>3. h[x] * (2 * Two[i]) + slides[x][i] * Two[i] = (2 * h[x] + slides[x][i]) * Two[i]
      <3>1. h[x] \in Int /\ Two[i] \in Int
        BY <1>2, <1>8
      <3> QED BY <2>1, <3>1, HornerArithmetic, Zenon
    <2>4. (i - 1) + 1 = i
      BY <1>2
    <2> QED BY <1>8, <2>1, <2>2, <2>3, <2>4, Zenon
  <1>14. Adding'
    BY <1>1, <1>10, <1>13 DEF Adding, SlidePcs
  <1> QED BY <1>11, <1>12, <1>14

-----------------------------------------------------------------------------
(* The theorems. *)

(***************************************************************************)
(* The invariant holds at the start.                                       *)
(***************************************************************************)
LEMMA InitIInv == Init => IInv
  <1> SUFFICES ASSUME Init PROVE IInv
    OBVIOUS
  <1>1. /\ task \in Tasks /\ e = [j \in DigitPositions |-> 0] /\ carry = 0
        /\ slides = [x \in 1 .. 2 |-> [j \in Positions |-> 0]]
        /\ w = 1 /\ b = 0 /\ k = 0 /\ i = 0 /\ h = Neutral
        /\ pc = IF IsBase THEN "nibbles" ELSE "bits"
    BY DEF Init, IsBase
  <1>2. Types
    <2>1. e \in [DigitPositions -> Int] /\ slides \in [1 .. 2 -> [Positions -> Int]]
      BY <1>1
    <2>2. h \in Int \X Int
      BY <1>1 DEF Neutral
    <2>3. pc \in (IF IsBase THEN BasePcs ELSE SlidePcs \cup {"skip", "add"}) \cup {"done"}
      BY <1>1 DEF BasePcs, SlidePcs
    <2> QED BY <1>1, <2>1, <2>2, <2>3 DEF Types
  <1>3. BaseInv
    BY <1>1 DEF BaseInv, Carrying, AddingBase
  <1>4. SlideInv /\ Adding
    BY <1>1 DEF SlideInv, Adding
  <1> QED BY <1>2, <1>3, <1>4 DEF IInv

(***************************************************************************)
(* The steps of ge_scalarmult_base keep the invariant.                     *)
(***************************************************************************)
LEMMA BaseNextIInv ==
  ASSUME IInv, BaseNext
  PROVE  IInv'
  <1>1. Types /\ BaseInv
    BY DEF IInv
  <1>2. Types' /\ pc' \in BasePcs
    BY <1>1, BaseTypes
  <1>3. BaseInv'
    BY <1>1, BaseStep
  <1>4. SlideInv' /\ Adding'
    BY <1>2 DEF SlideInv, Adding, BasePcs, SlidePcs
  <1> QED BY <1>2, <1>3, <1>4 DEF IInv

(***************************************************************************)
(* The steps of ge_double_scalarmult_vartime keep it.                      *)
(***************************************************************************)
LEMMA SlideNextIInv ==
  ASSUME IInv, SlideNext \/ Skip \/ DoubleAndAdd
  PROVE  IInv'
  <1>1. Types /\ SlideInv /\ Adding
    BY DEF IInv
  <1>2. Types' /\ SlideInv' /\ Adding'
    BY <1>1, SlideStep, SkipPreserves, DoubleAndAddPreserves
  <1>3. pc \in SlidePcs \cup {"skip", "add"} /\ task' = task
    BY DEF SlideNext, Skip, DoubleAndAdd, SlidePcs, SplitBits, SkipZero, OpenWindow, PassBit,
           AddBit, SubtractBit, InWindow, RippleOn, RippleEnd, CloseWindow, SlideReturn
  <1>4. ~IsBase'
    BY <1>1, <1>3 DEF Types, IsBase, SlidePcs, BasePcs
  <1>5. BaseInv'
    <2>1. pc' \notin BasePcs
      BY <1>2, <1>4 DEF Types, BasePcs, SlidePcs
    <2> QED BY <1>4, <2>1 DEF BaseInv, Carrying, AddingBase, BasePcs
  <1> QED BY <1>2, <1>5 DEF IInv

(***************************************************************************)
(* When all digits are in, h counts for the scalars.                       *)
(***************************************************************************)
LEMMA DoubleReturns ==
  ASSUME Types, SlideInv, Adding, pc = "add", i < 0
  PROVE  \A x \in 1 .. 2 : h[x] \in Off(task.scalars[x])
  <1>1. /\ i \in -1 .. NumBits - 1 /\ h \in Int \X Int
        /\ \A x \in 1 .. 2 :
             /\ Slid(slides[x], task.scalars[x])
             /\ Value(slides[x], 1, {j \in Positions : j > i}) = h[x] * Two[i + 1]
    BY AddingContext
  <1>2. i = -1 /\ i + 1 = 0 /\ Two[0] = 1
    BY <1>1, TwoFacts, Shape
  <1>3. {j \in Positions : j > i} = Positions
    <2>1. \A j \in Positions : j > i
      BY <1>2, Shape
    <2> QED BY <2>1
  <1> SUFFICES ASSUME NEW x \in 1 .. 2 PROVE h[x] \in Off(task.scalars[x])
    OBVIOUS
  <1>4. h[x] \in Int /\ x \in {1, 2}
    BY <1>1
  <1>5. SlideValue(slides[x]) = h[x] * 1
    BY <1>1, <1>2, <1>3 DEF SlideValue
  <1>6. SlideValue(slides[x]) = h[x]
    BY <1>4, <1>5
  <1> QED BY <1>1, <1>6 DEF Slid

(***************************************************************************)
(* Return keeps it.                                                        *)
(***************************************************************************)
LEMMA ReturnIInv ==
  ASSUME IInv, Return
  PROVE  IInv'
  <1>1. /\ Types /\ BaseInv /\ SlideInv /\ Adding /\ pc' = "done"
        /\ UNCHANGED <<task, e, carry, slides, w, b, k, i, h>>
    BY DEF IInv, Return
  <1>2. IsBase' <=> IsBase
    BY <1>1 DEF IsBase
  <1>3. Types'
    BY <1>1, <1>2 DEF Types
  <1>4. SlideInv'
    BY <1>1 DEF SlideInv, SlidePcs
  <1>5. IsBase => h = <<0, task.a>>
    <2> SUFFICES ASSUME IsBase PROVE h = <<0, task.a>>
      OBVIOUS
    <2>1. pc = "even" /\ i >= NumDigits
      BY <1>1 DEF Return, Types, BasePcs
    <2> QED BY <1>1, <2>1, BaseReturns
  <1>6. ~IsBase => \A x \in 1 .. 2 : h[x] \in Off(task.scalars[x])
    <2> SUFFICES ASSUME ~IsBase PROVE \A x \in 1 .. 2 : h[x] \in Off(task.scalars[x])
      OBVIOUS
    <2>1. pc = "add" /\ i < 0
      BY <1>1 DEF Return, Types, SlidePcs
    <2> QED BY <1>1, <2>1, DoubleReturns
  <1>7. BaseInv'
    BY <1>1, <1>2, <1>5 DEF BaseInv, Carrying, AddingBase
  <1>8. Adding'
    BY <1>1, <1>2, <1>6 DEF Adding, SlidePcs
  <1> QED BY <1>3, <1>4, <1>7, <1>8 DEF IInv

(***************************************************************************)
(* Every step keeps it.                                                    *)
(***************************************************************************)
LEMMA NextIInv == IInv /\ [Next]_vars => IInv'
  <1> SUFFICES ASSUME IInv, [Next]_vars PROVE IInv'
    OBVIOUS
  <1>1. CASE UNCHANGED vars
    BY <1>1 DEF vars, IInv, Types, IsBase, BaseInv, Carrying, AddingBase, Recoded16, SlideInv,
                Adding, r, Slid
  <1>2. CASE Next
    BY <1>2, BaseNextIInv, SlideNextIInv, ReturnIInv DEF Next
  <1> QED BY <1>1, <1>2

(***************************************************************************)
(* The inductive invariant: the types; for ge_scalarmult_base, what the    *)
(* digits and the carry stand for and what is added up; for slide, what    *)
(* the final digits, the open window, the ripple and the bits above them   *)
(* stand for; and Horner's rule.                                           *)
(***************************************************************************)
THEOREM LaddersInvariant == Spec => []IInv
  BY InitIInv, NextIInv, PTL DEF Spec

(***************************************************************************)
(* The properties follow from it.                                          *)
(***************************************************************************)
LEMMA IInvImplies == IInv => Digits /\ LadderInvariant /\ Computes
  <1> SUFFICES ASSUME IInv PROVE Digits /\ LadderInvariant /\ Computes
    OBVIOUS
  <1>1. Types /\ BaseInv /\ SlideInv /\ Adding
    BY DEF IInv
  <1>2. Digits
    <2>1. ASSUME pc = "carry", i = 0
          PROVE  (\A j \in DigitPositions : e[j] \in 0 .. 15) /\ e[NumDigits - 1] \in 0 .. 7
      <3>1. \A j \in DigitPositions : ~ j < i
        BY <2>1, Shape
      <3> QED BY <1>1, <2>1, <3>1 DEF BaseInv, Carrying
    <2>2. ASSUME pc \in {"odd", "even"} PROVE Recoded16
      BY <1>1, <2>2 DEF BaseInv, AddingBase
    <2>3. ASSUME pc \in {"skip", "add"}
          PROVE  \A x \in 1 .. 2 : Slid(slides[x], task.scalars[x])
      BY <1>1, <2>3 DEF SlideInv
    <2>4. ASSUME pc \in {"skip", "add"}, NEW x \in 1 .. 2
          PROVE  /\ task.scalars[x] < Two[NumBits - 1] => SlideValue(slides[x]) = task.scalars[x]
                 /\ \A j \in Positions : SlideDigit(slides[x], j)
      BY <2>3, <2>4 DEF Slid, Off
    <2> QED BY <2>1, <2>2, <2>4 DEF Digits, Recoded16
  <1>3. LadderInvariant
    BY <1>1 DEF LadderInvariant, BaseInv, AddingBase, Adding
  <1>4. Computes
    <2>1. ASSUME pc = "done", ~IsBase, NEW x \in 1 .. 2, task.scalars[x] < Two[NumBits - 1]
          PROVE  h[x] = task.scalars[x]
      BY <1>1, <2>1 DEF Adding, Off
    <2> QED BY <1>1, <2>1 DEF Computes, BaseInv, AddingBase, IsBase
  <1> QED BY <1>2, <1>3, <1>4

(***************************************************************************)
(* The digits that toRadix16 and slide leave stay within the tables, for   *)
(* every number of bits and every scalar, and stand for one below 2^255.   *)
(***************************************************************************)
THEOREM LaddersDigits == Spec => []Digits
  BY LaddersInvariant, IInvImplies, PTL

(***************************************************************************)
(* At every turn h holds what has been added up.                           *)
(***************************************************************************)
THEOREM LaddersHorner == Spec => []LadderInvariant
  BY LaddersInvariant, IInvImplies, PTL

(***************************************************************************)
(* Both multiplications compute the multiples of every scalar below 2^255, *)
(* for every number of bits.                                               *)
(***************************************************************************)
THEOREM LaddersCompute == Spec => []Computes
  BY LaddersInvariant, IInvImplies, PTL
=============================================================================
