--------------------------- MODULE PointFormulas ---------------------------
(***************************************************************************)
(* The point formulas of ge.c and its ge_*.h, and of GroupElement.java, as *)
(* the sequences of calls of field functions they are.  A variable is the  *)
(* structure it belongs to and a coordinate; a formula is given the names  *)
(* of the structures it is called with.                                    *)
(***************************************************************************)
EXTENDS Sequences

\* h = f + g and so on; fe_sq2 is twice the square.
Call(fn, h, f, g)  == [fn |-> fn, h |-> h, f |-> f, g |-> g]
fe_add(h, f, g)    == Call("fe_add", h, f, g)
fe_sub(h, f, g)    == Call("fe_sub", h, f, g)
fe_mul(h, f, g)    == Call("fe_mul", h, f, g)
fe_sq(h, f)        == Call("fe_sq", h, f, f)
fe_sq2(h, f)       == Call("fe_sq2", h, f, f)
fe_neg(h, f)       == Call("fe_neg", h, f, f)
fe_copy(h, f)      == Call("fe_copy", h, f, f)
fe_invert(h, f)    == Call("fe_invert", h, f, f)
fe_pow22523(h, f)  == Call("fe_pow22523", h, f, f)

X(s) == <<s, "X">>
Y(s) == <<s, "Y">>
Z(s) == <<s, "Z">>
T(s) == <<s, "T">>
YplusX(s)  == <<s, "YplusX">>
YminusX(s) == <<s, "YminusX">>
T2d(s)     == <<s, "T2d">>
xy2d(s)    == <<s, "xy2d">>
Local(v)   == <<"local", v>>
t0 == Local("t0")
d  == <<"constant", "d">>
d2 == <<"constant", "d2">>
one == <<"constant", "1">>
sqrtm1 == <<"constant", "sqrtm1">>

-----------------------------------------------------------------------------
(* ge.c.  A ge_precomp has y+x and y-x in YplusX and YminusX. *)

ge_add(r, p, q) ==
  << fe_add(X(r), Y(p), X(p)),
     fe_sub(Y(r), Y(p), X(p)),
     fe_mul(Z(r), X(r), YplusX(q)),
     fe_mul(Y(r), Y(r), YminusX(q)),
     fe_mul(T(r), T2d(q), T(p)),
     fe_mul(X(r), Z(p), Z(q)),
     fe_add(t0, X(r), X(r)),
     fe_sub(X(r), Z(r), Y(r)),
     fe_add(Y(r), Z(r), Y(r)),
     fe_add(Z(r), t0, T(r)),
     fe_sub(T(r), t0, T(r)) >>

ge_sub(r, p, q) ==
  << fe_add(X(r), Y(p), X(p)),
     fe_sub(Y(r), Y(p), X(p)),
     fe_mul(Z(r), X(r), YminusX(q)),
     fe_mul(Y(r), Y(r), YplusX(q)),
     fe_mul(T(r), T2d(q), T(p)),
     fe_mul(X(r), Z(p), Z(q)),
     fe_add(t0, X(r), X(r)),
     fe_sub(X(r), Z(r), Y(r)),
     fe_add(Y(r), Z(r), Y(r)),
     fe_sub(Z(r), t0, T(r)),
     fe_add(T(r), t0, T(r)) >>

ge_madd(r, p, q) ==
  << fe_add(X(r), Y(p), X(p)),
     fe_sub(Y(r), Y(p), X(p)),
     fe_mul(Z(r), X(r), YplusX(q)),
     fe_mul(Y(r), Y(r), YminusX(q)),
     fe_mul(T(r), xy2d(q), T(p)),
     fe_add(t0, Z(p), Z(p)),
     fe_sub(X(r), Z(r), Y(r)),
     fe_add(Y(r), Z(r), Y(r)),
     fe_add(Z(r), t0, T(r)),
     fe_sub(T(r), t0, T(r)) >>

\* Mutant of ge_msub: the last two lines are those of ge_madd.
ge_msubUnswapped(r, p, q) ==
  << fe_add(X(r), Y(p), X(p)),
     fe_sub(Y(r), Y(p), X(p)),
     fe_mul(Z(r), X(r), YminusX(q)),
     fe_mul(Y(r), Y(r), YplusX(q)),
     fe_mul(T(r), xy2d(q), T(p)),
     fe_add(t0, Z(p), Z(p)),
     fe_sub(X(r), Z(r), Y(r)),
     fe_add(Y(r), Z(r), Y(r)),
     fe_add(Z(r), t0, T(r)),
     fe_sub(T(r), t0, T(r)) >>

ge_msub(r, p, q) ==
  << fe_add(X(r), Y(p), X(p)),
     fe_sub(Y(r), Y(p), X(p)),
     fe_mul(Z(r), X(r), YminusX(q)),
     fe_mul(Y(r), Y(r), YplusX(q)),
     fe_mul(T(r), xy2d(q), T(p)),
     fe_add(t0, Z(p), Z(p)),
     fe_sub(X(r), Z(r), Y(r)),
     fe_add(Y(r), Z(r), Y(r)),
     fe_sub(Z(r), t0, T(r)),
     fe_add(T(r), t0, T(r)) >>

\* Mutant of ge_p2_dbl: the double of Z^2 is made by adding.
ge_p2_dblAdding(r, p) ==
  << fe_sq(X(r), X(p)),
     fe_sq(Z(r), Y(p)),
     fe_sq(T(r), Z(p)),
     fe_add(T(r), T(r), T(r)),
     fe_add(Y(r), X(p), Y(p)),
     fe_sq(t0, Y(r)),
     fe_add(Y(r), Z(r), X(r)),
     fe_sub(Z(r), Z(r), X(r)),
     fe_sub(X(r), t0, Y(r)),
     fe_sub(T(r), T(r), Z(r)) >>

ge_p2_dbl(r, p) ==
  << fe_sq(X(r), X(p)),
     fe_sq(Z(r), Y(p)),
     fe_sq2(T(r), Z(p)),
     fe_add(Y(r), X(p), Y(p)),
     fe_sq(t0, Y(r)),
     fe_add(Y(r), Z(r), X(r)),
     fe_sub(Z(r), Z(r), X(r)),
     fe_sub(X(r), t0, Y(r)),
     fe_sub(T(r), T(r), Z(r)) >>

ge_p1p1_to_p2(r, p) ==
  << fe_mul(X(r), X(p), T(p)),
     fe_mul(Y(r), Y(p), Z(p)),
     fe_mul(Z(r), Z(p), T(p)) >>

ge_p1p1_to_p3(r, p) ==
  ge_p1p1_to_p2(r, p) \o << fe_mul(T(r), X(p), Y(p)) >>

ge_p3_to_p2(r, p) ==
  << fe_copy(X(r), X(p)), fe_copy(Y(r), Y(p)), fe_copy(Z(r), Z(p)) >>

ge_p3_to_cached(r, p) ==
  << fe_add(YplusX(r), Y(p), X(p)),
     fe_sub(YminusX(r), Y(p), X(p)),
     fe_copy(Z(r), Z(p)),
     fe_mul(T2d(r), T(p), d2) >>

\* The scratch structure q of ge_p3_dbl.
ge_p3_dbl(r, p) == ge_p3_to_p2("dbl", p) \o ge_p2_dbl(r, "dbl")

\* select's minust, the negative of a table entry.
minust(r, q) ==
  << fe_copy(YplusX(r), YminusX(q)),
     fe_copy(YminusX(r), YplusX(q)),
     fe_neg(xy2d(r), xy2d(q)) >>

\* ge_tobytes and ge_p3_tobytes, up to the affine coordinates.
ge_tobytes(x, y, h) ==
  << fe_invert(Local("recip"), Z(h)),
     fe_mul(x, X(h), Local("recip")),
     fe_mul(y, Y(h), Local("recip")) >>

\* ge_frombytes_negate_vartime: up to the first test, ...
Candidate(h) ==
  << fe_copy(Z(h), one),
     fe_sq(Local("u"), Y(h)),
     fe_mul(Local("v"), Local("u"), d),
     fe_sub(Local("u"), Local("u"), Z(h)),
     fe_add(Local("v"), Local("v"), Z(h)),
     fe_sq(Local("v3"), Local("v")),
     fe_mul(Local("v3"), Local("v3"), Local("v")),
     fe_sq(X(h), Local("v3")),
     fe_mul(X(h), X(h), Local("v")),
     fe_mul(X(h), X(h), Local("u")),
     fe_pow22523(X(h), X(h)),
     fe_mul(X(h), X(h), Local("v3")),
     fe_mul(X(h), X(h), Local("u")),
     fe_sq(Local("vxx"), X(h)),
     fe_mul(Local("vxx"), Local("vxx"), Local("v")),
     fe_sub(Local("check"), Local("vxx"), Local("u")) >>

\* ... between the tests, ...
Alternative == << fe_add(Local("check"), Local("vxx"), Local("u")) >>

\* ... when the second fails, before the sign is right, and at the end.
Rotate(h) == << fe_mul(X(h), X(h), sqrtm1) >>
Flip(h)   == << fe_neg(X(h), X(h)) >>
Finish(h) == << fe_mul(T(h), X(h), Y(h)) >>

-----------------------------------------------------------------------------
(* GroupElement.java: new variables for new values, a P1P1 at the end, and *)
(* PRECOMP entries made from any point.                                    *)

A   == Local("A")
B   == Local("B")
C   == Local("C")
D   == Local("D")
YpX == Local("YpX")
YmX == Local("YmX")
ZZ  == Local("ZZ")

Sums(p) == << fe_add(YpX, Y(p), X(p)), fe_sub(YmX, Y(p), X(p)) >>

\* p1p1(A - B, A + B, D + C, D - C), and with D - C, D + C.
Plus(r)  == << fe_sub(X(r), A, B), fe_add(Y(r), A, B),
               fe_add(Z(r), D, C), fe_sub(T(r), D, C) >>
Minus(r) == << fe_sub(X(r), A, B), fe_add(Y(r), A, B),
               fe_sub(Z(r), D, C), fe_add(T(r), D, C) >>

Doubled(z) == << fe_add(D, z, z) >>

madd(r, p, q) ==
  Sums(p) \o << fe_mul(A, YpX, YplusX(q)), fe_mul(B, YmX, YminusX(q)),
                fe_mul(C, xy2d(q), T(p)) >> \o Doubled(Z(p)) \o Plus(r)

msub(r, p, q) ==
  Sums(p) \o << fe_mul(A, YpX, YminusX(q)), fe_mul(B, YmX, YplusX(q)),
                fe_mul(C, xy2d(q), T(p)) >> \o Doubled(Z(p)) \o Minus(r)

add(r, p, q) ==
  Sums(p) \o << fe_mul(A, YpX, YplusX(q)), fe_mul(B, YmX, YminusX(q)),
                fe_mul(C, T2d(q), T(p)), fe_mul(ZZ, Z(p), Z(q)) >>
          \o Doubled(ZZ) \o Plus(r)

sub(r, p, q) ==
  Sums(p) \o << fe_mul(A, YpX, YminusX(q)), fe_mul(B, YmX, YplusX(q)),
                fe_mul(C, T2d(q), T(p)), fe_mul(ZZ, Z(p), Z(q)) >>
          \o Doubled(ZZ) \o Minus(r)

dbl(r, p) ==
  << fe_sq(Local("XX"), X(p)), fe_sq(Local("YY"), Y(p)), fe_sq2(B, Z(p)),
     fe_add(A, X(p), Y(p)), fe_sq(Local("AA"), A),
     fe_add(Y(r), Local("YY"), Local("XX")), fe_sub(Z(r), Local("YY"), Local("XX")),
     fe_sub(X(r), Local("AA"), Y(r)), fe_sub(T(r), B, Z(r)) >>

\* toRep: P3 to CACHED, P1P1 to P3.
toCached(r, p) ==
  << fe_add(YplusX(r), Y(p), X(p)), fe_sub(YminusX(r), Y(p), X(p)),
     fe_copy(Z(r), Z(p)), fe_mul(T2d(r), T(p), d2) >>

toP3(r, p) ==
  << fe_mul(X(r), X(p), T(p)), fe_mul(Y(r), Y(p), Z(p)),
     fe_mul(Z(r), Z(p), T(p)), fe_mul(T(r), X(p), Y(p)) >>

\* The entry of precompute for a point: y + x, y - x, x * y * 2d.
precomp(r, p) ==
  << fe_invert(Local("recip"), Z(p)),
     fe_mul(Local("x"), X(p), Local("recip")), fe_mul(Local("y"), Y(p), Local("recip")),
     fe_add(YplusX(r), Local("y"), Local("x")), fe_sub(YminusX(r), Local("y"), Local("x")),
     fe_mul(Local("xy"), Local("x"), Local("y")), fe_mul(xy2d(r), Local("xy"), d2) >>

\* negate: the neutral element minus this.
negate(r, p) == toCached("cached", p) \o sub("p1p1", "zero", "cached") \o toP3(r, "p1p1")
=============================================================================
