------------------------------ MODULE CurveOps ------------------------------
(***************************************************************************)
(* crypto/crypto-ops.c: the arithmetic of points and scalars under every   *)
(* key, key image and ring signature, over a small curve of the same       *)
(* family.  The field is the integers modulo P; the ten limbs of a field   *)
(* element and the twelve of a scalar, their carries and the reductions of *)
(* the limb arithmetic are left out.  What is checked is everything built  *)
(* on that: the formulas for points, the recoding of scalars, the window   *)
(* methods, decoding with its square root, the map from hashes to points,  *)
(* and the addition chains, which are those of the real field and order.   *)
(***************************************************************************)
EXTENDS Integers, Sequences

CONSTANTS P, A,       \* the field, and the curve v^2 = u^3 + A u^2 + u
          Ell,        \* the order of the base point
          Base,       \* the base point
          Bytes,      \* bytes of a scalar
          TopBits     \* bits of the encoding of a coordinate

(***************************************************************************)
(* The field                                                               *)
(***************************************************************************)
Fe == 0 .. P - 1

\* Op(... Op(Op(start, 1), 2) ..., n)
Iterate(Op(_, _), start, n) ==
    LET f[i \in 0 .. n] == IF i = 0 THEN start ELSE Op(f[i - 1], i) IN f[n]

fe_add(f, g) == (f + g) % P
fe_sub(f, g) == (f - g) % P
fe_mul(f, g) == (f * g) % P
fe_neg(f) == (-f) % P
fe_sq(f) == (f * f) % P
fe_sq2(f) == (2 * f * f) % P
fe_tobytes(f) == f % P
fe_isnegative(f) == fe_tobytes(f) % 2
fe_isnonzero(f) == fe_tobytes(f) # 0
fe_cmov(f, g, b) == IF b = 1 THEN g ELSE f

Pow(z, n) ==
    LET f[k \in 0 .. n] ==
            IF k = 0 THEN 1
            ELSE LET half == f[k \div 2] IN
                 (half * half * (IF k % 2 = 1 THEN z ELSE 1)) % P IN
    f[n]
fe_invert(z) == Pow(z, P - 2)
\* u v^3 (u v^7)^((P-5)/8)
fe_divpowm1(u, v) == fe_mul(fe_mul(Pow(fe_mul(u, Pow(v, 7)), (P - 5) \div 8), Pow(v, 3)), u)

\* the even square root
Root(x) == CHOOSE y \in Fe : y % 2 = 0 /\ fe_sq(y) = x % P
fe_d == fe_mul(2 - A, fe_invert(A + 2))
fe_d2 == fe_mul(2, fe_d)
fe_sqrtm1 == Root(-1)
fe_ma == fe_neg(A)
fe_ma2 == fe_neg(A * A)
fe_fffb1 == Root(-2 * A * (A + 2))
fe_fffb2 == Root(2 * A * (A + 2))
fe_fffb3 == Root(-fe_sqrtm1 * A * (A + 2))
fe_fffb4 == Root(fe_sqrtm1 * A * (A + 2))

OnCurve(q) == fe_sub(fe_sq(q[2]), fe_sq(q[1])) = fe_add(1, fe_mul(fe_d, fe_mul(fe_sq(q[1]), fe_sq(q[2]))))
Curve == {q \in Fe \X Fe : OnCurve(q)}

CurveAssumption == P % 8 = 5 /\ Base \in Curve /\ Bytes > 1 /\ 2 ^ TopBits >= P

(***************************************************************************)
(* Points                                                                  *)
(***************************************************************************)
ge_p2_0 == [X |-> 0, Y |-> 1, Z |-> 1]
ge_p3_0 == [X |-> 0, Y |-> 1, Z |-> 1, T |-> 0]
ge_precomp_0 == [yplusx |-> 1, yminusx |-> 1, xy2d |-> 0]
ge_cached_0 == [YplusX |-> 1, YminusX |-> 1, Z |-> 1, T2d |-> 0]

ge_p1p1_to_p2(p) == [X |-> fe_mul(p.X, p.T), Y |-> fe_mul(p.Y, p.Z), Z |-> fe_mul(p.Z, p.T)]
ge_p1p1_to_p3(p) == [X |-> fe_mul(p.X, p.T), Y |-> fe_mul(p.Y, p.Z), Z |-> fe_mul(p.Z, p.T),
                     T |-> fe_mul(p.X, p.Y)]
ge_p3_to_p2(p) == [X |-> p.X, Y |-> p.Y, Z |-> p.Z]
ge_p3_to_cached(p) == [YplusX |-> fe_add(p.Y, p.X), YminusX |-> fe_sub(p.Y, p.X), Z |-> p.Z,
                       T2d |-> fe_mul(p.T, fe_d2)]

\* The common part of the four additions: zz is twice the product of the Zs
Sum(p, zz, plus, minus, t2d) ==
    LET a == fe_mul(fe_add(p.Y, p.X), plus)
        b == fe_mul(fe_sub(p.Y, p.X), minus)
        c == fe_mul(t2d, p.T) IN
    [X |-> fe_sub(a, b), Y |-> fe_add(a, b), Z |-> fe_add(zz, c), T |-> fe_sub(zz, c)]

Negated(r) == [r EXCEPT !.Z = r.T, !.T = r.Z]

ge_add(p, q) == Sum(p, fe_mul(2, fe_mul(p.Z, q.Z)), q.YplusX, q.YminusX, q.T2d)
ge_sub(p, q) == Negated(Sum(p, fe_mul(2, fe_mul(p.Z, q.Z)), q.YminusX, q.YplusX, q.T2d))
ge_madd(p, q) == Sum(p, fe_add(p.Z, p.Z), q.yplusx, q.yminusx, q.xy2d)
ge_msub(p, q) == Negated(Sum(p, fe_add(p.Z, p.Z), q.yminusx, q.yplusx, q.xy2d))

ge_p2_dbl(p) ==
    LET xx == fe_sq(p.X)
        yy == fe_sq(p.Y)
        s == fe_sq(fe_add(p.X, p.Y)) IN
    [X |-> fe_sub(s, fe_add(yy, xx)), Y |-> fe_add(yy, xx), Z |-> fe_sub(yy, xx),
     T |-> fe_sub(fe_sq2(p.Z), fe_sub(yy, xx))]
ge_p3_dbl(p) == ge_p2_dbl(ge_p3_to_p2(p))

\* n doublings
Doubled(p, n) == Iterate(LAMBDA r, i : ge_p1p1_to_p2(ge_p2_dbl(r)), p, n)
ge_mul8(t) == ge_p2_dbl(Doubled(t, 2))

Affine(p) == <<fe_mul(p.X, fe_invert(p.Z)), fe_mul(p.Y, fe_invert(p.Z))>>
ge_tobytes(p) == <<fe_tobytes(Affine(p)[2]), fe_isnegative(Affine(p)[1])>>
ge_p3_tobytes(p) == ge_tobytes(ge_p3_to_p2(p))

\* Bytes to a point, or Bad
Bad == [X |-> -1, Y |-> -1, Z |-> -1, T |-> -1]

ge_frombytes_vartime(s) ==
    LET y == s[1]
        u == fe_sub(fe_sq(y), 1)
        v == fe_add(fe_mul(fe_d, fe_sq(y)), 1)
        r == fe_divpowm1(u, v)
        vxx == fe_mul(fe_sq(r), v)
        x == IF fe_isnonzero(fe_sub(vxx, u)) THEN fe_mul(r, fe_sqrtm1) ELSE r
        signed == IF fe_isnegative(x) # s[2] THEN fe_neg(x) ELSE x IN
    IF \/ y >= P
       \/ fe_isnonzero(fe_sub(vxx, u)) /\ fe_isnonzero(fe_add(vxx, u))
       \/ fe_isnegative(x) # s[2] /\ ~fe_isnonzero(x)
    THEN Bad
    ELSE [X |-> signed, Y |-> y, Z |-> 1, T |-> fe_mul(signed, y)]

(***************************************************************************)
(* Scalars                                                                 *)
(***************************************************************************)
Number(a, radix) == Iterate(LAMBDA n, i : n * radix + a[Len(a) + 1 - i], 0, Len(a))
Value(a) == Number(a, 256)
Bits == 8 * Bytes

signum(n) == IF n > 0 THEN 1 ELSE IF n < 0 THEN -1 ELSE 0
\* words and order from the lowest; the greatest order wins
sc_isvalid_vartime(s, last) ==
    Iterate(LAMBDA n, i : n + signum(last[i] - s[i]) * 2 ^ (i - 1), 0, Len(s)) >= 0

\* Signed digits of a, odd and small, few of them not zero
Carried(r, k) ==
    LET zeros == {j \in k .. Bits : r[j] = 0}
        stop == IF zeros = {} THEN Bits + 1 ELSE CHOOSE j \in zeros : \A o \in zeros : j <= o IN
    SubSeq(r, 1, k - 1) \o [j \in 1 .. stop - k |-> 0]
        \o (IF stop <= Bits THEN <<1>> ELSE <<>>) \o SubSeq(r, stop + 1, Bits)

Merged(st, i, b) ==
    LET r == st.r
        up == r[i + b] * 2 ^ b IN
    IF st.stopped \/ r[i + b] = 0 THEN st
    ELSE IF r[i] + up <= 15 THEN [st EXCEPT !.r = [r EXCEPT ![i] = @ + up, ![i + b] = 0]]
    ELSE IF r[i] - up >= -15 THEN [st EXCEPT !.r = Carried([r EXCEPT ![i] = @ - up], i + b)]
    ELSE [st EXCEPT !.stopped = TRUE]

slide(a) ==
    LET bit(i) == (a[((i - 1) \div 8) + 1] \div 2 ^ ((i - 1) % 8)) % 2
        bits == SubSeq([i \in 1 .. Bits |-> bit(i)], 1, Bits)
        Window(r, i) ==
            IF r[i] = 0 THEN r
            ELSE Iterate(LAMBDA st, b : Merged(st, i, b), [r |-> r, stopped |-> FALSE],
                         IF i + 6 <= Bits THEN 6 ELSE Bits - i).r IN
    Iterate(Window, bits, Bits)

\* Signed digits of radix 16, the lowest first
Radix16(a) ==
    LET nibble(i) == (a[(i + 1) \div 2] \div (IF i % 2 = 1 THEN 1 ELSE 16)) % 16
        Step(st, i) ==
            LET d == nibble(i) + st.carry
                c == IF i < 2 * Bytes THEN (d + 8) \div 16 ELSE 0 IN
            [e |-> Append(st.e, d - 16 * c), carry |-> c] IN
    Iterate(Step, [e |-> <<>>, carry |-> 0], 2 * Bytes).e

(***************************************************************************)
(* Multiples of points                                                     *)
(***************************************************************************)
equal(b, c) == IF b = c THEN 1 ELSE 0
negative(b) == IF b < 0 THEN 1 ELSE 0
Abs(b) == IF b < 0 THEN -b ELSE b

P3(q) == [X |-> q[1], Y |-> q[2], Z |-> 1, T |-> fe_mul(q[1], q[2])]

\* A, 2A, ..., 8A
Multiples(p) ==
    Iterate(LAMBDA Ai, i : Append(Ai, ge_p3_to_cached(ge_p1p1_to_p3(ge_add(p, Ai[i])))),
            <<ge_p3_to_cached(p)>>, 7)

ge_cached_cmov(t, u, b) ==
    [YplusX |-> fe_cmov(t.YplusX, u.YplusX, b), YminusX |-> fe_cmov(t.YminusX, u.YminusX, b),
     Z |-> fe_cmov(t.Z, u.Z, b), T2d |-> fe_cmov(t.T2d, u.T2d, b)]

ge_scalarmult(a, p) ==
    LET Ai == Multiples(p)
        e == Radix16(a)
        Chosen(b) ==
            LET cur == Iterate(LAMBDA t, j : ge_cached_cmov(t, Ai[j], equal(Abs(b), j)), ge_cached_0, 8)
                minuscur == [cur EXCEPT !.YplusX = cur.YminusX, !.YminusX = cur.YplusX,
                                        !.T2d = fe_neg(@)] IN
            ge_cached_cmov(cur, minuscur, negative(b))
        Digit(r, i) == ge_p1p1_to_p2(ge_add(ge_p1p1_to_p3(ge_p2_dbl(Doubled(r, 3))),
                                            Chosen(e[2 * Bytes + 1 - i]))) IN
    Iterate(Digit, ge_p2_0, 2 * Bytes)

\* The group law, and multiples by it
Plus(q, r) ==
    LET k == fe_mul(fe_d, fe_mul(fe_mul(q[1], q[2]), fe_mul(r[1], r[2]))) IN
    <<fe_mul(fe_add(fe_mul(q[1], r[2]), fe_mul(q[2], r[1])), fe_invert(fe_add(1, k))),
      fe_mul(fe_add(fe_mul(q[2], r[2]), fe_mul(q[1], r[1])), fe_invert(fe_sub(1, k)))>>
Times(n, q) ==
    LET f[k \in 0 .. 8 * Ell] ==
            IF k = 0 THEN <<0, 1>>
            ELSE LET half == f[k \div 2]
                     even == Plus(half, half) IN
                 IF k % 2 = 0 THEN even ELSE Plus(even, q) IN
    f[n % (8 * Ell)]

Precomp(q) == [yplusx |-> fe_add(q[2], q[1]), yminusx |-> fe_sub(q[2], q[1]),
               xy2d |-> fe_mul(fe_d2, fe_mul(q[1], q[2]))]
\* tables: (j+1) 256^i B, and B, 3B, ..., 15B
ge_base(i, j) == Precomp(Times((j * 256 ^ i) % (8 * Ell), Base))
ge_Bi(k) == Precomp(Times(2 * k + 1, Base))

ge_precomp_cmov(t, u, b) ==
    [yplusx |-> fe_cmov(t.yplusx, u.yplusx, b), yminusx |-> fe_cmov(t.yminusx, u.yminusx, b),
     xy2d |-> fe_cmov(t.xy2d, u.xy2d, b)]
select(pos, b) ==
    LET t == Iterate(LAMBDA u, j : ge_precomp_cmov(u, ge_base(pos, j), equal(Abs(b), j)), ge_precomp_0, 8)
        minust == [yplusx |-> t.yminusx, yminusx |-> t.yplusx, xy2d |-> fe_neg(t.xy2d)] IN
    ge_precomp_cmov(t, minust, negative(b))

\* the digits at odd places, four doublings, the digits at even places
ge_scalarmult_base(a) ==
    LET e == Radix16(a)
        AddDigit(h, k) == ge_p1p1_to_p3(ge_madd(h, select((k - 1) \div 2, e[k])))
        high == Iterate(LAMBDA h, i : AddDigit(h, 2 * i), ge_p3_0, Bytes)
        moved == ge_p1p1_to_p3(ge_p2_dbl(Doubled(ge_p3_to_p2(high), 3))) IN
    Iterate(LAMBDA h, i : AddDigit(h, 2 * i - 1), moved, Bytes)

\* A, 3A, ..., 15A
ge_dsm_precomp(s) ==
    LET s2 == ge_p1p1_to_p3(ge_p3_dbl(s)) IN
    Iterate(LAMBDA r, i : Append(r, ge_p3_to_cached(ge_p1p1_to_p3(ge_add(s2, r[i])))),
            <<ge_p3_to_cached(s)>>, 7)

\* t plus or minus the multiple of a point that digit b asks for
AddMultiple(t, b, Ai) ==
    IF b = 0 THEN t
    ELSE IF b > 0 THEN ge_add(ge_p1p1_to_p3(t), Ai[(b \div 2) + 1])
    ELSE ge_sub(ge_p1p1_to_p3(t), Ai[((-b) \div 2) + 1])
AddBase(t, b) ==
    IF b = 0 THEN t
    ELSE IF b > 0 THEN ge_madd(ge_p1p1_to_p3(t), ge_Bi(b \div 2))
    ELSE ge_msub(ge_p1p1_to_p3(t), ge_Bi((-b) \div 2))

\* One digit of each scalar, from the highest: the code starts at the first that
\* is not zero, before which the sum is the neutral element
ge_double_scalarmult_precomp_vartime(r, a, Ai, b, Bi) ==
    ge_p1p1_to_p2(AddMultiple(AddMultiple(ge_p2_dbl(r), a, Ai), b, Bi))
ge_double_scalarmult_base_vartime(r, a, Ai, b) ==
    ge_p1p1_to_p2(AddBase(AddMultiple(ge_p2_dbl(r), a, Ai), b))

(***************************************************************************)
(* The order of the base point, written out as a chain of doublings and of *)
(* additions of digit times the point                                      *)
(***************************************************************************)
chain_head == << <<0, 15>>, <<0, 1>> >>
chain_gap == 126
chain_high == << <<chain_gap, 5>>, <<5, 7>>, <<5, -1>>, <<7, -3>>, <<4, -1>>, <<8, -11>>, <<5, 3>>,
                 <<5, -1>>, <<6, -3>>, <<7, -13>> >>
chain_low == << <<5, 11>>, <<6, 11>>, <<10, 9>>, <<4, 3>>, <<5, 3>>, <<7, 13>>, <<4, 3>>, <<5, -3>>,
                <<7, -5>>, <<7, -11>>, <<8, -5>>, <<2, 1>> >>
Chain25519 == chain_head \o chain_high \o chain_low

Moved(s, n) == IF n = 0 THEN s ELSE ge_p1p1_to_p3(ge_p2_dbl(Doubled(ge_p3_to_p2(s), n - 1)))

\* not zero unless the chain brings the point to the neutral element
ge_check_subgroup_precomp_vartime(p, chain) ==
    LET Add(s, c) == IF c[2] > 0 THEN ge_add(Moved(s, c[1]), p[(c[2] \div 2) + 1])
                     ELSE ge_sub(Moved(s, c[1]), p[((-c[2]) \div 2) + 1])
        s == Iterate(LAMBDA r, i : ge_p1p1_to_p3(Add(r, chain[i])), ge_p3_0, Len(chain) - 1)
        t == Add(s, chain[Len(chain)]) IN
    fe_isnonzero(fe_sub(t.Y, t.T))

(***************************************************************************)
(* Points from hashes                                                      *)
(***************************************************************************)
ge_fromfe_frombytes_vartime(s) ==
    LET u == s % P
        v == fe_sq2(u)
        w == fe_add(v, 1)
        x == fe_add(fe_sq(w), fe_mul(fe_ma2, v))
        r == fe_divpowm1(w, x)
        y == fe_mul(fe_sq(r), x)
        square == y = w
        minus == ~square /\ fe_add(w, y) = 0
        yi == fe_mul(y, fe_sqrtm1)
        X == IF square THEN fe_mul(fe_mul(r, fe_fffb2), u)
             ELSE IF minus THEN fe_mul(fe_mul(r, fe_fffb1), u)
             ELSE IF yi = w THEN fe_mul(r, fe_fffb4) ELSE fe_mul(r, fe_fffb3)
        z == IF square \/ minus THEN fe_mul(fe_ma, v) ELSE fe_ma
        sign == IF square \/ minus THEN 0 ELSE 1
        signed == IF fe_isnegative(X) # sign THEN fe_neg(X) ELSE X IN
    [asserts |-> /\ square \/ minus \/ yi = w \/ fe_add(w, yi) = 0
                 /\ fe_isnegative(X) # sign => fe_isnonzero(X),
     p |-> [X |-> fe_mul(signed, fe_add(z, w)), Y |-> fe_sub(z, w), Z |-> fe_add(z, w)]]

(***************************************************************************)
(* Addition chains for powers in the real field: exponents modulo m        *)
(***************************************************************************)
\* n squarings double the exponent n times
Twice(e, n, m) == (e * Iterate(LAMBDA r, i : (r * 1024) % m, 2 ^ (n % 10), n \div 10)) % m
Joined(e, n, m) == (Twice(e, n, m) + e) % m

\* the powers 9, 11 and 31 that both chains begin with
z9 == 2 * 2 * 2 + 1
z11 == 2 + z9
z31 == z9 + 2 * z11

\* 2^250 - 1
Ones250(m) ==
    LET t10 == Joined(z31, 5, m)
        t20 == Joined(t10, 10, m)
        t50 == (Twice(Joined(t20, 20, m), 10, m) + t10) % m
        t100 == Joined(t50, 50, m) IN
    (Twice(Joined(t100, 100, m), 50, m) + t50) % m
invert_exponent(m) == (Twice(Ones250(m), 5, m) + z11) % m
pow22523_exponent(m) == (Twice(Ones250(m), 2, m) + 1) % m
chain_multiple(m) == Iterate(LAMBDA e, i : (Twice(e, Chain25519[i][1], m) + Chain25519[i][2]) % m, 0, Len(Chain25519))

\* the last valid scalar, in words of 16 bits
LastValid == <<54252, 23797, 25370, 22546, 40150, 41719, 63966, 5342, 0, 0, 0, 0, 0, 0, 0, 4096>>

(***************************************************************************)
(* One computation                                                         *)
(***************************************************************************)
VARIABLES job, result
vars == <<job, result>>

\* p in coordinates with Z = z
Scaled(q, z) == [X |-> fe_mul(q[1], z), Y |-> fe_mul(q[2], z), Z |-> z,
                 T |-> fe_mul(fe_mul(q[1], q[2]), z)]
Result(r) == result = <<>> /\ result' = r /\ UNCHANGED job
P2(t) == Affine(ge_p1p1_to_p2(t))

\* jobs: the computations to do, <<kind, arguments...>>
Init(jobs) == job \in jobs /\ result = <<>>

Add ==
    /\ job[1] = "add"
    /\ LET p == Scaled(job[2], job[4])
           q == ge_p3_to_cached(Scaled(job[3], job[5])) IN
       Result([add |-> P2(ge_add(p, q)), sub |-> P2(ge_sub(p, q)),
               madd |-> P2(ge_madd(p, Precomp(job[3]))), msub |-> P2(ge_msub(p, Precomp(job[3]))),
               dbl |-> P2(ge_p3_dbl(p)), mul8 |-> P2(ge_mul8(ge_p3_to_p2(p))),
               t |-> ge_p1p1_to_p3(ge_add(p, q))])
Multiply ==
    /\ job[1] = "multiply"
    /\ Result([point |-> ge_scalarmult(job[2], P3(job[3])), base |-> ge_p3_to_p2(ge_scalarmult_base(job[2]))])
Slide ==
    /\ job[1] = "two"
    /\ Result([i |-> Bits, aslide |-> slide(job[2]), bslide |-> slide(job[4]),
               Ai |-> ge_dsm_precomp(P3(job[3])), Bi |-> ge_dsm_precomp(P3(job[5])),
               point |-> ge_p2_0, base |-> ge_p2_0])
MultiplyTwo ==
    /\ job[1] = "two" /\ result # <<>> /\ result.i > 0
    /\ LET a == result.aslide[result.i]
           b == result.bslide[result.i] IN
       result' = [result EXCEPT !.i = @ - 1,
                                !.point = ge_double_scalarmult_precomp_vartime(@, a, result.Ai, b, result.Bi),
                                !.base = ge_double_scalarmult_base_vartime(@, a, result.Ai, b)]
    /\ UNCHANGED job
Decode == job[1] = "decode" /\ Result(<<ge_frombytes_vartime(job[2])>>)
Hash == job[1] = "hash" /\ Result(ge_fromfe_frombytes_vartime(job[2]))
CheckSubgroup ==
    /\ job[1] = "subgroup"
    /\ Result(<<ge_check_subgroup_precomp_vartime(ge_dsm_precomp(P3(job[2])), job[3])>>)
Chains ==
    /\ job[1] = "chains"
    /\ Result([invert |-> invert_exponent(job[2]), pow |-> pow22523_exponent(job[2]),
               order |-> chain_multiple(job[2])])
Validate == job[1] = "valid" /\ Result(<<sc_isvalid_vartime(job[2], job[3])>>)

Next == Add \/ Multiply \/ Slide \/ MultiplyTwo \/ Decode \/ Hash \/ CheckSubgroup \/ Chains \/ Validate

(***************************************************************************)
(* Properties                                                              *)
(***************************************************************************)
Done(kind) == job[1] = kind /\ result # <<>>
Minus(q) == <<fe_neg(q[1]), q[2]>>

\* The four additions and the doubling are the group law for all points, equal,
\* opposite, neutral and of small order too, in all their representations:
\* the formulas need no special cases.
GroupLaw ==
    Done("add") =>
        LET q == job[2]
            r == job[3] IN
        /\ result.add = Plus(q, r) /\ result.madd = Plus(q, r)
        /\ result.sub = Plus(q, Minus(r)) /\ result.msub = Plus(q, Minus(r))
        /\ result.dbl = Plus(q, q) /\ result.mul8 = Times(8, q)
        /\ fe_mul(result.t.T, result.t.Z) = fe_mul(result.t.X, result.t.Y)

\* The window methods compute the multiples they are named for, for scalars of
\* the size the code admits, also when a carry runs through all digits.
MultiplesExact ==
    /\ Done("multiply") => /\ Affine(result.point) = Times(Value(job[2]), job[3])
                           /\ Affine(result.base) = Times(Value(job[2]), Base)
    /\ Done("two") /\ result.i = 0 =>
        LET part == Times(Value(job[2]), job[3]) IN
        /\ Affine(result.point) = Plus(part, Times(Value(job[4]), job[5]))
        /\ Affine(result.base) = Plus(part, Times(Value(job[4]), Base))

\* Decoding accepts exactly the encodings that encoding makes, and returns the
\* point they were made from: no point has two encodings, which would make two
\* key images of one.
EncodingUnique ==
    Done("decode") =>
        LET made == {q \in Curve : ge_p3_tobytes(Scaled(q, 3)) = job[2]} IN
        IF made = {} THEN result[1] = Bad
        ELSE /\ result[1] # Bad
             /\ made = {Affine(result[1])}
             /\ result[1].T = fe_mul(result[1].X, result[1].Y)

\* Every hash is mapped to a point of the curve, and the assertions in the map
\* hold for every input.
HashOnCurve ==
    Done("hash") => result.asserts /\ result.p.Z # 0 /\ OnCurve(Affine(result.p))

\* The subgroup check accepts a point exactly if it is a multiple of the base
\* point: points with a part of small order, with which a key image could be
\* made to look new, are refused.
SubgroupExact ==
    Done("subgroup") => result[1] = (job[2] \notin {Times(n, Base) : n \in 0 .. Ell - 1})

\* The unrolled chains are those of the real field and order: the inverse is
\* the power 2^255 - 21, the root the power 2^252 - 3, and the subgroup check
\* multiplies by one more than the last scalar that is valid.  Compared modulo
\* enough primes to determine numbers of this size.
ChainsExact ==
    Done("chains") =>
        LET m == job[2]
            order == Iterate(LAMBDA n, i : (n * 65536 + LastValid[17 - i]) % m, 0, 16) + 1 IN
        /\ result.invert = (Twice(1, 255, m) - 21) % m
        /\ result.pow = (Twice(1, 252, m) - 3) % m
        /\ result.order = order % m

\* A scalar is valid exactly if it is less than the order, whichever word
\* decides it: a signature has one form only.
ValidExact ==
    Done("valid") =>
        result[1] = (Number(job[2], 4) <= Number(job[3], 4))
=============================================================================
