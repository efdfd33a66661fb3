------------------------------ MODULE MpiArith ------------------------------
(***************************************************************************)
(* The arithmetic of mpis in bignum.c: copying, comparing, adding,         *)
(* subtracting and, with the portable core of bn_mul.h, which is the one   *)
(* built for Xtensa, multiplying.                                          *)
(*                                                                         *)
(* An mpi is its sign and the limbs in use, the least significant first:   *)
(* X->n is Len(p).  A function of the library that writes an mpi takes a   *)
(* memory and the names of its arguments, as the C function takes          *)
(* pointers, so that a call may name one mpi twice; a function that only   *)
(* reads takes the mpis.  A memory also records the largest size that      *)
(* mpi_grow was asked for, and the first error returned.                   *)
(*                                                                         *)
(* The width of a limb is a parameter.                                     *)
(***************************************************************************)
EXTENDS Integers, Sequences

CONSTANTS biL,                \* bits in a limb
          MAX_BIGNUM_DIGITS   \* limbs of the array of an mpi

biH == biL \div 2
Limbs == 2 ^ biL
Half == 2 ^ biH

(* A limb is two half limbs of at least one bit. *)
ASSUME MpiAssumption ==
    /\ Half \in Nat /\ Half > 1 /\ Limbs = Half * Half
    /\ MAX_BIGNUM_DIGITS \in Nat \ {0}

Wrap(x) == x % Limbs
Lo(x) == x % Half
Hi(x) == x \div Half
Borrow(b) == IF b THEN 1 ELSE 0
Larger(a, b) == IF a > b THEN a ELSE b
Abs(z) == IF z < 0 THEN -z ELSE z

(* A sequence given limb by limb, evaluated once rather than at each use. *)
Evaluated(p) == SubSeq(p, 1, Len(p))

(* Limb i of p, whatever the size of its array. *)
Digit(p, i) == IF i <= Len(p) THEN p[i] ELSE 0

Zeros(k) == Evaluated([i \in 1 .. k |-> 0])

(* The largest of a set of numbers of limbs, 0 if there is none. *)
Highest(S) == IF S = {} THEN 0 ELSE CHOOSE i \in S : \A k \in S : k <= i

(* The highest limb that is not zero. *)
Top(p) == Highest({i \in DOMAIN p : p[i] # 0})

mpi_init == [s |-> 1, p |-> <<>>]

(* An integer that fits a limb: the temporary _B of the _int functions. *)
OfInt(z) == [s |-> IF z < 0 THEN -1 ELSE 1, p |-> <<Abs(z)>>]

-----------------------------------------------------------------------------
(* Memory *)

Memory(vals) == [mpi |-> vals, need |-> 0, ret |-> "ok"]

Set(m, X, v) == [m EXCEPT !.mpi[X] = v]
SetSign(m, X, s) == [m EXCEPT !.mpi[X].s = s]
SetLimbs(m, X, p) == [m EXCEPT !.mpi[X].p = Evaluated(p)]
Fail(m, error) == [m EXCEPT !.ret = error]

(* What a call returns: mpi_grow fails beyond the array, and every caller  *)
(* passes the failure on.                                                  *)
Ret(m) == IF m.need > MAX_BIGNUM_DIGITS THEN "no room" ELSE m.ret

Enlarge(p, k) == IF Len(p) < k THEN p \o Zeros(k - Len(p)) ELSE p

mpi_grow(m, X, k) ==
    [m EXCEPT !.mpi[X].p = Enlarge(@, k), !.need = Larger(@, k)]

mpi_copy(m, X, Y) ==
    LET v == m.mpi[Y]
        k == IF v.p = <<>> THEN 0 ELSE Larger(1, Top(v.p))
        g == mpi_grow(m, X, k)
    IN  IF X = Y THEN m
        ELSE Set(g, X, [s |-> v.s,
                        p |-> Evaluated([i \in DOMAIN g.mpi[X].p |->
                                            IF i <= k THEN v.p[i] ELSE 0])])

mpi_lset(m, X, z) ==
    LET g == mpi_grow(m, X, 1)
    IN  Set(g, X, [s |-> OfInt(z).s,
                   p |-> [Zeros(Len(g.mpi[X].p)) EXCEPT ![1] = Abs(z)]])

-----------------------------------------------------------------------------
(* Comparisons.  When Y has more limbs, the code returns -X->s whatever    *)
(* the sign of Y.                                                          *)

CmpFrom(p, q, i) ==
    LET k == Highest({j \in 1 .. i : p[j] # q[j]})
    IN  IF k = 0 THEN 0 ELSE IF p[k] > q[k] THEN 1 ELSE -1

mpi_cmp_abs(x, y) ==
    LET i == Top(x.p)  j == Top(y.p)
    IN  IF i > j THEN 1 ELSE IF j > i THEN -1 ELSE CmpFrom(x.p, y.p, i)

mpi_cmp_mpi(x, y) ==
    LET i == Top(x.p)  j == Top(y.p)
    IN  IF i = 0 /\ j = 0 THEN 0
        ELSE IF i > j THEN x.s
        ELSE IF j > i THEN -x.s
        ELSE IF x.s > 0 /\ y.s < 0 THEN 1
        ELSE IF y.s > 0 /\ x.s < 0 THEN -1
        ELSE x.s * CmpFrom(x.p, y.p, i)

mpi_cmp_int(x, z) == mpi_cmp_mpi(x, OfInt(z))

-----------------------------------------------------------------------------
(* Addition and subtraction *)

(* d += s, over the limbs first .. last, with the carry c that comes in     *)
(* there, as <<carry, limbs>>.  The code may stop when nothing is carried   *)
(* any more, after which no limb would change.                              *)
Added(d, s, first, last, c) ==
    LET after[k \in first - 1 .. last] ==
            IF k < first THEN <<c, d>>
            ELSE LET sum == after[k - 1]
                     a == Wrap(d[k] + sum[1])
                     b == Wrap(a + Digit(s, k))
                 IN  <<Borrow(a < sum[1]) + Borrow(b < Digit(s, k)), [sum[2] EXCEPT ![k] = b]>>
    IN  after[last]

(* What is carried out of the last limb gets one of its own. *)
WithCarry(sum) == IF sum[1] = 0 THEN sum[2] ELSE Append(sum[2], sum[1])

(* What is carried into limb i.  The loop for it advances its pointer only  *)
(* where X has to grow: a carry out of limb i, unless that is the last one, *)
(* is added to limb i again, and not to the next.                           *)
CarriedInto(sum, i) ==
    LET n     == Len(sum[2])
        once  == Added(sum[2], <<>>, i, i, sum[1])
        again == Added(once[2], <<>>, i, i, once[1])
    IN  IF i > n THEN WithCarry(sum) ELSE IF i = n THEN WithCarry(once) ELSE again[2]

(* A number that is added to itself in place would be read after it was     *)
(* changed; no caller names one mpi three times.                            *)
mpi_add_abs(m, X, A0, B0) ==
    LET A  == IF X = B0 THEN X ELSE A0
        B  == IF X = B0 THEN A0 ELSE B0
        m1 == mpi_copy(m, X, A)
        j  == Top(m1.mpi[B].p)
        m2 == mpi_grow(m1, X, j)
        p  == CarriedInto(Added(m2.mpi[X].p, m2.mpi[B].p, 1, j, 0), j + 1)
    IN  SetLimbs(mpi_grow(m2, X, Len(p)), X, p)

(* d -= the n limbs of s, as <<borrow, limbs>>. *)
Subtracted(n, s, d) ==
    LET after[k \in 0 .. Len(d)] ==
            IF k = 0 THEN <<0, d>>
            ELSE LET last == after[k - 1]
                     a == Wrap(d[k] - last[1])
                     t == IF k <= n THEN s[k] ELSE 0
                 IN  <<Borrow(d[k] < last[1]) + Borrow(a < t), [last[2] EXCEPT ![k] = Wrap(a - t)]>>
    IN  after[Len(d)]

mpi_sub_hlp(n, s, d) == Subtracted(n, s, d)[2]

mpi_sub_abs(m, X, A, B0) ==
    IF mpi_cmp_abs(m.mpi[A], m.mpi[B0]) < 0 THEN Fail(m, "negative value")
    ELSE LET m1 == Set(m, "sub.TB", mpi_init)
             m2 == IF X = B0 THEN mpi_copy(m1, "sub.TB", B0) ELSE m1
             B  == IF X = B0 THEN "sub.TB" ELSE B0
             m3 == IF X # A THEN mpi_copy(m2, X, A) ELSE m2
         IN  SetLimbs(m3, X, mpi_sub_hlp(Top(m3.mpi[B].p), m3.mpi[B].p, m3.mpi[X].p))

(* Magnitudes of opposite signs are subtracted, the smaller from the larger. *)
Signed(m, X, A, B, opposite) ==
    LET s == m.mpi[A].s
    IN  IF ~opposite THEN SetSign(mpi_add_abs(m, X, A, B), X, s)
        ELSE IF mpi_cmp_abs(m.mpi[A], m.mpi[B]) >= 0
        THEN SetSign(mpi_sub_abs(m, X, A, B), X, s)
        ELSE SetSign(mpi_sub_abs(m, X, B, A), X, -s)

mpi_add_mpi(m, X, A, B) == Signed(m, X, A, B, m.mpi[A].s * m.mpi[B].s < 0)
mpi_sub_mpi(m, X, A, B) == Signed(m, X, A, B, m.mpi[A].s * m.mpi[B].s > 0)

mpi_add_int(m, X, A, b) == mpi_add_mpi(Set(m, "_B", OfInt(b)), X, A, "_B")
mpi_sub_int(m, X, A, b) == mpi_sub_mpi(Set(m, "_B", OfInt(b)), X, A, "_B")

-----------------------------------------------------------------------------
(* Multiplication *)

(* MULADDC_CORE: s * b + c + d in half limbs, as <<carry, limb>>. *)
MulAddC(s, b, c, d) ==
    LET rx == Lo(s) * Hi(b)
        ry == Hi(s) * Lo(b)
        a0 == Wrap(Lo(s) * Lo(b))
        a1 == Wrap(a0 + Wrap(rx * Half))
        a2 == Wrap(a1 + Wrap(ry * Half))
        a3 == Wrap(a2 + c)
        a4 == Wrap(a3 + d)
    IN  <<Wrap(Hi(s) * Hi(b) + Hi(rx) + Hi(ry) + Borrow(a1 < Wrap(rx * Half))
               + Borrow(a2 < Wrap(ry * Half)) + Borrow(a3 < c) + Borrow(a4 < d)), a4>>

(* d, from offset o on, += b * the i limbs of s: the limbs of the row, then *)
(* the carry that runs on. *)
Row(i, s, d, o, b) ==
    LET after[k \in 0 .. i] ==
            IF k = 0 THEN <<0, d>>
            ELSE LET last == after[k - 1]
                     r == MulAddC(s[k], b, last[1], d[o + k])
                 IN  <<r[1], [last[2] EXCEPT ![o + k] = r[2]]>>
    IN  after[i]

mpi_mul_hlp(i, s, d, o, b) ==
    LET row == Row(i, s, d, o, b) IN Added(row[2], <<>>, o + i + 1, Len(row[2]), row[1])[2]

(* One row for each of the j limbs of b, from the highest. *)
Rows(x, i, a, b, j) ==
    LET after[k \in 0 .. j] ==
            IF k = 0 THEN x ELSE mpi_mul_hlp(i, a, after[k - 1], j - k, b[j - k + 1])
    IN  after[j]

mpi_mul_mpi(m, X, A0, B0) ==
    LET m1 == IF X = A0 THEN mpi_copy(Set(m, "mul.TA", mpi_init), "mul.TA", A0) ELSE m
        m2 == IF X = B0 THEN mpi_copy(Set(m1, "mul.TB", mpi_init), "mul.TB", B0) ELSE m1
        a  == m2.mpi[IF X = A0 THEN "mul.TA" ELSE A0]
        b  == m2.mpi[IF X = B0 THEN "mul.TB" ELSE B0]
        i  == Top(a.p)
        j  == Top(b.p)
        m3 == mpi_lset(mpi_grow(m2, X, i + j), X, 0)
    IN  Set(m3, X, [s |-> a.s * b.s, p |-> Rows(m3.mpi[X].p, i, a.p, b.p, j)])

mpi_mul_int(m, X, A, b) == mpi_mul_mpi(Set(m, "_B", [s |-> 1, p |-> <<b>>]), X, A, "_B")

=============================================================================
