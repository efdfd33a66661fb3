------------------------------- MODULE BigNum -------------------------------
(***************************************************************************)
(* The rest of the multi-precision integers of bignum.c: sizes, bytes,     *)
(* shifts and division.                                                    *)
(*                                                                         *)
(* The width of a limb is a parameter: half limbs, the carries and the     *)
(* estimate of a quotient digit only need it to be even.                   *)
(***************************************************************************)
EXTENDS MpiArith

CONSTANTS ciL,                \* bytes in a limb: a byte has biL \div ciL bits
          SmallPrimes,        \* small_prime: those a half limb can hold
          FRng                \* what f_rng delivers, limb by limb, cyclically

ASSUME BigNumAssumption ==
    /\ biL \in {4, 8, 16} /\ ciL \in {1, 2, 4}
    /\ SmallPrimes \in Seq(1 .. 2 ^ (biL \div 2) - 1)
    /\ FRng \in Seq(0 .. 2 ^ biL - 1) /\ FRng # <<>>

ByteValues == 2 ^ (biL \div ciL)

BITS_TO_LIMBS(i) == (i + biL - 1) \div biL
CHARS_TO_LIMBS(i) == (i + ciL - 1) \div ciL

(* x | y *)
RECURSIVE BitOr(_, _)
BitOr(x, y) ==
    IF x = 0 \/ y = 0 THEN x + y
    ELSE 2 * BitOr(x \div 2, y \div 2) + Larger(x % 2, y % 2)

(* Number of bits of x. *)
RECURSIVE BitLen(_)
BitLen(x) == IF x = 0 THEN 0 ELSE 1 + BitLen(x \div 2)

-----------------------------------------------------------------------------
(* Sizes, bytes and shifts *)

mpi_msb(x) ==
    LET i == Larger(1, Top(x.p)) IN (i - 1) * biL + BitLen(x.p[i])

RECURSIVE TrailingZeros(_)
TrailingZeros(x) == IF x % 2 = 1 THEN 0 ELSE 1 + TrailingZeros(x \div 2)

mpi_lsb(x) ==
    IF Top(x.p) = 0 THEN 0
    ELSE LET i == CHOOSE k \in DOMAIN x.p : x.p[k] # 0 /\ \A j \in 1 .. k - 1 : x.p[j] = 0
         IN  (i - 1) * biL + TrailingZeros(x.p[i])

(* In bytes. *)
mpi_size(x) == (mpi_msb(x) + biL \div ciL - 1) \div (biL \div ciL)

(* Byte j (from 0, the least significant first) of x. *)
ByteOf(x, j) ==
    (x.p[j \div ciL + 1] \div ByteValues ^ (j % ciL)) % ByteValues

RECURSIVE LimbOf(_, _, _)
LimbOf(buf, i, j) ==     \* bytes i downto 1 of buf are those from byte j of a limb on
    IF i = 0 \/ j = ciL THEN 0
    ELSE buf[i] * ByteValues ^ j + LimbOf(buf, i - 1, j + 1)

(* Leading zero bytes take no limb; X keeps the limbs it had. *)
mpi_read_binary(m, X, buf) ==
    LET z == {k \in 0 .. Len(buf) : \A i \in 1 .. k : buf[i] = 0}
        n == CHOOSE k \in z : k + 1 \notin z
        g == mpi_lset(mpi_grow(m, X, CHARS_TO_LIMBS(Len(buf) - n)), X, 0)
    IN  SetLimbs(g, X, [i \in DOMAIN g.mpi[X].p |->
                           LimbOf(buf, Larger(0, Len(buf) - (i - 1) * ciL), 0)])

mpi_write_binary(x, buflen) ==
    [i \in 1 .. buflen |->
        IF buflen - i < mpi_size(x) THEN ByteOf(x, buflen - i) ELSE 0]

mpi_shift_l(m, X, count) ==
    LET v0 == count \div biL
        t1 == count % biL
        g  == IF Len(m.mpi[X].p) * biL < mpi_msb(m.mpi[X]) + count
                THEN mpi_grow(m, X, BITS_TO_LIMBS(mpi_msb(m.mpi[X]) + count)) ELSE m
        p  == g.mpi[X].p
        At(i) == IF i > v0 THEN p[i - v0] ELSE 0
    IN  SetLimbs(g, X, [i \in DOMAIN p |->
            Wrap(At(i) * 2 ^ t1) + (IF i > 1 THEN At(i - 1) \div 2 ^ (biL - t1) ELSE 0)])

mpi_shift_r(m, X, count) ==
    LET v0 == count \div biL
        v1 == count % biL
        p  == m.mpi[X].p
        At(i) == IF i + v0 <= Len(p) THEN p[i + v0] ELSE 0
    IN  SetLimbs(m, X, [i \in DOMAIN p |->
            At(i) \div 2 ^ v1 + Wrap(At(i + 1) * 2 ^ (biL - v1))])

-----------------------------------------------------------------------------
(* Division: X, Y, Z, O_T1 and O_T2 are globals of bignum.c *)

RECURSIVE LowerQuotient(_, _, _, _)
LowerQuotient(q, r, mm, d) ==
    IF r >= d /\ r < mm THEN LowerQuotient(q - 1, Wrap(r + d), mm, d) ELSE <<q, r>>

(* Half a digit of the quotient of r by d, with the next half limb of the  *)
(* dividend, as <<digit, rest>>.                                           *)
HalfQuotient(r, low, d) ==
    LET q  == r \div Hi(d)
        r1 == Wrap((r - Hi(d) * q) * Half) + low
        mm == Wrap(q * Lo(d))
        f  == IF r1 < mm THEN LowerQuotient(q - 1, Wrap(r1 + d), mm, d) ELSE <<q, r1>>
    IN  <<f[1], Wrap(f[2] - mm)>>

(* __udiv_qrnnd_c: the estimate of the quotient of the limbs x1, x0 by d. *)
Estimate(x1, x0, d) ==
    IF x1 >= d THEN Limbs - 1
    ELSE LET h1 == HalfQuotient(x1, Hi(x0), d)
             h0 == HalfQuotient(h1[2], Lo(x0), d)
         IN  BitOr(Wrap(h1[1] * Half), h0[1])

LimbAt(p, i) == IF i > 0 THEN p[i] ELSE 0

(* The estimate is lowered until its product with the two leading limbs of *)
(* the divisor is at most the three leading limbs of the dividend.         *)
RECURSIVE LowerEstimate(_, _, _, _)
LowerEstimate(m, i, t, z) ==
    LET m1 == mpi_lset(m, "O_T1", 0)
        m2 == SetLimbs(m1, "O_T1", [m1.mpi["O_T1"].p EXCEPT
                  ![1] = LimbAt(m.mpi["Y"].p, t - 1), ![2] = m.mpi["Y"].p[t]])
        m3 == mpi_mul_int(m2, "O_T1", "O_T1", z)
        m4 == mpi_lset(m3, "O_T2", 0)
        x  == m.mpi["X"].p
        m5 == SetLimbs(m4, "O_T2", [m4.mpi["O_T2"].p EXCEPT
                  ![1] = LimbAt(x, i - 2), ![2] = LimbAt(x, i - 1), ![3] = x[i]])
    IN  IF mpi_cmp_mpi(m5.mpi["O_T1"], m5.mpi["O_T2"]) > 0
          THEN LowerEstimate(m5, i, t, z - 1) ELSE [m |-> m5, z |-> z]

(* X -= Y * z << (limbs below), taken to be what the estimate says. *)
SubtractOnly(m, below, z) ==
    LET m1 == mpi_mul_int(m, "O_T1", "Y", z)
    IN  [m |-> mpi_sub_mpi(mpi_shift_l(m1, "O_T1", biL * below), "X", "X", "O_T1"), z |-> z]

(* X -= Y * z << (limbs below); when that was one too many, Y is added back. *)
SubtractMultiple(m, below, z) ==
    LET m1 == mpi_mul_int(m, "O_T1", "Y", z)
        m2 == mpi_shift_l(m1, "O_T1", biL * below)
        m3 == mpi_sub_mpi(m2, "X", "X", "O_T1")
        m4 == mpi_shift_l(mpi_copy(m3, "O_T1", "Y"), "O_T1", biL * below)
    IN  IF mpi_cmp_int(m3.mpi["X"], 0) < 0
          THEN [m |-> mpi_add_mpi(m4, "X", "X", "O_T1"), z |-> z - 1]
          ELSE [m |-> m3, z |-> z]

RECURSIVE Digits(_, _, _)
Digits(m, i, t) ==
    IF Ret(m) # "ok" \/ i <= t THEN m
    ELSE LET x == m.mpi["X"].p
             e == LowerEstimate(m, i, t, Estimate(x[i], LimbAt(x, i - 1), m.mpi["Y"].p[t]))
             r == SubtractMultiple(e.m, i - t - 1, e.z)
         IN  Digits(SetLimbs(r.m, "Z", [r.m.mpi["Z"].p EXCEPT ![i - t] = Wrap(r.z)]), i - 1, t)

RECURSIVE LeadingDigit(_, _)
LeadingDigit(m, k) ==
    IF mpi_cmp_mpi(m.mpi["X"], m.mpi["Y"]) < 0 THEN m
    ELSE LeadingDigit(mpi_sub_mpi(
             SetLimbs(m, "Z", [m.mpi["Z"].p EXCEPT ![k] = Wrap(@ + 1)]), "X", "X", "Y"), k)

DivInit(m, A, B) ==
    LET m0 == [m EXCEPT !.mpi = [v \in DOMAIN @ |->
                  IF v \in {"X", "Y", "Z", "O_T1", "O_T2"} THEN mpi_init ELSE @[v]]]
        m1 == SetSign(SetSign(mpi_copy(mpi_copy(m0, "X", A), "Y", B), "X", 1), "Y", 1)
        m2 == mpi_lset(mpi_grow(m1, "Z", Len(m.mpi[A].p) + 2), "Z", 0)
    IN  mpi_grow(mpi_grow(m2, "O_T1", 2), "O_T2", 3)

(* The divisor is shifted until its top limb has all its bits but one.     *)
(* The signs of A and B are read after Q and R are written: a negative     *)
(* dividend divided in place loses its sign.                               *)
Normalisation(y) ==
    LET k == mpi_msb(y) % biL IN IF k < biL - 1 THEN biL - 1 - k ELSE 0

mpi_div_mpi(m, Q, R, A, B) ==
    IF mpi_cmp_int(m.mpi[B], 0) = 0 THEN Fail(m, "division by zero")
    ELSE IF mpi_cmp_abs(m.mpi[A], m.mpi[B]) < 0
    THEN LET q == IF Q = "NULL" THEN m ELSE mpi_lset(m, Q, 0)
         IN  IF R = "NULL" THEN q ELSE mpi_copy(q, R, A)
    ELSE LET m1 == DivInit(m, A, B)
             k  == Normalisation(m1.mpi["Y"])
             m2 == IF k = 0 THEN m1 ELSE mpi_shift_l(mpi_shift_l(m1, "X", k), "Y", k)
             n  == Len(m2.mpi["X"].p)
             t  == Len(m2.mpi["Y"].p)
             m3 == mpi_shift_l(m2, "Y", biL * (n - t))
             m4 == mpi_shift_r(LeadingDigit(m3, n - t + 1), "Y", biL * (n - t))
             m5 == Digits(m4, n, t)
             q  == mpi_copy(m5, Q, "Z")
             m6 == IF Q = "NULL" THEN m5 ELSE SetSign(q, Q, q.mpi[A].s * q.mpi[B].s)
             m7 == mpi_copy(mpi_shift_r(m6, "X", k), R, "X")
         IN  IF R = "NULL" THEN m6
             ELSE SetSign(m7, R, IF Top(m7.mpi[R].p) = 0 THEN 1 ELSE m7.mpi[A].s)

mpi_div_int(m, Q, R, A, b) == mpi_div_mpi(Set(m, "_B", OfInt(b)), Q, R, A, "_B")

RECURSIVE AddWhileNegative(_, _, _)
AddWhileNegative(m, R, B) ==
    IF mpi_cmp_int(m.mpi[R], 0) < 0 THEN AddWhileNegative(mpi_add_mpi(m, R, R, B), R, B) ELSE m

RECURSIVE SubWhileLarge(_, _, _)
SubWhileLarge(m, R, B) ==
    IF mpi_cmp_mpi(m.mpi[R], m.mpi[B]) >= 0 THEN SubWhileLarge(mpi_sub_mpi(m, R, R, B), R, B) ELSE m

mpi_mod_mpi(m, R, A, B) ==
    LET d == mpi_div_mpi(m, "NULL", R, A, B)
    IN  IF d.ret # "ok" THEN d ELSE SubWhileLarge(AddWhileNegative(d, R, B), R, B)

RECURSIVE ModFrom(_, _, _, _)
ModFrom(p, b, i, y) ==
    IF i = 0 THEN y
    ELSE LET h == Wrap(y * Half + Hi(p[i])) % b
         IN  ModFrom(p, b, i - 1, Wrap(h * Half + Lo(p[i])) % b)

mpi_mod_int(x, b) ==
    IF b = 1 THEN 0 ELSE IF b = 2 THEN x.p[1] % 2 ELSE ModFrom(x.p, b, Len(x.p), 0)

=============================================================================
