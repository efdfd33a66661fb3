------------------------------ MODULE ModArith ------------------------------
(***************************************************************************)
(* The modular half of bignum.c: Montgomery multiplication, exponentiation *)
(* with a sliding window, greatest common divisor, modular inverse and the *)
(* search for primes.                                                      *)
(***************************************************************************)
EXTENDS BigNum

RECURSIVE Newton(_, _, _)
Newton(x, m0, bits) == IF bits >= biL THEN x ELSE Newton(Wrap(x * Wrap(2 - m0 * x)), m0, 2 * bits)

(* - N^-1 modulo the base of the limbs, for an odd N. *)
mpi_montg_init(n) ==
    LET m0 == n.p[1]
        x  == Wrap(m0 + 8 * (((m0 + 2) \div 4) % 2))
    IN  Wrap(-Newton(Wrap(x * Wrap(2 - m0 * x)), m0, 8))

(* T after k rounds: round i adds u0 * B + u1 * N from limb i on, which    *)
(* clears that limb; it then holds u0, as the code leaves it.              *)
RECURSIVE MontRounds(_, _, _, _, _)
MontRounds(i, a, b, n, mm) ==
    LET t  == MontRounds(i - 1, a, b, n, mm)
        u1 == Wrap((t[i] + a[i] * b[1]) * mm)
        k  == IF Len(b) < Len(n) THEN Len(b) ELSE Len(n)
        t1 == mpi_mul_hlp(Len(n), n, mpi_mul_hlp(k, b, t, i - 1, a[i]), i - 1, u1)
    IN  IF i = 0 THEN Zeros(2 * (Len(n) + 1))
        ELSE Evaluated([l \in DOMAIN t |->
                 IF l = i THEN a[i] ELSE IF l = i + Len(n) + 2 THEN 0 ELSE t1[l]])

(* The limbs of A after A = A * B * R^-1 mod N.  T has 2 (n + 1) limbs.    *)
mpi_montmul(a, b, n, mm) ==
    LET k == Len(n)
        t == MontRounds(k, a, b, n, mm)
        d == Evaluated([i \in DOMAIN a |-> IF i <= k + 1 THEN t[k + i] ELSE a[i]])
    IN  IF mpi_cmp_abs([s |-> 1, p |-> d], [s |-> 1, p |-> n]) >= 0
          THEN mpi_sub_hlp(k, n, d) ELSE d

mpi_montred(a, n, mm) == mpi_montmul(a, <<1>>, n, mm)

RECURSIVE Squared(_, _, _, _)
Squared(x, k, n, mm) == IF k = 0 THEN x ELSE Squared(mpi_montmul(x, x, n, mm), k - 1, n, mm)

WindowSize(bits) ==
    IF bits > 671 THEN 6 ELSE IF bits > 239 THEN 5 ELSE IF bits > 79 THEN 4
    ELSE IF bits > 23 THEN 3 ELSE 1

(* O_W: the powers of W[1] that a window can call for. *)
RECURSIVE Powers(_, _, _, _)
Powers(w, size, n, mm) ==
    LET i == Len(w) + 1
        j == 2 ^ (size - 1)
    IN  IF i = 2 ^ size THEN w
        ELSE Powers(Append(w, IF i < j THEN <<>>
                              ELSE IF i = j THEN Squared(w[1], size - 1, n, mm)
                              ELSE mpi_montmul(w[i - 1], w[1], n, mm)), size, n, mm)

Mont(c, x, y) == mpi_montmul(x, y, c.n, c.mm)

(* The k low bits of a limb of E, from the highest.  A zero between        *)
(* windows costs a squaring, a window of size bits that many and a         *)
(* product; leading zeros cost nothing.                                    *)
RECURSIVE WindowLimb(_, _, _)
WindowLimb(c, limb, k) ==
    LET bit  == (limb \div 2 ^ (k - 1)) % 2
        bits == c.wbits + bit * 2 ^ (c.size - c.nbits - 1)
        sqr  == Squared(c.x, c.size, c.n, c.mm)
    IN  IF k = 0 THEN c
        ELSE IF c.state = 0 /\ bit = 0 THEN WindowLimb(c, limb, k - 1)
        ELSE IF c.state = 1 /\ bit = 0
        THEN WindowLimb([c EXCEPT !.x = Mont(c, @, @)], limb, k - 1)
        ELSE IF c.nbits + 1 < c.size
        THEN WindowLimb([c EXCEPT !.nbits = @ + 1, !.wbits = bits, !.state = 2], limb, k - 1)
        ELSE WindowLimb([c EXCEPT !.x = Mont(c, sqr, c.w[bits]), !.nbits = 0,
                                  !.wbits = 0, !.state = 1], limb, k - 1)

RECURSIVE WindowLimbs(_, _, _)
WindowLimbs(c, e, i) ==
    IF i = 0 THEN c ELSE WindowLimbs(WindowLimb(c, e[i], biL), e, i - 1)

NothingRemains(c, i) == c.x

(* The bits left in an unfinished window, one by one. *)
RECURSIVE Remaining(_, _)
Remaining(c, i) ==
    LET y == Mont(c, c.x, c.x)
        bit == (c.wbits \div 2 ^ (c.size - i)) % 2
    IN  IF i > c.nbits THEN c.x
        ELSE Remaining([c EXCEPT !.x = IF bit = 1 THEN Mont(c, y, c.w[1]) ELSE y], i + 1)

(* R^2 mod N, kept in _RR for the next call with the same N. *)
SquareOfR(m, N, RR) ==
    LET one  == mpi_lset(Set(m, "O_RR", mpi_init), "O_RR", 1)
        sqr  == mpi_shift_l(one, "O_RR", Len(m.mpi[N].p) * 2 * biL)
        rr   == mpi_mod_mpi(sqr, "O_RR", "O_RR", N)
    IN  IF m.mpi[RR].p = <<>> THEN Set(rr, RR, rr.mpi["O_RR"])
        ELSE Set(m, "O_RR", m.mpi[RR])

mpi_exp_mod(m, X, A, E, N, RR) ==
    LET n  == m.mpi[N].p
        mm == mpi_montg_init(m.mpi[N])
        m1 == mpi_grow(mpi_grow(m, X, Len(n) + 1), "O_T", 2 * (Len(n) + 1))
        m2 == SquareOfR(m1, N, RR)
        m3 == mpi_grow(Set(m2, "O_W1", mpi_init), "O_W1", Len(n) + 1)
        m4 == IF mpi_cmp_mpi(m3.mpi[A], m3.mpi[N]) >= 0
                THEN mpi_mod_mpi(m3, "O_W1", A, N) ELSE mpi_copy(m3, "O_W1", A)
        w1 == mpi_montmul(m4.mpi["O_W1"].p, m4.mpi["O_RR"].p, n, mm)
        m5 == mpi_copy(m4, X, "O_RR")
        e  == m5.mpi[E].p
        size == WindowSize(mpi_msb(m.mpi[E]))
        c  == WindowLimbs([x |-> mpi_montred(m5.mpi[X].p, n, mm), size |-> size,
                           w |-> Powers(<<w1>>, size, n, mm), n |-> n, mm |-> mm,
                           nbits |-> 0, wbits |-> 0, state |-> 0], e, Len(e))
    IN  IF mpi_cmp_int(m.mpi[N], 0) < 0 \/ n[1] % 2 = 0 THEN Fail(m, "bad input")
        ELSE IF Ret(m2) # "ok" THEN m2
        ELSE IF Ret(m5) # "ok" THEN m5
        ELSE SetLimbs(m5, X, mpi_montred(Remaining(c, 1), n, mm))

-----------------------------------------------------------------------------
(* Greatest common divisor and inverse *)

StripTwos(m, X) == mpi_shift_r(m, X, mpi_lsb(m.mpi[X]))

RECURSIVE GcdFrom(_)
GcdFrom(m) ==
    LET o == StripTwos(StripTwos(m, "gcd.TA"), "gcd.TB")
        Halved(X, Y) == mpi_shift_r(mpi_sub_abs(o, X, X, Y), X, 1)
    IN  IF mpi_cmp_int(m.mpi["gcd.TA"], 0) = 0 THEN m
        ELSE IF mpi_cmp_mpi(o.mpi["gcd.TA"], o.mpi["gcd.TB"]) >= 0
        THEN GcdFrom(Halved("gcd.TA", "gcd.TB")) ELSE GcdFrom(Halved("gcd.TB", "gcd.TA"))

mpi_gcd(m, G, A, B) ==
    LET m0  == Set(Set(m, "gcd.TA", mpi_init), "gcd.TB", mpi_init)
        m1  == mpi_copy(mpi_copy(m0, "gcd.TA", A), "gcd.TB", B)
        la  == mpi_lsb(m1.mpi["gcd.TA"])
        lb  == mpi_lsb(m1.mpi["gcd.TB"])
        lz  == IF lb < la THEN lb ELSE la
        m2  == mpi_shift_r(mpi_shift_r(m1, "gcd.TA", lz), "gcd.TB", lz)
        m3  == SetSign(SetSign(m2, "gcd.TA", 1), "gcd.TB", 1)
    IN  mpi_copy(mpi_shift_l(GcdFrom(m3), "gcd.TB", lz), G, "gcd.TB")

IsOdd(x) == x.p[1] % 2 = 1

(* While T is even it is halved, and so are the coefficients that make it  *)
(* a combination of A and N, made even first if need be.                   *)
RECURSIVE HalveWhileEven(_, _, _, _)
HalveWhileEven(m, T, C1, C2) ==
    LET h == mpi_shift_r(m, T, 1)
        e == IF IsOdd(m.mpi[C1]) \/ IsOdd(m.mpi[C2])
               THEN mpi_sub_mpi(mpi_add_mpi(h, C1, C1, "inv.TB"), C2, C2, "inv.TA") ELSE h
    IN  IF IsOdd(m.mpi[T]) THEN m
        ELSE HalveWhileEven(mpi_shift_r(mpi_shift_r(e, C1, 1), C2, 1), T, C1, C2)

RECURSIVE InvFrom(_)
InvFrom(m) ==
    LET h == HalveWhileEven(HalveWhileEven(m, "TU", "U1", "U2"), "TV", "V1", "V2")
        Less(T, C1, C2, S, D1, D2) ==
            mpi_sub_mpi(mpi_sub_mpi(mpi_sub_mpi(h, T, T, S), C1, C1, D1), C2, C2, D2)
        r == IF mpi_cmp_mpi(h.mpi["TU"], h.mpi["TV"]) >= 0
               THEN Less("TU", "U1", "U2", "TV", "V1", "V2")
               ELSE Less("TV", "V1", "V2", "TU", "U1", "U2")
    IN  IF mpi_cmp_int(r.mpi["TU"], 0) = 0 THEN r ELSE InvFrom(r)

InvNames == {"inv.TA", "TU", "U1", "U2", "G", "inv.TB", "TV", "V1", "V2"}

mpi_inv_mod(m, X, A, N) ==
    LET m0 == [m EXCEPT !.mpi = [v \in DOMAIN @ |-> IF v \in InvNames THEN mpi_init ELSE @[v]]]
        m1 == mpi_gcd(m0, "G", A, N)
        m2 == mpi_mod_mpi(m1, "inv.TA", A, N)
        m3 == mpi_copy(mpi_copy(mpi_copy(m2, "TU", "inv.TA"), "inv.TB", N), "TV", N)
        m4 == mpi_lset(mpi_lset(m3, "U1", 1), "U2", 0)
        m5 == InvFrom(mpi_lset(mpi_lset(m4, "V1", 0), "V2", 1))
    IN  IF mpi_cmp_int(m.mpi[N], 0) <= 0 THEN Fail(m, "bad input")
        ELSE IF mpi_cmp_int(m1.mpi["G"], 1) # 0 THEN Fail(m1, "not acceptable")
        ELSE mpi_copy(SubWhileLarge(AddWhileNegative(m5, "V1", N), "V1", N), X, "V1")

-----------------------------------------------------------------------------
(* Primes.  A random limb is the next one of FRng; rnd counts them. *)

Random(rnd, k) == [i \in 1 .. k |-> FRng[((rnd + i) % Len(FRng)) + 1]]
SetLow(p) == [p EXCEPT ![1] = BitOr(@, 3)]

Rounds(bits) ==
    IF bits >= 1300 THEN 2 ELSE IF bits >= 850 THEN 3 ELSE IF bits >= 650 THEN 4
    ELSE IF bits >= 350 THEN 8 ELSE IF bits >= 250 THEN 12 ELSE IF bits >= 150 THEN 18 ELSE 27

(* A^R mod X is squared until it is X - 1, at most s - 1 times. *)
RECURSIVE SquareUntil(_, _, _, _)
SquareUntil(m, X, j, s) ==
    LET a == mpi_mod_mpi(mpi_mul_mpi(m, "T", "A", "A"), "A", "T", X)
    IN  IF j >= s \/ mpi_cmp_mpi(m.mpi["A"], m.mpi["W"]) = 0 THEN m
        ELSE IF mpi_cmp_int(a.mpi["A"], 1) = 0 THEN a ELSE SquareUntil(a, X, j + 1, s)

RECURSIVE Witnesses(_, _, _, _, _)
Witnesses(m, X, s, i, rnd) ==
    LET m0 == mpi_grow(m, "A", Len(m.mpi[X].p))
        k  == Len(m0.mpi["A"].p)
        m1 == SetLimbs(m0, "A", Random(rnd, k))
        count == mpi_msb(m1.mpi["A"]) - mpi_msb(m.mpi["W"]) + 1
        m2 == mpi_shift_r(m1, "A", IF count < 0 THEN count % biL ELSE count)
        m3 == SetLimbs(m2, "A", SetLow(m2.mpi["A"].p))
        m4 == mpi_exp_mod(m3, "A", "A", "R", X, "RR")
        Passed(v) == mpi_cmp_mpi(v.mpi["A"], v.mpi["W"]) = 0
        m5 == SquareUntil(m4, X, 1, s)
    IN  IF i = 0 THEN m
        ELSE IF \/ Passed(m4) \/ mpi_cmp_int(m4.mpi["A"], 1) = 0
                \/ Passed(m5) /\ mpi_cmp_int(m5.mpi["A"], 1) # 0
        THEN Witnesses(m5, X, s, i - 1, rnd + k)
        ELSE Fail(m5, "not acceptable")

(* s is computed before W is: it is the number of low zero bits of nothing. *)
mpi_is_prime(m, X, rnd) ==
    LET x  == [m.mpi[X] EXCEPT !.s = 1]
        m0 == [m EXCEPT !.mpi = [v \in DOMAIN @ |->
                  IF v \in {"W", "R", "T", "A", "RR"} THEN mpi_init ELSE @[v]]]
        s  == mpi_lsb(m0.mpi["W"])
        m1 == mpi_sub_int(SetSign(m0, X, 1), "W", X, 1)
        m2 == mpi_shift_r(mpi_copy(m1, "R", "W"), "R", s)
        small == {i \in DOMAIN SmallPrimes : mpi_cmp_int(x, SmallPrimes[i]) <= 0}
        tried == {i \in DOMAIN SmallPrimes : \A j \in small : i < j}
    IN  IF mpi_cmp_int(m.mpi[X], 0) = 0 THEN m
        ELSE IF ~IsOdd(x) \/ \E i \in tried : mpi_mod_int(x, SmallPrimes[i]) = 0
        THEN Fail(m, "not acceptable")
        ELSE IF small # {} THEN m
        ELSE SetSign(Witnesses(m2, X, s, Rounds(mpi_msb(x)), rnd), X, m.mpi[X].s)

IsPrime(m, X, rnd) == mpi_is_prime(m, X, rnd).ret = "ok"

RECURSIVE NextPrime(_, _, _, _)
NextPrime(m, X, dh, rnd) ==
    LET half == mpi_shift_r(mpi_sub_int(m, "gen.Y", X, 1), "gen.Y", 1)
    IN  IF IsPrime(m, X, rnd) /\ (dh => IsPrime(half, "gen.Y", rnd + 1)) THEN m
        ELSE NextPrime(mpi_add_int(m, X, X, 2), X, dh, rnd + 1)

mpi_gen_prime(m, X, nbits, dh, rnd) ==
    LET k  == BITS_TO_LIMBS(nbits)
        m1 == mpi_lset(mpi_grow(m, X, k), X, 0)
        m2 == SetLimbs(m1, X, Random(rnd, Len(m1.mpi[X].p)))
        n  == mpi_msb(m2.mpi[X])
        m3 == IF n < nbits THEN mpi_shift_l(m2, X, nbits - n)
              ELSE mpi_shift_r(m2, X, n - nbits)
        m4 == SetLimbs(m3, X, SetLow(m3.mpi[X].p))
    IN  IF nbits < 3 THEN Fail(m, "bad input") ELSE NextPrime(m4, X, dh, rnd + 1)

=============================================================================
