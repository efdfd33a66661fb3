----------------------------- MODULE SecEngine ------------------------------
(***************************************************************************)
(* The security engine (zc_sec_engine.c) on the arithmetic of bignum.c,    *)
(* the RSA layer of rsa.c and the AES of aes_core.c and aes_cbc.c.         *)
(*                                                                         *)
(* These are functions without state of their own but the context they are *)
(* given: a behaviour calls one of them after another, with arguments from *)
(* small sets.  job is the call that is being made; what the code returns  *)
(* for it is a function of job, defined by the call (Combined, Divided and *)
(* so on).  The cloud, which opens what the module seals and seals what the module  *)
(* opens, is taken to run the same functions with the keys of the pair.    *)
(***************************************************************************)
EXTENDS Rsa, Aes

CONSTANTS Magnitudes,          \* limbs of the operands of + - *
          Dividends, Divisors, \* limbs of those of /
          Moduli,              \* limbs of odd numbers above 1 and below 46341
          Bases, Exponents,    \* limbs
          Candidates,          \* limbs of odd numbers tried for primality
          PrimeBits,           \* sizes of the primes generated
          RsaPair,             \* [public, private]: the bytes of the two keys
          Texts,               \* messages to seal
          Rand,                \* the bytes rand() pads them with
          SessionKey, IV,
          Blocks,              \* [key, bits, plain] for the block cipher
          Published            \* [key, bits, plain, cipher] of FIPS 197

VARIABLE job
vars == <<job>>

-----------------------------------------------------------------------------
(* The engine *)

ZC_SEC_ALG_NONE == 0
ZC_SEC_ALG_RSA == 1
ZC_SEC_ALG_AES == 2
SecTypes == {ZC_SEC_ALG_NONE, ZC_SEC_ALG_AES, ZC_SEC_ALG_RSA}

(* What u32SecSwitch makes of the type a message asks for. *)
SecFlag(u32SecSwitch, secType) ==
    IF u32SecSwitch = 0 \/ (u32SecSwitch = 2 /\ secType = ZC_SEC_ALG_RSA)
    THEN ZC_SEC_ALG_NONE ELSE secType

Refused == [ret |-> "error", out |-> <<>>]
Done(out) == [ret |-> "ok", out |-> out]

SEC_AesEncrypt(keyRecv, text) ==
    LET c == AES_CBC_Encrypt(text, Len(text), SessionKey, 16, IV)
    IN  IF ~keyRecv THEN Refused ELSE Done(SubSeq(c.out, 1, c.outlength))

SEC_AesDecrypt(keyRecv, cipher) ==
    LET p == AES_CBC_Decrypt(cipher, Len(cipher), SessionKey, 16, IV)
    IN  IF ~keyRecv THEN Refused ELSE Done(SubSeq(p.out, 1, p.outlength % 65536))

SEC_PaddingCheck(u32SecSwitch, secType, len) ==
    LET flag == SecFlag(u32SecSwitch, secType)
    IN  CASE flag = ZC_SEC_ALG_AES  -> AES_BLOCK_SIZE - (len % AES_BLOCK_SIZE)
          [] flag = ZC_SEC_ALG_RSA  -> (KeyBytes - (len % KeyBytes)) % KeyBytes
          [] flag = ZC_SEC_ALG_NONE -> 0

(* The type that was used goes into the head of the message. *)
SEC_Encrypt(u32SecSwitch, keyRecv, secType, text) ==
    LET flag == SecFlag(u32SecSwitch, secType)
        rsa  == SEC_EncryptTextByRsa(RsaPair.public, text, Rand)
    IN  CASE flag = ZC_SEC_ALG_NONE -> Done(text)
          [] flag = ZC_SEC_ALG_RSA  -> [ret |-> rsa.ret, out |-> rsa.out]
          [] flag = ZC_SEC_ALG_AES  -> SEC_AesEncrypt(keyRecv, text)

SEC_Decrypt(u32SecSwitch, keyRecv, secType, cipher) ==
    LET flag == SecFlag(u32SecSwitch, secType)
        rsa  == SEC_DecryptTextByRsa(RsaPair.private, cipher)
    IN  CASE flag = ZC_SEC_ALG_NONE -> Done(cipher)
          [] flag = ZC_SEC_ALG_RSA  -> [ret |-> rsa.ret, out |-> rsa.out]
          [] flag = ZC_SEC_ALG_AES  -> SEC_AesDecrypt(keyRecv, cipher)

-----------------------------------------------------------------------------
(* Calls *)

Idle == [call |-> "none"]

Init == job = Idle

Call(j) == job = Idle /\ job' = j

Return == job # Idle /\ job' = Idle

Mpi(s, p) == [s |-> s, p |-> p]
Operands == {Mpi(s, p) : s \in {1, -1}, p \in Magnitudes}

(* The result may be one of the arguments. *)
AddSubMul ==
    \E op \in {"add", "sub", "mul"}, x \in Operands, y \in Operands, to \in {"a", "b", "c"} :
        Call([call |-> op, a |-> x, b |-> y, to |-> to])

(* The remainder may take the place of a dividend that is not negative. *)
Divide ==
    \E s \in {1, -1}, p \in Dividends, t \in {1, -1}, q \in Divisors, to \in {"a", "d"} :
        /\ to = "a" => s = 1
        /\ Call([call |-> "div", a |-> Mpi(s, p), b |-> Mpi(t, q), to |-> to])

(* rsa_private reduces a difference, which is never a zero with a sign. *)
Reduce ==
    \E s \in {1, -1}, p \in Dividends, q \in Moduli :
        /\ s = -1 => Top(p) # 0
        /\ Call([call |-> "mod", a |-> Mpi(s, p), b |-> Mpi(1, q)])

Exponentiate ==
    \E n \in Moduli, a \in Bases, e \in Exponents :
        Call([call |-> "exp", a |-> a, e |-> e, n |-> n])

Invert ==
    \E n \in Moduli, a \in Bases : Call([call |-> "inv", a |-> a, n |-> n])

TestPrime ==
    \E p \in Candidates : Call([call |-> "prime", a |-> p])

GeneratePrime ==
    \E bits \in PrimeBits, dh \in BOOLEAN : Call([call |-> "gen", bits |-> bits, dh |-> dh])

EncipherBlock ==
    \E v \in Blocks : Call([call |-> "aes", v |-> v])

Seal ==
    \E u32SecSwitch \in 0 .. 2, keyRecv \in BOOLEAN, secType \in SecTypes, text \in Texts :
        Call([call |-> "seal", type |-> secType, switch |-> u32SecSwitch,
              key |-> keyRecv, text |-> text])

Next ==
    \/ AddSubMul \/ Divide \/ Reduce
    \/ Exponentiate \/ Invert \/ TestPrime \/ GeneratePrime
    \/ EncipherBlock \/ Seal
    \/ Return

Spec == Init /\ [][Next]_vars

-----------------------------------------------------------------------------
(* What the code returns for a call *)

(* The variables of the caller: A, B, the results C and D, and the numbers *)
(* the library keeps for itself.                                           *)
With(a, b) ==
    Memory([v \in LibraryNames \cup {"a", "b", "c", "d", "n"} |->
               IF v = "a" THEN a ELSE IF v = "b" THEN b ELSE mpi_init])

Combined(j) ==
    LET m == With(j.a, j.b)
        r == CASE j.call = "add" -> mpi_add_mpi(m, j.to, "a", "b")
               [] j.call = "sub" -> mpi_sub_mpi(m, j.to, "a", "b")
               [] j.call = "mul" -> mpi_mul_mpi(m, j.to, "a", "b")
    IN  [ret |-> Ret(r), z |-> r.mpi[j.to]]

Divided(j) ==
    LET r == mpi_div_mpi(With(j.a, j.b), "c", j.to, "a", "b")
    IN  [ret |-> Ret(r), q |-> r.mpi["c"], r |-> r.mpi[j.to]]

Reduced(j) ==
    LET r == mpi_mod_mpi(With(j.a, j.b), "d", "a", "b")
    IN  [ret |-> Ret(r), z |-> r.mpi["d"]]

Exponentiated(j) ==
    LET m == Set(With(Mpi(1, j.a), Mpi(1, j.e)), "n", Mpi(1, j.n))
        r == mpi_exp_mod(m, "c", "a", "b", "n", "d")
    IN  [ret |-> Ret(r), z |-> r.mpi["c"]]

(* The inverse exists when the greatest common divisor is 1. *)
Inverted(j) ==
    LET m == With(Mpi(1, j.a), Mpi(1, j.n))
        g == mpi_gcd(m, "c", "a", "b")
        i == mpi_inv_mod(m, "d", "a", "b")
    IN  [ret |-> Ret(i), g |-> g.mpi["c"], z |-> i.mpi["d"]]

TestedPrime(j) == Ret(mpi_is_prime(With(Mpi(1, j.a), mpi_init), "a", 0))

GeneratedPrime(j) ==
    LET r == mpi_gen_prime(With(mpi_init, mpi_init), "a", j.bits, j.dh, 0)
    IN  [ret |-> Ret(r), z |-> r.mpi["a"]]

Enciphered(j) ==
    LET c == AES_encrypt(j.v.plain, AES_set_encrypt_key(j.v.key, j.v.bits))
    IN  [cipher |-> c, plain |-> AES_decrypt(c, AES_set_decrypt_key(j.v.key, j.v.bits))]

(* A message sealed with one type, and opened as its head says. *)
Sealed(j) ==
    LET c == SEC_Encrypt(j.switch, j.key, j.type, j.text)
        p == SEC_Decrypt(j.switch, j.key, SecFlag(j.switch, j.type), c.out)
    IN  [ret |-> c.ret, cipher |-> c.out, plain |-> IF c.ret = "ok" THEN p ELSE c]

-----------------------------------------------------------------------------
(* What the results should be.  Numbers too long for an integer are the    *)
(* same when they are the same modulo primes whose product is larger than  *)
(* both.                                                                   *)

CheckPrimes == {46337, 46327, 46309, 46307}

RECURSIVE ResidueFrom(_, _, _)
ResidueFrom(p, i, n) ==
    IF i > Len(p) THEN 0 ELSE (p[i] + Limbs * ResidueFrom(p, i + 1, n)) % n

Residue(z, n) == (z.s * ResidueFrom(z.p, 1, n)) % n
Value(p) == ResidueFrom(p, 1, 46341)

Same(a, b, n) == a % n = b % n

Smaller(p, q) ==
    LET n == Larger(Len(p), Len(q))
    IN  \E i \in 1 .. n : /\ Digit(p, i) < Digit(q, i)
                          /\ \A j \in i + 1 .. n : Digit(p, j) = Digit(q, j)

IsZero(p) == \A i \in DOMAIN p : p[i] = 0

Integer(op, a, b) ==
    CASE op = "add" -> a + b [] op = "sub" -> a - b [] op = "mul" -> a * b

(* The one sum that mpi_add_abs gets wrong: a carry that runs through the   *)
(* limb above those of the number q that is added to p, unless this is the *)
(* last limb of p, comes back into this limb.  Zeros above a number count  *)
(* among its limbs, but are left out when it is copied.                    *)
CarryIsLost(p, q) ==
    LET t == Top(q)
        Both(i) == Digit(p, i) + Digit(q, i)
    IN  /\ t + 1 < Len(p) /\ p[t + 1] = Limbs - 1
        /\ \E i \in 1 .. t : /\ Both(i) >= Limbs
                            /\ \A k \in i + 1 .. t : Both(k) >= Limbs - 1

Shortfall(j) ==
    LET copied == SubSeq(j.a.p, 1, Top(j.a.p))
        p == CASE j.to = "a" -> j.a.p [] j.to = "b" -> j.b.p [] j.to = "c" -> copied
        q == IF j.to = "b" THEN j.a.p ELSE j.b.p
        added == (j.call = "add" /\ j.a.s = j.b.s) \/ (j.call = "sub" /\ j.a.s # j.b.s)
    IN  IF added /\ CarryIsLost(p, q) THEN (Limbs - 1) * Limbs ^ Top(q) ELSE 0

(* Division shifts the divisor until one bit of its top limb is left, where *)
(* the estimate of a digit wants none: with the top limb d, the product of  *)
(* a second half digit, which can be as large as shown, and the low half of *)
(* d may not fit a limb, and then the estimate may be too low.              *)
LeadingLimb(p) ==
    LET t == Top(p)
    IN  (p[t] * Limbs + LimbAt(p, t - 1)) \div 2 ^ (BitLen(p[t]) + 1)

EstimatesAreHigh(p) ==
    LET d == LeadingLimb(p) IN Lo(d) * (Half + (Lo(d) - 1) \div Hi(d)) < Limbs

(* The sums, differences, products, quotients and remainders of bignum.c   *)
(* are those of the integers, carries, borrows, estimates of quotient      *)
(* digits and corrections included, also when the result takes the place   *)
(* of an argument (mpi_add_mpi, mpi_sub_mpi, mpi_mul_mpi, mpi_div_mpi,     *)
(* mpi_mod_mpi); but for the sums in which mpi_add_abs loses a carry, which *)
(* fall short by just that, and for divisors with which an estimate may be *)
(* too low: these may leave a remainder that is larger than the divisor,   *)
(* which mpi_mod_mpi, but not mpi_div_mpi, corrects.                        *)
ArithmeticIsExact(j) ==
    /\ j.call \in {"add", "sub", "mul"} =>
          LET r == Combined(j)
          IN  /\ r.ret = "ok"
              /\ \A n \in CheckPrimes :
                    Same(Residue(r.z, n) + j.a.s * Shortfall(j),
                         Integer(j.call, Residue(j.a, n), Residue(j.b, n)), n)
    /\ j.call = "div" =>
          LET r == Divided(j)
          IN  /\ r.ret = "ok"
              /\ \A n \in CheckPrimes :
                    Same(Residue(j.a, n),
                         ((Residue(r.q, n) * Residue(j.b, n)) % n) + Residue(r.r, n), n)
              /\ Smaller(r.r.p, j.b.p) \/ ~EstimatesAreHigh(j.b.p)
              /\ IsZero(r.r.p) \/ r.r.s = j.a.s
    /\ j.call = "mod" =>
          LET r == Reduced(j)
          IN  /\ r.ret = "ok" /\ Smaller(r.z.p, j.b.p)
              /\ IsZero(r.z.p) \/ r.z.s = 1
              /\ Residue(r.z, Value(j.b.p)) = Residue(j.a, Value(j.b.p))

RECURSIVE Power(_, _, _)
Power(x, k, n) ==
    IF k = 0 THEN 1 % n
    ELSE LET h == Power(x, k \div 2, n)
         IN  IF k % 2 = 0 THEN (h * h) % n ELSE (((h * h) % n) * (x % n)) % n

RECURSIVE PowerFrom(_, _, _, _)
PowerFrom(x, e, i, n) ==
    IF i > Len(e) THEN 1 % n
    ELSE (Power(PowerFrom(x, e, i + 1, n), Limbs, n) * Power(x, e[i], n)) % n

RECURSIVE Gcd(_, _)
Gcd(a, b) == IF b = 0 THEN a ELSE Gcd(b, a % b)

Prime(x) == x > 1 /\ \A d \in 2 .. x - 1 : d * d <= x => x % d # 0

(* Exponentiation by windows of Montgomery products, the binary greatest   *)
(* common divisor, the inverse, the test for primality and the search for  *)
(* a prime give what their definitions say (mpi_exp_mod, mpi_gcd,          *)
(* mpi_inv_mod, mpi_is_prime, mpi_gen_prime), and the array of an mpi is   *)
(* large enough for them.                                                  *)
ModularResultsAreExact(j) ==
    /\ j.call = "exp" =>
          LET r == Exponentiated(j)
          IN  /\ r.ret = "ok"
              /\ Value(r.z.p) = PowerFrom(Value(j.a), j.e, 1, Value(j.n))
    /\ j.call = "inv" =>
          LET r == Inverted(j)
              n == Value(j.n)
              g == Gcd(Value(j.a), n)
          IN  /\ Value(r.g.p) = g
              /\ r.ret = IF g = 1 THEN "ok" ELSE "not acceptable"
              /\ g = 1 => /\ (Value(r.z.p) * (Value(j.a) % n)) % n = 1
                          /\ Smaller(r.z.p, j.n)
    /\ j.call = "prime" => ((TestedPrime(j) = "ok") <=> Prime(Value(j.a)))
    /\ j.call = "gen" =>
          LET r == GeneratedPrime(j)
              z == Value(r.z.p)
          IN  /\ r.ret = "ok" /\ Prime(z)
              /\ j.dh => Prime((z - 1) \div 2)
              /\ 2 ^ (j.bits - 1) <= z /\ z < 2 ^ j.bits

(* Every call of the arithmetic of bignum.c returns the exact result, but  *)
(* for the carry that mpi_add_abs may lose (bignum.c:625-635) and the      *)
(* remainder that mpi_div_mpi may leave too large (bignum.c:917-988).      *)
NumbersAreExact == [][ArithmeticIsExact(job') /\ ModularResultsAreExact(job')]_vars

(* The cipher of FIPS 197, byte by byte. *)
RECURSIVE FieldTimes(_, _)
FieldTimes(x, y) ==
    IF y = 0 THEN 0
    ELSE XorByte(IF y % 2 = 1 THEN x ELSE 0, FieldTimes(Twice(x), y \div 2))

Rotated(x, k) == ((x * 2 ^ k) % 256) + ((x * 2 ^ k) \div 256)

SubByte == Table(256, LAMBDA x :
    LET y == CHOOSE z \in 0 .. 255 : FieldTimes(z, x) = IF x = 0 THEN z ELSE 1
    IN  XorByte(XorByte(XorByte(y, Rotated(y, 1)), XorByte(Rotated(y, 2), Rotated(y, 3))),
                XorByte(Rotated(y, 4), 99)))

SubBytes(s) == [i \in 1 .. 16 |-> At(SubByte, s[i])]
ShiftRows(s) == [i \in 1 .. 16 |-> At(s, (i - 1 + 4 * ((i - 1) % 4)) % 16)]
MixColumns(s) ==
    [i \in 1 .. 16 |->
        LET Cell(k) == At(s, 4 * ((i - 1) \div 4) + ((i - 1 + k) % 4))
        IN  XorByte(XorByte(Twice(Cell(0)), FieldTimes(Cell(1), 3)), XorByte(Cell(2), Cell(3)))]

KeyAt(key, r) == PUTU32(RoundKey(key, r))

RECURSIVE CipherStates(_, _)
CipherStates(states, key) ==
    LET r == Len(states)
    IN  IF r = key.rounds THEN states
        ELSE CipherStates(Append(states, XorBlock(
                 MixColumns(ShiftRows(SubBytes(states[r]))), KeyAt(key, r))), key)

Cipher(plain, key) ==
    LET states == CipherStates(<<XorBlock(plain, KeyAt(key, 0))>>, key)
    IN  XorBlock(ShiftRows(SubBytes(states[key.rounds])), KeyAt(key, key.rounds))

EncipheredAsPublished(j) ==
    j.call = "aes" =>
        LET r == Enciphered(j)
        IN  /\ r.cipher = Cipher(j.v.plain, AES_set_encrypt_key(j.v.key, j.v.bits))
            /\ r.plain = j.v.plain
            /\ \A v \in Published :
                  [key |-> v.key, bits |-> v.bits, plain |-> v.plain] = j.v
                      => r.cipher = v.cipher

(* AES_encrypt, with its tables, is the cipher of the standard, with the   *)
(* published results for each size of key, and AES_decrypt, with its own   *)
(* tables and the schedule of AES_set_decrypt_key, undoes it.              *)
AesIsTheStandard == [][EncipheredAsPublished(job')]_vars

OpenedAgain(j) ==
    j.call = "seal" =>
        LET flag == SecFlag(j.switch, j.type)
            r    == Sealed(j)
        IN  IF flag = ZC_SEC_ALG_AES /\ ~j.key THEN r.ret = "error"
            ELSE /\ r.ret = "ok" /\ r.plain = Done(j.text)
                 /\ flag # ZC_SEC_ALG_RSA =>
                       Len(r.cipher) = Len(j.text)
                           + SEC_PaddingCheck(j.switch, j.type, Len(j.text))

(* What SEC_Encrypt made of a message, of any length and with each setting *)
(* of the switch, SEC_Decrypt turns back into that message; without a      *)
(* session key nothing is sealed with AES.  The length that                *)
(* PCT_SendMsgToCloud reckoned with SEC_PaddingCheck, before it sealed a   *)
(* message with AES or in clear, is the length of the sealed message.      *)
SealedIsOpened == [][OpenedAgain(job')]_vars

=============================================================================
