-------------------------- MODULE MpiArith_proofs --------------------------
(***************************************************************************)
(* Proofs about MpiArith, for limbs of any width (the code's have 32 bits, *)
(* which TLC cannot compute with), numbers of any length and arrays of any *)
(* size: what the loops over limbs do is what integer arithmetic says of   *)
(* the numbers that the limbs stand for.                                   *)
(*                                                                         *)
(* One limb at a time the carries are shown to lose nothing (AddStep,      *)
(* SubStep, MulStep).  A loop is a recursive function, which exists and    *)
(* satisfies its equation (LoopExists); what it has done after k limbs is  *)
(* an equation between the parts of the numbers below limb k, each limb    *)
(* with its Weight, and holds for all k (LoopInduction).                   *)
(***************************************************************************)
EXTENDS MpiArith, WellFoundedInduction, TLAPS

LimbValues == 0 .. Limbs - 1

LEMMA Base ==
  /\ Limbs \in Nat /\ Limbs >= 4 /\ Limbs = Half * Half
  /\ Half \in Nat /\ Half >= 2
<1>1. Half \in Nat /\ Half >= 2 /\ Limbs = Half * Half
  BY MpiAssumption
<1> HIDE DEF Half, Limbs
<1> DEFINE h == Half - 2
<1>2. h \in Nat /\ Half = h + 2
  BY <1>1
<1>3. (h + 2) * (h + 2) = h * h + 4 * h + 4 /\ h * h \in Nat /\ (h + 2) * (h + 2) \in Nat
  BY <1>2
<1>4. Limbs = h * h + 4 * h + 4
  BY <1>1, <1>2, <1>3
<1> QED BY <1>1, <1>2, <1>3, <1>4

(* Division with rest. *)
LEMMA DivMod ==
  ASSUME NEW x \in Int, NEW n \in Nat \ {0}, NEW q \in Int, NEW r \in 0 .. n - 1, x = q * n + r
  PROVE  x % n = r /\ x \div n = q
<1> DEFINE d == x \div n
           e == x % n
<1>1. d \in Int /\ e \in 0 .. n - 1 /\ x = n * d + e
  OBVIOUS
<1> HIDE DEF d, e
<1>2. (q - d) * n = e - r
  BY <1>1
<1>3. q = d
  <2>1. CASE q - d >= 1
    <3>1. (q - d) * n >= n
      BY <1>1, <2>1
    <3> QED BY <3>1, <1>1, <1>2
  <2>2. CASE q - d <= -1
    <3>1. (q - d) * n <= -n
      BY <1>1, <2>2
    <3> QED BY <3>1, <1>1, <1>2
  <2> QED BY <2>1, <2>2, <1>1
<1>4. e = r
  BY <1>1, <1>2, <1>3
<1> QED BY <1>3, <1>4 DEF d, e

-----------------------------------------------------------------------------
(* One limb.  Each step of the loops of bignum.c is exact: what is lost in  *)
(* the limb is in the carry.                                                *)

LEMMA WrapIs ==
  ASSUME NEW x \in Int
  PROVE  /\ x \in LimbValues => Wrap(x) = x
         /\ x >= Limbs /\ x < 2 * Limbs => Wrap(x) = x - Limbs
         /\ x < 0 /\ x >= -Limbs => Wrap(x) = x + Limbs
         /\ Wrap(x) \in LimbValues
<1>1. Limbs \in Nat \ {0}
  BY Base
<1> HIDE DEF Limbs
<1>2. ASSUME x \in LimbValues PROVE Wrap(x) = x
  <2>1. x = 0 * Limbs + x /\ x \in 0 .. Limbs - 1
    BY <1>1, <1>2 DEF LimbValues
  <2> QED BY <1>1, <2>1, DivMod DEF Wrap
<1>3. ASSUME x >= Limbs, x < 2 * Limbs PROVE Wrap(x) = x - Limbs
  <2>1. x = 1 * Limbs + (x - Limbs) /\ x - Limbs \in 0 .. Limbs - 1
    BY <1>1, <1>3
  <2> QED BY <1>1, <2>1, DivMod DEF Wrap
<1>4. ASSUME x < 0, x >= -Limbs PROVE Wrap(x) = x + Limbs
  <2>1. x = (-1) * Limbs + (x + Limbs) /\ x + Limbs \in 0 .. Limbs - 1
    BY <1>1, <1>4
  <2> QED BY <1>1, <2>1, DivMod DEF Wrap
<1>5. Wrap(x) \in LimbValues
  BY <1>1 DEF Wrap, LimbValues
<1> QED BY <1>2, <1>3, <1>4, <1>5

(* A limb, what is added to it, and what is carried in.                     *)
LEMMA AddStep ==
  ASSUME NEW d \in LimbValues, NEW c \in LimbValues, NEW t \in LimbValues
  PROVE  LET a == Wrap(d + c)
             b == Wrap(a + t)
             carry == Borrow(a < c) + Borrow(b < t)
         IN  /\ b \in LimbValues /\ carry \in LimbValues
             /\ d + c + t = b + carry * Limbs
             /\ c <= 1 => carry <= 1
             /\ t = 0 => carry <= 1
<1> DEFINE a == Wrap(d + c)
           b == Wrap(a + t)
<1>0. Limbs \in Nat /\ Limbs >= 4
  BY Base
<1> HIDE DEF Limbs
<1>1. /\ a \in LimbValues
      /\ \/ a = d + c /\ Borrow(a < c) = 0
         \/ a = d + c - Limbs /\ Borrow(a < c) = 1
  <2>1. CASE d + c < Limbs
    <3>1. d + c \in LimbValues
      BY <1>0, <2>1 DEF LimbValues
    <3>2. a = d + c
      BY <3>1, WrapIs DEF LimbValues
    <3> HIDE DEF a
    <3> QED BY <1>0, <3>1, <3>2 DEF LimbValues, Borrow
  <2>2. CASE d + c >= Limbs
    <3>1. d + c < 2 * Limbs /\ d + c \in Int
      BY <1>0 DEF LimbValues
    <3>2. a = d + c - Limbs /\ a \in LimbValues
      BY <1>0, <2>2, <3>1, WrapIs DEF LimbValues
    <3> HIDE DEF a
    <3> QED BY <1>0, <3>2 DEF LimbValues, Borrow
  <2> QED BY <1>0, <2>1, <2>2 DEF LimbValues
<1> HIDE DEF a
<1>2. /\ b \in LimbValues
      /\ \/ b = a + t /\ Borrow(b < t) = 0
         \/ b = a + t - Limbs /\ Borrow(b < t) = 1
  <2>1. CASE a + t < Limbs
    <3>1. a + t \in LimbValues
      BY <1>0, <1>1, <2>1 DEF LimbValues
    <3>2. b = a + t
      BY <3>1, WrapIs DEF LimbValues
    <3> HIDE DEF b
    <3> QED BY <1>0, <1>1, <3>1, <3>2 DEF LimbValues, Borrow
  <2>2. CASE a + t >= Limbs
    <3>1. a + t < 2 * Limbs /\ a + t \in Int
      BY <1>0, <1>1 DEF LimbValues
    <3>2. b = a + t - Limbs /\ b \in LimbValues
      BY <1>0, <1>1, <2>2, <3>1, WrapIs DEF LimbValues
    <3> HIDE DEF b
    <3> QED BY <1>0, <1>1, <3>2 DEF LimbValues, Borrow
  <2> QED BY <1>0, <1>1, <2>1, <2>2 DEF LimbValues
<1> HIDE DEF b
<1> DEFINE u == Borrow(a < c)
           v == Borrow(b < t)
<1>3. /\ u \in 0 .. 1 /\ v \in 0 .. 1
      /\ a = d + c - u * Limbs /\ b = a + t - v * Limbs
  BY <1>0, <1>1, <1>2 DEF LimbValues
<1>4. u = 1 /\ (c <= 1 \/ t = 0) => v = 0
  BY <1>0, <1>1, <1>2, <1>3 DEF LimbValues
<1> HIDE DEF u, v
<1>5. (u + v) * Limbs = u * Limbs + v * Limbs
  BY <1>0, <1>3
<1>6. d + c + t = b + (u + v) * Limbs
  BY <1>0, <1>1, <1>2, <1>3, <1>5 DEF LimbValues
<1>7. u + v \in LimbValues /\ (c <= 1 \/ t = 0 => u + v <= 1)
  BY <1>0, <1>3, <1>4 DEF LimbValues
<1> QED BY <1>2, <1>6, <1>7 DEF a, b, u, v

(* A limb, what is subtracted from it, and what was borrowed.               *)
LEMMA SubStep ==
  ASSUME NEW d \in LimbValues, NEW c \in 0 .. 1, NEW t \in LimbValues
  PROVE  LET a == Wrap(d - c)
             r == Wrap(a - t)
             borrow == Borrow(d < c) + Borrow(a < t)
         IN  /\ r \in LimbValues /\ borrow \in 0 .. 1
             /\ d - c - t = r - borrow * Limbs
<1> DEFINE a == Wrap(d - c)
           r == Wrap(a - t)
<1>0. Limbs \in Nat /\ Limbs >= 4
  BY Base
<1> HIDE DEF Limbs
<1>1. /\ a \in LimbValues
      /\ \/ a = d - c /\ Borrow(d < c) = 0
         \/ a = Limbs - 1 /\ d - c = -1 /\ Borrow(d < c) = 1
  <2>1. CASE d >= c
    <3>1. d - c \in LimbValues
      BY <1>0, <2>1 DEF LimbValues
    <3>2. a = d - c
      BY <3>1, WrapIs DEF LimbValues
    <3> HIDE DEF a
    <3> QED BY <1>0, <2>1, <3>1, <3>2 DEF LimbValues, Borrow
  <2>2. CASE d < c
    <3>1. d - c = -1 /\ d - c >= - Limbs
      BY <1>0, <2>2 DEF LimbValues
    <3>2. a = Limbs - 1 /\ a \in LimbValues
      BY <1>0, <3>1, WrapIs
    <3> HIDE DEF a
    <3> QED BY <1>0, <2>2, <3>1, <3>2 DEF LimbValues, Borrow
  <2> QED BY <1>0, <2>1, <2>2 DEF LimbValues
<1> HIDE DEF a
<1>2. /\ r \in LimbValues
      /\ \/ r = a - t /\ Borrow(a < t) = 0
         \/ r = a - t + Limbs /\ a < t /\ Borrow(a < t) = 1
  <2>1. CASE a >= t
    <3>1. a - t \in LimbValues
      BY <1>0, <1>1, <2>1 DEF LimbValues
    <3>2. r = a - t
      BY <3>1, WrapIs DEF LimbValues
    <3> HIDE DEF r
    <3> QED BY <1>0, <1>1, <2>1, <3>1, <3>2 DEF LimbValues, Borrow
  <2>2. CASE a < t
    <3>1. a - t < 0 /\ a - t >= - Limbs /\ a - t \in Int
      BY <1>0, <1>1, <2>2 DEF LimbValues
    <3>2. r = a - t + Limbs /\ r \in LimbValues
      BY <3>1, WrapIs
    <3> HIDE DEF r
    <3> QED BY <1>0, <1>1, <2>2, <3>2 DEF LimbValues, Borrow
  <2> QED BY <1>0, <1>1, <2>1, <2>2 DEF LimbValues
<1> HIDE DEF r
<1> DEFINE u == Borrow(d < c)
           v == Borrow(a < t)
<1>3. /\ u \in 0 .. 1 /\ v \in 0 .. 1
      /\ a = d - c + u * Limbs /\ r = a - t + v * Limbs
  BY <1>0, <1>1, <1>2 DEF LimbValues
<1>4. u = 1 => v = 0
  BY <1>0, <1>1, <1>2, <1>3 DEF LimbValues
<1> HIDE DEF u, v
<1>5. (u + v) * Limbs = u * Limbs + v * Limbs
  BY <1>0, <1>3
<1>6. d - c - t = r - (u + v) * Limbs
  BY <1>0, <1>1, <1>2, <1>3, <1>5 DEF LimbValues
<1>7. u + v \in 0 .. 1
  BY <1>3, <1>4
<1> QED BY <1>2, <1>6, <1>7 DEF a, r, u, v

LEMMA CarryOne ==
  ASSUME NEW x \in LimbValues, NEW y \in LimbValues
  PROVE  LET z == Wrap(x + y)
         IN  /\ z \in LimbValues /\ Borrow(z < y) \in 0 .. 1
             /\ x + y = z + Borrow(z < y) * Limbs
<1> DEFINE z == Wrap(x + y)
<1>0. Limbs \in Nat /\ Limbs >= 4
  BY Base
<1> HIDE DEF Limbs
<1>1. CASE x + y < Limbs
  <2>1. x + y \in LimbValues
    BY <1>0, <1>1 DEF LimbValues
  <2>2. z = x + y
    BY <2>1, WrapIs DEF LimbValues
  <2> HIDE DEF z
  <2>3. Borrow(z < y) = 0
    BY <1>0, <2>1, <2>2 DEF LimbValues, Borrow
  <2> QED BY <1>0, <2>1, <2>2, <2>3 DEF z, LimbValues
<1>2. CASE x + y >= Limbs
  <2>1. x + y < 2 * Limbs /\ x + y \in Int
    BY <1>0 DEF LimbValues
  <2>2. z = x + y - Limbs /\ z \in LimbValues
    BY <1>0, <1>2, <2>1, WrapIs DEF LimbValues
  <2> HIDE DEF z
  <2>3. Borrow(z < y) = 1
    BY <1>0, <2>2 DEF LimbValues, Borrow
  <2> QED BY <1>0, <2>2, <2>3 DEF z, LimbValues
<1> QED BY <1>0, <1>1, <1>2 DEF LimbValues

(* A limb and its halves.                                                   *)
LEMMA Halves ==
  ASSUME NEW x \in LimbValues
  PROVE  /\ Hi(x) \in 0 .. Half - 1 /\ Lo(x) \in 0 .. Half - 1
         /\ x = Hi(x) * Half + Lo(x)
<1>0. Half \in Nat \ {0} /\ Limbs = Half * Half /\ x \in Nat /\ x < Limbs
  BY Base DEF LimbValues
<1> HIDE DEF Limbs, Half
<1> DEFINE h == x \div Half
           l == x % Half
<1>1. h \in Int /\ l \in 0 .. Half - 1 /\ x = Half * h + l
  BY <1>0
<1> HIDE DEF h, l
<1>2. h >= 0
  <2>1. SUFFICES ASSUME h <= -1 PROVE FALSE
    BY <1>1
  <2>2. Half * h <= - Half
    BY <1>0, <1>1, <2>1
  <2> QED BY <1>0, <1>1, <2>2
<1>3. h < Half
  <2>1. SUFFICES ASSUME h >= Half PROVE FALSE
    BY <1>0, <1>1
  <2>2. Half * h >= Half * Half
    BY <1>0, <1>1, <2>1
  <2> QED BY <1>0, <1>1, <2>2
<1>4. Half * h = h * Half
  BY <1>0, <1>1
<1> QED BY <1>0, <1>1, <1>2, <1>3, <1>4 DEF h, l, Hi, Lo

LEMMA HalfProduct ==
  ASSUME NEW x \in 0 .. Half - 1, NEW y \in 0 .. Half - 1
  PROVE  x * y \in LimbValues /\ x * Half \in LimbValues
<1>0. Half \in Nat /\ Half >= 2 /\ Limbs = Half * Half
  BY Base
<1> HIDE DEF Limbs, Half
<1>1. x * Half \in Nat /\ x * Half <= (Half - 1) * Half
  BY <1>0
<1>2. (Half - 1) * Half = Half * Half - Half
  BY <1>0
<1>3. x * y \in Nat /\ x * y <= x * Half
  BY <1>0
<1> QED BY <1>0, <1>1, <1>2, <1>3 DEF LimbValues

(* The upper half of a shifted half product belongs to the carry.           *)
LEMMA ShiftedHalf ==
  ASSUME NEW x \in LimbValues
  PROVE  /\ Wrap(x * Half) \in LimbValues
         /\ x * Half = Hi(x) * Limbs + Wrap(x * Half)
<1> DEFINE h == Hi(x)
           l == Lo(x)
<1>1. h \in 0 .. Half - 1 /\ l \in 0 .. Half - 1 /\ x = h * Half + l
  BY Halves
<1>2. l * Half \in LimbValues
  BY <1>1, HalfProduct
<1>3. Limbs \in Nat \ {0} /\ Half \in Nat /\ Limbs = Half * Half
  BY Base
<1> HIDE DEF Limbs, Half, h, l
<1>4. x * Half = (h * Half + l) * Half
  BY <1>1
<1>5. (h * Half + l) * Half = h * (Half * Half) + l * Half
  BY <1>1, <1>3
<1>6. x * Half = h * Limbs + l * Half /\ x * Half \in Int
  BY <1>1, <1>3, <1>4, <1>5 DEF LimbValues
<1>7. Wrap(x * Half) = l * Half
  <2>1. h \in Int /\ l * Half \in 0 .. Limbs - 1
    BY <1>1, <1>2, <1>3 DEF LimbValues
  <2> DEFINE y == x * Half
             r == l * Half
  <2>2. y = h * Limbs + r /\ y \in Int /\ r \in 0 .. Limbs - 1
    BY <1>6, <2>1
  <2> HIDE DEF y, r
  <2>3. y % Limbs = r
    BY <1>3, <2>1, <2>2, DivMod
  <2> QED BY <2>3 DEF y, r, Wrap
<1> QED BY <1>2, <1>6, <1>7 DEF h

(* The multiplication of two limbs in four half products, with what is      *)
(* added and what is carried in, loses nothing (bn_mul.h:704).              *)
LEMMA MulStep ==
  ASSUME NEW s \in LimbValues, NEW b \in LimbValues, NEW c \in LimbValues, NEW d \in LimbValues
  PROVE  LET r == MulAddC(s, b, c, d)
         IN  /\ r[1] \in LimbValues /\ r[2] \in LimbValues
             /\ s * b + c + d = r[1] * Limbs + r[2]
<1> DEFINE s1 == Hi(s)  s0 == Lo(s)  b1 == Hi(b)  b0 == Lo(b)
           rx == s0 * b1
           ry == s1 * b0
           a0 == Wrap(s0 * b0)
           wx == Wrap(rx * Half)
           wy == Wrap(ry * Half)
           a1 == Wrap(a0 + wx)
           a2 == Wrap(a1 + wy)
           a3 == Wrap(a2 + c)
           a4 == Wrap(a3 + d)
           e1 == Borrow(a1 < wx)
           e2 == Borrow(a2 < wy)
           e3 == Borrow(a3 < c)
           e4 == Borrow(a4 < d)
           hi == s1 * b1 + Hi(rx) + Hi(ry) + e1 + e2 + e3 + e4
<1>1. MulAddC(s, b, c, d) = <<Wrap(hi), a4>>
  BY DEF MulAddC
<1>2. /\ Limbs \in Nat /\ Limbs >= 4 /\ Limbs = Half * Half
      /\ Half \in Nat /\ Half >= 2
  BY Base
<1>3. /\ s1 \in 0 .. Half - 1 /\ s0 \in 0 .. Half - 1 /\ s = s1 * Half + s0
      /\ b1 \in 0 .. Half - 1 /\ b0 \in 0 .. Half - 1 /\ b = b1 * Half + b0
  BY Halves
<1> HIDE DEF s1, s0, b1, b0, Limbs, Half
<1>4. rx \in LimbValues /\ ry \in LimbValues /\ s0 * b0 \in LimbValues
  BY <1>3, HalfProduct
<1>5. a0 = s0 * b0 /\ a0 \in LimbValues
  BY <1>4, WrapIs DEF LimbValues
<1>6. /\ wx \in LimbValues /\ wy \in LimbValues
      /\ rx * Half = Hi(rx) * Limbs + wx
      /\ ry * Half = Hi(ry) * Limbs + wy
      /\ Hi(rx) \in 0 .. Half - 1 /\ Hi(ry) \in 0 .. Half - 1
  BY <1>4, ShiftedHalf, Halves
<1> HIDE DEF wx, wy, a0
<1>7. a1 \in LimbValues /\ e1 \in 0 .. 1 /\ a0 + wx = a1 + e1 * Limbs
  BY <1>5, <1>6, CarryOne
<1> HIDE DEF a1, e1
<1>8. a2 \in LimbValues /\ e2 \in 0 .. 1 /\ a1 + wy = a2 + e2 * Limbs
  BY <1>6, <1>7, CarryOne
<1> HIDE DEF a2, e2
<1>9. a3 \in LimbValues /\ e3 \in 0 .. 1 /\ a2 + c = a3 + e3 * Limbs
  BY <1>8, CarryOne
<1> HIDE DEF a3, e3
<1>10. a4 \in LimbValues /\ e4 \in 0 .. 1 /\ a3 + d = a4 + e4 * Limbs
  BY <1>9, CarryOne
<1> HIDE DEF a4, e4
<1> DEFINE hx == Hi(rx)
           hy == Hi(ry)
           p == s1 * b1
<1>11. hi \in Nat
  BY <1>3, <1>6, <1>7, <1>8, <1>9, <1>10
<1>12. s * b = p * Limbs + rx * Half + ry * Half + s0 * b0
  <2>1. s * b = (s1 * Half + s0) * (b1 * Half + b0)
    BY <1>3
  <2>2. (s1 * Half + s0) * (b1 * Half + b0)
          = (s1 * b1) * (Half * Half) + (s0 * b1) * Half + (s1 * b0) * Half + s0 * b0
    BY <1>2, <1>3
  <2> QED BY <1>2, <2>1, <2>2
<1>13. hi * Limbs = p * Limbs + hx * Limbs + hy * Limbs
                      + e1 * Limbs + e2 * Limbs + e3 * Limbs + e4 * Limbs
  <2>1. p \in Nat
    BY <1>3
  <2> HIDE DEF p, hx, hy
  <2>2. hx \in Nat /\ hy \in Nat
    BY <1>6 DEF hx, hy
  <2>3. hi = p + hx + hy + e1 + e2 + e3 + e4
    BY DEF p, hx, hy
  <2> HIDE DEF hi
  <2> QED BY <1>2, <1>7, <1>8, <1>9, <1>10, <2>1, <2>2, <2>3
<1>14. s * b + c + d = hi * Limbs + a4
  <2> DEFINE u0 == p * Limbs  ux == hx * Limbs  uy == hy * Limbs
             u1 == e1 * Limbs  u2 == e2 * Limbs  u3 == e3 * Limbs  u4 == e4 * Limbs
             vx == rx * Half  vy == ry * Half  sb == s * b  u == hi * Limbs
  <2>1. /\ u0 \in Int /\ ux \in Int /\ uy \in Int /\ u1 \in Int /\ u2 \in Int /\ u3 \in Int
        /\ u4 \in Int /\ vx \in Int /\ vy \in Int
    BY <1>2, <1>3, <1>4, <1>6, <1>7, <1>8, <1>9, <1>10 DEF LimbValues
  <2>2. /\ vx = ux + wx /\ vy = uy + wy /\ a0 + wx = a1 + u1 /\ a1 + wy = a2 + u2
        /\ a2 + c = a3 + u3 /\ a3 + d = a4 + u4
        /\ sb = u0 + vx + vy + a0
        /\ u = u0 + ux + uy + u1 + u2 + u3 + u4
    BY <1>5, <1>6, <1>7, <1>8, <1>9, <1>10, <1>12, <1>13
  <2>3. /\ a0 \in Int /\ a1 \in Int /\ a2 \in Int /\ a3 \in Int /\ a4 \in Int
        /\ wx \in Int /\ wy \in Int /\ c \in Int /\ d \in Int
    BY <1>2, <1>5, <1>6, <1>7, <1>8, <1>9, <1>10 DEF LimbValues
  <2> HIDE DEF u0, ux, uy, u1, u2, u3, u4, vx, vy, sb, u
  <2>4. sb + c + d = u + a4
    BY <2>1, <2>2, <2>3
  <2> QED BY <2>4 DEF sb, u
<1> HIDE DEF hi
<1>15. hi \in LimbValues
  <2>1. s * b <= (Limbs - 1) * (Limbs - 1)
    <3>1. s \in Nat /\ b \in Nat /\ s <= Limbs - 1 /\ b <= Limbs - 1
      BY <1>2 DEF LimbValues
    <3>2. s * b <= s * (Limbs - 1)
      BY <1>2, <3>1
    <3>3. s * (Limbs - 1) <= (Limbs - 1) * (Limbs - 1)
      BY <1>2, <3>1
    <3>4. s * b \in Int /\ s * (Limbs - 1) \in Int /\ (Limbs - 1) * (Limbs - 1) \in Int
      BY <1>2, <3>1
    <3> QED BY <3>2, <3>3, <3>4
  <2>2. (Limbs - 1) * (Limbs - 1) = Limbs * Limbs - 2 * Limbs + 1
    BY <1>2
  <2>3. hi * Limbs < Limbs * Limbs
    <3> DEFINE x == s * b  y == hi * Limbs  z == Limbs * Limbs
    <3>1. x \in Int /\ y \in Int /\ z \in Int
      BY <1>2, <1>11 DEF LimbValues
    <3>2. x <= z - 2 * Limbs + 1 /\ x + c + d = y + a4
      BY <1>14, <2>1, <2>2
    <3>3. c <= Limbs - 1 /\ d <= Limbs - 1 /\ a4 >= 0 /\ c \in Int /\ d \in Int /\ a4 \in Int
      BY <1>2, <1>10 DEF LimbValues
    <3> HIDE DEF x, y, z
    <3>4. y < z
      BY <1>2, <3>1, <3>2, <3>3
    <3> QED BY <3>4 DEF y, z
  <2>4. hi < Limbs
    <3>1. SUFFICES ASSUME hi >= Limbs PROVE FALSE
      BY <1>2, <1>11
    <3>2. hi * Limbs >= Limbs * Limbs
      BY <1>2, <1>11, <3>1
    <3>3. hi * Limbs \in Int /\ Limbs * Limbs \in Int
      BY <1>2, <1>11
    <3> QED BY <2>3, <3>2, <3>3
  <2> QED BY <1>2, <1>11, <2>4 DEF LimbValues
<1>16. Wrap(hi) = hi
  BY <1>11, <1>15, WrapIs
<1> QED BY <1>1, <1>10, <1>14, <1>15, <1>16

-----------------------------------------------------------------------------
(* The loops: recursive functions exist.                                    *)

(* Induction on the natural numbers, for a set instead of a predicate.      *)
LEMMA SetInduction ==
  ASSUME NEW S, 0 \in S, \A n \in Nat : n \in S => n + 1 \in S
  PROVE  \A n \in Nat : n \in S
<1> DEFINE T == {n \in Nat : n \notin S}
<1>1. SUFFICES ASSUME T # {} PROVE FALSE
  OBVIOUS
<1>2. PICK x \in T : \A y \in T : ~ (<<y, x>> \in OpToRel(<, Nat))
  BY <1>1, NatLessThanWellFounded, WFMin
<1>3. x \in Nat /\ x # 0 /\ x - 1 \in Nat /\ x - 1 \in S
  <2>1. x \in Nat /\ x # 0
    OBVIOUS
  <2>2. x - 1 \in Nat
    BY <2>1
  <2>3. <<x - 1, x>> \in OpToRel(<, Nat)
    BY <2>1, <2>2 DEF OpToRel
  <2> QED BY <1>2, <2>1, <2>2, <2>3
<1>4. (x - 1) + 1 \in S
  BY <1>3
<1> QED BY <1>3, <1>4

(* An assertion about the turns of a loop.                                  *)
LEMMA LoopInduction ==
  ASSUME NEW lo \in Nat, NEW hi \in Nat, NEW S, lo \in S,
         \A k \in lo + 1 .. hi : k - 1 \in S => k \in S
  PROVE  \A k \in lo .. hi : k \in S
<1> DEFINE T == {k \in Nat : lo + k <= hi => lo + k \in S}
<1>1. 0 \in T
  OBVIOUS
<1>2. ASSUME NEW k \in Nat, k \in T PROVE k + 1 \in T
  <2>1. SUFFICES ASSUME lo + (k + 1) <= hi PROVE lo + (k + 1) \in S
    OBVIOUS
  <2>2. lo + (k + 1) \in lo + 1 .. hi /\ (lo + (k + 1)) - 1 = lo + k /\ lo + k \in S
    BY <1>2, <2>1
  <2> QED BY <2>2
<1>3. \A k \in Nat : k \in T
  <2> HIDE DEF T
  <2> QED BY <1>1, <1>2, SetInduction
<1>4. ASSUME NEW k \in lo .. hi PROVE k \in S
  <2>1. k - lo \in Nat /\ lo + (k - lo) = k
    OBVIOUS
  <2>2. k - lo \in T
    BY <1>3, <2>1
  <2> QED BY <2>1, <2>2
<1> QED BY <1>4

(* What the turns lo + 1 .. hi of a loop make of x0.                        *)
Steps(lo, hi, State) == [(lo + 1 .. hi) \X State -> State]

Loops(f, lo, hi, State, x0, step) ==
    /\ f \in [lo .. hi -> State]
    /\ f[lo] = x0
    /\ \A k \in lo + 1 .. hi : f[k] = step[<<k, f[k - 1]>>]

LEMMA LoopExists ==
  ASSUME NEW lo \in Nat, NEW hi \in Nat, lo <= hi, NEW State, NEW x0 \in State,
         NEW step \in Steps(lo, hi, State)
  PROVE  \E f : Loops(f, lo, hi, State, x0, step)
<1> DEFINE To(k) == \E f \in [lo .. k -> State] :
                       f[lo] = x0 /\ \A j \in lo + 1 .. k : f[j] = step[<<j, f[j - 1]>>]
           S == {k \in Nat : To(k)}
<1>1. lo \in S
  <2>1. [j \in lo .. lo |-> x0] \in [lo .. lo -> State]
    OBVIOUS
  <2>2. [j \in lo .. lo |-> x0][lo] = x0
    OBVIOUS
  <2>3. lo + 1 .. lo = {}
    OBVIOUS
  <2> QED BY <2>1, <2>2, <2>3
<1>2. ASSUME NEW m \in lo + 1 .. hi, m - 1 \in S PROVE m \in S
  <2> DEFINE k == m - 1
  <2>1. k \in Nat /\ k >= lo /\ m = k + 1 /\ m \in Nat /\ k + 1 \in lo + 1 .. hi
    OBVIOUS
  <2>2. PICK f \in [lo .. k -> State] :
           f[lo] = x0 /\ \A j \in lo + 1 .. k : f[j] = step[<<j, f[j - 1]>>]
    BY <1>2
  <2> HIDE DEF k
  <2> DEFINE g == [j \in lo .. k + 1 |-> IF j <= k THEN f[j] ELSE step[<<k + 1, f[k]>>]]
  <2>3. k \in lo .. k /\ f[k] \in State
    BY <2>1, <2>2
  <2>3a. <<k + 1, f[k]>> \in (lo + 1 .. hi) \X State
    BY <2>1, <2>3
  <2>4. step[<<k + 1, f[k]>>] \in State
    BY <2>3a DEF Steps
  <2>5. g \in [lo .. k + 1 -> State]
    BY <2>1, <2>2, <2>4
  <2>6. g[lo] = x0
    BY <2>1, <2>2
  <2>7. ASSUME NEW j \in lo + 1 .. k + 1 PROVE g[j] = step[<<j, g[j - 1]>>]
    <3>1. j - 1 \in lo .. k + 1 /\ j - 1 <= k /\ j \in lo .. k + 1
      BY <2>1
    <3>1a. g[j - 1] = f[j - 1]
      BY <3>1
    <3>2. CASE j <= k
      <4>1. j \in lo + 1 .. k /\ g[j] = f[j]
        BY <2>1, <3>1, <3>2
      <4> QED BY <2>2, <3>1a, <4>1
    <3>3. CASE j = k + 1
      <4>1. j - 1 = k /\ ~(k + 1 <= k)
        BY <2>1, <3>3
      <4>2. g[k + 1] = step[<<k + 1, f[k]>>]
        <5>1. k + 1 \in lo .. k + 1
          BY <3>1, <3>3
        <5> QED BY <4>1, <5>1, Zenon
      <4> HIDE DEF g
      <4> QED BY <3>1a, <3>3, <4>1, <4>2
    <3>4. j <= k \/ j = k + 1
      BY <2>1
    <3> HIDE DEF g
    <3> QED BY <3>2, <3>3, <3>4
  <2>8. To(k + 1)
    BY <2>5, <2>6, <2>7
  <2> QED BY <2>1, <2>8
<1>3. hi \in S
  <2> HIDE DEF S
  <2>1. hi \in lo .. hi
    OBVIOUS
  <2> QED BY <1>1, <1>2, <2>1, LoopInduction
<1> QED BY <1>3 DEF Loops

-----------------------------------------------------------------------------
(* The number a sequence of limbs stands for.                               *)

Weight[k \in Nat] == IF k = 0 THEN 1 ELSE Weight[k - 1] * Limbs

(* That of its first limbs.                                                 *)
Partial(p) ==
    LET sum[k \in 0 .. Len(p)] == IF k = 0 THEN 0 ELSE sum[k - 1] + p[k] * Weight[k - 1]
    IN  sum

Value(p) == Partial(p)[Len(p)]

Weighs(w, n) == w \in [0 .. n -> Nat] /\ w[0] = 1 /\ \A k \in 1 .. n : w[k] = w[k - 1] * Limbs

LEMMA WeighsExists ==
  ASSUME NEW n \in Nat
  PROVE  \E w : Weighs(w, n)
<1>1. Limbs \in Nat
  BY Base
<1> HIDE DEF Limbs
<1> DEFINE step == [kx \in (0 + 1 .. n) \X Nat |-> kx[2] * Limbs]
<1>2. step \in [(0 + 1 .. n) \X Nat -> Nat]
  BY <1>1
<1>3. \A k \in 0 + 1 .. n, x \in Nat : step[<<k, x>>] = x * Limbs
  OBVIOUS
<1> HIDE DEF step
<1>4. PICK w : Loops(w, 0, n, Nat, 1, step)
  <2>1. 0 \in Nat /\ 0 <= n /\ 1 \in Nat /\ step \in Steps(0, n, Nat)
    BY <1>2 DEF Steps
  <2> QED BY <2>1, LoopExists
<1>5. \A k \in 1 .. n : w[k] = w[k - 1] * Limbs
  <2> TAKE k \in 1 .. n
  <2>1. k - 1 \in 0 .. n /\ k \in 0 + 1 .. n
    OBVIOUS
  <2>2. w[k] = step[<<k, w[k - 1]>>] /\ w[k - 1] \in Nat
    BY <1>4, <2>1 DEF Loops
  <2> QED BY <1>3, <2>1, <2>2
<1> QED BY <1>4, <1>5 DEF Weighs, Loops

LEMMA WeighsUnique ==
  ASSUME NEW n \in Nat, NEW m \in Nat, NEW w, NEW v, Weighs(w, n), Weighs(v, m), n <= m
  PROVE  \A k \in 0 .. n : w[k] = v[k]
<1> DEFINE S == {k \in Nat : w[k] = v[k]}
<1>1. 0 \in S
  BY DEF Weighs
<1>2. \A k \in 0 + 1 .. n : k - 1 \in S => k \in S
  BY DEF Weighs
<1> HIDE DEF S
<1>3. \A k \in 0 .. n : k \in S
  BY <1>1, <1>2, LoopInduction
<1> QED BY <1>3 DEF S

LEMMA WeightIs ==
  /\ Weight[0] = 1
  /\ \A k \in Nat : Weight[k] \in Nat \ {0} /\ Weight[k + 1] = Weight[k] * Limbs
<1> DEFINE W(n) == CHOOSE w : Weighs(w, n)
           g == [k \in Nat |-> W(k)[k]]
           Recursion(f) == f = [k \in Nat |-> IF k = 0 THEN 1 ELSE f[k - 1] * Limbs]
<1>0. Limbs \in Nat /\ Limbs >= 4
  BY Base
<1>1. \A n \in Nat : Weighs(W(n), n)
  BY WeighsExists
<1> HIDE DEF W
<1>2. ASSUME NEW k \in Nat, k # 0 PROVE g[k] = g[k - 1] * Limbs
  <2>1. k - 1 \in Nat /\ k - 1 <= k /\ k - 1 \in 0 .. k - 1 /\ k \in 1 .. k
    BY <1>2
  <2>2. W(k - 1)[k - 1] = W(k)[k - 1]
    BY <1>1, <2>1, WeighsUnique
  <2>3. W(k)[k] = W(k)[k - 1] * Limbs
    BY <1>1, <2>1 DEF Weighs
  <2> QED BY <2>1, <2>2, <2>3
<1>3. g[0] = 1
  BY <1>1 DEF Weighs
<1>4. Recursion(g)
  <2> HIDE DEF g
  <2>1. DOMAIN g = Nat /\ g = [k \in Nat |-> g[k]]
    BY DEF g
  <2> QED BY <1>2, <1>3, <2>1
<1>5. Recursion(Weight)
  <2>1. Weight = CHOOSE f : Recursion(f)
    BY DEF Weight
  <2> HIDE DEF Recursion
  <2> QED BY <1>4, <2>1
<1>6. Weight[0] = 1 /\ \A k \in Nat : Weight[k + 1] = Weight[k] * Limbs
  <2> HIDE DEF Limbs
  <2>1. \A k \in Nat : Weight[k] = IF k = 0 THEN 1 ELSE Weight[k - 1] * Limbs
    BY <1>5
  <2>2. \A k \in Nat : k + 1 \in Nat /\ k + 1 # 0 /\ (k + 1) - 1 = k
    OBVIOUS
  <2> QED BY <2>1, <2>2
<1>7. \A k \in Nat : Weight[k] \in Nat \ {0}
  <2> DEFINE S == {k \in Nat : Weight[k] \in Nat \ {0}}
  <2>1. 0 \in S
    BY <1>6
  <2>2. \A k \in Nat : k \in S => k + 1 \in S
    <3> TAKE k \in Nat
    <3> HAVE k \in S
    <3> HIDE DEF Limbs
    <3>1. Weight[k] * Limbs \in Nat \ {0}
      BY <1>0
    <3> QED BY <1>6, <3>1
  <2> HIDE DEF S
  <2>3. \A k \in Nat : k \in S
    BY <2>1, <2>2, SetInduction
  <2> QED BY <2>3 DEF S
<1> QED BY <1>6, <1>7

Sums(p, sum) ==
    sum = [k \in 0 .. Len(p) |-> IF k = 0 THEN 0 ELSE sum[k - 1] + p[k] * Weight[k - 1]]

LEMMA PartialIs ==
  ASSUME NEW p \in Seq(LimbValues)
  PROVE  /\ Partial(p) \in [0 .. Len(p) -> Nat]
         /\ Partial(p)[0] = 0
         /\ \A k \in 1 .. Len(p) : Partial(p)[k] = Partial(p)[k - 1] + p[k] * Weight[k - 1]
<1> DEFINE n == Len(p)
           sum == CHOOSE f : Sums(p, f)
           step == [kx \in (0 + 1 .. n) \X Nat |-> kx[2] + p[kx[1]] * Weight[kx[1] - 1]]
<1>0. n \in Nat /\ \A k \in 1 .. n : p[k] \in Nat
  BY Base DEF LimbValues
<1>1. \A k \in 1 .. n, x \in Nat : x + p[k] * Weight[k - 1] \in Nat
  <2> TAKE k \in 1 .. n, x \in Nat
  <2>1. k - 1 \in Nat
    OBVIOUS
  <2>2. Weight[k - 1] \in Nat /\ p[k] \in Nat
    BY <1>0, <2>1, WeightIs
  <2> QED BY <2>2
<1>2. /\ step \in Steps(0, n, Nat)
      /\ \A k \in 1 .. n, x \in Nat : step[<<k, x>>] = x + p[k] * Weight[k - 1]
  <2>1. 0 + 1 .. n = 1 .. n
    OBVIOUS
  <2>2. \A kx \in (0 + 1 .. n) \X Nat : kx[1] \in 1 .. n /\ kx[2] \in Nat
    OBVIOUS
  <2>3. step \in Steps(0, n, Nat)
    BY <1>1, <2>2 DEF Steps
  <2>4. \A k \in 1 .. n, x \in Nat : <<k, x>> \in (0 + 1 .. n) \X Nat
    BY <2>1
  <2> QED BY <2>3, <2>4
<1> HIDE DEF step
<1>3. PICK f : Loops(f, 0, n, Nat, 0, step)
  <2>1. 0 \in Nat /\ 0 <= n
    BY <1>0
  <2> QED BY <1>0, <1>2, <2>1, LoopExists
<1>4. /\ f \in [0 .. n -> Nat] /\ f[0] = 0
      /\ \A k \in 1 .. n : f[k] = f[k - 1] + p[k] * Weight[k - 1]
  <2>1. \A k \in 1 .. n : k \in 0 + 1 .. n /\ k - 1 \in 0 .. n
    OBVIOUS
  <2>2. f \in [0 .. n -> Nat] /\ f[0] = 0 /\ \A k \in 0 + 1 .. n : f[k] = step[<<k, f[k - 1]>>]
    BY <1>3 DEF Loops
  <2> QED BY <1>2, <2>1, <2>2
<1>5. Sums(p, f)
  <2>1. f = [k \in 0 .. n |-> f[k]]
    BY <1>4
  <2>2. \A k \in 0 .. n : k = 0 \/ k \in 1 .. n
    OBVIOUS
  <2>3. \A k \in 0 .. n : f[k] = IF k = 0 THEN 0 ELSE f[k - 1] + p[k] * Weight[k - 1]
    BY <1>4, <2>2
  <2>4. f = [k \in 0 .. n |-> IF k = 0 THEN 0 ELSE f[k - 1] + p[k] * Weight[k - 1]]
    BY <2>1, <2>3
  <2> QED BY <2>4 DEF Sums
<1>6. Sums(p, sum)
  BY <1>5
<1>7. Partial(p) = sum
  BY DEF Partial, Sums
<1> HIDE DEF sum
<1>8. /\ DOMAIN sum = 0 .. n /\ sum = [k \in 0 .. n |-> sum[k]]
      /\ sum[0] = 0
      /\ \A k \in 1 .. n : sum[k] = sum[k - 1] + p[k] * Weight[k - 1]
  <2>1. sum = [k \in 0 .. n |-> IF k = 0 THEN 0 ELSE sum[k - 1] + p[k] * Weight[k - 1]]
    BY <1>6 DEF Sums
  <2>2. \A k \in 1 .. n : k \in 0 .. n /\ k # 0
    OBVIOUS
  <2>3. 0 \in 0 .. n
    BY <1>0
  <2> QED BY <2>1, <2>2, <2>3
<1>9. \A k \in 0 .. n : sum[k] = f[k]
  <2> DEFINE S == {k \in Nat : sum[k] = f[k]}
  <2>1. 0 \in S
    BY <1>4, <1>8
  <2>2. \A k \in 0 + 1 .. n : k - 1 \in S => k \in S
    <3> TAKE k \in 0 + 1 .. n
    <3> HAVE k - 1 \in S
    <3>1. k \in 1 .. n /\ k \in Nat /\ sum[k - 1] = f[k - 1]
      OBVIOUS
    <3>2. sum[k] = f[k]
      BY <1>4, <1>8, <3>1
    <3> QED BY <3>1, <3>2
  <2> HIDE DEF S
  <2>3. \A k \in 0 .. n : k \in S
    BY <1>0, <2>1, <2>2, LoopInduction
  <2> QED BY <2>3 DEF S
<1>10. sum \in [0 .. n -> Nat]
  BY <1>4, <1>8, <1>9
<1> QED BY <1>7, <1>8, <1>10

(* The first k limbs are below the weight of the next one.                  *)
LEMMA PartialBound ==
  ASSUME NEW p \in Seq(LimbValues)
  PROVE  \A k \in 0 .. Len(p) : Partial(p)[k] < Weight[k]
<1> DEFINE f == Partial(p)
           n == Len(p)
           S == {k \in Nat : f[k] < Weight[k]}
<1>0. n \in Nat /\ \A k \in 1 .. n : p[k] \in Nat /\ p[k] <= Limbs - 1
  BY Base DEF LimbValues
<1>1. /\ f \in [0 .. n -> Nat] /\ f[0] = 0
      /\ \A k \in 1 .. n : f[k] = f[k - 1] + p[k] * Weight[k - 1]
  BY PartialIs
<1>2. Limbs \in Nat /\ Limbs >= 4
  BY Base
<1> HIDE DEF f, Limbs
<1>3. 0 \in S
  BY <1>1, WeightIs
<1>4. \A k \in 0 + 1 .. n : k - 1 \in S => k \in S
  <2> TAKE k \in 0 + 1 .. n
  <2> HAVE k - 1 \in S
  <2> DEFINE w == Weight[k - 1]
             x == f[k - 1]
  <2>1. k \in 1 .. n /\ k - 1 \in Nat /\ k \in Nat /\ k - 1 \in 0 .. n /\ (k - 1) + 1 = k
    OBVIOUS
  <2>2. w \in Nat \ {0} /\ Weight[k] = w * Limbs /\ x \in Nat /\ x < w
    BY <1>1, <2>1, WeightIs
  <2>3. f[k] = x + p[k] * w /\ p[k] \in Nat /\ p[k] <= Limbs - 1
    BY <1>0, <1>1, <2>1
  <2> HIDE DEF w, x
  <2>4. p[k] * w <= (Limbs - 1) * w
    BY <1>2, <2>2, <2>3
  <2>5. (Limbs - 1) * w = w * Limbs - w /\ p[k] * w \in Int /\ w * Limbs \in Int
    BY <1>2, <2>2, <2>3
  <2>6. f[k] < Weight[k]
    BY <2>2, <2>3, <2>4, <2>5
  <2> QED BY <2>1, <2>6
<1> HIDE DEF S
<1>5. \A k \in 0 .. n : k \in S
  BY <1>0, <1>3, <1>4, LoopInduction
<1> QED BY <1>5 DEF S, f

LEMMA PartialGrows ==
  ASSUME NEW p \in Seq(LimbValues), NEW i \in 0 .. Len(p)
  PROVE  \A k \in i .. Len(p) : Partial(p)[i] <= Partial(p)[k]
<1> DEFINE f == Partial(p)
           n == Len(p)
           S == {k \in Nat : f[i] <= f[k]}
<1>0. n \in Nat /\ i \in Nat /\ i <= n
  OBVIOUS
<1>1. f \in [0 .. n -> Nat] /\ \A k \in 1 .. n : f[k] = f[k - 1] + p[k] * Weight[k - 1]
  BY PartialIs
<1> HIDE DEF f
<1>2. i \in S
  BY <1>0, <1>1
<1>3. \A k \in i + 1 .. n : k - 1 \in S => k \in S
  <2> TAKE k \in i + 1 .. n
  <2> HAVE k - 1 \in S
  <2>1. k \in 1 .. n /\ k - 1 \in Nat /\ k \in Nat /\ k - 1 \in 0 .. n
    BY <1>0
  <2>2. p[k] \in Nat /\ Weight[k - 1] \in Nat
    <3>1. p[k] \in Nat
      BY <2>1, Base DEF LimbValues
    <3>2. Weight[k - 1] \in Nat
      BY <2>1, WeightIs
    <3> QED BY <3>1, <3>2
  <2>3. p[k] * Weight[k - 1] \in Nat
    BY <2>2
  <2>4. f[i] <= f[k]
    BY <1>0, <1>1, <2>1, <2>3
  <2> QED BY <2>1, <2>4
<1> HIDE DEF S
<1>4. \A k \in i .. n : k \in S
  BY <1>0, <1>2, <1>3, LoopInduction
<1> QED BY <1>4 DEF S, f

(* Only the limbs matter.                                                   *)
LEMMA PartialSame ==
  ASSUME NEW p \in Seq(LimbValues), NEW q \in Seq(LimbValues), NEW n \in Nat,
         n <= Len(p), n <= Len(q), \A k \in 1 .. n : p[k] = q[k]
  PROVE  \A k \in 0 .. n : Partial(p)[k] = Partial(q)[k]
<1> DEFINE f == Partial(p)
           g == Partial(q)
           S == {k \in Nat : f[k] = g[k]}
<1>1. f[0] = 0 /\ \A k \in 1 .. n : f[k] = f[k - 1] + p[k] * Weight[k - 1]
  BY PartialIs
<1>2. g[0] = 0 /\ \A k \in 1 .. n : g[k] = g[k - 1] + q[k] * Weight[k - 1]
  BY PartialIs
<1> HIDE DEF f, g
<1>3. 0 \in S
  BY <1>1, <1>2
<1>4. \A k \in 0 + 1 .. n : k - 1 \in S => k \in S
  BY <1>1, <1>2
<1> HIDE DEF S
<1>5. \A k \in 0 .. n : k \in S
  BY <1>3, <1>4, LoopInduction
<1> QED BY <1>5 DEF S, f, g

(* Zeros do not count.                                                      *)
LEMMA PartialZeros ==
  ASSUME NEW p \in Seq(LimbValues), NEW n \in Nat,
         n <= Len(p), \A k \in n + 1 .. Len(p) : p[k] = 0
  PROVE  \A k \in n .. Len(p) : Partial(p)[k] = Partial(p)[n]
<1> DEFINE f == Partial(p)
           m == Len(p)
           S == {k \in Nat : f[k] = f[n]}
<1>0. m \in Nat
  OBVIOUS
<1>1. f \in [0 .. m -> Nat] /\ \A k \in 1 .. m : f[k] = f[k - 1] + p[k] * Weight[k - 1]
  BY PartialIs
<1> HIDE DEF f
<1>3. n \in S
  OBVIOUS
<1>4. \A k \in n + 1 .. m : k - 1 \in S => k \in S
  <2> TAKE k \in n + 1 .. m
  <2> HAVE k - 1 \in S
  <2>1. k \in 1 .. m /\ p[k] = 0 /\ k - 1 \in Nat /\ k \in Nat /\ k - 1 \in 0 .. m
    OBVIOUS
  <2>2. Weight[k - 1] \in Nat
    BY <2>1, WeightIs
  <2>3. f[k] = f[k - 1] /\ f[k - 1] \in Nat
    BY <1>1, <2>1, <2>2
  <2> QED BY <2>1, <2>3
<1> HIDE DEF S
<1>5. \A k \in n .. m : k \in S
  BY <1>0, <1>3, <1>4, LoopInduction
<1> QED BY <1>5 DEF S, f

(* One limb is changed.                                                     *)
Updated(p, i, x, q) ==
    /\ q \in Seq(LimbValues) /\ Len(q) = Len(p)
    /\ \A k \in 0 .. i - 1 : Partial(q)[k] = Partial(p)[k]
    /\ \A k \in i .. Len(p) : Partial(q)[k] = Partial(p)[k] + (x - p[i]) * Weight[i - 1]

LEMMA PartialUpdate ==
  ASSUME NEW p \in Seq(LimbValues), NEW i \in 1 .. Len(p), NEW x \in LimbValues
  PROVE  Updated(p, i, x, [p EXCEPT ![i] = x])
<1> DEFINE q == [p EXCEPT ![i] = x]
           f == Partial(p)
           g == Partial(q)
           n == Len(p)
           w == (x - p[i]) * Weight[i - 1]
           S == {k \in Nat : g[k] = f[k] + w}
<1>0. n \in Nat /\ i \in Nat /\ i >= 1 /\ i <= n /\ p[i] \in Int /\ x \in Int
  BY Base DEF LimbValues
<1>1. q \in Seq(LimbValues) /\ Len(q) = n /\ q[i] = x /\ \A k \in 1 .. n : k # i => q[k] = p[k]
  OBVIOUS
<1> HIDE DEF q
<1>2. /\ f \in [0 .. n -> Nat]
      /\ \A k \in 1 .. n : f[k] = f[k - 1] + p[k] * Weight[k - 1]
  BY PartialIs
<1>3. /\ g \in [0 .. n -> Nat]
      /\ \A k \in 1 .. n : g[k] = g[k - 1] + q[k] * Weight[k - 1]
  BY <1>1, PartialIs
<1>4. \A k \in 0 .. i - 1 : g[k] = f[k]
  <2>1. i - 1 \in Nat /\ i - 1 <= n /\ \A k \in 1 .. i - 1 : q[k] = p[k]
    BY <1>0, <1>1
  <2> QED BY <1>1, <2>1, PartialSame
<1> HIDE DEF f, g
<1>5. i \in S
  <2> DEFINE v == Weight[i - 1]
             y == f[i - 1]
  <2>0. i - 1 \in Nat /\ i - 1 \in 0 .. i - 1 /\ i - 1 \in 0 .. n /\ i \in 1 .. n /\ i \in Nat
    BY <1>0
  <2>1. v \in Nat /\ y \in Nat /\ i - 1 \in 0 .. i - 1 /\ i \in 1 .. n /\ i \in Nat
    BY <1>2, <2>0, WeightIs
  <2>2. f[i] = y + p[i] * v /\ g[i] = y + x * v
    BY <1>1, <1>2, <1>3, <1>4, <2>1
  <2> HIDE DEF v, y
  <2>3. (x - p[i]) * v = x * v - p[i] * v /\ x * v \in Int /\ p[i] * v \in Int
    BY <1>0, <2>1
  <2>4. g[i] = f[i] + (x - p[i]) * v
    BY <2>1, <2>2, <2>3
  <2> QED BY <2>1, <2>4 DEF v
<1>6. w \in Int
  <2>1. i - 1 \in Nat
    BY <1>0
  <2>2. Weight[i - 1] \in Nat
    BY <2>1, WeightIs
  <2> QED BY <1>0, <2>2
<1> HIDE DEF w
<1>7. \A k \in i + 1 .. n : k - 1 \in S => k \in S
  <2> TAKE k \in i + 1 .. n
  <2> HAVE k - 1 \in S
  <2> DEFINE v == p[k] * Weight[k - 1]
  <2>1. k \in 1 .. n /\ k # i /\ k - 1 \in 0 .. n /\ k - 1 \in Nat /\ k \in Nat
    BY <1>0
  <2>2. p[k] \in Nat /\ Weight[k - 1] \in Nat
    <3>1. p[k] \in Nat
      BY <2>1, Base DEF LimbValues
    <3>2. Weight[k - 1] \in Nat
      BY <2>1, WeightIs
    <3> QED BY <3>1, <3>2
  <2>3. v \in Nat
    BY <2>2
  <2>4. f[k] = f[k - 1] + v /\ g[k] = g[k - 1] + v
    BY <1>1, <1>2, <1>3, <2>1
  <2>5. f[k - 1] \in Nat /\ g[k - 1] = f[k - 1] + w
    BY <1>2, <2>1
  <2> HIDE DEF v
  <2>6. g[k] = f[k] + w
    BY <1>6, <2>3, <2>4, <2>5
  <2> QED BY <2>1, <2>6
<1> HIDE DEF S
<1>8. \A k \in i .. n : k \in S
  BY <1>0, <1>5, <1>7, LoopInduction
<1> QED BY <1>1, <1>4, <1>8 DEF S, f, g, w, q, Updated

-----------------------------------------------------------------------------
(* The loop of mpi_add_abs, which is also the end of mpi_mul_hlp.           *)

Padded(s, n) == [i \in 1 .. n |-> Digit(s, i)]

LEMMA PaddedIs ==
  ASSUME NEW s \in Seq(LimbValues), NEW n \in Nat
  PROVE  /\ Padded(s, n) \in Seq(LimbValues) /\ Len(Padded(s, n)) = n
         /\ \A i \in 1 .. n : Padded(s, n)[i] = Digit(s, i) /\ Digit(s, i) \in LimbValues
         /\ n >= Len(s) => Value(Padded(s, n)) = Value(s)
<1> DEFINE q == Padded(s, n)
<1>0. Limbs \in Nat /\ Limbs >= 4 /\ Len(s) \in Nat
  BY Base
<1>1. \A i \in 1 .. n : Digit(s, i) \in LimbValues
  <2> TAKE i \in 1 .. n
  <2>1. CASE i <= Len(s)
    BY <1>0, <2>1 DEF Digit
  <2>2. CASE i > Len(s)
    BY <1>0, <2>2 DEF Digit, LimbValues
  <2> QED BY <1>0, <2>1, <2>2
<1>2. q \in Seq(LimbValues) /\ Len(q) = n /\ \A i \in 1 .. n : q[i] = Digit(s, i)
  BY <1>1 DEF Padded
<1> HIDE DEF q
<1>3. ASSUME n >= Len(s) PROVE Value(q) = Value(s)
  <2> DEFINE m == Len(s)
  <2>1. m \in Nat /\ m <= n /\ m <= Len(s) /\ m <= Len(q) /\ \A k \in 1 .. m : s[k] = q[k]
    BY <1>0, <1>2, <1>3 DEF Digit
  <2>2. \A k \in m + 1 .. n : q[k] = 0
    BY <1>0, <1>2 DEF Digit
  <2>3. Partial(s)[m] = Partial(q)[m]
    <3> HIDE DEF m
    <3>1. m \in 0 .. m
      BY <2>1
    <3> QED BY <1>2, <2>1, <3>1, PartialSame
  <2>4. Partial(q)[n] = Partial(q)[m]
    <3>1. n \in m .. n
      BY <2>1
    <3> HIDE DEF m
    <3> QED BY <1>2, <2>1, <2>2, <3>1, PartialZeros
  <2> QED BY <1>2, <2>3, <2>4 DEF Value
<1> QED BY <1>1, <1>2, <1>3 DEF q

Sum(d, s, k, last) ==
    LET a == Wrap(d[k] + last[1])
        b == Wrap(a + Digit(s, k))
    IN  <<Borrow(a < last[1]) + Borrow(b < Digit(s, k)), [last[2] EXCEPT ![k] = b]>>

Adds(d, s, first, last, c, f) ==
    f = [k \in first - 1 .. last |-> IF k < first THEN <<c, d>> ELSE Sum(d, s, k, f[k - 1])]

AddsOf(d, s, first, last, c) == CHOOSE f : Adds(d, s, first, last, c, f)

Numbers(n) == [1 .. n -> LimbValues]

LEMMA NumbersAre ==
  ASSUME NEW n \in Nat
  PROVE  \A p : p \in Numbers(n) <=> p \in Seq(LimbValues) /\ Len(p) = n
BY DEF Numbers

LEMMA LimbIsNat ==
  ASSUME NEW x \in LimbValues
  PROVE  x \in Nat
BY Base DEF LimbValues

LEMMA SumTyped ==
  ASSUME NEW n \in Nat, NEW d \in Numbers(n), NEW s \in Seq(LimbValues), NEW k \in 1 .. n,
         NEW x \in LimbValues \X Numbers(n)
  PROVE  Sum(d, s, k, x) \in LimbValues \X Numbers(n)
<1> DEFINE t == Digit(s, k)
           a == Wrap(d[k] + x[1])
           b == Wrap(a + t)
           c == Borrow(a < x[1]) + Borrow(b < t)
<1>1. d[k] \in LimbValues /\ x[1] \in LimbValues /\ t \in LimbValues
  BY PaddedIs DEF Numbers
<1> HIDE DEF t
<1>2. b \in LimbValues /\ c \in LimbValues
  BY <1>1, AddStep
<1>3. Sum(d, s, k, x) = <<c, [x[2] EXCEPT ![k] = b]>>
  BY DEF Sum, t
<1> HIDE DEF b, c
<1>4. [x[2] EXCEPT ![k] = b] \in Numbers(n)
  BY <1>2 DEF Numbers
<1> QED BY <1>2, <1>3, <1>4

LEMMA AddsExists ==
  ASSUME NEW n \in Nat, NEW d \in Numbers(n), NEW s \in Seq(LimbValues), NEW first \in 1 .. n + 1,
         NEW last \in first - 1 .. n, NEW c \in LimbValues
  PROVE  LET f == AddsOf(d, s, first, last, c)
         IN  /\ f \in [first - 1 .. last -> LimbValues \X Numbers(n)]
             /\ f[first - 1] = <<c, d>>
             /\ \A k \in first .. last : f[k] = Sum(d, s, k, f[k - 1])
             /\ Added(d, s, first, last, c) = f[last]
<1> DEFINE lo == first - 1
           State == LimbValues \X Numbers(n)
           step == [kx \in (lo + 1 .. last) \X State |-> Sum(d, s, kx[1], kx[2])]
           f == AddsOf(d, s, first, last, c)
<1>0. /\ lo \in Nat /\ last \in Nat /\ lo <= last /\ first = lo + 1 /\ Len(d) = n
      /\ \A k \in first .. last : k \in 1 .. n /\ k \in lo + 1 .. last /\ k - 1 \in lo .. last /\ ~(k < first)
      /\ \A k \in lo .. last : k < first \/ k \in first .. last
      /\ \A k \in lo .. last : k < first => k = lo
      /\ lo \in lo .. last /\ lo < first
  BY DEF Numbers
<1>1. <<c, d>> \in State
  OBVIOUS
<1> HIDE DEF lo, State
<1>2. /\ step \in Steps(lo, last, State)
      /\ \A k \in first .. last, x \in State : step[<<k, x>>] = Sum(d, s, k, x)
  <2>1. \A kx \in (lo + 1 .. last) \X State : Sum(d, s, kx[1], kx[2]) \in State
    BY <1>0, SumTyped DEF State
  <2>2. step \in Steps(lo, last, State)
    BY <2>1 DEF Steps
  <2> QED BY <1>0, <2>2
<1> HIDE DEF step
<1>3. PICK g : Loops(g, lo, last, State, <<c, d>>, step)
  BY <1>0, <1>1, <1>2, LoopExists
<1>4. /\ g \in [lo .. last -> State] /\ g[lo] = <<c, d>>
      /\ \A k \in first .. last : g[k] = Sum(d, s, k, g[k - 1])
  <2>1. g \in [lo .. last -> State] /\ g[lo] = <<c, d>> /\ \A k \in lo + 1 .. last : g[k] = step[<<k, g[k - 1]>>]
    BY <1>3 DEF Loops
  <2>2. \A k \in first .. last : g[k - 1] \in State
    BY <1>0, <2>1
  <2> QED BY <1>0, <1>2, <2>1, <2>2
<1>5. Adds(d, s, first, last, c, g)
  <2>1. \A k \in lo .. last : g[k] = IF k < first THEN <<c, d>> ELSE Sum(d, s, k, g[k - 1])
    BY <1>0, <1>4
  <2>2. g = [k \in lo .. last |-> g[k]]
    BY <1>4
  <2>3. g = [k \in lo .. last |-> IF k < first THEN <<c, d>> ELSE Sum(d, s, k, g[k - 1])]
    BY <2>1, <2>2
  <2> QED BY <1>0, <2>3 DEF Adds, lo
<1>6. Adds(d, s, first, last, c, f)
  BY <1>5 DEF AddsOf
<1>7. Added(d, s, first, last, c) = f[last]
  BY <1>0 DEF Added, AddsOf, Adds, Sum
<1> HIDE DEF f
<1>8. /\ DOMAIN f = lo .. last
      /\ f[lo] = <<c, d>>
      /\ \A k \in first .. last : f[k] = Sum(d, s, k, f[k - 1])
      /\ f = [k \in lo .. last |-> f[k]]
  <2>1. f = [k \in lo .. last |-> IF k < first THEN <<c, d>> ELSE Sum(d, s, k, f[k - 1])]
    BY <1>0, <1>6 DEF Adds, lo
  <2>2. \A k \in first .. last : k \in lo .. last
    BY <1>0
  <2> QED BY <1>0, <2>1, <2>2
<1>9. \A k \in lo .. last : f[k] \in State
  <2> DEFINE S == {k \in lo .. last : f[k] \in State}
  <2>1. lo \in S
    BY <1>0, <1>1, <1>8
  <2>2. \A k \in lo + 1 .. last : k - 1 \in S => k \in S
    <3> TAKE k \in lo + 1 .. last
    <3> HAVE k - 1 \in S
    <3>1. k \in first .. last /\ k \in 1 .. n /\ f[k - 1] \in State /\ k \in lo .. last
      BY <1>0
    <3>2. f[k] = Sum(d, s, k, f[k - 1])
      BY <1>8, <3>1
    <3>3. f[k] \in State
      BY <3>1, <3>2, SumTyped DEF State
    <3> QED BY <3>1, <3>3
  <2> HIDE DEF S
  <2>3. \A k \in lo .. last : k \in S
    BY <1>0, <2>1, <2>2, LoopInduction
  <2> QED BY <2>3 DEF S
<1>10. f \in [lo .. last -> State]
  BY <1>8, <1>9
<1> QED BY <1>7, <1>8, <1>10 DEF lo, State, f

(* After each limb: what was there, what was added so far, and the carry,   *)
(* which has the weight of the next limb.                                   *)
SumSoFar(d, s, first, c, k, x) ==
    /\ \A i \in k + 1 .. Len(d) : x[2][i] = d[i]
    /\ Value(x[2]) + x[1] * Weight[k]
         = Value(d) + c * Weight[first - 1]
           + (Partial(Padded(s, Len(d)))[k] - Partial(Padded(s, Len(d)))[first - 1])

(* One limb, times its weight.                                              *)
LEMMA Weighed ==
  ASSUME NEW d \in Int, NEW c \in Int, NEW t \in Int, NEW b \in Int, NEW e \in Int,
         NEW r \in Int, NEW w \in Int, d + c + t = b + e * r
  PROVE  /\ (b - d) * w + e * (w * r) = c * w + t * w
         /\ (b - d) * w \in Int /\ e * (w * r) \in Int /\ c * w \in Int /\ t * w \in Int
<1> DEFINE u == e * r
           x == b - d
<1>1. u \in Int /\ x \in Int /\ x + u = c + t
  OBVIOUS
<1>2. e * (w * r) = u * w
  OBVIOUS
<1> HIDE DEF u, x
<1>3. x * w \in Int /\ u * w \in Int /\ c * w \in Int /\ t * w \in Int
  BY <1>1
<1>4. (x + u) * w = x * w + u * w
  BY <1>1
<1>5. (c + t) * w = c * w + t * w
  OBVIOUS
<1> QED BY <1>1, <1>2, <1>3, <1>4, <1>5 DEF x

LEMMA SumStep ==
  ASSUME NEW n \in Nat, NEW d \in Numbers(n), NEW s \in Seq(LimbValues), NEW first \in 1 .. n + 1,
         NEW c \in LimbValues, NEW k \in first .. n, NEW x \in LimbValues \X Numbers(n),
         SumSoFar(d, s, first, c, k - 1, x)
  PROVE  SumSoFar(d, s, first, c, k, Sum(d, s, k, x))
<1> DEFINE t == Digit(s, k)
           a == Wrap(d[k] + x[1])
           b == Wrap(a + t)
           e == Borrow(a < x[1]) + Borrow(b < t)
           p == x[2]
           q == [p EXCEPT ![k] = b]
           P == Partial(Padded(s, n))
           w == Weight[k - 1]
           base == Value(d) + c * Weight[first - 1]
<1>0. /\ Len(d) = n /\ k \in 1 .. n /\ k - 1 \in Nat /\ (k - 1) + 1 = k /\ k \in (k - 1) + 1 .. n
      /\ d \in Seq(LimbValues) /\ p \in Seq(LimbValues) /\ Len(p) = n /\ k \in 1 .. Len(p)
      /\ first - 1 \in 0 .. n /\ first - 1 \in Nat /\ k - 1 \in 0 .. n
      /\ \A i \in k + 1 .. n : i \in (k - 1) + 1 .. n /\ i # k /\ i \in 1 .. n
  BY NumbersAre
<1>1. d[k] \in LimbValues /\ x[1] \in LimbValues /\ t \in LimbValues
  BY <1>0, PaddedIs DEF Numbers
<1>2. Limbs \in Nat /\ Limbs >= 4
  BY Base
<1>3. P \in [0 .. n -> Nat] /\ P[k] = P[k - 1] + t * w
  <2>1. Padded(s, n) \in Seq(LimbValues) /\ Len(Padded(s, n)) = n /\ Padded(s, n)[k] = t
    BY <1>0, PaddedIs
  <2> QED BY <1>0, <2>1, PartialIs
<1>4. Sum(d, s, k, x) = <<e, q>>
  BY DEF Sum
<1> HIDE DEF t, P
<1>5. b \in LimbValues /\ e \in LimbValues /\ d[k] + x[1] + t = b + e * Limbs
  BY <1>1, AddStep
<1> HIDE DEF b, e, p
<1>6. /\ \A i \in k .. n : p[i] = d[i]
      /\ Value(p) + x[1] * w = base + (P[k - 1] - P[first - 1])
  BY <1>0 DEF SumSoFar, p, P
<1>7. q \in Seq(LimbValues) /\ Len(q) = n /\ Value(q) = Value(p) + (b - p[k]) * w
  <2>1. n \in k .. n
    BY <1>0
  <2>2. Updated(p, k, b, q)
    <3>1. p \in Seq(LimbValues) /\ k \in 1 .. Len(p) /\ b \in LimbValues
      BY <1>0, <1>5
    <3> QED BY <3>1, PartialUpdate
  <2> HIDE DEF q
  <2>3. Partial(q)[n] = Partial(p)[n] + (b - p[k]) * w
    BY <1>0, <2>1, <2>2 DEF Updated
  <2> QED BY <1>0, <2>2, <2>3 DEF Value, Updated
<1>8. \A i \in k + 1 .. n : q[i] = d[i]
  BY <1>0, <1>6
<1> HIDE DEF q
<1>9. w \in Nat /\ Weight[k] = w * Limbs
  BY <1>0, WeightIs
<1>10. base \in Int /\ Value(p) \in Int
  <2>1. Value(d) \in Nat /\ Value(p) \in Nat
    <3>1. n \in 0 .. n
      OBVIOUS
    <3> QED BY <1>0, <3>1, PartialIs DEF Value
  <2>2. c * Weight[first - 1] \in Nat
    <3>1. c \in Nat
      BY <1>2 DEF LimbValues
    <3>2. Weight[first - 1] \in Nat
      BY <1>0, WeightIs
    <3> QED BY <3>1, <3>2
  <2> QED BY <2>1, <2>2
<1>11. Value(q) + e * Weight[k] = base + (P[k] - P[first - 1])
  <2> DEFINE v == Value(p)  y == x[1]  dk == d[k]
             x1 == (b - dk) * w  x2 == e * (w * Limbs)  x3 == y * w  x4 == t * w
             p1 == P[k]  p2 == P[k - 1]  p3 == P[first - 1]
  <2>1. dk \in Int /\ y \in Int /\ t \in Int /\ b \in Int /\ e \in Int
    BY <1>1, <1>2, <1>5 DEF LimbValues
  <2>2. p1 \in Int /\ p2 \in Int /\ p3 \in Int
    BY <1>0, <1>3
  <2>3. p[k] = dk
    BY <1>0, <1>6
  <2>4. dk + y + t = b + e * Limbs
    BY <1>5
  <2> HIDE DEF v, y, dk, base
  <2>5. x1 + x2 = x3 + x4 /\ x1 \in Int /\ x2 \in Int /\ x3 \in Int /\ x4 \in Int
    <3>1. Limbs \in Int /\ w \in Int
      BY <1>2, <1>9
    <3> HIDE DEF Limbs, w
    <3> QED BY <2>1, <2>4, <3>1, Weighed
  <2>6. v + x3 = base + (p2 - p3) /\ Value(q) = v + x1 /\ p1 = p2 + x4 /\ v \in Int /\ base \in Int
    BY <1>3, <1>6, <1>7, <1>10, <2>3 DEF v, y
  <2> HIDE DEF x1, x2, x3, x4, p1, p2, p3
  <2>7. Value(q) + x2 = base + (p1 - p3)
    BY <2>2, <2>5, <2>6
  <2> QED BY <1>9, <2>7 DEF x2, p1, p3
<1> QED BY <1>0, <1>4, <1>8, <1>11 DEF SumSoFar, P

LEMMA AddedIs ==
  ASSUME NEW n \in Nat, NEW d \in Numbers(n), NEW s \in Seq(LimbValues), NEW first \in 1 .. n + 1,
         NEW last \in first - 1 .. n, NEW c \in LimbValues
  PROVE  /\ Added(d, s, first, last, c) \in LimbValues \X Numbers(n)
         /\ SumSoFar(d, s, first, c, last, Added(d, s, first, last, c))
<1> DEFINE f == AddsOf(d, s, first, last, c)
           lo == first - 1
           S == {k \in lo .. last : SumSoFar(d, s, first, c, k, f[k])}
<1>0. /\ lo \in Nat /\ last \in Nat /\ lo <= last /\ lo + 1 = first /\ lo \in lo .. last /\ last \in lo .. last
      /\ Len(d) = n /\ d \in Seq(LimbValues) /\ lo \in 0 .. n
  BY NumbersAre
<1>1. /\ f \in [lo .. last -> LimbValues \X Numbers(n)]
      /\ f[lo] = <<c, d>>
      /\ \A k \in first .. last : f[k] = Sum(d, s, k, f[k - 1])
      /\ Added(d, s, first, last, c) = f[last]
  <2>1. /\ f \in [first - 1 .. last -> LimbValues \X Numbers(n)]
        /\ f[first - 1] = <<c, d>>
        /\ \A k \in first .. last : f[k] = Sum(d, s, k, f[k - 1])
        /\ Added(d, s, first, last, c) = f[last]
    BY AddsExists
  <2> HIDE DEF f
  <2> QED BY <2>1
<1> HIDE DEF f, lo
<1>2. lo \in S
  <2> DEFINE P == Partial(Padded(s, n))
             v == Value(d)
             z == c * Weight[lo]
  <2>1. P[lo] \in Nat
    BY <1>0, PaddedIs, PartialIs
  <2>2. v \in Nat
    <3>1. n \in 0 .. n
      OBVIOUS
    <3> QED BY <1>0, <3>1, PartialIs DEF Value
  <2>3. z \in Nat
    <3>1. c \in Nat
      BY Base DEF LimbValues
    <3>2. Weight[lo] \in Nat
      BY <1>0, WeightIs
    <3> QED BY <3>1, <3>2
  <2>4. v + z = v + z + (P[lo] - P[lo])
    <3> HIDE DEF v, z, P
    <3> QED BY <2>1, <2>2, <2>3
  <2>5. first - 1 = lo
    BY DEF lo
  <2>6. f[lo][1] = c /\ f[lo][2] = d
    BY <1>1
  <2> QED BY <1>0, <2>4, <2>5, <2>6 DEF SumSoFar
<1>3. \A k \in lo + 1 .. last : k - 1 \in S => k \in S
  <2> TAKE k \in lo + 1 .. last
  <2> HAVE k - 1 \in S
  <2>1. k \in first .. last /\ k \in first .. n /\ k - 1 \in lo .. last /\ k \in lo .. last
    BY <1>0
  <2>2. f[k - 1] \in LimbValues \X Numbers(n) /\ SumSoFar(d, s, first, c, k - 1, f[k - 1])
    BY <1>1, <2>1
  <2>3. SumSoFar(d, s, first, c, k, Sum(d, s, k, f[k - 1]))
    BY <2>1, <2>2, SumStep
  <2> QED BY <1>1, <2>1, <2>3
<1> HIDE DEF S
<1>4. \A k \in lo .. last : k \in S
  BY <1>0, <1>2, <1>3, LoopInduction
<1> QED BY <1>0, <1>1, <1>4 DEF S

-----------------------------------------------------------------------------
(* The highest limb in use.                                                 *)

LEMMA HighestIs ==
  ASSUME NEW n \in Nat, NEW S \in SUBSET (1 .. n)
  PROVE  /\ Highest(S) \in 0 .. n
         /\ Highest(S) # 0 => Highest(S) \in S
         /\ \A k \in S : k <= Highest(S)
         /\ Highest(S) = 0 => S = {}
<1>1. CASE S = {}
  BY <1>1 DEF Highest
<1>2. CASE S # {}
  <2> DEFINE T == {i \in Nat : n - i \in S}
  <2>1. T # {}
    <3>1. PICK k \in S : TRUE
      BY <1>2
    <3>2. k \in Int /\ k <= n
      OBVIOUS
    <3>3. n - k \in Nat /\ n - (n - k) = k
      BY <3>2
    <3> QED BY <3>1, <3>3
  <2>2. PICK x \in T : \A y \in T : ~ (<<y, x>> \in OpToRel(<, Nat))
    BY <2>1, NatLessThanWellFounded, WFMin
  <2>3. x \in Nat /\ n - x \in S
    OBVIOUS
  <2>4. ASSUME NEW k \in S PROVE k <= n - x
    <3>1. k \in Int /\ n - k \in Nat /\ n - (n - k) = k
      OBVIOUS
    <3>2. n - k \in T
      BY <3>1
    <3>3. ~(n - k < x)
      <4>1. \A y \in Nat : y < x => <<y, x>> \in OpToRel(<, Nat)
        BY <2>3 DEF OpToRel
      <4> QED BY <2>2, <3>1, <3>2, <4>1
    <3> QED BY <2>3, <3>1, <3>3
  <2> DEFINE Best(i) == i \in S /\ \A k \in S : k <= i
             h == CHOOSE i \in S : \A k \in S : k <= i
  <2>5. Best(n - x)
    BY <2>3, <2>4
  <2>6. Best(h)
    BY <2>5
  <2>7. Highest(S) = h
    BY <1>2 DEF Highest
  <2> HIDE DEF h
  <2> QED BY <1>2, <2>6, <2>7
<1> QED BY <1>1, <1>2

LEMMA TopIs ==
  ASSUME NEW p \in Seq(LimbValues)
  PROVE  /\ Top(p) \in 0 .. Len(p)
         /\ Top(p) # 0 => p[Top(p)] # 0
         /\ \A k \in Top(p) + 1 .. Len(p) : p[k] = 0
<1> DEFINE n == Len(p)
           S == {i \in 1 .. n : p[i] # 0}
<1>1. n \in Nat /\ DOMAIN p = 1 .. n
  OBVIOUS
<1>2. Top(p) = Highest(S)
  BY <1>1 DEF Top
<1> HIDE DEF n
<1>3. S \in SUBSET (1 .. n)
  OBVIOUS
<1>4. \A k \in 1 .. n : p[k] # 0 => k \in S
  OBVIOUS
<1>5. \A k \in S : p[k] # 0
  OBVIOUS
<1> HIDE DEF S
<1>6. /\ Highest(S) \in 0 .. n
      /\ Highest(S) # 0 => Highest(S) \in S
      /\ \A k \in S : k <= Highest(S)
  BY <1>1, <1>3, HighestIs
<1> QED BY <1>1, <1>2, <1>4, <1>5, <1>6 DEF n

(* The limbs up to the highest in use are the number, which is at least the *)
(* weight of the highest.                                                   *)
LEMMA TopValue ==
  ASSUME NEW p \in Seq(LimbValues)
  PROVE  /\ \A k \in Top(p) .. Len(p) : Partial(p)[k] = Value(p)
         /\ Top(p) # 0 => Value(p) >= Weight[Top(p) - 1]
         /\ Value(p) < Weight[Top(p)]
         /\ Value(p) \in Nat
         /\ Top(p) = 0 => Value(p) = 0
<1> DEFINE n == Len(p)
           t == Top(p)
           f == Partial(p)
<1>1. n \in Nat /\ t \in 0 .. n /\ (t # 0 => p[t] # 0) /\ \A k \in t + 1 .. n : p[k] = 0
  BY TopIs
<1>2. f \in [0 .. n -> Nat] /\ f[0] = 0 /\ \A k \in 1 .. n : f[k] = f[k - 1] + p[k] * Weight[k - 1]
  BY PartialIs
<1>3. \A k \in 0 .. n : f[k] < Weight[k]
  BY PartialBound
<1> HIDE DEF t
<1>4. \A k \in t .. n : f[k] = f[t]
  BY <1>1, PartialZeros
<1>5. n \in t .. n /\ n \in 0 .. n
  BY <1>1
<1>6. Value(p) = f[n]
  BY DEF Value
<1> HIDE DEF f, n
<1>7. Value(p) = f[t]
  BY <1>4, <1>5, <1>6
<1>8. ASSUME t # 0 PROVE f[t] >= Weight[t - 1]
  <2>1. t \in 1 .. n /\ t - 1 \in 0 .. n /\ t - 1 \in Nat
    BY <1>1, <1>8
  <2>2. f[t] = f[t - 1] + p[t] * Weight[t - 1] /\ f[t - 1] \in Nat
    BY <1>2, <2>1
  <2>3. p[t] \in Nat /\ p[t] >= 1
    BY <1>1, <1>8, <2>1, Base DEF LimbValues, n
  <2> DEFINE w == Weight[t - 1]
  <2>4. w \in Nat
    BY <2>1, WeightIs
  <2> HIDE DEF w
  <2>5. p[t] * w >= w /\ p[t] * w \in Int
    BY <2>3, <2>4
  <2>6. f[t] = f[t - 1] + p[t] * w
    BY <2>2 DEF w
  <2>7. f[t] >= w
    BY <2>2, <2>4, <2>5, <2>6
  <2> QED BY <2>7 DEF w
<1> QED BY <1>1, <1>2, <1>3, <1>4, <1>5, <1>6, <1>7, <1>8 DEF t, f, n

(* Weights grow, and multiply.                                              *)
LEMMA WeightGrows ==
  ASSUME NEW i \in Nat, NEW j \in Nat, i <= j
  PROVE  Weight[i] <= Weight[j]
<1> DEFINE S == {k \in Nat : Weight[i] <= Weight[k]}
<1>0. Limbs \in Nat /\ Limbs >= 4
  BY Base
<1> HIDE DEF Limbs
<1>1. i \in S
  BY WeightIs
<1>2. \A k \in i + 1 .. j : k - 1 \in S => k \in S
  <2> TAKE k \in i + 1 .. j
  <2> HAVE k - 1 \in S
  <2>1. k - 1 \in Nat /\ k \in Nat /\ (k - 1) + 1 = k /\ Weight[i] <= Weight[k - 1]
    OBVIOUS
  <2> DEFINE w == Weight[k - 1]
  <2>2. w \in Nat /\ Weight[k] = w * Limbs /\ Weight[i] \in Nat
    BY <2>1, WeightIs
  <2> HIDE DEF w
  <2>3. w <= w * Limbs /\ w * Limbs \in Nat
    BY <1>0, <2>2
  <2>4. Weight[i] <= w
    BY <2>1 DEF w
  <2> QED BY <2>1, <2>2, <2>3, <2>4
<1> HIDE DEF S
<1>3. \A k \in i .. j : k \in S
  BY <1>1, <1>2, LoopInduction
<1> QED BY <1>3 DEF S

LEMMA WeightsMultiply ==
  ASSUME NEW i \in Nat
  PROVE  \A j \in Nat : Weight[i + j] = Weight[i] * Weight[j]
<1> DEFINE S == {j \in Nat : Weight[i + j] = Weight[i] * Weight[j]}
<1>0. Limbs \in Nat /\ Weight[i] \in Nat
  BY Base, WeightIs
<1> HIDE DEF Limbs
<1>1. 0 \in S
  <2>1. i + 0 = i /\ Weight[0] = 1
    BY WeightIs
  <2> QED BY <1>0, <2>1
<1>2. \A j \in Nat : j \in S => j + 1 \in S
  <2> TAKE j \in Nat
  <2> HAVE j \in S
  <2>1. i + j \in Nat /\ i + (j + 1) = (i + j) + 1 /\ j + 1 \in Nat
    OBVIOUS
  <2> DEFINE w == Weight[j]  v == Weight[i]
  <2>2. /\ Weight[i + (j + 1)] = Weight[i + j] * Limbs
        /\ Weight[j + 1] = w * Limbs /\ w \in Nat
    BY <2>1, WeightIs
  <2>3. Weight[i + j] = v * w
    OBVIOUS
  <2> HIDE DEF w
  <2>4. v \in Nat
    BY <1>0
  <2> HIDE DEF v
  <2>5. (v * w) * Limbs = v * (w * Limbs)
    BY <1>0, <2>2, <2>4
  <2>6. Weight[i + (j + 1)] = v * Weight[j + 1]
    BY <2>2, <2>3, <2>5
  <2> QED BY <2>1, <2>6 DEF v
<1> HIDE DEF S
<1>3. \A j \in Nat : j \in S
  BY <1>1, <1>2, SetInduction
<1> QED BY <1>3 DEF S

-----------------------------------------------------------------------------
(* Comparisons.                                                             *)

Sign(z) == IF z > 0 THEN 1 ELSE IF z < 0 THEN -1 ELSE 0

(* The limbs of q and p from k + 1 to n are the same.                       *)
LEMMA PartialDifference ==
  ASSUME NEW p \in Seq(LimbValues), NEW q \in Seq(LimbValues), NEW n \in Nat, NEW k \in 0 .. n,
         n <= Len(p), n <= Len(q), \A i \in k + 1 .. n : p[i] = q[i]
  PROVE  Partial(p)[n] - Partial(q)[n] = Partial(p)[k] - Partial(q)[k]
<1> DEFINE f == Partial(p)
           g == Partial(q)
           S == {i \in Nat : f[i] - g[i] = f[k] - g[k]}
<1>0. \A i \in 1 .. n : i \in 1 .. Len(p) /\ i \in 1 .. Len(q)
  OBVIOUS
<1>1. f \in [0 .. Len(p) -> Nat] /\ \A i \in 1 .. n : f[i] = f[i - 1] + p[i] * Weight[i - 1]
  BY <1>0, PartialIs
<1>2. g \in [0 .. Len(q) -> Nat] /\ \A i \in 1 .. n : g[i] = g[i - 1] + q[i] * Weight[i - 1]
  BY <1>0, PartialIs
<1> HIDE DEF f, g
<1>3. k \in S
  OBVIOUS
<1>4. \A i \in k + 1 .. n : i - 1 \in S => i \in S
  <2> TAKE i \in k + 1 .. n
  <2> HAVE i - 1 \in S
  <2> DEFINE v == p[i] * Weight[i - 1]
             x == f[i - 1]
             y == g[i - 1]
             z == f[k] - g[k]
  <2>1. i \in 1 .. n /\ i - 1 \in Nat /\ p[i] = q[i] /\ i \in Nat /\ i - 1 \in 0 .. Len(p) /\ i - 1 \in 0 .. Len(q)
    OBVIOUS
  <2>2. p[i] \in Nat /\ Weight[i - 1] \in Nat
    <3>1. p[i] \in Nat
      BY <1>0, <2>1, Base DEF LimbValues
    <3> QED BY <2>1, <3>1, WeightIs
  <2>3. v \in Nat
    BY <2>2
  <2>4. f[i] = x + v /\ g[i] = y + v /\ x \in Nat /\ y \in Nat /\ x - y = z
    BY <1>1, <1>2, <2>1
  <2>5. z \in Int
    BY <2>4
  <2> HIDE DEF v, x, y, z
  <2>6. f[i] - g[i] = z
    BY <2>3, <2>4, <2>5
  <2> QED BY <2>1, <2>6 DEF z
<1> HIDE DEF S
<1>5. \A i \in k .. n : i \in S
  <2>1. k \in Nat
    OBVIOUS
  <2> QED BY <1>3, <1>4, <2>1, LoopInduction
<1>6. n \in k .. n
  OBVIOUS
<1>7. n \in S
  BY <1>5, <1>6
<1> QED BY <1>7 DEF S, f, g

(* The highest limb that differs decides.                                   *)
LEMMA HigherLimb ==
  ASSUME NEW p \in Seq(LimbValues), NEW q \in Seq(LimbValues), NEW n \in Nat, NEW k \in 1 .. n,
         n <= Len(p), n <= Len(q), \A i \in k + 1 .. n : p[i] = q[i], p[k] > q[k]
  PROVE  Partial(p)[n] > Partial(q)[n]
<1> DEFINE f == Partial(p)
           g == Partial(q)
           w == Weight[k - 1]
           x == f[k - 1]
           y == g[k - 1]
           a == p[k]
           b == q[k]
<1>1. /\ k \in 1 .. Len(p) /\ k \in 1 .. Len(q) /\ k - 1 \in 0 .. Len(p) /\ k - 1 \in 0 .. Len(q)
      /\ k \in 0 .. Len(p) /\ k \in 0 .. Len(q) /\ n \in 0 .. Len(p) /\ n \in 0 .. Len(q)
      /\ k - 1 \in Nat /\ k \in 0 .. n
  OBVIOUS
<1>2. f[n] - g[n] = f[k] - g[k]
  BY <1>1, PartialDifference
<1>3. f[k] = x + a * w /\ f \in [0 .. Len(p) -> Nat] /\ a \in Nat
  BY <1>1, PartialIs, Base DEF LimbValues
<1>4. g[k] = y + b * w /\ g \in [0 .. Len(q) -> Nat] /\ b \in Nat
  BY <1>1, PartialIs, Base DEF LimbValues
<1>5. y < w /\ w \in Nat
  BY <1>1, PartialBound, WeightIs
<1>6. a > b
  OBVIOUS
<1>7. f[n] \in Nat /\ g[n] \in Nat /\ f[k] \in Nat /\ g[k] \in Nat /\ x \in Nat /\ y \in Nat
  BY <1>1, <1>3, <1>4
<1> HIDE DEF f, g, w, x, y, a, b
<1>8. a * w >= (b + 1) * w
  BY <1>3, <1>4, <1>5, <1>6
<1>9. (b + 1) * w = b * w + w /\ b * w \in Nat /\ a * w \in Nat
  BY <1>3, <1>4, <1>5
<1> DEFINE u == a * w
           v == b * w
<1>10. u >= v + w /\ u \in Nat /\ v \in Nat /\ f[k] = x + u /\ g[k] = y + v
  BY <1>3, <1>4, <1>8, <1>9
<1> HIDE DEF u, v
<1>11. f[n] > g[n]
  BY <1>2, <1>5, <1>7, <1>10
<1> QED BY <1>11 DEF f, g

LEMMA CmpFromIs ==
  ASSUME NEW p \in Seq(LimbValues), NEW q \in Seq(LimbValues), NEW n \in Nat,
         n <= Len(p), n <= Len(q)
  PROVE  CmpFrom(p, q, n) = Sign(Partial(p)[n] - Partial(q)[n])
<1> DEFINE S == {j \in 1 .. n : p[j] # q[j]}
           k == Highest(S)
           u == Partial(p)[n]
           v == Partial(q)[n]
<1>1. \A i \in 1 .. n : i \notin S => p[i] = q[i]
  OBVIOUS
<1>2. \A i \in S : p[i] # q[i] /\ i \in 1 .. n
  OBVIOUS
<1>3. CmpFrom(p, q, n) = IF k = 0 THEN 0 ELSE IF p[k] > q[k] THEN 1 ELSE -1
  BY DEF CmpFrom
<1>4. S \in SUBSET (1 .. n)
  OBVIOUS
<1>5. \A i \in 1 .. n : p[i] \in Nat /\ q[i] \in Nat
  BY Base DEF LimbValues
<1>6. u \in Nat /\ v \in Nat
  <2>1. n \in 0 .. Len(p) /\ n \in 0 .. Len(q)
    OBVIOUS
  <2> QED BY <2>1, PartialIs
<1> HIDE DEF S
<1>7. /\ k \in 0 .. n /\ (k # 0 => k \in S) /\ \A i \in S : i <= k
  BY <1>4, HighestIs
<1> HIDE DEF k
<1>8. \A i \in k + 1 .. n : p[i] = q[i]
  BY <1>1, <1>7
<1>9. CASE k = 0
  <2>1. u - v = Partial(p)[0] - Partial(q)[0]
    BY <1>8, <1>9, PartialDifference
  <2>2. Partial(p)[0] = 0 /\ Partial(q)[0] = 0
    BY PartialIs
  <2> HIDE DEF u, v
  <2>3. u - v = 0
    BY <2>1, <2>2
  <2>4. Sign(u - v) = 0
    BY <2>3 DEF Sign
  <2> QED BY <1>3, <1>9, <2>4 DEF u, v
<1>10. CASE k # 0 /\ p[k] > q[k]
  <2>1. k \in 1 .. n
    BY <1>7, <1>10
  <2>2. u > v
    BY <1>8, <1>10, <2>1, HigherLimb
  <2> HIDE DEF u, v
  <2>3. Sign(u - v) = 1
    BY <1>6, <2>2 DEF Sign
  <2> QED BY <1>3, <1>10, <2>3 DEF u, v
<1>11. CASE k # 0 /\ ~(p[k] > q[k])
  <2>1. k \in 1 .. n /\ p[k] # q[k]
    BY <1>2, <1>7, <1>11
  <2>2. q[k] > p[k]
    BY <1>5, <1>11, <2>1
  <2>3. v > u
    BY <1>8, <2>1, <2>2, HigherLimb
  <2> HIDE DEF u, v
  <2>4. Sign(u - v) = -1
    BY <1>6, <2>3 DEF Sign
  <2> QED BY <1>3, <1>11, <2>4 DEF u, v
<1> QED BY <1>9, <1>10, <1>11

(* An mpi, and the integer it stands for.                                   *)
Mpis == [s : {1, -1}, p : Seq(LimbValues)]

IntOf(x) == x.s * Value(x.p)

(* mpi_cmp_abs orders numbers of any size by their magnitudes.              *)
THEOREM MagnitudesAreCompared ==
  ASSUME NEW x \in Mpis, NEW y \in Mpis
  PROVE  mpi_cmp_abs(x, y) = Sign(Value(x.p) - Value(y.p))
<1> DEFINE p == x.p
           q == y.p
           i == Top(p)
           j == Top(q)
           u == Value(p)
           v == Value(q)
<1>1. p \in Seq(LimbValues) /\ q \in Seq(LimbValues)
  BY DEF Mpis
<1>2. mpi_cmp_abs(x, y) = IF i > j THEN 1 ELSE IF j > i THEN -1 ELSE CmpFrom(p, q, i)
  BY DEF mpi_cmp_abs
<1> HIDE DEF p, q
<1>3. i \in 0 .. Len(p) /\ j \in 0 .. Len(q)
  BY <1>1, TopIs
<1>4. /\ u \in Nat /\ u < Weight[i] /\ (i # 0 => u >= Weight[i - 1])
      /\ \A k \in i .. Len(p) : Partial(p)[k] = u
  BY <1>1, TopValue
<1>5. /\ v \in Nat /\ v < Weight[j] /\ (j # 0 => v >= Weight[j - 1])
      /\ \A k \in j .. Len(q) : Partial(q)[k] = v
  BY <1>1, TopValue
<1>6. \A k \in Nat : Weight[k] \in Nat
  BY WeightIs
<1> HIDE DEF i, j, u, v
<1>7. CASE i > j
  <2>1. i - 1 \in Nat /\ j \in Nat /\ j <= i - 1 /\ i # 0
    BY <1>3, <1>7
  <2>2. Weight[j] <= Weight[i - 1]
    BY <2>1, WeightGrows
  <2>3. Weight[i - 1] \in Nat /\ Weight[j] \in Nat
    BY <1>6, <2>1
  <2>4. u > v
    BY <1>4, <1>5, <2>1, <2>2, <2>3
  <2>5. Sign(u - v) = 1
    BY <1>4, <1>5, <2>4 DEF Sign
  <2> QED BY <1>2, <1>7, <2>5 DEF u, v, p, q
<1>8. CASE j > i
  <2>1. j - 1 \in Nat /\ i \in Nat /\ i <= j - 1 /\ j # 0
    BY <1>3, <1>8
  <2>2. Weight[i] <= Weight[j - 1]
    BY <2>1, WeightGrows
  <2>3. Weight[j - 1] \in Nat /\ Weight[i] \in Nat
    BY <1>6, <2>1
  <2>4. v > u
    BY <1>4, <1>5, <2>1, <2>2, <2>3
  <2>5. Sign(u - v) = -1
    BY <1>4, <1>5, <2>4 DEF Sign
  <2> QED BY <1>2, <1>3, <1>8, <2>5 DEF u, v, p, q
<1>9. CASE i = j
  <2>1. i \in Nat /\ i <= Len(p) /\ i <= Len(q) /\ i \in i .. Len(p) /\ i \in j .. Len(q)
    BY <1>1, <1>3, <1>9
  <2>2. CmpFrom(p, q, i) = Sign(Partial(p)[i] - Partial(q)[i])
    BY <1>1, <2>1, CmpFromIs
  <2>3. CmpFrom(p, q, i) = Sign(u - v)
    BY <1>4, <1>5, <2>1, <2>2
  <2>4. ~(i > j) /\ ~(j > i)
    BY <1>3, <1>9
  <2> QED BY <1>2, <2>3, <2>4 DEF u, v, p, q
<1> QED BY <1>3, <1>7, <1>8, <1>9

LEMMA SignIs ==
  ASSUME NEW z \in Int, NEW s \in {1, -1}
  PROVE  Sign(s * z) = s * Sign(z)
<1>1. CASE s = 1
  BY <1>1 DEF Sign
<1>2. CASE s = -1
  BY <1>2 DEF Sign
<1> QED BY <1>1, <1>2

(* mpi_cmp_mpi orders numbers of one sign, and numbers of which the second  *)
(* is not the longer.  (A longer second number of the other sign is         *)
(* compared wrongly, bignum.c:559.)                                         *)
THEOREM NumbersAreCompared ==
  ASSUME NEW x \in Mpis, NEW y \in Mpis, x.s = y.s \/ Top(y.p) <= Top(x.p)
  PROVE  mpi_cmp_mpi(x, y) = Sign(IntOf(x) - IntOf(y))
<1> DEFINE p == x.p
           q == y.p
           i == Top(p)
           j == Top(q)
           u == Value(p)
           v == Value(q)
           s == x.s
           t == y.s
<1>1. p \in Seq(LimbValues) /\ q \in Seq(LimbValues) /\ s \in {1, -1} /\ t \in {1, -1}
  BY DEF Mpis
<1>2. mpi_cmp_mpi(x, y) = IF i = 0 /\ j = 0 THEN 0
                          ELSE IF i > j THEN s
                          ELSE IF j > i THEN -s
                          ELSE IF s > 0 /\ t < 0 THEN 1
                          ELSE IF t > 0 /\ s < 0 THEN -1
                          ELSE s * CmpFrom(p, q, i)
  BY DEF mpi_cmp_mpi
<1>3. Sign(u - v) = IF i > j THEN 1 ELSE IF j > i THEN -1 ELSE CmpFrom(p, q, i)
  BY MagnitudesAreCompared DEF mpi_cmp_abs
<1>4. s = t \/ j <= i
  OBVIOUS
<1>4a. IntOf(x) = s * u /\ IntOf(y) = t * v
  BY DEF IntOf
<1> HIDE DEF p, q, s, t
<1>5. i \in Nat /\ j \in Nat
  <2>1. i \in 0 .. Len(p) /\ j \in 0 .. Len(q)
    BY <1>1, TopIs
  <2> QED BY <2>1
<1>6. /\ u \in Nat /\ (i = 0 => u = 0) /\ (i # 0 => u >= Weight[i - 1])
      /\ v \in Nat /\ (j = 0 => v = 0) /\ (j # 0 => v >= Weight[j - 1])
  BY <1>1, TopValue
<1>7. (i # 0 => u > 0) /\ (j # 0 => v > 0)
  <2>1. ASSUME NEW k \in Nat, k # 0 PROVE k - 1 \in Nat /\ Weight[k - 1] \in Nat \ {0}
    <3>1. k - 1 \in Nat
      BY <2>1
    <3> QED BY <3>1, WeightIs
  <2> HIDE DEF i, j, u, v
  <2>2. ASSUME i # 0 PROVE u > 0
    BY <1>5, <1>6, <2>1, <2>2
  <2>3. ASSUME j # 0 PROVE v > 0
    BY <1>5, <1>6, <2>1, <2>3
  <2> QED BY <2>2, <2>3
<1> DEFINE r == mpi_cmp_mpi(x, y)
           c == CmpFrom(p, q, i)
<1>8. r = IF i = 0 /\ j = 0 THEN 0
          ELSE IF i > j THEN s
          ELSE IF j > i THEN -s
          ELSE IF s > 0 /\ t < 0 THEN 1
          ELSE IF t > 0 /\ s < 0 THEN -1
          ELSE s * c
  BY <1>2
<1>9. Sign(u - v) = IF i > j THEN 1 ELSE IF j > i THEN -1 ELSE c
  BY <1>3
<1> HIDE DEF i, j, u, v, r, c
<1>10. r = Sign(s * u - t * v)
  <2>1. CASE s = t
    <3>1. s * u - t * v = s * (u - v) /\ u - v \in Int
      BY <1>1, <1>6, <2>1
    <3>2. Sign(s * u - t * v) = s * Sign(u - v)
      BY <1>1, <3>1, SignIs
    <3>3. CASE i = 0 /\ j = 0
      <4>1. s * u - t * v = 0
        BY <1>1, <1>6, <3>3
      <4> QED BY <1>8, <3>3, <4>1 DEF Sign
    <3>4. CASE ~(i = 0 /\ j = 0) /\ i > j
      BY <1>1, <1>8, <1>9, <3>2, <3>4
    <3>5. CASE ~(i = 0 /\ j = 0) /\ j > i
      BY <1>1, <1>5, <1>8, <1>9, <3>2, <3>5
    <3>6. CASE ~(i = 0 /\ j = 0) /\ ~(i > j) /\ ~(j > i)
      <4>1. r = s * c
        BY <1>1, <1>8, <2>1, <3>6
      <4>2. Sign(u - v) = c
        BY <1>9, <3>6
      <4> QED BY <3>2, <4>1, <4>2
    <3> QED BY <3>3, <3>4, <3>5, <3>6
  <2>2. CASE s = 1 /\ t = -1
    <3>1. s * u - t * v = u + v /\ j <= i
      BY <1>4, <1>6, <2>2
    <3>2. CASE i = 0
      <4>1. j = 0 /\ u + v = 0
        BY <1>5, <1>6, <3>1, <3>2
      <4> QED BY <1>8, <3>1, <3>2, <4>1 DEF Sign
    <3>3. CASE i # 0
      <4>1. u + v > 0
        BY <1>6, <1>7, <3>3
      <4>2. r = 1
        BY <1>5, <1>8, <2>2, <3>1, <3>3
      <4> QED BY <3>1, <4>1, <4>2 DEF Sign
    <3> QED BY <3>2, <3>3
  <2>3. CASE s = -1 /\ t = 1
    <3>1. s * u - t * v = -(u + v) /\ j <= i
      BY <1>4, <1>6, <2>3
    <3>2. CASE i = 0
      <4>1. j = 0 /\ u + v = 0
        BY <1>5, <1>6, <3>1, <3>2
      <4> QED BY <1>8, <3>1, <3>2, <4>1 DEF Sign
    <3>3. CASE i # 0
      <4>1. u + v > 0 /\ u + v \in Int
        BY <1>6, <1>7, <3>3
      <4>2. r = -1
        BY <1>5, <1>8, <2>3, <3>1, <3>3
      <4> QED BY <3>1, <4>1, <4>2 DEF Sign
    <3> QED BY <3>2, <3>3
  <2> QED BY <1>1, <2>1, <2>2, <2>3
<1> QED BY <1>4a, <1>10 DEF r

-----------------------------------------------------------------------------
(* Memories.                                                                *)

Memories(Names) == [mpi : [Names -> Mpis], need : Nat, ret : STRING]

(* r has a number of magnitude v in X, and the other mpis of m but the      *)
(* locals of the function.                                                  *)
Leaves(Names, locals, m, r, X, v) ==
    /\ r \in Memories(Names) /\ r.ret = m.ret
    /\ Value(r.mpi[X].p) = v
    /\ \A Y \in Names \ locals : Y # X => r.mpi[Y] = m.mpi[Y]

(* The same for the integer z.                                              *)
Computes(Names, locals, m, r, X, z) ==
    /\ r \in Memories(Names) /\ r.ret = m.ret
    /\ IntOf(r.mpi[X]) = z
    /\ \A Y \in Names \ locals : Y # X => r.mpi[Y] = m.mpi[Y]

(* r is m with the mpi v in X.                                              *)
Stores(Names, m, r, X, v) ==
    /\ r \in Memories(Names) /\ r.ret = m.ret
    /\ r.mpi[X] = v
    /\ \A Y \in Names : Y # X => r.mpi[Y] = m.mpi[Y]

(* r is m with a number of sign s and magnitude v in X.                     *)
Copies(Names, m, r, X, s, v) ==
    /\ r \in Memories(Names) /\ r.ret = m.ret
    /\ r.mpi[X].s = s /\ Value(r.mpi[X].p) = v
    /\ \A Y \in Names : Y # X => r.mpi[Y] = m.mpi[Y]

LEMMA ZerosAre ==
  ASSUME NEW k \in Nat
  PROVE  Zeros(k) \in Seq(LimbValues) /\ Len(Zeros(k)) = k /\ \A i \in 1 .. k : Zeros(k)[i] = 0
<1> DEFINE z == [i \in 1 .. k |-> 0]
<1>1. z \in Seq(LimbValues) /\ Len(z) = k /\ \A i \in 1 .. k : z[i] = 0
  <2>1. 0 \in LimbValues
    BY Base DEF LimbValues
  <2> QED BY <2>1
<1>2. Zeros(k) = SubSeq(z, 1, Len(z))
  BY DEF Zeros, Evaluated
<1> HIDE DEF z
<1> QED BY <1>1, <1>2

LEMMA EvaluatedIs ==
  ASSUME NEW S, NEW p \in Seq(S)
  PROVE  Evaluated(p) = p
<1>1. /\ SubSeq(p, 1, Len(p)) \in Seq(S) /\ Len(SubSeq(p, 1, Len(p))) = Len(p)
      /\ \A i \in 1 .. Len(p) : SubSeq(p, 1, Len(p))[i] = p[i]
  OBVIOUS
<1> QED BY <1>1 DEF Evaluated

(* Zeros above do not change a number.                                      *)
LEMMA ZerosAbove ==
  ASSUME NEW p \in Seq(LimbValues), NEW q \in Seq(LimbValues), NEW k \in Nat,
         Top(p) <= k, k <= Len(p), k <= Len(q),
         \A i \in 1 .. k : q[i] = p[i], \A i \in k + 1 .. Len(q) : q[i] = 0
  PROVE  Value(q) = Value(p)
<1>1. Partial(p)[k] = Partial(q)[k]
  <2>1. k \in 0 .. k
    OBVIOUS
  <2> QED BY <2>1, PartialSame
<1>2. Partial(q)[Len(q)] = Partial(q)[k]
  <2>1. Len(q) \in k .. Len(q)
    OBVIOUS
  <2> QED BY <2>1, PartialZeros
<1>3. Partial(p)[k] = Value(p)
  <2>1. Top(p) \in Nat
    BY TopIs
  <2>2. k \in Top(p) .. Len(p)
    BY <2>1
  <2> QED BY <2>2, TopValue
<1> QED BY <1>1, <1>2, <1>3 DEF Value

LEMMA EnlargeIs ==
  ASSUME NEW p \in Seq(LimbValues), NEW k \in Nat
  PROVE  /\ Enlarge(p, k) \in Seq(LimbValues)
         /\ Len(Enlarge(p, k)) = Larger(Len(p), k)
         /\ Value(Enlarge(p, k)) = Value(p)
<1> DEFINE q == Enlarge(p, k)
           n == Len(p)
<1>0. n \in Nat
  OBVIOUS
<1>1. CASE n < k
  <2> DEFINE z == Zeros(k - n)
  <2>1. k - n \in Nat
    BY <1>0, <1>1
  <2>2. z \in Seq(LimbValues) /\ Len(z) = k - n /\ \A i \in 1 .. k - n : z[i] = 0
    BY <2>1, ZerosAre
  <2>3. q = p \o z
    BY <1>1 DEF Enlarge
  <2> HIDE DEF z, q
  <2>4. /\ q \in Seq(LimbValues) /\ Len(q) = n + (k - n)
        /\ \A i \in 1 .. n : q[i] = p[i]
        /\ \A i \in n + 1 .. n + (k - n) : q[i] = z[i - n]
    BY <2>2, <2>3
  <2> HIDE DEF n
  <2>5. Len(q) = k
    BY <1>0, <2>1, <2>4
  <2>6. \A i \in n + 1 .. k : q[i] = 0
    <3> TAKE i \in n + 1 .. k
    <3>1. i \in n + 1 .. n + (k - n) /\ i - n \in 1 .. k - n
      BY <1>0, <2>1
    <3> QED BY <2>2, <2>4, <3>1
  <2>7. Value(q) = Value(p)
    <3>1. Top(p) <= n /\ n <= Len(p) /\ n <= Len(q)
      BY <1>0, <1>1, <2>5, TopIs DEF n
    <3> QED BY <1>0, <2>4, <2>5, <2>6, <3>1, ZerosAbove
  <2>8. Larger(n, k) = k
    BY <1>0, <1>1 DEF Larger
  <2> QED BY <2>4, <2>5, <2>7, <2>8 DEF q, n
<1>2. CASE ~(n < k)
  <2>1. q = p
    BY <1>2 DEF Enlarge
  <2>2. Larger(n, k) = n
    BY <1>0, <1>2 DEF Larger
  <2> HIDE DEF q
  <2> QED BY <2>1, <2>2 DEF q
<1> QED BY <1>1, <1>2

LEMMA SetIs ==
  ASSUME NEW Names, NEW m \in Memories(Names), NEW X \in Names, NEW v \in Mpis
  PROVE  Stores(Names, m, Set(m, X, v), X, v)
<1>1. [m.mpi EXCEPT ![X] = v] \in [Names -> Mpis]
  BY DEF Memories
<1>2. Set(m, X, v) = [m EXCEPT !.mpi = [m.mpi EXCEPT ![X] = v]]
  BY DEF Set, Memories
<1> QED BY <1>1, <1>2 DEF Memories, Stores

LEMMA GrowIs ==
  ASSUME NEW Names, NEW m \in Memories(Names), NEW X \in Names, NEW k \in Nat
  PROVE  /\ Stores(Names, m, mpi_grow(m, X, k), X,
                   [s |-> m.mpi[X].s, p |-> Enlarge(m.mpi[X].p, k)])
         /\ mpi_grow(m, X, k).mpi[X].p \in Seq(LimbValues)
         /\ Len(mpi_grow(m, X, k).mpi[X].p) = Larger(Len(m.mpi[X].p), k)
         /\ Value(mpi_grow(m, X, k).mpi[X].p) = Value(m.mpi[X].p)
<1> DEFINE x == m.mpi[X]
           p == Enlarge(x.p, k)
           v == [x EXCEPT !.p = p]
           n == Larger(m.need, k)
           g == mpi_grow(m, X, k)
<1>1. x \in Mpis /\ x.p \in Seq(LimbValues) /\ m.need \in Nat
  BY DEF Memories, Mpis
<1>2. p \in Seq(LimbValues) /\ Len(p) = Larger(Len(x.p), k) /\ Value(p) = Value(x.p)
  BY <1>1, EnlargeIs
<1> HIDE DEF p
<1>3. v \in Mpis /\ v = [s |-> x.s, p |-> p]
  BY <1>1, <1>2 DEF Mpis
<1>4. n \in Nat
  BY <1>1 DEF Larger
<1>5. g = [m EXCEPT !.mpi = [m.mpi EXCEPT ![X] = v], !.need = n]
  BY DEF mpi_grow, p, Memories
<1> HIDE DEF n, v, g, x
<1>6. [m.mpi EXCEPT ![X] = v] \in [Names -> Mpis]
  BY <1>3 DEF Memories
<1>7. g \in Memories(Names)
  BY <1>4, <1>5, <1>6 DEF Memories
<1>8. g.mpi = [m.mpi EXCEPT ![X] = v] /\ g.ret = m.ret
  BY <1>5 DEF Memories
<1>9. g.mpi[X] = v /\ \A Y \in Names : Y # X => g.mpi[Y] = m.mpi[Y]
  BY <1>8 DEF Memories
<1>10. g.mpi[X].p = p
  BY <1>3, <1>9
<1> QED BY <1>2, <1>3, <1>7, <1>8, <1>9, <1>10 DEF g, x, p, Stores

(* mpi_copy keeps the number: the limbs that it leaves out are zeros.       *)
LEMMA CopyIs ==
  ASSUME NEW Names, NEW m \in Memories(Names), NEW X \in Names, NEW Y \in Names
  PROVE  Copies(Names, m, mpi_copy(m, X, Y), X, m.mpi[Y].s, Value(m.mpi[Y].p))
<1>1. CASE X = Y
  BY <1>1 DEF mpi_copy, Copies
<1>2. CASE X # Y
  <2> DEFINE v == m.mpi[Y]
             p == v.p
             k == IF p = <<>> THEN 0 ELSE Larger(1, Top(p))
             g == mpi_grow(m, X, k)
             o == g.mpi[X].p
             n == Len(o)
             q == [i \in 1 .. n |-> IF i <= k THEN p[i] ELSE 0]
  <2>1. v \in Mpis /\ p \in Seq(LimbValues) /\ m.mpi[X] \in Mpis /\ m.mpi[X].p \in Seq(LimbValues)
    BY DEF Memories, Mpis
  <2>2. Top(p) \in 0 .. Len(p) /\ \A i \in Top(p) + 1 .. Len(p) : p[i] = 0
    BY <2>1, TopIs
  <2>3. k \in Nat /\ k <= Len(p) /\ Top(p) <= k
    <3>1. CASE p = <<>>
      BY <2>2, <3>1
    <3>2. CASE p # <<>>
      <4>1. Len(p) >= 1
        BY <2>1, <3>2
      <4> QED BY <2>1, <2>2, <3>2, <4>1 DEF Larger
    <3> QED BY <3>1, <3>2
  <2>3a. mpi_copy(m, X, Y) = Set(g, X, [s |-> v.s, p |-> Evaluated([i \in DOMAIN o |-> IF i <= k THEN p[i] ELSE 0])])
    BY <1>2 DEF mpi_copy
  <2> HIDE DEF k
  <2>4. /\ g \in Memories(Names) /\ g.ret = m.ret
        /\ o \in Seq(LimbValues) /\ n = Larger(Len(m.mpi[X].p), k)
        /\ \A Z \in Names : Z # X => g.mpi[Z] = m.mpi[Z]
    <3>1. /\ Stores(Names, m, g, X, [s |-> m.mpi[X].s, p |-> Enlarge(m.mpi[X].p, k)])
          /\ g.mpi[X].p \in Seq(LimbValues)
          /\ Len(g.mpi[X].p) = Larger(Len(m.mpi[X].p), k)
      BY <2>3, GrowIs
    <3> QED BY <3>1 DEF Stores
  <2> HIDE DEF g
  <2>5. n \in Nat /\ k <= n /\ DOMAIN o = 1 .. n
    <3>1. Len(m.mpi[X].p) \in Nat
      BY <2>1
    <3> QED BY <2>3, <2>4, <3>1 DEF Larger
  <2> HIDE DEF o, n, p
  <2>6. q \in Seq(LimbValues) /\ Len(q) = n /\ \A i \in 1 .. n : q[i] = IF i <= k THEN p[i] ELSE 0
    <3>1. 0 \in LimbValues
      BY Base DEF LimbValues
    <3>2. \A i \in 1 .. n : i <= k => p[i] \in LimbValues
      BY <2>1, <2>3
    <3>3. \A i \in 1 .. n : (IF i <= k THEN p[i] ELSE 0) \in LimbValues
      BY <3>1, <3>2
    <3> QED BY <2>5, <3>3
  <2>7. Evaluated(q) = q
    BY <2>6, EvaluatedIs
  <2>8. mpi_copy(m, X, Y) = Set(g, X, [s |-> v.s, p |-> q])
    BY <2>3a, <2>5, <2>7
  <2> HIDE DEF q
  <2>9. Value(q) = Value(p)
    <3>1. \A i \in 1 .. k : q[i] = p[i]
      BY <2>3, <2>5, <2>6
    <3>2. \A i \in k + 1 .. Len(q) : q[i] = 0
      BY <2>3, <2>5, <2>6
    <3> QED BY <2>1, <2>3, <2>5, <2>6, <3>1, <3>2, ZerosAbove
  <2> DEFINE w == [s |-> v.s, p |-> q]
  <2>10. w \in Mpis /\ w.s = v.s /\ w.p = q
    BY <2>1, <2>6 DEF Mpis
  <2> HIDE DEF w, v
  <2>11. Stores(Names, g, Set(g, X, w), X, w)
    BY <2>4, <2>10, SetIs
  <2>12. mpi_copy(m, X, Y) = Set(g, X, w)
    BY <2>8 DEF w
  <2> QED BY <2>4, <2>9, <2>10, <2>11, <2>12 DEF v, p, Stores, Copies
<1> QED BY <1>1, <1>2

LEMMA SetLimbsIs ==
  ASSUME NEW Names, NEW m \in Memories(Names), NEW X \in Names, NEW p \in Seq(LimbValues)
  PROVE  Stores(Names, m, SetLimbs(m, X, p), X, [s |-> m.mpi[X].s, p |-> p])
<1> DEFINE v == [m.mpi[X] EXCEPT !.p = p]
<1>1. Evaluated(p) = p
  BY EvaluatedIs
<1>2. v \in Mpis /\ v = [s |-> m.mpi[X].s, p |-> p]
  <2>1. m.mpi[X] \in Mpis
    BY DEF Memories
  <2> QED BY <2>1 DEF Mpis
<1>3. SetLimbs(m, X, p) = Set(m, X, v)
  BY <1>1 DEF SetLimbs, Set, Memories
<1> HIDE DEF v
<1> QED BY <1>2, <1>3, SetIs

LEMMA SetSignIs ==
  ASSUME NEW Names, NEW m \in Memories(Names), NEW X \in Names, NEW s \in {1, -1}
  PROVE  Stores(Names, m, SetSign(m, X, s), X, [s |-> s, p |-> m.mpi[X].p])
<1> DEFINE v == [m.mpi[X] EXCEPT !.s = s]
<1>2. v \in Mpis /\ v = [s |-> s, p |-> m.mpi[X].p]
  BY DEF Mpis, Memories
<1>3. SetSign(m, X, s) = Set(m, X, v)
  BY DEF SetSign, Set, Memories
<1> HIDE DEF v
<1> QED BY <1>2, <1>3, SetIs

-----------------------------------------------------------------------------
(* Addition.                                                                *)

LEMMA PaddedValue ==
  ASSUME NEW s \in Seq(LimbValues), NEW n \in Nat, Top(s) <= n
  PROVE  Value(Padded(s, n)) = Value(s) /\ Partial(Padded(s, n))[0] = 0
<1> DEFINE q == Padded(s, n)
           t == Top(s)
<1>1. q \in Seq(LimbValues) /\ Len(q) = n /\ \A i \in 1 .. n : q[i] = Digit(s, i)
  BY PaddedIs
<1> HIDE DEF q
<1>2. t \in 0 .. Len(s) /\ t \in Nat /\ \A i \in t + 1 .. Len(s) : s[i] = 0
  BY TopIs
<1>3. \A i \in 1 .. t : q[i] = s[i]
  BY <1>1, <1>2 DEF Digit
<1>4. \A i \in t + 1 .. n : q[i] = 0
  BY <1>1, <1>2 DEF Digit
<1>5. Value(q) = Value(s)
  BY <1>1, <1>2, <1>3, <1>4, ZerosAbove
<1>6. Partial(q)[0] = 0
  BY <1>1, PartialIs
<1> QED BY <1>5, <1>6 DEF q

LEMMA PaddedPartial ==
  ASSUME NEW s \in Seq(LimbValues), NEW n \in Nat, Top(s) <= n
  PROVE  /\ Partial(Padded(s, n))[0] = 0
         /\ \A k \in Top(s) .. n : Partial(Padded(s, n))[k] = Value(s)
<1> DEFINE q == Padded(s, n)
           t == Top(s)
<1>1. q \in Seq(LimbValues) /\ Len(q) = n /\ \A i \in 1 .. n : q[i] = Digit(s, i)
  BY PaddedIs
<1>2. Value(q) = Value(s) /\ Partial(q)[0] = 0
  BY PaddedValue
<1> HIDE DEF q
<1>3. t \in 0 .. Len(s) /\ t \in Nat /\ t <= n /\ \A i \in t + 1 .. Len(s) : s[i] = 0
  BY TopIs
<1>4. \A i \in t + 1 .. Len(q) : q[i] = 0
  BY <1>1, <1>3 DEF Digit
<1> HIDE DEF t
<1>5. \A k \in t .. n : Partial(q)[k] = Partial(q)[t]
  BY <1>1, <1>3, <1>4, PartialZeros
<1>6. Partial(q)[n] = Value(s) /\ n \in t .. n
  BY <1>1, <1>2, <1>3 DEF Value
<1> QED BY <1>2, <1>5, <1>6 DEF q, t

(* Equal limbs above limb m weigh the same.                                 *)
LEMMA SameTail ==
  ASSUME NEW n \in Nat, NEW p \in Numbers(n), NEW q \in Numbers(n), NEW m \in 0 .. n,
         \A k \in m + 1 .. n : p[k] = q[k]
  PROVE  \A k \in m .. n : Partial(p)[k] - Partial(p)[m] = Partial(q)[k] - Partial(q)[m]
<1> DEFINE f == Partial(p)
           g == Partial(q)
           S == {k \in Nat : f[k] - f[m] = g[k] - g[m]}
<1>0. p \in Seq(LimbValues) /\ Len(p) = n /\ q \in Seq(LimbValues) /\ Len(q) = n
  BY NumbersAre
<1>1. f \in [0 .. n -> Nat] /\ \A k \in 1 .. n : f[k] = f[k - 1] + p[k] * Weight[k - 1]
  BY <1>0, PartialIs
<1>2. g \in [0 .. n -> Nat] /\ \A k \in 1 .. n : g[k] = g[k - 1] + q[k] * Weight[k - 1]
  BY <1>0, PartialIs
<1> HIDE DEF f, g
<1>3. m \in S
  BY <1>1, <1>2
<1>4. \A k \in m + 1 .. n : k - 1 \in S => k \in S
  <2> TAKE k \in m + 1 .. n
  <2> HAVE k - 1 \in S
  <2> DEFINE v == p[k] * Weight[k - 1]
  <2>1. k \in 1 .. n /\ k - 1 \in 0 .. n /\ k - 1 \in Nat /\ k \in Nat /\ p[k] = q[k]
    OBVIOUS
  <2>2. v \in Nat
    <3>1. p[k] \in Nat
      BY <2>1, LimbIsNat DEF Numbers
    <3>2. Weight[k - 1] \in Nat
      BY <2>1, WeightIs
    <3> QED BY <3>1, <3>2
  <2>3. f[k] = f[k - 1] + v /\ g[k] = g[k - 1] + v
    BY <1>1, <1>2, <2>1
  <2> HIDE DEF v
  <2>4. f[k] - f[m] = g[k] - g[m]
    <3> DEFINE fm == f[m]  gm == g[m]  fk == f[k - 1]  gk == g[k - 1]
    <3>1. fm \in Nat /\ gm \in Nat /\ fk \in Nat /\ gk \in Nat
      BY <1>1, <1>2, <2>1
    <3>2. fk - fm = gk - gm
      OBVIOUS
    <3>3. f[k] = fk + v /\ g[k] = gk + v
      BY <2>3
    <3> HIDE DEF fm, gm, fk, gk
    <3>4. (fk + v) - fm = (gk + v) - gm
      BY <2>2, <3>1, <3>2
    <3> QED BY <3>3, <3>4 DEF fm, gm
  <2> QED BY <2>1, <2>4
<1> HIDE DEF S
<1>5. \A k \in m .. n : k \in S
  BY <1>3, <1>4, LoopInduction
<1> QED BY <1>5 DEF S, f, g

(* What a loop that adds limbs first .. last has done to the first k limbs, *)
(* for each k from last on.                                                 *)
LEMMA SumBelow ==
  ASSUME NEW n \in Nat, NEW d \in Numbers(n), NEW s \in Seq(LimbValues), NEW first \in 1 .. n + 1,
         NEW last \in first - 1 .. n, NEW c \in LimbValues
  PROVE  LET r == Added(d, s, first, last, c)
             P == Partial(Padded(s, n))
         IN  /\ r \in LimbValues \X Numbers(n)
             /\ \A k \in last .. n :
                    Partial(r[2])[k] + r[1] * Weight[last]
                      = Partial(d)[k] + c * Weight[first - 1] + (P[last] - P[first - 1])
<1> DEFINE r == Added(d, s, first, last, c)
           q == r[2]
           x == r[1] * Weight[last]
           y == c * Weight[first - 1]
           P == Partial(Padded(s, n))
           z == P[last] - P[first - 1]
<1>1. r \in LimbValues \X Numbers(n) /\ SumSoFar(d, s, first, c, last, r)
  BY AddedIs
<1> HIDE DEF r
<1>2. Len(d) = n /\ d \in Seq(LimbValues) /\ q \in Numbers(n) /\ q \in Seq(LimbValues) /\ Len(q) = n
  BY <1>1, NumbersAre
<1>3. last \in 0 .. n /\ last \in Nat /\ first - 1 \in 0 .. n /\ first - 1 \in Nat
  OBVIOUS
<1>4. x \in Int /\ y \in Int /\ z \in Int
  <2>1. r[1] \in Nat /\ c \in Nat
    BY <1>1, LimbIsNat
  <2>2. Weight[last] \in Nat /\ Weight[first - 1] \in Nat
    BY <1>3, WeightIs
  <2>3. P[last] \in Nat /\ P[first - 1] \in Nat
    BY <1>3, PaddedIs, PartialIs
  <2> HIDE DEF P
  <2> QED BY <2>1, <2>2, <2>3
<1>5. Partial(q)[n] + x = Partial(d)[n] + y + z
  BY <1>1, <1>2 DEF SumSoFar, Value
<1>6. \A k \in last + 1 .. n : q[k] = d[k]
  BY <1>1, <1>2 DEF SumSoFar
<1> HIDE DEF q, x, y, z, P
<1>7. \A k \in last .. n : Partial(q)[k] - Partial(q)[last] = Partial(d)[k] - Partial(d)[last]
  BY <1>2, <1>3, <1>6, SameTail
<1>8. Partial(q) \in [0 .. n -> Nat] /\ Partial(d) \in [0 .. n -> Nat]
  BY <1>2, PartialIs
<1>9. ASSUME NEW k \in last .. n PROVE Partial(q)[k] + x = Partial(d)[k] + y + z
  <2> DEFINE fn == Partial(q)[n]  fk == Partial(q)[k]  fl == Partial(q)[last]
             gn == Partial(d)[n]  gk == Partial(d)[k]  gl == Partial(d)[last]
  <2>1. fn - fl = gn - gl /\ fk - fl = gk - gl
    <3>1. n \in last .. n
      BY <1>3
    <3> QED BY <1>7, <3>1
  <2>2. fn \in Nat /\ fk \in Nat /\ fl \in Nat /\ gn \in Nat /\ gk \in Nat /\ gl \in Nat
    <3>1. n \in 0 .. n /\ k \in 0 .. n /\ last \in 0 .. n
      BY <1>3
    <3> QED BY <1>8, <3>1
  <2>3. fn + x = gn + y + z
    BY <1>5
  <2> HIDE DEF fn, fk, fl, gn, gk, gl
  <2>4. fk + x = gk + y + z
    BY <1>4, <2>1, <2>2, <2>3
  <2> QED BY <2>4 DEF fk, gk
<1> QED BY <1>1, <1>9 DEF r, q, x, y, z, P

(* d + s: the limbs of s, with the carry that comes out of them.            *)
LEMMA LimbsAdded ==
  ASSUME NEW n \in Nat, NEW d \in Numbers(n), NEW s \in Seq(LimbValues), Top(s) <= n
  PROVE  LET r == Added(d, s, 1, Top(s), 0)
         IN  /\ r \in LimbValues \X Numbers(n)
             /\ \A k \in Top(s) .. n :
                    Partial(r[2])[k] + r[1] * Weight[Top(s)] = Partial(d)[k] + Value(s)
<1> DEFINE j == Top(s)
           r == Added(d, s, 1, j, 0)
           P == Partial(Padded(s, n))
<1>1. j \in Nat /\ j \in 1 - 1 .. n /\ j \in j .. n /\ 1 \in 1 .. n + 1 /\ 1 - 1 = 0 /\ 0 \in LimbValues
  <2>1. j \in 0 .. Len(s) /\ 0 \in LimbValues
    BY TopIs, Base DEF LimbValues
  <2> QED BY <2>1
<1>2. P[0] = 0 /\ P[j] = Value(s)
  BY <1>1, PaddedPartial
<1>3. Weight[0] = 1 /\ Value(s) \in Nat
  BY WeightIs, TopValue
<1> HIDE DEF j
<1>4. /\ r \in LimbValues \X Numbers(n)
      /\ \A k \in j .. n : Partial(r[2])[k] + r[1] * Weight[j] = Partial(d)[k] + 0 * Weight[1 - 1] + (P[j] - P[1 - 1])
  BY <1>1, SumBelow
<1>5. ASSUME NEW k \in j .. n PROVE Partial(d)[k] \in Nat
  <2>1. d \in Seq(LimbValues) /\ Len(d) = n
    BY NumbersAre
  <2>2. k \in 0 .. n
    BY <1>1
  <2> QED BY <2>1, <2>2, PartialIs
<1> HIDE DEF r, P
<1>6. \A k \in j .. n : Partial(r[2])[k] + r[1] * Weight[j] = Partial(d)[k] + Value(s)
  <2> TAKE k \in j .. n
  <2>1. Partial(r[2])[k] + r[1] * Weight[j] = Partial(d)[k] + 0 * 1 + (Value(s) - 0)
    BY <1>1, <1>2, <1>3, <1>4
  <2>2. Partial(d)[k] \in Nat
    BY <1>5
  <2> QED BY <1>3, <2>1, <2>2
<1> QED BY <1>4, <1>6 DEF j, r

(* A carry added to limb i.                                                 *)
LEMMA CarryAdded ==
  ASSUME NEW n \in Nat, NEW d \in Numbers(n), NEW i \in 1 .. n, NEW c \in LimbValues
  PROVE  LET r == Added(d, <<>>, i, i, c)
         IN  /\ r \in LimbValues \X Numbers(n)
             /\ \A k \in i .. n :
                    Partial(r[2])[k] + r[1] * Weight[i] = Partial(d)[k] + c * Weight[i - 1]
<1> DEFINE r == Added(d, <<>>, i, i, c)
           z == Padded(<<>>, n)
           y == c * Weight[i - 1]
<1>1. /\ <<>> \in Seq(LimbValues) /\ Len(<<>>) = 0 /\ i \in 1 .. n + 1 /\ i \in i - 1 .. n
      /\ i \in 0 .. n /\ i - 1 \in 0 .. n /\ i - 1 \in Nat
  OBVIOUS
<1>2. z \in Seq(LimbValues) /\ Len(z) = n /\ \A k \in 1 .. n : z[k] = 0
  <2>1. z \in Seq(LimbValues) /\ Len(z) = n /\ \A k \in 1 .. n : z[k] = Digit(<<>>, k)
    BY <1>1, PaddedIs
  <2>2. \A k \in 1 .. n : Digit(<<>>, k) = 0
    BY <1>1 DEF Digit
  <2> HIDE DEF z
  <2> QED BY <2>1, <2>2
<1> HIDE DEF z
<1>3. \A k \in 0 .. n : Partial(z)[k] = 0
  <2>1. \A k \in 0 .. n : Partial(z)[k] = Partial(z)[0]
    BY <1>2, PartialZeros
  <2> QED BY <1>2, <2>1, PartialIs
<1>4. y \in Nat
  <2>1. c \in Nat /\ Weight[i - 1] \in Nat
    BY <1>1, LimbIsNat, WeightIs
  <2> QED BY <2>1
<1>5. /\ r \in LimbValues \X Numbers(n)
      /\ \A k \in i .. n : Partial(r[2])[k] + r[1] * Weight[i] = Partial(d)[k] + y + (Partial(z)[i] - Partial(z)[i - 1])
  BY <1>1, SumBelow DEF z
<1>6. ASSUME NEW k \in i .. n PROVE Partial(d)[k] \in Nat
  <2>1. d \in Seq(LimbValues) /\ Len(d) = n /\ k \in 0 .. n
    BY NumbersAre
  <2> QED BY <2>1, PartialIs
<1> HIDE DEF r, y
<1>7. \A k \in i .. n : Partial(r[2])[k] + r[1] * Weight[i] = Partial(d)[k] + y
  <2> TAKE k \in i .. n
  <2>1. Partial(r[2])[k] + r[1] * Weight[i] = Partial(d)[k] + y + (0 - 0)
    BY <1>1, <1>3, <1>5
  <2>2. Partial(d)[k] \in Nat
    BY <1>6
  <2> QED BY <1>4, <2>1, <2>2
<1> QED BY <1>5, <1>7 DEF r, y

(* A carry of a sum that has less than one weight to carry is 0.            *)
LEMMA NoCarry ==
  ASSUME NEW c \in Nat, NEW w \in Nat, NEW v \in Nat, NEW x \in Nat, x + c * w = v, v < w
  PROVE  c = 0
<1>1. SUFFICES ASSUME c >= 1 PROVE FALSE
  OBVIOUS
<1>2. c * w >= w /\ c * w \in Nat
  BY <1>1
<1> QED BY <1>2

(* ... of less than two, 1 at most, and 1 just if the sum reaches one.      *)
LEMMA OneCarry ==
  ASSUME NEW c \in Nat, NEW w \in Nat, NEW v \in Nat, NEW x \in Nat, x + c * w = v, x < w, v < 2 * w
  PROVE  c = IF v >= w THEN 1 ELSE 0
<1>1. CASE c = 0
  BY <1>1
<1>2. CASE c = 1
  BY <1>2
<1>3. CASE c >= 2
  <2>1. c * w >= 2 * w /\ c * w \in Nat
    BY <1>3
  <2> QED BY <2>1
<1> QED BY <1>1, <1>2, <1>3

LEMMA WithCarryIs ==
  ASSUME NEW p \in Seq(LimbValues), NEW c \in LimbValues
  PROVE  LET q == WithCarry(<<c, p>>)
         IN  q \in Seq(LimbValues) /\ Value(q) = Value(p) + c * Weight[Len(p)]
<1> DEFINE n == Len(p)
<1>1. n \in Nat /\ Value(p) \in Nat /\ Weight[n] \in Nat
  <2>1. n \in Nat
    OBVIOUS
  <2> QED BY <2>1, WeightIs, TopValue
<1>2. CASE c = 0
  <2>1. WithCarry(<<c, p>>) = p
    BY <1>2 DEF WithCarry
  <2> HIDE DEF n
  <2>2. Value(p) = Value(p) + 0 * Weight[n]
    BY <1>1
  <2> QED BY <1>2, <2>1, <2>2 DEF n
<1>3. CASE c # 0
  <2> DEFINE q == Append(p, c)
  <2>1. WithCarry(<<c, p>>) = q
    BY <1>3 DEF WithCarry
  <2>2. /\ q \in Seq(LimbValues) /\ Len(q) = n + 1 /\ q[n + 1] = c
        /\ \A i \in 1 .. n : q[i] = p[i]
    OBVIOUS
  <2> HIDE DEF q
  <2>3. Partial(q)[n + 1] = Partial(q)[(n + 1) - 1] + q[n + 1] * Weight[(n + 1) - 1]
    <3>1. n + 1 \in 1 .. Len(q)
      BY <1>1, <2>2
    <3> QED BY <2>2, <3>1, PartialIs
  <2>4. (n + 1) - 1 = n
    BY <1>1
  <2>5. Partial(q)[n] = Partial(p)[n]
    <3>1. n \in 0 .. n /\ n <= Len(p) /\ n <= Len(q)
      BY <1>1, <2>2
    <3> QED BY <1>1, <2>2, <3>1, PartialSame
  <2> QED BY <2>1, <2>2, <2>3, <2>4, <2>5 DEF Value
<1> QED BY <1>2, <1>3

(* The carry that comes out of the first limb above those of the addend s   *)
(* is lost, unless that is the last limb of d.                              *)
CarryIsLost(d, s) ==
    /\ Top(s) + 1 < Len(d)
    /\ Partial(d)[Top(s) + 1] + Value(s) >= Weight[Top(s) + 1]

Shortfall(d, s) == IF CarryIsLost(d, s) THEN Weight[Top(s) + 1] - Weight[Top(s)] ELSE 0

(* The loops of mpi_add_abs, for any augend with room for the addend.       *)
LEMMA CarriedIs ==
  ASSUME NEW d \in Seq(LimbValues), NEW s \in Seq(LimbValues), Top(s) <= Len(d)
  PROVE  LET q == CarriedInto(Added(d, s, 1, Top(s), 0), Top(s) + 1)
         IN  q \in Seq(LimbValues) /\ Value(q) = (Value(d) + Value(s)) - Shortfall(d, s)
<1> DEFINE n == Len(d)
           j == Top(s)
           i == j + 1
           r == Added(d, s, 1, j, 0)
           q == CarriedInto(r, i)
           v == Value(d) + Value(s)
<1> SUFFICES q \in Seq(LimbValues) /\ Value(q) = v - Shortfall(d, s)
  OBVIOUS
<1>1. n \in Nat /\ j \in Nat /\ j <= n /\ i \in Nat /\ d \in Numbers(n) /\ n \in j .. n /\ j \in j .. n
  <2>1. j \in 0 .. Len(s) /\ n \in Nat /\ Len(s) \in Nat
    BY TopIs
  <2>2. d \in Numbers(n)
    BY <2>1, NumbersAre
  <2> QED BY <2>1, <2>2
<1>2. Value(d) \in Nat /\ Value(s) \in Nat /\ Value(s) < Weight[j] /\ v \in Nat /\ Value(d) = Partial(d)[n]
  BY TopValue DEF Value
<1>3. /\ r \in LimbValues \X Numbers(n)
      /\ \A k \in j .. n : Partial(r[2])[k] + r[1] * Weight[j] = Partial(d)[k] + Value(s)
  BY <1>1, LimbsAdded
<1>4. Partial(d) \in [0 .. n -> Nat] /\ \A k \in 0 .. n : Partial(d)[k] < Weight[k]
  BY PartialIs, PartialBound
<1> HIDE DEF r
<1> DEFINE c1 == r[1]
           x1 == r[2]
<1>5. r = <<c1, x1>> /\ c1 \in LimbValues /\ x1 \in Numbers(n) /\ x1 \in Seq(LimbValues) /\ Len(x1) = n
  BY <1>1, <1>3, NumbersAre
<1>6. \A k \in j .. n : Partial(x1)[k] + c1 * Weight[j] = Partial(d)[k] + Value(s)
  BY <1>3
<1> HIDE DEF c1, x1
<1>7. CASE i > n
  <2>1. n = j /\ ~CarryIsLost(d, s)
    BY <1>1, <1>7 DEF CarryIsLost
  <2>2. q = WithCarry(<<c1, x1>>)
    BY <1>5, <1>7 DEF CarriedInto
  <2>3. q \in Seq(LimbValues) /\ Value(q) = Value(x1) + c1 * Weight[n]
    <3> HIDE DEF q
    <3> QED BY <1>5, <2>2, WithCarryIs
  <2>4. Value(x1) + c1 * Weight[n] = v
    BY <1>1, <1>2, <1>5, <1>6, <2>1 DEF Value
  <2>5. Shortfall(d, s) = 0
    BY <2>1 DEF Shortfall
  <2> HIDE DEF q, v
  <2>6. v - 0 = v
    BY <1>2 DEF v
  <2> QED BY <2>3, <2>4, <2>5, <2>6
<1>8. CASE i <= n
  <2> DEFINE o == Added(x1, <<>>, i, i, c1)
             c2 == o[1]
             x2 == o[2]
             w == Weight[i]
             u == Weight[j]
             y == Partial(d)[i] + Value(s)
  <2>1. i \in 1 .. n /\ i \in i .. n /\ n \in i .. n /\ i - 1 = j /\ i \in 0 .. n /\ i \in j .. n
        /\ \A k \in i .. n : k \in j .. n
    BY <1>1, <1>8
  <2>2. /\ o \in LimbValues \X Numbers(n)
        /\ \A k \in i .. n : Partial(o[2])[k] + o[1] * Weight[i] = Partial(x1)[k] + c1 * Weight[i - 1]
    <3> HIDE DEF i
    <3> QED BY <1>1, <1>5, <2>1, CarryAdded
  <2>3. o = <<c2, x2>> /\ c2 \in LimbValues /\ c2 \in Nat /\ x2 \in Numbers(n) /\ x2 \in Seq(LimbValues) /\ Len(x2) = n
    <3> HIDE DEF o
    <3> QED BY <1>1, <2>2, NumbersAre, LimbIsNat
  <2>4. \A k \in i .. n : Partial(x2)[k] + c2 * w = Partial(d)[k] + Value(s)
    <3> HIDE DEF o
    <3>1. \A k \in i .. n : Partial(x2)[k] + c2 * w = Partial(x1)[k] + c1 * u
      BY <2>1, <2>2
    <3> HIDE DEF i, w, u, x2, c2
    <3>2. \A k \in i .. n : Partial(x1)[k] + c1 * u = Partial(d)[k] + Value(s)
      BY <1>6, <2>1 DEF u
    <3> QED BY <3>1, <3>2
  <2>5. w \in Nat /\ u \in Nat \ {0} /\ w = u * Limbs /\ w >= 2 * u
    <3>1. w = u * Limbs /\ w \in Nat /\ u \in Nat \ {0}
      BY <1>1, WeightIs
    <3>2. Limbs \in Nat /\ Limbs >= 4
      BY Base
    <3> HIDE DEF w, u, Limbs
    <3>3. u * Limbs >= 2 * u
      BY <3>1, <3>2
    <3> QED BY <3>1, <3>3
  <2>6. Partial(x2) \in [0 .. n -> Nat] /\ \A k \in 0 .. n : Partial(x2)[k] < Weight[k]
    <3> HIDE DEF x2
    <3> QED BY <2>3, PartialIs, PartialBound
  <2>7. y \in Nat /\ y < w + u /\ Partial(x2)[i] \in Nat /\ Partial(x2)[i] < w /\ Partial(x2)[i] + c2 * w = y
    <3>1. Partial(d)[i] \in Nat /\ Partial(d)[i] < w
      BY <1>4, <2>1
    <3>2. Value(s) < u
      BY <1>2
    <3>3. Partial(x2)[i] \in Nat /\ Partial(x2)[i] < w
      BY <2>1, <2>6
    <3>4. Partial(x2)[i] + c2 * w = y
      BY <2>1, <2>4
    <3> HIDE DEF w, u, x2, c2, i, j
    <3> QED BY <1>2, <2>5, <3>1, <3>2, <3>3, <3>4
  <2>8. Partial(x2)[n] + c2 * w = v
    <3> HIDE DEF x2, c2, w, i, j
    <3> QED BY <1>2, <2>1, <2>4
  <2>9. q = IF i = n THEN WithCarry(o) ELSE Added(x2, <<>>, i, i, c2)[2]
    <3>1. Len(r[2]) = n /\ r[1] = c1 /\ r[2] = x1
      BY <1>5
    <3> HIDE DEF o, i, n
    <3>2. o = Added(r[2], <<>>, i, i, r[1]) /\ ~(i > n)
      BY <1>1, <1>8, <2>1, <3>1 DEF o
    <3> QED BY <3>1, <3>2 DEF CarriedInto
  <2> HIDE DEF o, c2, x2, y, w, u, q, v
  <2>10. CASE i = n
    <3>1. q \in Seq(LimbValues) /\ Value(q) = Value(x2) + c2 * Weight[n]
      BY <2>3, <2>9, <2>10, WithCarryIs
    <3>2. Value(x2) + c2 * Weight[n] = v
      <4> HIDE DEF n, i
      <4> QED BY <2>3, <2>8, <2>10 DEF Value, w
    <3>3. ~CarryIsLost(d, s)
      BY <1>1, <2>10 DEF CarryIsLost
    <3>4. Shortfall(d, s) = 0
      BY <3>3 DEF Shortfall
    <3>5. Value(q) = v - 0
      BY <1>2, <3>1, <3>2 DEF v
    <3> QED BY <3>1, <3>4, <3>5
  <2>11. CASE i < n
    <3> DEFINE g == Added(x2, <<>>, i, i, c2)
               c3 == g[1]
               x3 == g[2]
               a == Partial(x2)[i]
    <3>1. /\ g \in LimbValues \X Numbers(n)
          /\ \A k \in i .. n : Partial(g[2])[k] + g[1] * Weight[i] = Partial(x2)[k] + c2 * Weight[i - 1]
      <4> HIDE DEF i
      <4> QED BY <1>1, <2>1, <2>3, CarryAdded
    <3> HIDE DEF g
    <3>2. c3 \in LimbValues /\ c3 \in Nat /\ x3 \in Numbers(n) /\ x3 \in Seq(LimbValues) /\ Len(x3) = n
      BY <1>1, <3>1, NumbersAre, LimbIsNat
    <3>3. Partial(x3)[i] + c3 * w = a + c2 * u /\ Partial(x3)[n] + c3 * w = Partial(x2)[n] + c2 * u
      <4> HIDE DEF i
      <4> QED BY <2>1, <3>1 DEF w, u
    <3>4. Partial(x3)[i] \in Nat /\ Partial(x3)[n] \in Nat /\ Partial(x2)[n] \in Nat
      <4>1. Partial(x3) \in [0 .. n -> Nat]
        <5> HIDE DEF x3
        <5> QED BY <3>2, PartialIs
      <4>2. n \in 0 .. n
        BY <1>1
      <4> QED BY <2>1, <2>6, <4>1, <4>2
    <3> HIDE DEF c3, x3, a
    <3>5. c2 = IF y >= w THEN 1 ELSE 0
      <4>1. y < 2 * w
        BY <2>5, <2>7
      <4> QED BY <2>3, <2>5, <2>7, <4>1, OneCarry
    <3>6. CarryIsLost(d, s) <=> y >= w
      BY <2>11 DEF CarryIsLost, y, w
    <3>7. a + c2 * u \in Nat /\ a + c2 * u < w
      <4>1. a \in Nat /\ a < w /\ a + c2 * w = y
        BY <2>7 DEF a
      <4>2. CASE y >= w
        <5>1. c2 = 1 /\ a + w = y
          BY <2>5, <3>5, <4>1, <4>2
        <5> QED BY <2>5, <2>7, <4>1, <5>1
      <4>3. CASE ~(y >= w)
        <5>1. c2 = 0
          BY <3>5, <4>3
        <5> QED BY <2>5, <4>1, <5>1
      <4> QED BY <4>2, <4>3
    <3>8. c3 = 0
      BY <2>5, <3>2, <3>3, <3>4, <3>7, NoCarry
    <3>9. Partial(x3)[n] = v - Shortfall(d, s)
      <4>1. Partial(x3)[n] = Partial(x2)[n] + c2 * u
        BY <2>5, <3>3, <3>4, <3>8
      <4>2. CASE y >= w
        <5>1. c2 = 1 /\ Shortfall(d, s) = w - u
          BY <3>5, <3>6, <4>2 DEF Shortfall, w, u
        <5>2. Partial(x2)[n] + w = v
          BY <2>5, <2>8, <5>1
        <5> QED BY <2>5, <3>4, <4>1, <5>1, <5>2
      <4>3. CASE ~(y >= w)
        <5>1. c2 = 0 /\ Shortfall(d, s) = 0
          BY <3>5, <3>6, <4>3 DEF Shortfall
        <5>2. Partial(x2)[n] = v
          BY <2>5, <2>8, <3>4, <5>1
        <5> QED BY <2>5, <3>4, <4>1, <5>1, <5>2
      <4> QED BY <4>2, <4>3
    <3>10. q = x3
      BY <2>9, <2>11 DEF x3, g
    <3> QED BY <3>2, <3>9, <3>10 DEF Value
  <2> QED BY <1>1, <1>8, <2>10, <2>11
<1> QED BY <1>1, <1>7, <1>8

LEMMA MpiIs ==
  ASSUME NEW Names, NEW m \in Memories(Names), NEW X \in Names
  PROVE  /\ m.mpi[X] \in Mpis /\ m.mpi[X].p \in Seq(LimbValues) /\ m.mpi[X].s \in {1, -1}
         /\ Value(m.mpi[X].p) \in Nat
<1>1. m.mpi[X] \in Mpis
  BY DEF Memories
<1>2. m.mpi[X].p \in Seq(LimbValues) /\ m.mpi[X].s \in {1, -1}
  BY <1>1 DEF Mpis
<1> QED BY <1>1, <1>2, TopValue

(* The limbs that mpi_add_abs adds to, and what its result falls short by.  *)
Augend(m, X, A, B) == mpi_grow(mpi_copy(m, X, A), X, Top(m.mpi[B].p)).mpi[X].p

Lost(m, X, A, B) ==
    IF X = B THEN Shortfall(Augend(m, X, X, A), m.mpi[A].p)
    ELSE Shortfall(Augend(m, X, A, B), m.mpi[B].p)

LEMMA LostIs ==
  ASSUME NEW Names, NEW m \in Memories(Names), NEW X \in Names, NEW A \in Names, NEW B \in Names
  PROVE  Lost(m, X, A, B) \in Int
<1>1. \A Y \in Names : Top(m.mpi[Y].p) \in Nat /\ Top(m.mpi[Y].p) + 1 \in Nat
  <2> TAKE Y \in Names
  <2>1. m.mpi[Y].p \in Seq(LimbValues)
    BY MpiIs
  <2>2. Top(m.mpi[Y].p) \in 0 .. Len(m.mpi[Y].p)
    BY <2>1, TopIs
  <2> QED BY <2>1, <2>2
<1>2. \A Y \in Names : Weight[Top(m.mpi[Y].p) + 1] \in Int /\ Weight[Top(m.mpi[Y].p)] \in Int
  BY <1>1, WeightIs
<1>3. ASSUME NEW d, NEW Y \in Names PROVE Shortfall(d, m.mpi[Y].p) \in Int
  BY <1>2 DEF Shortfall
<1> QED BY <1>3 DEF Lost

(* mpi_add_abs adds the magnitudes, for any of its arguments the same but   *)
(* all three, except that its second loop never advances: a carry out of    *)
(* the first limb above those of the addend is added to that limb again,    *)
(* and not to the next, when X has one (bignum.c:595-639).                  *)
THEOREM MagnitudesAreAdded ==
  ASSUME NEW Names, NEW m \in Memories(Names), NEW X \in Names, NEW A0 \in Names, NEW B0 \in Names,
         ~(X = A0 /\ X = B0)
  PROVE  Leaves(Names, {}, m, mpi_add_abs(m, X, A0, B0), X,
                (Value(m.mpi[A0].p) + Value(m.mpi[B0].p)) - Lost(m, X, A0, B0))
<1> DEFINE A  == IF X = B0 THEN X ELSE A0
           B  == IF X = B0 THEN A0 ELSE B0
           a  == Value(m.mpi[A].p)
           b  == Value(m.mpi[B].p)
           m1 == mpi_copy(m, X, A)
           j  == Top(m1.mpi[B].p)
           m2 == mpi_grow(m1, X, j)
           d  == m2.mpi[X].p
           s  == m2.mpi[B].p
           p  == CarriedInto(Added(d, s, 1, j, 0), j + 1)
           e  == Lost(m, X, A0, B0)
           m3 == mpi_grow(m2, X, Len(p))
           m4 == SetLimbs(m3, X, p)
<1>1. mpi_add_abs(m, X, A0, B0) = m4
  BY DEF mpi_add_abs
<1>2. A \in Names /\ B \in Names /\ B # X
  OBVIOUS
<1>3. a + b = Value(m.mpi[A0].p) + Value(m.mpi[B0].p)
  <2>1. Value(m.mpi[A0].p) \in Nat /\ Value(m.mpi[B0].p) \in Nat
    BY MpiIs
  <2> QED BY <2>1
<1>3a. e = Shortfall(Augend(m, X, A, B), m.mpi[B].p)
  BY DEF Lost
<1> HIDE DEF A, B
<1>4. Copies(Names, m, m1, X, m.mpi[A].s, a)
  BY <1>2, CopyIs
<1> HIDE DEF m1
<1>5. m1 \in Memories(Names) /\ m1.mpi[B] = m.mpi[B] /\ Value(m1.mpi[X].p) = a
  BY <1>2, <1>4 DEF Copies
<1>6. m1.mpi[B].p \in Seq(LimbValues) /\ m1.mpi[X].p \in Seq(LimbValues) /\ Len(m1.mpi[X].p) \in Nat
  BY <1>2, <1>5, MpiIs
<1>7. j \in Nat
  BY <1>6, TopIs
<1>8. /\ Stores(Names, m1, m2, X, [s |-> m1.mpi[X].s, p |-> Enlarge(m1.mpi[X].p, j)])
      /\ d \in Seq(LimbValues) /\ Len(d) = Larger(Len(m1.mpi[X].p), j) /\ Value(d) = Value(m1.mpi[X].p)
  <2> HIDE DEF j
  <2> QED BY <1>5, <1>7, GrowIs
<1>9. s = m1.mpi[B].p /\ m2 \in Memories(Names)
  <2> HIDE DEF m2
  <2> QED BY <1>2, <1>8 DEF Stores
<1>10. s \in Seq(LimbValues) /\ Top(s) <= Len(d) /\ Value(s) = b /\ Value(d) = a
  <2> HIDE DEF d, s, a, b
  <2>1. j <= Len(d)
    BY <1>6, <1>7, <1>8 DEF Larger
  <2>2. Top(s) = j /\ s = m.mpi[B].p
    BY <1>5, <1>9
  <2> QED BY <1>5, <1>6, <1>8, <1>9, <2>1, <2>2 DEF b
<1>11. e = Shortfall(d, s)
  <2>1. s = m.mpi[B].p
    BY <1>5, <1>9
  <2>2. d = Augend(m, X, A, B)
    BY <1>5 DEF Augend, m1
  <2> QED BY <1>3a, <2>1, <2>2
<1>11a. j = Top(s)
  BY <1>9
<1> HIDE DEF m2, d, s, j
<1>12. p \in Seq(LimbValues) /\ Value(p) = (a + b) - e
  BY <1>8, <1>10, <1>11, <1>11a, CarriedIs
<1> HIDE DEF e
<1> HIDE DEF p, a, b
<1>13. Len(p) \in Nat
  BY <1>12
<1>14. Stores(Names, m2, m3, X, [s |-> m2.mpi[X].s, p |-> Enlarge(m2.mpi[X].p, Len(p))])
  BY <1>9, <1>13, GrowIs
<1>15. m3 \in Memories(Names)
  BY <1>14 DEF Stores
<1> HIDE DEF m3
<1>16. Stores(Names, m3, m4, X, [s |-> m3.mpi[X].s, p |-> p])
  BY <1>12, <1>15, SetLimbsIs
<1> HIDE DEF m4
<1>17. /\ m4 \in Memories(Names) /\ m4.mpi[X].p = p /\ m4.ret = m3.ret
       /\ \A Y \in Names : Y # X => m4.mpi[Y] = m3.mpi[Y]
  BY <1>16 DEF Stores
<1>18. m3.ret = m2.ret /\ \A Y \in Names : Y # X => m3.mpi[Y] = m2.mpi[Y]
  BY <1>14 DEF Stores
<1>19. m2.ret = m1.ret /\ \A Y \in Names : Y # X => m2.mpi[Y] = m1.mpi[Y]
  BY <1>8 DEF Stores
<1>20. m1.ret = m.ret /\ \A Y \in Names : Y # X => m1.mpi[Y] = m.mpi[Y]
  BY <1>4 DEF Copies
<1>21. Leaves(Names, {}, m, m4, X, (a + b) - e)
  BY <1>12, <1>17, <1>18, <1>19, <1>20 DEF Leaves
<1>22. (a + b) - e = (Value(m.mpi[A0].p) + Value(m.mpi[B0].p)) - Lost(m, X, A0, B0)
  <2> DEFINE x == Value(m.mpi[A0].p)  y == Value(m.mpi[B0].p)
  <2>1. x \in Nat /\ y \in Nat
    BY MpiIs
  <2>2. e \in Int /\ e = Lost(m, X, A0, B0)
    BY LostIs DEF e
  <2> HIDE DEF x, y
  <2>3. a + b = x + y
    BY <1>3 DEF x, y
  <2>4. (a + b) - e = (x + y) - e
    BY <2>1, <2>2, <2>3
  <2> QED BY <2>2, <2>4 DEF x, y
<1> QED BY <1>1, <1>21, <1>22

(* No carry is lost when the addend is at least as large as what it is      *)
(* added to, or is 0: rsa_private adds T * Q, which is 0 or at least Q, to  *)
(* T2 < Q (rsa.c:205).                                                      *)
THEOREM LargeAddendsLoseNothing ==
  ASSUME NEW Names, NEW m \in Memories(Names), NEW X \in Names, NEW A \in Names, NEW B \in Names \ {X},
         Value(m.mpi[A].p) <= Value(m.mpi[B].p) \/ Value(m.mpi[B].p) = 0
  PROVE  Lost(m, X, A, B) = 0
<1> DEFINE a  == Value(m.mpi[A].p)
           s  == m.mpi[B].p
           b  == Value(s)
           j  == Top(s)
           m1 == mpi_copy(m, X, A)
           d  == mpi_grow(m1, X, j).mpi[X].p
<1>1. s \in Seq(LimbValues) /\ b \in Nat /\ a \in Nat
  BY MpiIs
<1>2. j \in Nat /\ j + 1 \in Nat
  <2>1. j \in 0 .. Len(s)
    BY <1>1, TopIs
  <2> QED BY <1>1, <2>1
<1>3. Copies(Names, m, m1, X, m.mpi[A].s, a)
  BY CopyIs
<1>4. d = Augend(m, X, A, B)
  BY DEF Augend
<1> HIDE DEF m1
<1>5. d \in Seq(LimbValues) /\ Value(d) = a
  <2>1. m1 \in Memories(Names) /\ Value(m1.mpi[X].p) = a
    BY <1>3 DEF Copies
  <2> HIDE DEF j, a
  <2> QED BY <1>2, <2>1, GrowIs
<1> HIDE DEF d, s
<1>6. ASSUME CarryIsLost(d, s) PROVE FALSE
  <2> DEFINE x == Partial(d)[j + 1]
             w == Weight[j + 1]
             u == Weight[j]
  <2>1. j + 1 < Len(d) /\ x + b >= w
    BY <1>6 DEF CarryIsLost
  <2>2. j + 1 \in 0 .. Len(d) /\ j + 1 \in 1 .. Len(d) /\ Len(d) \in j + 1 .. Len(d)
    BY <1>2, <1>5, <2>1
  <2>3. x \in Nat /\ x < w
    BY <1>5, <2>2, PartialIs, PartialBound
  <2>4. x <= a
    BY <1>5, <2>2, PartialGrows DEF Value
  <2>5. w = u * Limbs /\ w \in Nat /\ u \in Nat \ {0}
    BY <1>2, WeightIs
  <2>6. u * Limbs >= 2 * u
    <3>1. Limbs \in Nat /\ Limbs >= 4
      BY Base
    <3> HIDE DEF u, Limbs
    <3> QED BY <2>5, <3>1
  <2>7. b < u
    BY <1>1, TopValue
  <2> HIDE DEF x, w, u, a, b
  <2>8. b # 0
    BY <2>1, <2>3, <2>5
  <2>9. a <= b
    BY <2>8 DEF a, b, s
  <2> QED BY <1>1, <2>1, <2>3, <2>4, <2>5, <2>6, <2>7, <2>9
<1> QED BY <1>4, <1>6 DEF Lost, Shortfall, s

-----------------------------------------------------------------------------
(* Subtraction.                                                             *)

Cut(s, n, k) == IF k <= n THEN s[k] ELSE 0

Prefix(s, n, size) == [k \in 1 .. size |-> Cut(s, n, k)]

Difference(d, s, n, k, last) ==
    LET a == Wrap(d[k] - last[1])
        t == Cut(s, n, k)
    IN  <<Borrow(d[k] < last[1]) + Borrow(a < t), [last[2] EXCEPT ![k] = Wrap(a - t)]>>

Subtracts(n, s, d, f) ==
    f = [k \in 0 .. Len(d) |-> IF k = 0 THEN <<0, d>> ELSE Difference(d, s, n, k, f[k - 1])]

LEMMA PrefixIs ==
  ASSUME NEW s \in Seq(LimbValues), NEW n \in 0 .. Len(s), NEW size \in Nat
  PROVE  /\ Prefix(s, n, size) \in Seq(LimbValues) /\ Len(Prefix(s, n, size)) = size
         /\ \A k \in 1 .. size : Prefix(s, n, size)[k] = Cut(s, n, k) /\ Cut(s, n, k) \in LimbValues
         /\ Top(s) <= n /\ n <= size => Value(Prefix(s, n, size)) = Value(s)
<1> DEFINE q == Prefix(s, n, size)
<1>1. \A k \in 1 .. size : Cut(s, n, k) \in LimbValues
  <2>1. 0 \in LimbValues
    BY Base DEF LimbValues
  <2>2. \A k \in 1 .. size : k <= n => k \in 1 .. Len(s)
    OBVIOUS
  <2> QED BY <2>1, <2>2 DEF Cut
<1>2. q \in Seq(LimbValues) /\ Len(q) = size /\ \A k \in 1 .. size : q[k] = Cut(s, n, k)
  BY <1>1 DEF Prefix
<1> HIDE DEF q
<1>3. ASSUME Top(s) <= n, n <= size PROVE Value(q) = Value(s)
  <2>1. \A i \in 1 .. n : q[i] = s[i]
    BY <1>2, <1>3 DEF Cut
  <2>2. \A i \in n + 1 .. Len(q) : q[i] = 0
    BY <1>2 DEF Cut
  <2>3. n \in Nat /\ n <= Len(s) /\ n <= Len(q)
    BY <1>2, <1>3
  <2> QED BY <1>2, <1>3, <2>1, <2>2, <2>3, ZerosAbove
<1> QED BY <1>1, <1>2, <1>3 DEF q

LEMMA DifferenceTyped ==
  ASSUME NEW size \in Nat, NEW d \in Numbers(size), NEW s \in Seq(LimbValues), NEW n \in 0 .. Len(s),
         NEW k \in 1 .. size, NEW x \in (0 .. 1) \X Numbers(size)
  PROVE  Difference(d, s, n, k, x) \in (0 .. 1) \X Numbers(size)
<1> DEFINE t == Cut(s, n, k)
           a == Wrap(d[k] - x[1])
           b == Wrap(a - t)
           c == Borrow(d[k] < x[1]) + Borrow(a < t)
<1>1. d[k] \in LimbValues /\ x[1] \in 0 .. 1 /\ t \in LimbValues
  BY PrefixIs DEF Numbers
<1> HIDE DEF t
<1>2. b \in LimbValues /\ c \in 0 .. 1
  BY <1>1, SubStep
<1>3. Difference(d, s, n, k, x) = <<c, [x[2] EXCEPT ![k] = b]>>
  BY DEF Difference, t
<1> HIDE DEF b, c
<1>4. [x[2] EXCEPT ![k] = b] \in Numbers(size)
  BY <1>2 DEF Numbers
<1> QED BY <1>2, <1>3, <1>4

LEMMA SubtractsExists ==
  ASSUME NEW size \in Nat, NEW d \in Numbers(size), NEW s \in Seq(LimbValues), NEW n \in 0 .. Len(s)
  PROVE  LET f == CHOOSE f : Subtracts(n, s, d, f)
         IN  /\ f \in [0 .. size -> (0 .. 1) \X Numbers(size)]
             /\ f[0] = <<0, d>>
             /\ \A k \in 1 .. size : f[k] = Difference(d, s, n, k, f[k - 1])
             /\ Subtracted(n, s, d) = f[size]
<1> DEFINE State == (0 .. 1) \X Numbers(size)
           step == [kx \in (0 + 1 .. size) \X State |-> Difference(d, s, n, kx[1], kx[2])]
           f == CHOOSE f : Subtracts(n, s, d, f)
<1>0. /\ Len(d) = size /\ 0 <= size
      /\ \A k \in 1 .. size : k \in 0 + 1 .. size /\ k - 1 \in 0 .. size /\ k # 0 /\ k \in 0 .. size
      /\ \A k \in 0 + 1 .. size : k \in 1 .. size
      /\ \A k \in 0 .. size : k = 0 \/ k \in 1 .. size
      /\ 0 \in 0 .. size
  BY DEF Numbers
<1>1. <<0, d>> \in State
  OBVIOUS
<1> HIDE DEF State
<1>2. /\ step \in Steps(0, size, State)
      /\ \A k \in 1 .. size, x \in State : step[<<k, x>>] = Difference(d, s, n, k, x)
  <2>1. \A kx \in (0 + 1 .. size) \X State : Difference(d, s, n, kx[1], kx[2]) \in State
    BY <1>0, DifferenceTyped DEF State
  <2>2. step \in Steps(0, size, State)
    BY <2>1 DEF Steps
  <2> QED BY <1>0, <2>2
<1> HIDE DEF step
<1>3. PICK g : Loops(g, 0, size, State, <<0, d>>, step)
  BY <1>0, <1>1, <1>2, LoopExists
<1>4. /\ g \in [0 .. size -> State] /\ g[0] = <<0, d>>
      /\ \A k \in 1 .. size : g[k] = Difference(d, s, n, k, g[k - 1])
  <2>1. g \in [0 .. size -> State] /\ g[0] = <<0, d>> /\ \A k \in 0 + 1 .. size : g[k] = step[<<k, g[k - 1]>>]
    BY <1>3 DEF Loops
  <2>2. \A k \in 1 .. size : g[k - 1] \in State
    BY <1>0, <2>1
  <2> QED BY <1>0, <1>2, <2>1, <2>2
<1>5. Subtracts(n, s, d, g)
  <2>1. \A k \in 0 .. size : g[k] = IF k = 0 THEN <<0, d>> ELSE Difference(d, s, n, k, g[k - 1])
    BY <1>0, <1>4
  <2>2. g = [k \in 0 .. size |-> g[k]]
    BY <1>4
  <2>3. g = [k \in 0 .. size |-> IF k = 0 THEN <<0, d>> ELSE Difference(d, s, n, k, g[k - 1])]
    BY <2>1, <2>2
  <2> QED BY <1>0, <2>3 DEF Subtracts
<1>6. Subtracts(n, s, d, f)
  BY <1>5
<1>7. Subtracted(n, s, d) = f[size]
  BY <1>0 DEF Subtracted, Subtracts, Difference, Cut
<1> HIDE DEF f
<1>8. /\ DOMAIN f = 0 .. size
      /\ f[0] = <<0, d>>
      /\ \A k \in 1 .. size : f[k] = Difference(d, s, n, k, f[k - 1])
      /\ f = [k \in 0 .. size |-> f[k]]
  <2>1. f = [k \in 0 .. size |-> IF k = 0 THEN <<0, d>> ELSE Difference(d, s, n, k, f[k - 1])]
    BY <1>0, <1>6 DEF Subtracts
  <2> QED BY <1>0, <2>1
<1>9. \A k \in 0 .. size : f[k] \in State
  <2> DEFINE S == {k \in 0 .. size : f[k] \in State}
  <2>1. 0 \in S
    BY <1>0, <1>1, <1>8
  <2>2. \A k \in 0 + 1 .. size : k - 1 \in S => k \in S
    <3> TAKE k \in 0 + 1 .. size
    <3> HAVE k - 1 \in S
    <3>1. k \in 1 .. size /\ f[k - 1] \in State /\ k \in 0 .. size
      BY <1>0
    <3>2. f[k] = Difference(d, s, n, k, f[k - 1])
      BY <1>8, <3>1
    <3>3. f[k] \in State
      BY <3>1, <3>2, DifferenceTyped DEF State
    <3> QED BY <3>1, <3>3
  <2> HIDE DEF S
  <2>3. \A k \in 0 .. size : k \in S
    BY <1>0, <2>1, <2>2, LoopInduction
  <2> QED BY <2>3 DEF S
<1>10. f \in [0 .. size -> State]
  BY <1>8, <1>9
<1> QED BY <1>7, <1>8, <1>10 DEF State, f

(* After each limb: what is left, but for what was borrowed from the next.  *)
LeftSoFar(d, q, k, x) ==
    /\ \A i \in k + 1 .. Len(d) : x[2][i] = d[i]
    /\ Value(x[2]) - x[1] * Weight[k] = Value(d) - Partial(q)[k]

LEMMA DifferenceStep ==
  ASSUME NEW size \in Nat, NEW d \in Numbers(size), NEW s \in Seq(LimbValues), NEW n \in 0 .. Len(s),
         NEW k \in 1 .. size, NEW x \in (0 .. 1) \X Numbers(size),
         LeftSoFar(d, Prefix(s, n, size), k - 1, x)
  PROVE  LeftSoFar(d, Prefix(s, n, size), k, Difference(d, s, n, k, x))
<1> DEFINE t == Cut(s, n, k)
           a == Wrap(d[k] - x[1])
           b == Wrap(a - t)
           e == Borrow(d[k] < x[1]) + Borrow(a < t)
           p == x[2]
           y == x[1]
           dk == d[k]
           q == [p EXCEPT ![k] = b]
           P == Partial(Prefix(s, n, size))
           w == Weight[k - 1]
<1>0. /\ Len(d) = size /\ k - 1 \in Nat /\ (k - 1) + 1 = k /\ k \in (k - 1) + 1 .. size
      /\ d \in Seq(LimbValues) /\ p \in Seq(LimbValues) /\ Len(p) = size /\ k \in 1 .. Len(p)
      /\ k - 1 \in 0 .. size /\ k \in 0 .. size /\ size \in k .. size
      /\ \A i \in k + 1 .. size : i \in (k - 1) + 1 .. size /\ i # k /\ i \in 1 .. size
  BY NumbersAre
<1>1. dk \in LimbValues /\ y \in 0 .. 1 /\ t \in LimbValues
  BY <1>0, PrefixIs DEF Numbers
<1>2. Limbs \in Nat /\ Limbs >= 4
  BY Base
<1>3. P \in [0 .. size -> Nat] /\ P[k] = P[k - 1] + t * w
  <2>1. Prefix(s, n, size) \in Seq(LimbValues) /\ Len(Prefix(s, n, size)) = size /\ Prefix(s, n, size)[k] = t
    BY <1>0, PrefixIs
  <2> QED BY <1>0, <2>1, PartialIs
<1>4. Difference(d, s, n, k, x) = <<e, q>>
  BY DEF Difference
<1> HIDE DEF t, P
<1>5. b \in LimbValues /\ e \in 0 .. 1 /\ dk - y - t = b - e * Limbs
  BY <1>1, SubStep
<1>6. /\ \A i \in k .. size : p[i] = d[i]
      /\ Value(p) - y * w = Value(d) - P[k - 1]
  BY <1>0 DEF LeftSoFar, P
<1> HIDE DEF b, e, p, y
<1>7. q \in Seq(LimbValues) /\ Len(q) = size /\ Value(q) = Value(p) + (b - p[k]) * w
  <2>1. Updated(p, k, b, q)
    <3>1. p \in Seq(LimbValues) /\ k \in 1 .. Len(p) /\ b \in LimbValues
      BY <1>0, <1>5
    <3> QED BY <3>1, PartialUpdate
  <2> HIDE DEF q
  <2>2. Partial(q)[size] = Partial(p)[size] + (b - p[k]) * w
    BY <1>0, <2>1 DEF Updated
  <2> QED BY <1>0, <2>1, <2>2 DEF Value, Updated
<1>8. \A i \in k + 1 .. size : q[i] = d[i]
  BY <1>0, <1>6
<1> HIDE DEF q
<1>9. w \in Nat /\ Weight[k] = w * Limbs
  BY <1>0, WeightIs
<1>10. Value(d) \in Nat /\ Value(p) \in Nat
  BY <1>0, TopValue
<1>11. Value(q) - e * Weight[k] = Value(d) - P[k]
  <2> DEFINE v == Value(p)  base == Value(d)
             x1 == (b - dk) * w  x2 == (-e) * (w * Limbs)  x3 == (-y) * w  x4 == (-t) * w
             y2 == e * (w * Limbs)  y3 == y * w  y4 == t * w
             p1 == P[k]  p2 == P[k - 1]
  <2>1. dk \in Int /\ y \in Int /\ t \in Int /\ b \in Int /\ e \in Int
    BY <1>1, <1>2, <1>5 DEF LimbValues
  <2>2. p1 \in Int /\ p2 \in Int
    BY <1>0, <1>3
  <2>3. p[k] = dk
    BY <1>0, <1>6
  <2>4. dk + (-y) + (-t) = b + (-e) * Limbs
    <3>1. (-e) * Limbs = -(e * Limbs) /\ e * Limbs \in Int
      BY <1>2, <2>1
    <3> QED BY <1>5, <2>1, <3>1
  <2> HIDE DEF v, dk, base
  <2>5. x1 + x2 = x3 + x4 /\ x1 \in Int /\ x2 \in Int /\ x3 \in Int /\ x4 \in Int
    <3>1. Limbs \in Int /\ w \in Int /\ -y \in Int /\ -t \in Int /\ -e \in Int
      BY <1>2, <1>9, <2>1
    <3> HIDE DEF Limbs, w
    <3> QED BY <2>1, <2>4, <3>1, Weighed
  <2>5a. x2 = -y2 /\ x3 = -y3 /\ x4 = -y4 /\ y2 \in Int /\ y3 \in Int /\ y4 \in Int
    <3> DEFINE u == w * Limbs
    <3>1. u \in Int /\ w \in Int
      BY <1>2, <1>9
    <3> HIDE DEF w, u
    <3>2. (-e) * u = -(e * u) /\ e * u \in Int
      BY <2>1, <3>1
    <3>3. (-y) * w = -(y * w) /\ y * w \in Int
      BY <2>1, <3>1
    <3>4. (-t) * w = -(t * w) /\ t * w \in Int
      BY <2>1, <3>1
    <3> QED BY <3>2, <3>3, <3>4 DEF u
  <2>6. v - y3 = base - p2 /\ Value(q) = v + x1 /\ p1 = p2 + y4 /\ v \in Int /\ base \in Int
    BY <1>3, <1>6, <1>7, <1>10, <2>3 DEF v, base
  <2> HIDE DEF x1, x2, x3, x4, y2, y3, y4, p1, p2
  <2>7. Value(q) - y2 = base - p1
    BY <2>2, <2>5, <2>5a, <2>6
  <2> QED BY <1>9, <2>7 DEF y2, p1, base
<1> QED BY <1>0, <1>4, <1>8, <1>11 DEF LeftSoFar, P

(* The smaller from the larger: what is left is exact, and no borrow runs   *)
(* past the last limb.                                                      *)
LEMMA SubtractedExactly ==
  ASSUME NEW d \in Seq(LimbValues), NEW s \in Seq(LimbValues), Top(s) <= Len(d),
         Value(s) <= Value(d)
  PROVE  LET r == Subtracted(Top(s), s, d)
         IN  /\ r[1] = 0 /\ r[2] \in Seq(LimbValues) /\ Len(r[2]) = Len(d)
             /\ Value(r[2]) = Value(d) - Value(s)
<1> DEFINE size == Len(d)
           n == Top(s)
           q == Prefix(s, n, size)
           f == CHOOSE f : Subtracts(n, s, d, f)
           S == {k \in 0 .. size : LeftSoFar(d, q, k, f[k])}
           r == f[size]
<1>0. /\ size \in Nat /\ d \in Numbers(size) /\ n \in 0 .. Len(s) /\ n <= size
      /\ 0 \in 0 .. size /\ size \in 0 .. size
  BY NumbersAre, TopIs
<1> HIDE DEF n
<1>1. /\ f \in [0 .. size -> (0 .. 1) \X Numbers(size)]
      /\ f[0] = <<0, d>>
      /\ \A k \in 1 .. size : f[k] = Difference(d, s, n, k, f[k - 1])
      /\ Subtracted(n, s, d) = f[size]
  BY <1>0, SubtractsExists
<1> HIDE DEF f
<1>2. q \in Seq(LimbValues) /\ Len(q) = size /\ Value(q) = Value(s)
  BY <1>0, PrefixIs DEF n
<1>3. Value(d) \in Nat /\ Value(s) \in Nat
  BY TopValue
<1>4. 0 \in S
  <2>1. f[0][1] = 0 /\ f[0][2] = d
    BY <1>1
  <2>2. Partial(q)[0] = 0
    <3> HIDE DEF q
    <3> QED BY <1>2, PartialIs
  <2>3. 0 * Weight[0] = 0
    BY WeightIs
  <2> HIDE DEF q
  <2>4. Value(d) - 0 = Value(d) - 0
    OBVIOUS
  <2> QED BY <1>0, <2>1, <2>2, <2>3, <2>4 DEF LeftSoFar
<1>5. \A k \in 0 + 1 .. size : k - 1 \in S => k \in S
  <2> TAKE k \in 0 + 1 .. size
  <2> HAVE k - 1 \in S
  <2>1. k \in 1 .. size /\ k - 1 \in 0 .. size /\ k \in 0 .. size
    BY <1>0
  <2>2. f[k - 1] \in (0 .. 1) \X Numbers(size) /\ LeftSoFar(d, q, k - 1, f[k - 1])
    BY <1>1, <2>1
  <2>3. LeftSoFar(d, q, k, Difference(d, s, n, k, f[k - 1]))
    BY <1>0, <2>1, <2>2, DifferenceStep
  <2> QED BY <1>1, <2>1, <2>3
<1> HIDE DEF S
<1>6. \A k \in 0 .. size : k \in S
  BY <1>0, <1>4, <1>5, LoopInduction
<1>7. r \in (0 .. 1) \X Numbers(size) /\ LeftSoFar(d, q, size, r)
  BY <1>0, <1>1, <1>6 DEF S
<1> HIDE DEF r
<1>8. r[1] \in 0 .. 1 /\ r[2] \in Seq(LimbValues) /\ Len(r[2]) = size
  BY <1>0, <1>7, NumbersAre
<1>9. Value(r[2]) - r[1] * Weight[size] = Value(d) - Value(s)
  BY <1>2, <1>7 DEF LeftSoFar, Value
<1>10. Value(r[2]) \in Nat /\ Value(r[2]) < Weight[size] /\ Weight[size] \in Nat
  <2>1. Partial(r[2])[size] < Weight[size]
    BY <1>0, <1>8, PartialBound
  <2> QED BY <1>0, <1>8, <2>1, TopValue, WeightIs DEF Value
<1>11. r[1] = 0
  <2>1. SUFFICES ASSUME r[1] = 1 PROVE FALSE
    BY <1>8
  <2> DEFINE w == Weight[size]  u == Value(r[2])  v == Value(d)  y == Value(s)
  <2>2. u - 1 * w = v - y /\ u < w /\ u \in Nat /\ w \in Nat /\ v \in Nat /\ y \in Nat /\ y <= v
    BY <1>3, <1>9, <1>10, <2>1
  <2> HIDE DEF w, u, v, y
  <2> QED BY <2>2
<1>12. Value(r[2]) = Value(d) - Value(s)
  <2> DEFINE w == Weight[size]  u == Value(r[2])  v == Value(d)  y == Value(s)
  <2>2. u - 0 * w = v - y /\ u \in Nat /\ w \in Nat
    BY <1>9, <1>10, <1>11
  <2> HIDE DEF w, u, v, y
  <2>3. u = v - y
    BY <1>3, <2>2 DEF v, y
  <2> QED BY <2>3 DEF u, v, y
<1> QED BY <1>1, <1>8, <1>11, <1>12 DEF r, n

LEMMA TopBelow ==
  ASSUME NEW d \in Seq(LimbValues), NEW s \in Seq(LimbValues), Value(s) <= Value(d)
  PROVE  Top(s) <= Len(d)
<1> DEFINE t == Top(s)
           n == Len(d)
<1>1. t \in Nat /\ n \in Nat
  <2>1. t \in 0 .. Len(s)
    BY TopIs
  <2> QED BY <2>1
<1>2. Value(d) < Weight[n]
  <2>1. n \in 0 .. Len(d)
    BY <1>1
  <2> QED BY <2>1, PartialBound DEF Value
<1>3. Value(s) \in Nat /\ Value(d) \in Nat /\ (t # 0 => Value(s) >= Weight[t - 1])
  BY TopValue
<1> HIDE DEF t, n
<1>4. SUFFICES ASSUME t > n PROVE FALSE
  BY <1>1 DEF t, n
<1>5. t - 1 \in Nat /\ n <= t - 1 /\ t # 0
  BY <1>1, <1>4
<1>6. Weight[n] <= Weight[t - 1] /\ Weight[n] \in Nat /\ Weight[t - 1] \in Nat
  BY <1>1, <1>5, WeightGrows, WeightIs
<1> QED BY <1>2, <1>3, <1>5, <1>6

LEMMA InitIs == mpi_init \in Mpis
BY DEF mpi_init, Mpis

(* mpi_sub_abs, for any of its arguments the same.                          *)
LEMMA SubAbsIs ==
  ASSUME NEW Names, "sub.TB" \in Names, NEW m \in Memories(Names),
         NEW X \in Names \ {"sub.TB"}, NEW A \in Names \ {"sub.TB"}, NEW B0 \in Names \ {"sub.TB"},
         Value(m.mpi[B0].p) <= Value(m.mpi[A].p)
  PROVE  Leaves(Names, {"sub.TB"}, m, mpi_sub_abs(m, X, A, B0), X,
                Value(m.mpi[A].p) - Value(m.mpi[B0].p))
<1> DEFINE TB == "sub.TB"
           a  == Value(m.mpi[A].p)
           b  == Value(m.mpi[B0].p)
           m1 == Set(m, TB, mpi_init)
           m2 == IF X = B0 THEN mpi_copy(m1, TB, B0) ELSE m1
           B  == IF X = B0 THEN TB ELSE B0
           m3 == IF X # A THEN mpi_copy(m2, X, A) ELSE m2
           d  == m3.mpi[X].p
           s  == m3.mpi[B].p
           p  == mpi_sub_hlp(Top(s), s, d)
           m4 == SetLimbs(m3, X, p)
<1>1. mpi_sub_abs(m, X, A, B0) = m4
  <2>1. m.mpi[A] \in Mpis /\ m.mpi[B0] \in Mpis /\ a \in Nat /\ b \in Nat /\ b <= a
    BY MpiIs
  <2>2. mpi_cmp_abs(m.mpi[A], m.mpi[B0]) = Sign(a - b)
    BY <2>1, MagnitudesAreCompared
  <2> HIDE DEF a, b
  <2>3. ~(Sign(a - b) < 0)
    <3>1. ~(a - b < 0)
      BY <2>1
    <3> QED BY <2>1, <3>1 DEF Sign
  <2>4. mpi_sub_abs(m, X, A, B0) = IF mpi_cmp_abs(m.mpi[A], m.mpi[B0]) < 0 THEN Fail(m, "negative value") ELSE m4
    BY DEF mpi_sub_abs
  <2> HIDE DEF m4
  <2> QED BY <2>2, <2>3, <2>4
<1>2. TB \in Names /\ X # TB /\ A # TB /\ B0 # TB /\ B \in Names /\ B # X
  OBVIOUS
<1>2a. (X = B0 => B = TB) /\ (X # B0 => B = B0)
  OBVIOUS
<1> HIDE DEF TB, B
<1>3. Stores(Names, m, m1, TB, mpi_init)
  BY <1>2, InitIs, SetIs
<1> HIDE DEF m1
<1>4. m1 \in Memories(Names) /\ m1.ret = m.ret /\ \A Y \in Names : Y # TB => m1.mpi[Y] = m.mpi[Y]
  BY <1>3 DEF Stores
<1>5. /\ m2 \in Memories(Names) /\ m2.ret = m.ret /\ Value(m2.mpi[B].p) = b
      /\ \A Y \in Names : Y # TB => m2.mpi[Y] = m.mpi[Y]
  <2>1. CASE X = B0
    <3> DEFINE c == mpi_copy(m1, TB, B0)
    <3>1. Copies(Names, m1, c, TB, m1.mpi[B0].s, Value(m1.mpi[B0].p))
      BY <1>2, <1>4, CopyIs
    <3>2. m2 = c
      BY <2>1
    <3> HIDE DEF c, m2
    <3>3. m1.mpi[B0] = m.mpi[B0]
      BY <1>2, <1>4
    <3> QED BY <1>2, <1>2a, <1>4, <2>1, <3>1, <3>2, <3>3 DEF Copies
  <2>2. CASE X # B0
    <3>1. m2 = m1
      BY <2>2
    <3> HIDE DEF m2
    <3>2. B = B0
      BY <1>2a, <2>2
    <3> QED BY <1>2, <1>4, <3>1, <3>2
  <2> QED BY <2>1, <2>2
<1> HIDE DEF m2
<1>6. /\ m3 \in Memories(Names) /\ m3.ret = m.ret /\ Value(m3.mpi[X].p) = a /\ m3.mpi[B] = m2.mpi[B]
      /\ \A Y \in Names : Y # TB /\ Y # X => m3.mpi[Y] = m.mpi[Y]
  <2>1. CASE X # A
    <3> DEFINE c == mpi_copy(m2, X, A)
    <3>1. Copies(Names, m2, c, X, m2.mpi[A].s, Value(m2.mpi[A].p))
      BY <1>2, <1>5, CopyIs
    <3>2. m3 = c
      BY <2>1
    <3> HIDE DEF c, m3
    <3>3. m2.mpi[A] = m.mpi[A]
      BY <1>2, <1>5
    <3>4. \A Y \in Names : Y # X => m3.mpi[Y] = m2.mpi[Y]
      BY <3>1, <3>2 DEF Copies
    <3>5. m3 \in Memories(Names) /\ m3.ret = m2.ret /\ Value(m3.mpi[X].p) = a
      BY <3>1, <3>2, <3>3 DEF Copies
    <3> QED BY <1>2, <1>5, <3>4, <3>5
  <2>2. CASE X = A
    <3>1. m3 = m2
      BY <2>2
    <3> HIDE DEF m3
    <3>2. m2.mpi[X] = m.mpi[A]
      BY <1>2, <1>5, <2>2
    <3> QED BY <1>5, <3>1, <3>2
  <2> QED BY <2>1, <2>2
<1> HIDE DEF m3
<1>7. d \in Seq(LimbValues) /\ s \in Seq(LimbValues) /\ Value(d) = a /\ Value(s) = b /\ b <= a
  BY <1>2, <1>5, <1>6, MpiIs
<1> HIDE DEF d, s, a, b
<1>8. Top(s) <= Len(d)
  BY <1>7, TopBelow
<1>9. p \in Seq(LimbValues) /\ Value(p) = a - b
  BY <1>7, <1>8, SubtractedExactly DEF mpi_sub_hlp
<1> HIDE DEF p
<1>10. Stores(Names, m3, m4, X, [s |-> m3.mpi[X].s, p |-> p])
  BY <1>6, <1>9, SetLimbsIs
<1> HIDE DEF m4
<1>11. /\ m4 \in Memories(Names) /\ m4.mpi[X].p = p /\ m4.ret = m3.ret
       /\ \A Y \in Names : Y # X => m4.mpi[Y] = m3.mpi[Y]
  BY <1>10 DEF Stores
<1>12. Leaves(Names, {TB}, m, m4, X, a - b)
  BY <1>6, <1>9, <1>11 DEF Leaves
<1> QED BY <1>1, <1>12 DEF a, b, TB

(* A number gets its sign.                                                  *)
LEMMA SignedIs ==
  ASSUME NEW Names, NEW m \in Memories(Names), NEW locals, NEW X \in Names, NEW r, NEW v, NEW s \in {1, -1},
         Leaves(Names, locals, m, r, X, v)
  PROVE  Computes(Names, locals, m, SetSign(r, X, s), X, s * v)
<1> DEFINE q == SetSign(r, X, s)
<1>1. r \in Memories(Names)
  BY DEF Leaves
<1>2. Stores(Names, r, q, X, [s |-> s, p |-> r.mpi[X].p])
  BY <1>1, SetSignIs
<1> HIDE DEF q
<1>3. IntOf(q.mpi[X]) = s * v
  BY <1>2 DEF Stores, Leaves, IntOf
<1>4. q.ret = m.ret /\ \A Y \in Names \ locals : Y # X => q.mpi[Y] = m.mpi[Y]
  BY <1>2 DEF Stores, Leaves
<1> QED BY <1>2, <1>3, <1>4 DEF Stores, Computes, q

LEMMA SignedSum ==
  ASSUME NEW Names, "sub.TB" \in Names, NEW m \in Memories(Names),
         NEW X \in Names \ {"sub.TB"}, NEW A \in Names \ {"sub.TB"}, NEW B \in Names \ {"sub.TB"},
         NEW opposite \in BOOLEAN, opposite \/ ~(X = A /\ X = B)
  PROVE  LET s == m.mpi[A].s
             t == IF opposite THEN -s ELSE s
             e == IF opposite THEN 0 ELSE s * Lost(m, X, A, B)
         IN  Computes(Names, {"sub.TB"}, m, Signed(m, X, A, B, opposite), X,
                      (s * Value(m.mpi[A].p) + t * Value(m.mpi[B].p)) - e)
<1> DEFINE s == m.mpi[A].s
           t == IF opposite THEN -s ELSE s
           a == Value(m.mpi[A].p)
           b == Value(m.mpi[B].p)
           L == {"sub.TB"}
<1>1. /\ s \in {1, -1} /\ -s \in {1, -1} /\ a \in Nat /\ b \in Nat
      /\ m.mpi[A] \in Mpis /\ m.mpi[B] \in Mpis
  BY MpiIs
<1>2. mpi_cmp_abs(m.mpi[A], m.mpi[B]) = Sign(a - b)
  BY <1>1, MagnitudesAreCompared
<1>3. CASE ~opposite
  <2> DEFINE r == mpi_add_abs(m, X, A, B)
             x == Lost(m, X, A, B)
  <2>0. x \in Int
    BY LostIs
  <2>1. Leaves(Names, {}, m, r, X, (a + b) - x)
    BY <1>3, MagnitudesAreAdded
  <2>2. Signed(m, X, A, B, opposite) = SetSign(r, X, s)
    BY <1>3 DEF Signed
  <2> HIDE DEF r, s, a, b, L, x
  <2>3. Leaves(Names, L, m, r, X, (a + b) - x)
    BY <2>1 DEF Leaves
  <2>4. Computes(Names, L, m, SetSign(r, X, s), X, s * ((a + b) - x))
    BY <1>1, <2>3, SignedIs
  <2>5. s * ((a + b) - x) = (s * a + t * b) - s * x
    BY <1>1, <1>3, <2>0
  <2> QED BY <1>3, <2>2, <2>4, <2>5 DEF L, s, a, b, x
<1>4. CASE opposite /\ a >= b
  <2> DEFINE r == mpi_sub_abs(m, X, A, B)
  <2>1. Leaves(Names, L, m, r, X, a - b)
    BY <1>1, <1>4, SubAbsIs
  <2>2. Signed(m, X, A, B, opposite) = SetSign(r, X, s)
    <3> HIDE DEF a, b
    <3>1. Sign(a - b) >= 0
      BY <1>1, <1>4 DEF Sign
    <3> QED BY <1>2, <1>4, <3>1 DEF Signed
  <2> HIDE DEF r, s, a, b, L
  <2>4. Computes(Names, L, m, SetSign(r, X, s), X, s * (a - b))
    BY <1>1, <2>1, SignedIs
  <2>5. s * (a - b) = (s * a + t * b) - 0
    BY <1>1, <1>4
  <2> QED BY <1>4, <2>2, <2>4, <2>5 DEF L, s, a, b
<1>5. CASE opposite /\ ~(a >= b)
  <2> DEFINE r == mpi_sub_abs(m, X, B, A)
  <2>1. Leaves(Names, L, m, r, X, b - a)
    BY <1>1, <1>5, SubAbsIs
  <2>2. Signed(m, X, A, B, opposite) = SetSign(r, X, -s)
    <3> HIDE DEF a, b
    <3>1. ~(Sign(a - b) >= 0)
      BY <1>1, <1>5 DEF Sign
    <3> QED BY <1>2, <1>5, <3>1 DEF Signed
  <2> HIDE DEF r, s, a, b, L
  <2>4. Computes(Names, L, m, SetSign(r, X, -s), X, (-s) * (b - a))
    BY <1>1, <2>1, SignedIs
  <2>5. (-s) * (b - a) = (s * a + t * b) - 0
    BY <1>1, <1>5
  <2> QED BY <1>5, <2>2, <2>4, <2>5 DEF L, s, a, b
<1> QED BY <1>3, <1>4, <1>5

(* mpi_add_mpi adds the integers, whatever their signs and sizes and        *)
(* whichever of its arguments are the same, but for X = A = B, which no     *)
(* caller writes, and for a carry that mpi_add_abs loses when the signs are *)
(* the same (bignum.c:706-726).                                             *)
THEOREM SumsAre ==
  ASSUME NEW Names, "sub.TB" \in Names, NEW m \in Memories(Names),
         NEW X \in Names \ {"sub.TB"}, NEW A \in Names \ {"sub.TB"}, NEW B \in Names \ {"sub.TB"},
         ~(X = A /\ X = B)
  PROVE  LET s == m.mpi[A].s
             e == IF s * m.mpi[B].s < 0 THEN 0 ELSE s * Lost(m, X, A, B)
         IN  Computes(Names, {"sub.TB"}, m, mpi_add_mpi(m, X, A, B), X,
                      (IntOf(m.mpi[A]) + IntOf(m.mpi[B])) - e)
<1> DEFINE s == m.mpi[A].s
           u == m.mpi[B].s
           o == s * u < 0
           t == IF o THEN -s ELSE s
           e == IF o THEN 0 ELSE s * Lost(m, X, A, B)
<1>1. s \in {1, -1} /\ u \in {1, -1}
  BY MpiIs
<1>2. t = u /\ o \in BOOLEAN
  <2> HIDE DEF s, u
  <2> QED BY <1>1
<1> HIDE DEF o
<1>3. Computes(Names, {"sub.TB"}, m, Signed(m, X, A, B, o), X,
               (s * Value(m.mpi[A].p) + t * Value(m.mpi[B].p)) - e)
  BY <1>2, SignedSum
<1> QED BY <1>2, <1>3 DEF mpi_add_mpi, IntOf, o

(* mpi_sub_mpi subtracts them, also a number from itself in place; a carry  *)
(* may be lost when the signs are opposite (bignum.c:731-751).              *)
THEOREM DifferencesAre ==
  ASSUME NEW Names, "sub.TB" \in Names, NEW m \in Memories(Names),
         NEW X \in Names \ {"sub.TB"}, NEW A \in Names \ {"sub.TB"}, NEW B \in Names \ {"sub.TB"}
  PROVE  LET s == m.mpi[A].s
             e == IF s * m.mpi[B].s > 0 THEN 0 ELSE s * Lost(m, X, A, B)
         IN  Computes(Names, {"sub.TB"}, m, mpi_sub_mpi(m, X, A, B), X,
                      IntOf(m.mpi[A]) - IntOf(m.mpi[B]) - e)
<1> DEFINE s == m.mpi[A].s
           u == m.mpi[B].s
           o == s * u > 0
           t == IF o THEN -s ELSE s
           e == IF o THEN 0 ELSE s * Lost(m, X, A, B)
           a == Value(m.mpi[A].p)
           b == Value(m.mpi[B].p)
<1>1. s \in {1, -1} /\ u \in {1, -1} /\ a \in Nat /\ b \in Nat
  BY MpiIs
<1>1a. A = B => s = u
  OBVIOUS
<1>2. t = -u /\ o \in BOOLEAN /\ (o \/ ~(X = A /\ X = B))
  <2> HIDE DEF s, u
  <2>1. t = -u /\ o \in BOOLEAN
    BY <1>1
  <2>2. s = u => o
    BY <1>1
  <2> QED BY <1>1a, <2>1, <2>2
<1>2a. mpi_sub_mpi(m, X, A, B) = Signed(m, X, A, B, o)
  BY DEF mpi_sub_mpi
<1>2b. e = IF s * m.mpi[B].s > 0 THEN 0 ELSE s * Lost(m, X, A, B)
  OBVIOUS
<1> HIDE DEF o
<1>3. Computes(Names, {"sub.TB"}, m, Signed(m, X, A, B, o), X, (s * a + t * b) - e)
  BY <1>2, SignedSum
<1>3a. IntOf(m.mpi[A]) - IntOf(m.mpi[B]) = s * a - u * b
  BY DEF IntOf
<1> HIDE DEF u, a, b, t, e
<1>4. s * a + t * b = s * a - u * b
  <2>1. t = -u
    BY <1>2
  <2> HIDE DEF s
  <2> QED BY <1>1, <2>1
<1>5. (s * a + t * b) - e = (IntOf(m.mpi[A]) - IntOf(m.mpi[B])) - e
  <2> DEFINE x == s * a + t * b  y == IntOf(m.mpi[A]) - IntOf(m.mpi[B])
  <2>1. x = y
    BY <1>3a, <1>4
  <2> HIDE DEF x, y
  <2> QED BY <2>1 DEF x, y
<1> QED BY <1>2a, <1>2b, <1>3, <1>5

(* Both are exact when they subtract magnitudes, and when they add them and *)
(* no carry is lost.                                                        *)
THEOREM SumsAreExact ==
  ASSUME NEW Names, "sub.TB" \in Names, NEW m \in Memories(Names),
         NEW X \in Names \ {"sub.TB"}, NEW A \in Names \ {"sub.TB"}, NEW B \in Names \ {"sub.TB"}
  PROVE  /\ /\ ~(X = A /\ X = B)
            /\ m.mpi[A].s # m.mpi[B].s \/ Lost(m, X, A, B) = 0
            => Computes(Names, {"sub.TB"}, m, mpi_add_mpi(m, X, A, B), X,
                        IntOf(m.mpi[A]) + IntOf(m.mpi[B]))
         /\ m.mpi[A].s = m.mpi[B].s \/ Lost(m, X, A, B) = 0
            => Computes(Names, {"sub.TB"}, m, mpi_sub_mpi(m, X, A, B), X,
                        IntOf(m.mpi[A]) - IntOf(m.mpi[B]))
<1> DEFINE s == m.mpi[A].s
           u == m.mpi[B].s
           x == Lost(m, X, A, B)
           y == IntOf(m.mpi[A])
           z == IntOf(m.mpi[B])
           e == IF s * u < 0 THEN 0 ELSE s * x
           f == IF s * u > 0 THEN 0 ELSE s * x
<1>1. s \in {1, -1} /\ u \in {1, -1}
  BY MpiIs
<1>2. y \in Int /\ z \in Int
  <2>1. Value(m.mpi[A].p) \in Nat /\ Value(m.mpi[B].p) \in Nat
    BY MpiIs
  <2> QED BY <1>1, <2>1 DEF IntOf
<1>3. ~(X = A /\ X = B) => Computes(Names, {"sub.TB"}, m, mpi_add_mpi(m, X, A, B), X, (y + z) - e)
  BY SumsAre
<1>4. Computes(Names, {"sub.TB"}, m, mpi_sub_mpi(m, X, A, B), X, y - z - f)
  BY DifferencesAre
<1> HIDE DEF s, u, x, y, z
<1>5. (s # u \/ x = 0 => e = 0) /\ (s = u \/ x = 0 => f = 0)
  BY <1>1
<1> HIDE DEF e, f
<1>6. (e = 0 => (y + z) - e = y + z) /\ (f = 0 => y - z - f = y - z)
  BY <1>2
<1> QED BY <1>3, <1>4, <1>5, <1>6 DEF s, u, x, y, z

-----------------------------------------------------------------------------
(* Multiplication: one row.                                                 *)

Product(d, s, o, b, k, last) ==
    LET r == MulAddC(s[k], b, last[1], d[o + k])
    IN  <<r[1], [last[2] EXCEPT ![o + k] = r[2]]>>

Multiplies(i, s, d, o, b, f) ==
    f = [k \in 0 .. i |-> IF k = 0 THEN <<0, d>> ELSE Product(d, s, o, b, k, f[k - 1])]

LEMMA ProductTyped ==
  ASSUME NEW size \in Nat, NEW d \in Numbers(size), NEW s \in Seq(LimbValues), NEW o \in Nat,
         NEW b \in LimbValues, NEW k \in 1 .. Len(s), o + k <= size,
         NEW x \in LimbValues \X Numbers(size)
  PROVE  Product(d, s, o, b, k, x) \in LimbValues \X Numbers(size)
<1> DEFINE r == MulAddC(s[k], b, x[1], d[o + k])
<1>1. o + k \in 1 .. size /\ s[k] \in LimbValues /\ x[1] \in LimbValues
  OBVIOUS
<1>2. d[o + k] \in LimbValues
  BY <1>1 DEF Numbers
<1>3. r[1] \in LimbValues /\ r[2] \in LimbValues
  BY <1>1, <1>2, MulStep
<1>4. Product(d, s, o, b, k, x) = <<r[1], [x[2] EXCEPT ![o + k] = r[2]]>>
  BY DEF Product
<1> HIDE DEF r
<1>5. [x[2] EXCEPT ![o + k] = r[2]] \in Numbers(size)
  BY <1>3 DEF Numbers
<1> QED BY <1>3, <1>4, <1>5

LEMMA MultipliesExists ==
  ASSUME NEW size \in Nat, NEW d \in Numbers(size), NEW s \in Seq(LimbValues), NEW o \in Nat,
         NEW b \in LimbValues, NEW i \in 0 .. Len(s), o + i <= size
  PROVE  LET f == CHOOSE f : Multiplies(i, s, d, o, b, f)
         IN  /\ f \in [0 .. i -> LimbValues \X Numbers(size)]
             /\ f[0] = <<0, d>>
             /\ \A k \in 1 .. i : f[k] = Product(d, s, o, b, k, f[k - 1])
             /\ Row(i, s, d, o, b) = f[i]
<1> DEFINE State == LimbValues \X Numbers(size)
           step == [kx \in (0 + 1 .. i) \X State |-> Product(d, s, o, b, kx[1], kx[2])]
           f == CHOOSE f : Multiplies(i, s, d, o, b, f)
<1>0. /\ 0 <= i /\ i \in Nat
      /\ \A k \in 1 .. i : k \in 0 + 1 .. i /\ k - 1 \in 0 .. i /\ k # 0 /\ k \in 0 .. i
      /\ \A k \in 0 + 1 .. i : k \in 1 .. i /\ k \in 1 .. Len(s) /\ o + k <= size
      /\ \A k \in 0 .. i : k = 0 \/ k \in 1 .. i
      /\ 0 \in 0 .. i
  OBVIOUS
<1>1. <<0, d>> \in State
  BY Base DEF LimbValues
<1> HIDE DEF State
<1>2. /\ step \in Steps(0, i, State)
      /\ \A k \in 1 .. i, x \in State : step[<<k, x>>] = Product(d, s, o, b, k, x)
  <2>1. \A kx \in (0 + 1 .. i) \X State : Product(d, s, o, b, kx[1], kx[2]) \in State
    <3> TAKE kx \in (0 + 1 .. i) \X State
    <3>1. kx[1] \in 1 .. Len(s) /\ o + kx[1] <= size /\ kx[2] \in State
      BY <1>0
    <3> QED BY <3>1, ProductTyped DEF State
  <2>2. step \in Steps(0, i, State)
    BY <2>1 DEF Steps
  <2> QED BY <1>0, <2>2
<1> HIDE DEF step
<1>3. PICK g : Loops(g, 0, i, State, <<0, d>>, step)
  BY <1>0, <1>1, <1>2, LoopExists
<1>4. /\ g \in [0 .. i -> State] /\ g[0] = <<0, d>>
      /\ \A k \in 1 .. i : g[k] = Product(d, s, o, b, k, g[k - 1])
  <2>1. g \in [0 .. i -> State] /\ g[0] = <<0, d>> /\ \A k \in 0 + 1 .. i : g[k] = step[<<k, g[k - 1]>>]
    BY <1>3 DEF Loops
  <2>2. \A k \in 1 .. i : g[k - 1] \in State
    BY <1>0, <2>1
  <2> QED BY <1>0, <1>2, <2>1, <2>2
<1>5. Multiplies(i, s, d, o, b, g)
  <2>1. \A k \in 0 .. i : g[k] = IF k = 0 THEN <<0, d>> ELSE Product(d, s, o, b, k, g[k - 1])
    BY <1>0, <1>4
  <2>2. g = [k \in 0 .. i |-> g[k]]
    BY <1>4
  <2>3. g = [k \in 0 .. i |-> IF k = 0 THEN <<0, d>> ELSE Product(d, s, o, b, k, g[k - 1])]
    BY <2>1, <2>2
  <2> QED BY <2>3 DEF Multiplies
<1>6. Multiplies(i, s, d, o, b, f)
  BY <1>5
<1>7. Row(i, s, d, o, b) = f[i]
  BY DEF Row, Multiplies, Product
<1> HIDE DEF f
<1>8. /\ DOMAIN f = 0 .. i
      /\ f[0] = <<0, d>>
      /\ \A k \in 1 .. i : f[k] = Product(d, s, o, b, k, f[k - 1])
      /\ f = [k \in 0 .. i |-> f[k]]
  <2>1. f = [k \in 0 .. i |-> IF k = 0 THEN <<0, d>> ELSE Product(d, s, o, b, k, f[k - 1])]
    BY <1>6 DEF Multiplies
  <2> QED BY <1>0, <2>1
<1>9. \A k \in 0 .. i : f[k] \in State
  <2> DEFINE S == {k \in 0 .. i : f[k] \in State}
  <2>1. 0 \in S
    BY <1>0, <1>1, <1>8
  <2>2. \A k \in 0 + 1 .. i : k - 1 \in S => k \in S
    <3> TAKE k \in 0 + 1 .. i
    <3> HAVE k - 1 \in S
    <3>1. k \in 1 .. i /\ f[k - 1] \in State /\ k \in 0 .. i /\ k \in 1 .. Len(s) /\ o + k <= size
      BY <1>0
    <3>2. f[k] = Product(d, s, o, b, k, f[k - 1])
      BY <1>8, <3>1
    <3>3. f[k] \in State
      BY <3>1, <3>2, ProductTyped DEF State
    <3> QED BY <3>1, <3>3
  <2> HIDE DEF S
  <2>3. \A k \in 0 .. i : k \in S
    BY <1>0, <2>1, <2>2, LoopInduction
  <2> QED BY <2>3 DEF S
<1>10. f \in [0 .. i -> State]
  BY <1>8, <1>9
<1> QED BY <1>7, <1>8, <1>10 DEF State, f

(* After each limb of a row: what was there, the product so far, and the    *)
(* carry, which has the weight of the next limb.                            *)
RowSoFar(d, s, o, b, k, x) ==
    /\ \A j \in o + k + 1 .. Len(d) : x[2][j] = d[j]
    /\ Value(x[2]) + x[1] * Weight[o + k] = Value(d) + b * (Weight[o] * Partial(s)[k])

LEMMA ProductStep ==
  ASSUME NEW size \in Nat, NEW d \in Numbers(size), NEW s \in Seq(LimbValues), NEW o \in Nat,
         NEW b \in LimbValues, NEW k \in 1 .. Len(s), o + k <= size,
         NEW x \in LimbValues \X Numbers(size), RowSoFar(d, s, o, b, k - 1, x)
  PROVE  RowSoFar(d, s, o, b, k, Product(d, s, o, b, k, x))
<1> DEFINE z == o + k
           sk == s[k]
           dz == d[z]
           c == x[1]
           p == x[2]
           r == MulAddC(sk, b, c, dz)
           r1 == r[1]
           r2 == r[2]
           q == [p EXCEPT ![z] = r2]
           P == Partial(s)
           w == Weight[z - 1]
           wo == Weight[o]
           wk == Weight[k - 1]
<1>0. /\ Len(d) = size /\ k - 1 \in Nat /\ k \in Nat /\ z \in 1 .. size /\ z \in Nat /\ z - 1 \in Nat
      /\ z - 1 = o + (k - 1) /\ (z - 1) + 1 = z /\ o + (k - 1) + 1 = z
      /\ d \in Seq(LimbValues) /\ p \in Seq(LimbValues) /\ Len(p) = size /\ z \in 1 .. Len(p)
      /\ k - 1 \in 0 .. Len(s) /\ k \in 0 .. Len(s) /\ size \in z .. size
      /\ \A j \in z + 1 .. size : j \in z .. size /\ j # z /\ j \in 1 .. size
  BY NumbersAre
<1>1. dz \in LimbValues /\ c \in LimbValues /\ sk \in LimbValues
  BY <1>0 DEF Numbers
<1>2. Limbs \in Nat /\ Limbs >= 4
  BY Base
<1>3. P \in [0 .. Len(s) -> Nat] /\ P[k] = P[k - 1] + sk * wk
  BY PartialIs
<1>4. Product(d, s, o, b, k, x) = <<r1, q>>
  BY DEF Product
<1>5. r1 \in LimbValues /\ r2 \in LimbValues /\ sk * b + c + dz = r1 * Limbs + r2
  <2> HIDE DEF sk, dz, c
  <2> QED BY <1>1, MulStep
<1>6. /\ \A j \in z .. size : p[j] = d[j]
      /\ Value(p) + c * w = Value(d) + b * (wo * P[k - 1])
  BY <1>0 DEF RowSoFar
<1> HIDE DEF r1, r2, p, c, P, sk, dz, r
<1>7. q \in Seq(LimbValues) /\ Len(q) = size /\ Value(q) = Value(p) + (r2 - dz) * w
  <2>1. Updated(p, z, r2, q)
    <3>1. p \in Seq(LimbValues) /\ z \in 1 .. Len(p) /\ r2 \in LimbValues
      BY <1>0, <1>5
    <3> HIDE DEF z
    <3> QED BY <3>1, PartialUpdate
  <2>2. p[z] = dz
    BY <1>0, <1>6 DEF dz
  <2> HIDE DEF q, z
  <2>3. Partial(q)[size] = Partial(p)[size] + (r2 - p[z]) * w
    BY <1>0, <2>1 DEF Updated
  <2> QED BY <1>0, <2>1, <2>2, <2>3 DEF Value, Updated
<1>8. \A j \in z + 1 .. size : q[j] = d[j]
  BY <1>0, <1>6
<1> HIDE DEF q
<1>9. w \in Nat /\ Weight[z] = w * Limbs /\ wo \in Nat /\ wk \in Nat /\ w = wo * wk
  <2>1. w \in Nat /\ wo \in Nat /\ wk \in Nat
    BY <1>0, WeightIs
  <2>2. Weight[z] = w * Limbs
    <3> HIDE DEF z
    <3> QED BY <1>0, WeightIs
  <2>3. Weight[o + (k - 1)] = Weight[o] * Weight[k - 1]
    BY <1>0, WeightsMultiply
  <2> QED BY <1>0, <2>1, <2>2, <2>3
<1>10. Value(d) \in Nat /\ Value(p) \in Nat
  BY <1>0, TopValue
<1>11. Value(q) + r1 * Weight[z] = Value(d) + b * (wo * P[k])
  <2> DEFINE v == Value(p)  base == Value(d)  t == sk * b
             x1 == (r2 - dz) * w  x2 == r1 * (w * Limbs)  x3 == c * w  x4 == t * w
             p1 == P[k]  p2 == P[k - 1]
             y1 == b * (wo * p1)  y2 == b * (wo * p2)
  <2>1. dz \in Int /\ c \in Int /\ sk \in Int /\ b \in Int /\ r1 \in Int /\ r2 \in Int
    BY <1>1, <1>2, <1>5 DEF LimbValues
  <2>2. p1 \in Int /\ p2 \in Int /\ p1 = p2 + sk * wk
    BY <1>0, <1>3
  <2>3. t \in Int /\ dz + c + t = r2 + r1 * Limbs
    <3>1. sk * b \in Int /\ r1 * Limbs \in Int
      BY <1>2, <2>1
    <3> QED BY <1>5, <2>1, <3>1
  <2> HIDE DEF v, base, t, p1, p2
  <2>4. x1 + x2 = x3 + x4 /\ x1 \in Int /\ x2 \in Int /\ x3 \in Int /\ x4 \in Int
    <3>1. Limbs \in Int /\ w \in Int
      BY <1>2, <1>9
    <3> HIDE DEF Limbs, w
    <3> QED BY <2>1, <2>3, <3>1, Weighed
  <2>5. y1 = y2 + x4 /\ y1 \in Int /\ y2 \in Int
    <3> DEFINE u == sk * wk
    <3>1. u \in Int /\ wo \in Int /\ wk \in Int
      BY <1>9, <2>1
    <3>2. x4 = (sk * b) * (wo * wk)
      BY <1>9 DEF t
    <3>3. (sk * b) * (wo * wk) = b * (wo * u)
      <4> HIDE DEF wo, wk
      <4> QED BY <2>1, <3>1
    <3> HIDE DEF u, wo
    <3>4. wo * (p2 + u) = wo * p2 + wo * u
      BY <2>2, <3>1
    <3> DEFINE g == wo * p2  h == wo * u
    <3>5. g \in Int /\ h \in Int
      BY <2>2, <3>1
    <3>6. p1 = p2 + u
      BY <2>2 DEF u
    <3>7. y1 = b * (g + h)
      BY <3>4, <3>6
    <3>8. y2 = b * g /\ x4 = b * h
      BY <3>2, <3>3 DEF wo
    <3> HIDE DEF g, h, y1, y2, x4
    <3>9. b * (g + h) = b * g + b * h /\ b * g \in Int /\ b * h \in Int
      BY <2>1, <3>5
    <3> QED BY <3>7, <3>8, <3>9
  <2>6. v + x3 = base + y2 /\ Value(q) = v + x1 /\ v \in Int /\ base \in Int
    BY <1>6, <1>7, <1>10 DEF v, base, p2
  <2>6a. r1 * Weight[z] = x2
    BY <1>9
  <2> HIDE DEF x1, x2, x3, x4, y1, y2
  <2>7. Value(q) + x2 = base + y1
    BY <2>4, <2>5, <2>6
  <2> QED BY <2>6a, <2>7 DEF y1, p1, base
<1> QED BY <1>0, <1>4, <1>8, <1>11 DEF RowSoFar, P

LEMMA RowIs ==
  ASSUME NEW size \in Nat, NEW d \in Numbers(size), NEW s \in Seq(LimbValues), NEW o \in Nat,
         NEW b \in LimbValues, NEW i \in 0 .. Len(s), o + i <= size
  PROVE  /\ Row(i, s, d, o, b) \in LimbValues \X Numbers(size)
         /\ RowSoFar(d, s, o, b, i, Row(i, s, d, o, b))
<1> DEFINE f == CHOOSE f : Multiplies(i, s, d, o, b, f)
           S == {k \in 0 .. i : RowSoFar(d, s, o, b, k, f[k])}
<1>0. /\ i \in Nat /\ 0 \in 0 .. i /\ i \in 0 .. i
      /\ Len(d) = size /\ d \in Seq(LimbValues) /\ o + 0 = o
  BY NumbersAre
<1>1. /\ f \in [0 .. i -> LimbValues \X Numbers(size)]
      /\ f[0] = <<0, d>>
      /\ \A k \in 1 .. i : f[k] = Product(d, s, o, b, k, f[k - 1])
      /\ Row(i, s, d, o, b) = f[i]
  BY MultipliesExists
<1> HIDE DEF f
<1>2. 0 \in S
  <2> DEFINE v == Value(d)  w == Weight[o]
  <2>1. Partial(s)[0] = 0
    BY PartialIs
  <2>2. v \in Nat /\ w \in Nat /\ b \in Nat
    BY <1>0, TopValue, WeightIs, LimbIsNat
  <2>3. v + 0 * w = v + b * (w * 0)
    <3> HIDE DEF v, w
    <3> QED BY <2>2
  <2>4. f[0][1] = 0 /\ f[0][2] = d
    BY <1>1
  <2> QED BY <1>0, <2>1, <2>3, <2>4 DEF RowSoFar
<1>3. \A k \in 0 + 1 .. i : k - 1 \in S => k \in S
  <2> TAKE k \in 0 + 1 .. i
  <2> HAVE k - 1 \in S
  <2>1. k \in 1 .. i /\ k - 1 \in 0 .. i /\ k \in 0 .. i /\ k \in 1 .. Len(s) /\ o + k <= size
    BY <1>0
  <2>2. f[k - 1] \in LimbValues \X Numbers(size) /\ RowSoFar(d, s, o, b, k - 1, f[k - 1])
    BY <1>1, <2>1
  <2>3. RowSoFar(d, s, o, b, k, Product(d, s, o, b, k, f[k - 1]))
    BY <2>1, <2>2, ProductStep
  <2> QED BY <1>1, <2>1, <2>3
<1> HIDE DEF S
<1>4. \A k \in 0 .. i : k \in S
  BY <1>0, <1>2, <1>3, LoopInduction
<1> QED BY <1>0, <1>1, <1>4 DEF S

(* A row and the carry that runs on: nothing is lost if the product has     *)
(* room.                                                                    *)
LEMMA MulHlpIs ==
  ASSUME NEW size \in Nat, NEW d \in Numbers(size), NEW s \in Seq(LimbValues), NEW o \in Nat,
         NEW b \in LimbValues, NEW i \in 0 .. Len(s), o + i <= size
  PROVE  LET q == mpi_mul_hlp(i, s, d, o, b)
             v == Value(d) + b * (Weight[o] * Partial(s)[i])
         IN  /\ q \in Numbers(size)
             /\ v < Weight[size] => Value(q) = v
<1> DEFINE row == Row(i, s, d, o, b)
           c == row[1]
           e == row[2]
           first == o + i + 1
           r == Added(e, <<>>, first, size, c)
           q == r[2]
           P == Partial(Padded(<<>>, size))
           v == Value(d) + b * (Weight[o] * Partial(s)[i])
<1>1. row \in LimbValues \X Numbers(size) /\ RowSoFar(d, s, o, b, i, row)
  BY RowIs
<1>2. c \in LimbValues /\ e \in Numbers(size) /\ Value(e) + c * Weight[o + i] = v
  BY <1>1 DEF RowSoFar
<1>0. mpi_mul_hlp(i, s, d, o, b) = q
  <2>1. Len(e) = size
    BY <1>2, NumbersAre
  <2> QED BY <2>1 DEF mpi_mul_hlp
<1> HIDE DEF c, e, v
<1>3. <<>> \in Seq(LimbValues) /\ first \in 1 .. size + 1 /\ first - 1 = o + i /\ first - 1 \in 0 .. size
      /\ first - 1 \in Nat /\ size \in first - 1 .. size
  OBVIOUS
<1> HIDE DEF first
<1>4. r \in LimbValues \X Numbers(size) /\ SumSoFar(e, <<>>, first, c, size, r)
  BY <1>2, <1>3, AddedIs
<1> HIDE DEF r
<1>5. Len(e) = size /\ e \in Seq(LimbValues) /\ q \in Numbers(size) /\ r[1] \in LimbValues
  BY <1>2, <1>4, NumbersAre
<1>6. P[size] = 0 /\ P[first - 1] = 0
  <2> DEFINE z == Padded(<<>>, size)
  <2>1. z \in Seq(LimbValues) /\ Len(z) = size /\ \A k \in 1 .. size : z[k] = Digit(<<>>, k)
    BY <1>3, PaddedIs
  <2>2. \A k \in 0 + 1 .. size : z[k] = 0
    <3>1. Len(<<>>) = 0
      OBVIOUS
    <3> HIDE DEF z
    <3> QED BY <2>1, <3>1 DEF Digit
  <2> HIDE DEF z
  <2>3. \A k \in 0 .. size : Partial(z)[k] = Partial(z)[0]
    BY <2>1, <2>2, PartialZeros
  <2>4. Partial(z)[0] = 0
    BY <2>1, PartialIs
  <2>5. size \in 0 .. size
    OBVIOUS
  <2> QED BY <1>3, <2>3, <2>4, <2>5 DEF z
<1>7. Value(q) + r[1] * Weight[size] = v
  <2>1. Value(q) + r[1] * Weight[size] = Value(e) + c * Weight[first - 1] + (P[size] - P[first - 1])
    BY <1>4, <1>5 DEF SumSoFar
  <2> HIDE DEF P
  <2>2. Value(e) + c * Weight[first - 1] \in Int
    <3> DEFINE w == Weight[first - 1]  y == Value(e)
    <3>1. w \in Nat /\ y \in Nat /\ c \in Nat
      BY <1>2, <1>3, <1>5, WeightIs, TopValue, LimbIsNat
    <3> HIDE DEF w, y
    <3>2. y + c * w \in Int
      BY <3>1
    <3> QED BY <3>2 DEF w, y
  <2> DEFINE y == Value(e) + c * Weight[first - 1]
  <2>3. y = v
    BY <1>2, <1>3
  <2> HIDE DEF y
  <2>4. y + (0 - 0) = y
    BY <2>2 DEF y
  <2> QED BY <1>6, <2>1, <2>3, <2>4 DEF y
<1>8. ASSUME v < Weight[size] PROVE Value(q) = v
  <2> DEFINE w == Weight[size]  y == Value(q)  t == r[1]
  <2>1. w \in Nat \ {0} /\ y \in Nat /\ t \in Nat
    <3>1. q \in Seq(LimbValues)
      BY <1>5, NumbersAre
    <3>2. t \in Nat
      BY <1>5, Base DEF LimbValues
    <3> HIDE DEF q, t
    <3> QED BY <3>1, <3>2, TopValue, WeightIs
  <2>2. y + t * w = v /\ v < w
    BY <1>7, <1>8
  <2> HIDE DEF w, y, t
  <2>3. t = 0
    <3>1. SUFFICES ASSUME t >= 1 PROVE FALSE
      BY <2>1
    <3>2. t * w >= w /\ t * w \in Nat
      BY <2>1, <3>1
    <3> QED BY <2>1, <2>2, <3>2
  <2>4. y = v
    BY <2>1, <2>2, <2>3
  <2> QED BY <2>4 DEF y
<1> HIDE DEF q, row
<1> QED BY <1>0, <1>5, <1>8 DEF v

-----------------------------------------------------------------------------
(* Multiplication: the rows.                                                *)

NextRow(i, a, b, j, k, x) == mpi_mul_hlp(i, a, x, j - k, b[j - k + 1])

Rowed(x, i, a, b, j, f) ==
    f = [k \in 0 .. j |-> IF k = 0 THEN x ELSE NextRow(i, a, b, j, k, f[k - 1])]

LEMMA NextRowTyped ==
  ASSUME NEW size \in Nat, NEW x \in Numbers(size), NEW a \in Seq(LimbValues), NEW b \in Seq(LimbValues),
         NEW i \in 0 .. Len(a), NEW j \in 0 .. Len(b), i + j <= size, NEW k \in 1 .. j
  PROVE  NextRow(i, a, b, j, k, x) \in Numbers(size)
<1>1. j - k \in Nat /\ j - k + 1 \in 1 .. Len(b) /\ (j - k) + i <= size
  OBVIOUS
<1>2. b[j - k + 1] \in LimbValues
  BY <1>1
<1> QED BY <1>1, <1>2, MulHlpIs DEF NextRow

LEMMA RowedExists ==
  ASSUME NEW size \in Nat, NEW x \in Numbers(size), NEW a \in Seq(LimbValues), NEW b \in Seq(LimbValues),
         NEW i \in 0 .. Len(a), NEW j \in 0 .. Len(b), i + j <= size
  PROVE  LET f == CHOOSE f : Rowed(x, i, a, b, j, f)
         IN  /\ f \in [0 .. j -> Numbers(size)]
             /\ f[0] = x
             /\ \A k \in 1 .. j : f[k] = NextRow(i, a, b, j, k, f[k - 1])
             /\ Rows(x, i, a, b, j) = f[j]
<1> DEFINE State == Numbers(size)
           step == [kx \in (0 + 1 .. j) \X State |-> NextRow(i, a, b, j, kx[1], kx[2])]
           f == CHOOSE f : Rowed(x, i, a, b, j, f)
<1>0. /\ 0 <= j /\ j \in Nat
      /\ \A k \in 1 .. j : k \in 0 + 1 .. j /\ k - 1 \in 0 .. j /\ k # 0 /\ k \in 0 .. j
      /\ \A k \in 0 + 1 .. j : k \in 1 .. j
      /\ \A k \in 0 .. j : k = 0 \/ k \in 1 .. j
      /\ 0 \in 0 .. j
  OBVIOUS
<1>1. x \in State
  OBVIOUS
<1> HIDE DEF State
<1>2. /\ step \in Steps(0, j, State)
      /\ \A k \in 1 .. j, y \in State : step[<<k, y>>] = NextRow(i, a, b, j, k, y)
  <2>1. \A kx \in (0 + 1 .. j) \X State : NextRow(i, a, b, j, kx[1], kx[2]) \in State
    <3> TAKE kx \in (0 + 1 .. j) \X State
    <3>1. kx[1] \in 1 .. j /\ kx[2] \in State
      BY <1>0
    <3> QED BY <3>1, NextRowTyped DEF State
  <2>2. step \in Steps(0, j, State)
    BY <2>1 DEF Steps
  <2> QED BY <1>0, <2>2
<1> HIDE DEF step
<1>3. PICK g : Loops(g, 0, j, State, x, step)
  BY <1>0, <1>1, <1>2, LoopExists
<1>4. /\ g \in [0 .. j -> State] /\ g[0] = x
      /\ \A k \in 1 .. j : g[k] = NextRow(i, a, b, j, k, g[k - 1])
  <2>1. g \in [0 .. j -> State] /\ g[0] = x /\ \A k \in 0 + 1 .. j : g[k] = step[<<k, g[k - 1]>>]
    BY <1>3 DEF Loops
  <2>2. \A k \in 1 .. j : g[k - 1] \in State
    BY <1>0, <2>1
  <2> QED BY <1>0, <1>2, <2>1, <2>2
<1>5. Rowed(x, i, a, b, j, g)
  <2>1. \A k \in 0 .. j : g[k] = IF k = 0 THEN x ELSE NextRow(i, a, b, j, k, g[k - 1])
    BY <1>0, <1>4
  <2>2. g = [k \in 0 .. j |-> g[k]]
    BY <1>4
  <2>3. g = [k \in 0 .. j |-> IF k = 0 THEN x ELSE NextRow(i, a, b, j, k, g[k - 1])]
    BY <2>1, <2>2
  <2> QED BY <2>3 DEF Rowed
<1>6. Rowed(x, i, a, b, j, f)
  BY <1>5
<1>7. Rows(x, i, a, b, j) = f[j]
  BY DEF Rows, Rowed, NextRow
<1> HIDE DEF f
<1>8. /\ DOMAIN f = 0 .. j
      /\ f[0] = x
      /\ \A k \in 1 .. j : f[k] = NextRow(i, a, b, j, k, f[k - 1])
      /\ f = [k \in 0 .. j |-> f[k]]
  <2>1. f = [k \in 0 .. j |-> IF k = 0 THEN x ELSE NextRow(i, a, b, j, k, f[k - 1])]
    BY <1>6 DEF Rowed
  <2> QED BY <1>0, <2>1
<1>9. \A k \in 0 .. j : f[k] \in State
  <2> DEFINE S == {k \in 0 .. j : f[k] \in State}
  <2>1. 0 \in S
    BY <1>0, <1>1, <1>8
  <2>2. \A k \in 0 + 1 .. j : k - 1 \in S => k \in S
    <3> TAKE k \in 0 + 1 .. j
    <3> HAVE k - 1 \in S
    <3>1. k \in 1 .. j /\ f[k - 1] \in State /\ k \in 0 .. j
      BY <1>0
    <3>2. f[k] = NextRow(i, a, b, j, k, f[k - 1])
      BY <1>8, <3>1
    <3>3. f[k] \in State
      BY <3>1, <3>2, NextRowTyped DEF State
    <3> QED BY <3>1, <3>3
  <2> HIDE DEF S
  <2>3. \A k \in 0 .. j : k \in S
    BY <1>0, <2>1, <2>2, LoopInduction
  <2> QED BY <2>3 DEF S
<1>10. f \in [0 .. j -> State]
  BY <1>8, <1>9
<1> QED BY <1>7, <1>8, <1>10 DEF State, f

(* The rows of the limbs of b from the highest to the one of weight         *)
(* Weight[o - 1] are A times those limbs.                                   *)
LEMMA RowsStep ==
  ASSUME NEW B \in Nat, NEW C \in Nat, NEW C1 \in Nat, NEW A \in Nat, NEW w \in Nat, NEW y \in Nat,
         C1 = C + y * w
  PROVE  A * (B - C1) + y * (w * A) = A * (B - C)
<1> DEFINE u == y * w
           D == B - C1
<1>1. y * (w * A) = A * u /\ u \in Int /\ D \in Int
  OBVIOUS
<1>2. B - C = D + u
  BY <1>1
<1> HIDE DEF u, D
<1>3. A * (D + u) = A * D + A * u
  BY <1>1
<1> QED BY <1>1, <1>2, <1>3 DEF D

LEMMA RowsAre ==
  ASSUME NEW size \in Nat, NEW x \in Numbers(size), NEW a \in Seq(LimbValues), NEW b \in Seq(LimbValues),
         NEW i \in 0 .. Len(a), NEW j \in 0 .. Len(b), i + j <= size, Value(x) = 0
  PROVE  /\ Rows(x, i, a, b, j) \in Numbers(size)
         /\ Value(Rows(x, i, a, b, j)) = Partial(a)[i] * Partial(b)[j]
<1> DEFINE f == CHOOSE f : Rowed(x, i, a, b, j, f)
           A == Partial(a)[i]
           P == Partial(b)
           B == P[j]
           W == Weight[size]
           S == {k \in 0 .. j : Value(f[k]) = A * (B - P[j - k])}
<1>0. /\ i \in Nat /\ j \in Nat /\ 0 \in 0 .. j /\ j \in 0 .. j /\ j - 0 = j /\ j - j = 0
  OBVIOUS
<1>1. /\ f \in [0 .. j -> Numbers(size)]
      /\ f[0] = x
      /\ \A k \in 1 .. j : f[k] = NextRow(i, a, b, j, k, f[k - 1])
      /\ Rows(x, i, a, b, j) = f[j]
  BY RowedExists
<1>2. P \in [0 .. Len(b) -> Nat] /\ P[0] = 0 /\ \A m \in 1 .. Len(b) : P[m] = P[m - 1] + b[m] * Weight[m - 1]
  BY PartialIs
<1>3. A \in Nat /\ B \in Nat
  BY <1>2, PartialIs
<1>4. A * B < W /\ W \in Nat
  <2>1. A < Weight[i] /\ B < Weight[j]
    BY PartialBound
  <2>2. Weight[i + j] <= W /\ Weight[i + j] = Weight[i] * Weight[j]
    <3>1. i + j \in Nat /\ i + j <= size
      BY <1>0
    <3>2. Weight[i + j] <= Weight[size]
      BY <3>1, WeightGrows
    <3>3. Weight[i + j] = Weight[i] * Weight[j]
      BY <1>0, WeightsMultiply
    <3> QED BY <3>2, <3>3
  <2>3. Weight[i] \in Nat /\ Weight[j] \in Nat /\ W \in Nat
    BY <1>0, WeightIs
  <2> DEFINE v == Weight[i]  w == Weight[j]
  <2>4. A < v /\ B < w /\ v \in Nat /\ w \in Nat /\ v * w <= W
    BY <2>1, <2>2, <2>3
  <2> HIDE DEF A, B, v, w, W
  <2>5. A * B <= A * w /\ A * w < v * w
    <3>1. w > 0
      BY <1>3, <2>4
    <3>2. A * B <= A * w
      BY <1>3, <2>4
    <3>3. (A + 1) * w <= v * w /\ (A + 1) * w = A * w + w /\ A * w \in Nat /\ v * w \in Nat
      BY <1>3, <2>4
    <3> QED BY <2>4, <3>1, <3>2, <3>3
  <2>6. A * B \in Nat /\ A * w \in Nat /\ v * w \in Nat
    BY <1>3, <2>4
  <2> QED BY <2>3, <2>4, <2>5, <2>6
<1> HIDE DEF f, A, P, W
<1>5. 0 \in S
  <2>1. A * (B - B) = 0
    <3> HIDE DEF B
    <3>1. B - B = 0 /\ A * 0 = 0
      BY <1>3
    <3> QED BY <3>1
  <2> QED BY <1>0, <1>1, <2>1
<1>6. \A k \in 0 + 1 .. j : k - 1 \in S => k \in S
  <2> TAKE k \in 0 + 1 .. j
  <2> HAVE k - 1 \in S
  <2> DEFINE o == j - k
             m == o + 1
             y == b[m]
             g == f[k - 1]
             w == Weight[o]
             C == P[o]
             C1 == P[m]
  <2>1. /\ k \in 1 .. j /\ k - 1 \in 0 .. j /\ k \in 0 .. j /\ o \in Nat /\ m \in 1 .. Len(b)
        /\ j - (k - 1) = m /\ m - 1 = o /\ o + i <= size /\ o \in 0 .. Len(b) /\ m \in 0 .. Len(b)
    BY <1>0
  <2>2. g \in Numbers(size) /\ Value(g) = A * (B - C1)
    BY <1>1, <2>1
  <2>3. y \in LimbValues /\ y \in Nat /\ w \in Nat /\ C \in Nat /\ C1 \in Nat
    <3>1. y \in LimbValues
      BY <2>1
    <3>2. C \in Nat /\ C1 \in Nat
      BY <1>2, <2>1
    <3>3. w \in Nat
      <4> HIDE DEF o
      <4> QED BY <2>1, WeightIs
    <3> HIDE DEF y
    <3> QED BY <3>1, <3>2, <3>3, LimbIsNat
  <2>4. C1 = C + y * w
    BY <1>2, <2>1
  <2>5. f[k] = mpi_mul_hlp(i, a, g, o, y)
    BY <1>1, <2>1 DEF NextRow
  <2>6. P[j - k] = C
    OBVIOUS
  <2> DEFINE v == Value(g) + y * (w * A)
  <2>7. mpi_mul_hlp(i, a, g, o, y) \in Numbers(size) /\ (v < W => Value(mpi_mul_hlp(i, a, g, o, y)) = v)
    <3> HIDE DEF g, y, o
    <3> QED BY <2>1, <2>2, <2>3, MulHlpIs DEF W, A
  <2> HIDE DEF o, m, y, g, w, C, C1, B
  <2>8. v = A * (B - C)
    BY <1>3, <2>2, <2>3, <2>4, RowsStep
  <2>9. A * (B - C) < W
    <3>1. B - C <= B /\ B - C \in Int
      BY <1>3, <2>3
    <3>2. A * (B - C) <= A * B /\ A * (B - C) \in Int /\ A * B \in Int
      BY <1>3, <3>1
    <3> QED BY <1>4, <3>2
  <2>10. Value(f[k]) = A * (B - C)
    BY <2>5, <2>7, <2>8, <2>9
  <2> QED BY <2>1, <2>6, <2>10
<1> HIDE DEF S
<1>7. \A k \in 0 .. j : k \in S
  BY <1>0, <1>5, <1>6, LoopInduction
<1>8. Value(f[j]) = A * (B - P[0])
  BY <1>0, <1>7 DEF S
<1>9. A * (B - 0) = A * B
  <2> HIDE DEF B
  <2> QED BY <1>3
<1> QED BY <1>0, <1>1, <1>2, <1>8, <1>9 DEF A, P

LEMMA LsetIs ==
  ASSUME NEW Names, NEW m \in Memories(Names), NEW X \in Names
  PROVE  LET r == mpi_lset(m, X, 0)
         IN  /\ \E v : Stores(Names, m, r, X, v)
             /\ r.mpi[X].p \in Seq(LimbValues) /\ Value(r.mpi[X].p) = 0
             /\ Len(r.mpi[X].p) >= Len(m.mpi[X].p)
<1> DEFINE g == mpi_grow(m, X, 1)
           n == Len(g.mpi[X].p)
           z == Zeros(n)
           q == [z EXCEPT ![1] = Abs(0)]
           v == [s |-> OfInt(0).s, p |-> q]
           r == mpi_lset(m, X, 0)
<1>1. r = Set(g, X, v)
  BY DEF mpi_lset
<1>2. /\ Stores(Names, m, g, X, [s |-> m.mpi[X].s, p |-> Enlarge(m.mpi[X].p, 1)])
      /\ n = Larger(Len(m.mpi[X].p), 1)
  BY GrowIs
<1>3. m.mpi[X].p \in Seq(LimbValues)
  BY MpiIs
<1>4. n \in Nat /\ n >= 1 /\ n >= Len(m.mpi[X].p)
  <2>1. Len(m.mpi[X].p) \in Nat
    BY <1>3
  <2> QED BY <1>2, <2>1 DEF Larger
<1>5. g \in Memories(Names) /\ g.ret = m.ret /\ \A Y \in Names : Y # X => g.mpi[Y] = m.mpi[Y]
  BY <1>2 DEF Stores
<1> HIDE DEF g, n
<1>6. z \in Seq(LimbValues) /\ Len(z) = n /\ \A i \in 1 .. n : z[i] = 0
  BY <1>4, ZerosAre
<1> HIDE DEF z
<1>7. Abs(0) = 0 /\ 0 \in LimbValues
  BY Base DEF Abs, LimbValues
<1>8. q \in Seq(LimbValues) /\ Len(q) = n /\ \A i \in 1 .. n : q[i] = 0
  BY <1>4, <1>6, <1>7
<1> HIDE DEF q
<1>9. Value(q) = 0
  <2>1. \A k \in 0 + 1 .. Len(q) : q[k] = 0
    BY <1>8
  <2>2. \A k \in 0 .. Len(q) : Partial(q)[k] = Partial(q)[0]
    BY <1>4, <1>8, <2>1, PartialZeros
  <2>3. Partial(q)[0] = 0 /\ Len(q) \in 0 .. Len(q)
    BY <1>4, <1>8, PartialIs
  <2> QED BY <2>2, <2>3 DEF Value
<1>10. v \in Mpis
  BY <1>8 DEF Mpis, OfInt
<1>11. v.p = q
  OBVIOUS
<1> HIDE DEF v
<1>12. Stores(Names, g, r, X, v)
  BY <1>1, <1>5, <1>10, SetIs
<1> HIDE DEF r
<1>13. Stores(Names, m, r, X, v)
  BY <1>5, <1>12 DEF Stores
<1>14. r.mpi[X].p = q
  BY <1>11, <1>12 DEF Stores
<1> QED BY <1>4, <1>8, <1>9, <1>13, <1>14 DEF r

(* A factor that is also the result is kept in a local.                     *)
LEMMA FactorIs ==
  ASSUME NEW Names, NEW T \in Names, NEW m \in Memories(Names), NEW A \in Names
  PROVE  Copies(Names, m, mpi_copy(Set(m, T, mpi_init), T, A), T, m.mpi[A].s, Value(m.mpi[A].p)) \/ A = T
<1> DEFINE m1 == Set(m, T, mpi_init)
           m2 == mpi_copy(m1, T, A)
<1>1. SUFFICES ASSUME A # T PROVE Copies(Names, m, m2, T, m.mpi[A].s, Value(m.mpi[A].p))
  OBVIOUS
<1>2. Stores(Names, m, m1, T, mpi_init)
  BY InitIs, SetIs
<1> HIDE DEF m1
<1>3. m1 \in Memories(Names) /\ m1.ret = m.ret /\ m1.mpi[A] = m.mpi[A] /\ \A Y \in Names : Y # T => m1.mpi[Y] = m.mpi[Y]
  BY <1>1, <1>2 DEF Stores
<1>4. Copies(Names, m1, m2, T, m1.mpi[A].s, Value(m1.mpi[A].p))
  BY <1>3, CopyIs
<1> HIDE DEF m2
<1> QED BY <1>3, <1>4 DEF Copies, m2

(* mpi_mul_mpi multiplies the integers, whatever their signs and sizes and  *)
(* whichever of its arguments are the same (bignum.c:830).  Every limb is   *)
(* made of half products (bn_mul.h:704), and no carry is lost.              *)
THEOREM MultiplicationIsExact ==
  ASSUME NEW Names, "mul.TA" \in Names, "mul.TB" \in Names, NEW m \in Memories(Names),
         NEW X \in Names \ {"mul.TA", "mul.TB"}, NEW A0 \in Names \ {"mul.TA", "mul.TB"},
         NEW B0 \in Names \ {"mul.TA", "mul.TB"}
  PROVE  Computes(Names, {"mul.TA", "mul.TB"}, m, mpi_mul_mpi(m, X, A0, B0), X,
                  IntOf(m.mpi[A0]) * IntOf(m.mpi[B0]))
<1> DEFINE TA == "mul.TA"
           TB == "mul.TB"
           L  == {TA, TB}
           m1 == IF X = A0 THEN mpi_copy(Set(m, TA, mpi_init), TA, A0) ELSE m
           m2 == IF X = B0 THEN mpi_copy(Set(m1, TB, mpi_init), TB, B0) ELSE m1
           A  == IF X = A0 THEN TA ELSE A0
           B  == IF X = B0 THEN TB ELSE B0
           a  == m2.mpi[A]
           b  == m2.mpi[B]
           i  == Top(a.p)
           j  == Top(b.p)
           g  == mpi_grow(m2, X, i + j)
           m3 == mpi_lset(g, X, 0)
           x  == m3.mpi[X].p
           v  == [s |-> a.s * b.s, p |-> Rows(x, i, a.p, b.p, j)]
           m4 == Set(m3, X, v)
           sa == m.mpi[A0].s
           sb == m.mpi[B0].s
           va == Value(m.mpi[A0].p)
           vb == Value(m.mpi[B0].p)
<1>1. mpi_mul_mpi(m, X, A0, B0) = m4
  BY DEF mpi_mul_mpi
<1>2. /\ TA \in Names /\ TB \in Names /\ TA # TB /\ X # TA /\ X # TB /\ A0 # TA /\ A0 # TB /\ B0 # TA /\ B0 # TB
      /\ X \in Names /\ A0 \in Names /\ B0 \in Names
  OBVIOUS
<1>3. (X = A0 => A = TA) /\ (X # A0 => A = A0) /\ (X = B0 => B = TB) /\ (X # B0 => B = B0)
  OBVIOUS
<1>4. sa \in {1, -1} /\ sb \in {1, -1} /\ va \in Nat /\ vb \in Nat
  BY <1>2, MpiIs
<1> HIDE DEF TA, TB, A, B
<1>5. /\ m1 \in Memories(Names) /\ m1.ret = m.ret /\ m1.mpi[A].s = sa /\ Value(m1.mpi[A].p) = va
      /\ \A Y \in Names : Y # TA => m1.mpi[Y] = m.mpi[Y]
  <2>1. CASE X = A0
    <3> DEFINE c == mpi_copy(Set(m, TA, mpi_init), TA, A0)
    <3>1. Copies(Names, m, c, TA, m.mpi[A0].s, Value(m.mpi[A0].p))
      BY <1>2, FactorIs
    <3>2. m1 = c
      BY <2>1
    <3> HIDE DEF c, m1
    <3> QED BY <1>3, <2>1, <3>1, <3>2 DEF Copies
  <2>2. CASE X # A0
    <3>1. m1 = m /\ A = A0
      BY <1>3, <2>2
    <3> HIDE DEF m1
    <3> QED BY <3>1
  <2> QED BY <2>1, <2>2
<1> HIDE DEF m1
<1>6. /\ m2 \in Memories(Names) /\ m2.ret = m.ret /\ m2.mpi[B].s = sb /\ Value(m2.mpi[B].p) = vb
      /\ m2.mpi[A] = m1.mpi[A]
      /\ \A Y \in Names \ L : m2.mpi[Y] = m.mpi[Y]
  <2>0. m1.mpi[B0] = m.mpi[B0] /\ A # TB /\ A \in Names /\ B \in Names
    BY <1>2, <1>3, <1>5
  <2>1. CASE X = B0
    <3> DEFINE c == mpi_copy(Set(m1, TB, mpi_init), TB, B0)
    <3>1. Copies(Names, m1, c, TB, m1.mpi[B0].s, Value(m1.mpi[B0].p))
      BY <1>2, <1>5, FactorIs
    <3>2. m2 = c
      BY <2>1
    <3> HIDE DEF c, m2
    <3> QED BY <1>3, <1>5, <2>0, <2>1, <3>1, <3>2 DEF Copies
  <2>2. CASE X # B0
    <3>1. m2 = m1 /\ B = B0
      BY <1>3, <2>2
    <3> HIDE DEF m2
    <3> QED BY <1>5, <2>0, <3>1
  <2> QED BY <2>1, <2>2
<1>7. A \in Names /\ B \in Names /\ A # X /\ B # X
  BY <1>2, <1>3
<1>8. /\ a.s = sa /\ Value(a.p) = va /\ b.s = sb /\ Value(b.p) = vb
      /\ a.p \in Seq(LimbValues) /\ b.p \in Seq(LimbValues)
  <2> HIDE DEF m2
  <2> QED BY <1>5, <1>6, <1>7, MpiIs
<1> HIDE DEF m2, a, b, sa, sb, va, vb
<1>9. i \in 0 .. Len(a.p) /\ j \in 0 .. Len(b.p) /\ i + j \in Nat /\ Partial(a.p)[i] = va /\ Partial(b.p)[j] = vb
  <2>1. i \in 0 .. Len(a.p) /\ j \in 0 .. Len(b.p)
    BY <1>8, TopIs
  <2>2. i + j \in Nat /\ i \in i .. Len(a.p) /\ j \in j .. Len(b.p)
    <3> HIDE DEF i, j
    <3> QED BY <2>1
  <2>3. Partial(a.p)[i] = Value(a.p) /\ Partial(b.p)[j] = Value(b.p)
    BY <1>8, <2>2, TopValue
  <2> QED BY <1>8, <2>1, <2>2, <2>3
<1> HIDE DEF i, j
<1>10. /\ Stores(Names, m2, g, X, [s |-> m2.mpi[X].s, p |-> Enlarge(m2.mpi[X].p, i + j)])
       /\ Len(g.mpi[X].p) = Larger(Len(m2.mpi[X].p), i + j)
  BY <1>2, <1>6, <1>9, GrowIs
<1>11. g \in Memories(Names) /\ g.ret = m2.ret /\ \A Y \in Names : Y # X => g.mpi[Y] = m2.mpi[Y]
  BY <1>10 DEF Stores
<1>12. Len(g.mpi[X].p) >= i + j /\ Len(g.mpi[X].p) \in Nat
  <2>1. m2.mpi[X].p \in Seq(LimbValues)
    BY <1>2, <1>6, MpiIs
  <2>2. Len(m2.mpi[X].p) \in Nat
    BY <2>1
  <2> QED BY <1>9, <1>10, <2>2 DEF Larger
<1> HIDE DEF g
<1>13. /\ \E w : Stores(Names, g, m3, X, w)
       /\ x \in Seq(LimbValues) /\ Value(x) = 0 /\ Len(x) >= Len(g.mpi[X].p)
  BY <1>2, <1>11, LsetIs
<1>14. m3 \in Memories(Names) /\ m3.ret = g.ret /\ \A Y \in Names : Y # X => m3.mpi[Y] = g.mpi[Y]
  <2> HIDE DEF m3
  <2> QED BY <1>13 DEF Stores
<1> HIDE DEF m3, x
<1> DEFINE n == Len(x)
           q == Rows(x, i, a.p, b.p, j)
<1>15. n \in Nat /\ i + j <= n /\ x \in Numbers(n)
  <2>1. n \in Nat
    BY <1>13
  <2>2. x \in Numbers(n)
    BY <1>13, <2>1, NumbersAre
  <2> QED BY <1>9, <1>12, <1>13, <2>1, <2>2
<1> HIDE DEF n
<1>16. q \in Numbers(n) /\ Value(q) = Partial(a.p)[i] * Partial(b.p)[j]
  BY <1>8, <1>9, <1>13, <1>15, RowsAre
<1>17. q \in Seq(LimbValues) /\ Value(q) = va * vb
  BY <1>9, <1>15, <1>16, NumbersAre
<1> HIDE DEF q
<1>18. v \in Mpis /\ v.s = sa * sb /\ v.p = q
  <2>1. sa * sb \in {1, -1}
    BY <1>4
  <2>2. v = [s |-> sa * sb, p |-> q]
    BY <1>8 DEF q
  <2> HIDE DEF v
  <2> QED BY <1>17, <2>1, <2>2 DEF Mpis
<1> HIDE DEF v
<1>19. Stores(Names, m3, m4, X, v)
  BY <1>2, <1>14, <1>18, SetIs
<1> HIDE DEF m4
<1>20. m4 \in Memories(Names) /\ m4.ret = m.ret /\ m4.mpi[X] = v /\ \A Y \in Names \ L : Y # X => m4.mpi[Y] = m.mpi[Y]
  <2>1. m4 \in Memories(Names) /\ m4.ret = m3.ret /\ m4.mpi[X] = v /\ \A Y \in Names : Y # X => m4.mpi[Y] = m3.mpi[Y]
    BY <1>19 DEF Stores
  <2> QED BY <1>6, <1>11, <1>14, <2>1
<1>21. IntOf(v) = (sa * va) * (sb * vb)
  <2>1. IntOf(v) = (sa * sb) * (va * vb)
    BY <1>17, <1>18 DEF IntOf
  <2> QED BY <1>4, <2>1
<1>22. IntOf(m.mpi[A0]) = sa * va /\ IntOf(m.mpi[B0]) = sb * vb
  BY DEF IntOf, sa, sb, va, vb
<1>23. Computes(Names, L, m, m4, X, IntOf(m.mpi[A0]) * IntOf(m.mpi[B0]))
  BY <1>20, <1>21, <1>22 DEF Computes
<1> QED BY <1>1, <1>23 DEF TA, TB

-----------------------------------------------------------------------------
(* The functions of an integer that fits a limb.                            *)

LEMMA OneLimb ==
  ASSUME NEW b \in LimbValues, NEW s \in {1, -1}
  PROVE  /\ [s |-> s, p |-> <<b>>] \in Mpis
         /\ IntOf([s |-> s, p |-> <<b>>]) = s * b
         /\ b = 0 => Top(<<b>>) = 0
<1> DEFINE p == <<b>>
<1>1. p \in Seq(LimbValues) /\ Len(p) = 1 /\ p[1] = b
  OBVIOUS
<1> HIDE DEF p
<1>2. Value(p) = b
  <2>1. Partial(p)[0] = 0 /\ \A k \in 1 .. Len(p) : Partial(p)[k] = Partial(p)[k - 1] + p[k] * Weight[k - 1]
    BY <1>1, PartialIs
  <2>2. 1 \in 1 .. Len(p) /\ 1 - 1 = 0 /\ Weight[0] = 1
    BY <1>1, WeightIs
  <2>3. Partial(p)[1] = Partial(p)[1 - 1] + p[1] * Weight[1 - 1]
    BY <2>1, <2>2
  <2>4. Partial(p)[1] = 0 + b * 1
    BY <1>1, <2>1, <2>2, <2>3
  <2>5. b \in Nat
    BY LimbIsNat
  <2> QED BY <1>1, <2>4, <2>5 DEF Value
<1>3. b = 0 => Top(p) = 0
  <2>1. Top(p) \in 0 .. 1 /\ (Top(p) # 0 => p[Top(p)] # 0)
    BY <1>1, TopIs
  <2> QED BY <1>1, <2>1
<1>4. [s |-> s, p |-> p] \in Mpis
  BY <1>1 DEF Mpis
<1> QED BY <1>2, <1>3, <1>4 DEF IntOf, p

LEMMA OfIntIs ==
  ASSUME NEW z \in Int, Abs(z) \in LimbValues
  PROVE  OfInt(z) \in Mpis /\ IntOf(OfInt(z)) = z
<1> DEFINE s == IF z < 0 THEN -1 ELSE 1
<1>1. s \in {1, -1} /\ s * Abs(z) = z
  BY DEF Abs
<1>2. OfInt(z) = [s |-> s, p |-> <<Abs(z)>>]
  BY DEF OfInt
<1> HIDE DEF s
<1> QED BY <1>1, <1>2, OneLimb

(* The sign of a number is found by comparing it with 0, also when it is 0  *)
(* and its sign is -1: the loops of mpi_mod_mpi and mpi_inv_mod and the     *)
(* corrections of mpi_div_mpi depend on it (bignum.c:579).                  *)
THEOREM SignsAreTested ==
  ASSUME NEW x \in Mpis
  PROVE  mpi_cmp_int(x, 0) = Sign(IntOf(x))
<1> DEFINE y == OfInt(0)
<1>1. Abs(0) = 0 /\ 0 \in LimbValues
  BY Base DEF Abs, LimbValues
<1>2. y \in Mpis /\ IntOf(y) = 0
  BY <1>1, OfIntIs
<1>3. y.p = <<0>>
  BY <1>1 DEF OfInt
<1>4. Top(<<0>>) = 0
  BY <1>1, OneLimb
<1>5. x.p \in Seq(LimbValues) /\ x.s \in {1, -1}
  BY DEF Mpis
<1> HIDE DEF y
<1>6. Top(y.p) <= Top(x.p)
  <2>1. Top(x.p) \in 0 .. Len(x.p)
    BY <1>5, TopIs
  <2> QED BY <1>3, <1>4, <2>1
<1>7. mpi_cmp_mpi(x, y) = Sign(IntOf(x) - IntOf(y))
  BY <1>2, <1>6, NumbersAreCompared
<1>8. IntOf(x) \in Int
  <2>1. Value(x.p) \in Nat
    BY <1>5, TopValue
  <2> QED BY <1>5, <2>1 DEF IntOf
<1>9. IntOf(x) - IntOf(y) = IntOf(x)
  <2> HIDE DEF IntOf
  <2> QED BY <1>2, <1>8
<1> QED BY <1>7, <1>9 DEF mpi_cmp_int, y

(* The operand of an _int function is put in a local mpi.                   *)
LEMMA WithInt ==
  ASSUME NEW Names, "_B" \in Names, NEW m \in Memories(Names), NEW X \in Names \ {"_B"}, NEW v \in Mpis,
         NEW locals, NEW r, NEW z, Computes(Names, locals, Set(m, "_B", v), r, X, z)
  PROVE  Computes(Names, locals \cup {"_B"}, m, r, X, z)
<1>1. Stores(Names, m, Set(m, "_B", v), "_B", v)
  BY SetIs
<1> QED BY <1>1 DEF Stores, Computes

(* mpi_add_int, mpi_sub_int and mpi_mul_int are exact for every integer     *)
(* that fits a limb, unless mpi_add_abs loses a carry (bignum.c:756-783,    *)
(* 872).                                                                    *)
THEOREM IntegersAreExact ==
  ASSUME NEW Names, {"_B", "sub.TB", "mul.TA", "mul.TB"} \subseteq Names, NEW m \in Memories(Names),
         NEW X \in Names \ {"_B", "sub.TB", "mul.TA", "mul.TB"},
         NEW A \in Names \ {"_B", "sub.TB", "mul.TA", "mul.TB"},
         NEW z \in Int, Abs(z) \in LimbValues, NEW b \in LimbValues
  PROVE  /\ m.mpi[A].s # OfInt(z).s \/ Lost(Set(m, "_B", OfInt(z)), X, A, "_B") = 0
            => Computes(Names, {"sub.TB", "_B"}, m, mpi_add_int(m, X, A, z), X, IntOf(m.mpi[A]) + z)
         /\ m.mpi[A].s = OfInt(z).s \/ Lost(Set(m, "_B", OfInt(z)), X, A, "_B") = 0
            => Computes(Names, {"sub.TB", "_B"}, m, mpi_sub_int(m, X, A, z), X, IntOf(m.mpi[A]) - z)
         /\ Computes(Names, {"mul.TA", "mul.TB", "_B"}, m, mpi_mul_int(m, X, A, b), X, IntOf(m.mpi[A]) * b)
<1> DEFINE v == OfInt(z)
           w == [s |-> 1, p |-> <<b>>]
           mv == Set(m, "_B", v)
           mw == Set(m, "_B", w)
           sub == {"sub.TB"}
           mul == {"mul.TA", "mul.TB"}
<1>0. "_B" # "sub.TB" /\ "_B" # "mul.TA" /\ "_B" # "mul.TB" /\ "_B" \in Names
  OBVIOUS
<1>1. v \in Mpis /\ IntOf(v) = z
  BY OfIntIs
<1>2. w \in Mpis /\ IntOf(w) = b
  <2>1. IntOf(w) = 1 * b /\ w \in Mpis
    BY OneLimb
  <2>2. 1 * b = b
    BY LimbIsNat
  <2> QED BY <2>1, <2>2
<1> HIDE DEF v, w
<1>3. Stores(Names, m, mv, "_B", v) /\ Stores(Names, m, mw, "_B", w)
  BY <1>0, <1>1, <1>2, SetIs
<1> HIDE DEF mv, mw
<1>4. /\ mv \in Memories(Names) /\ mv.mpi["_B"] = v /\ mv.mpi[A] = m.mpi[A]
      /\ mw \in Memories(Names) /\ mw.mpi["_B"] = w /\ mw.mpi[A] = m.mpi[A]
  BY <1>3 DEF Stores
<1>5. m.mpi[A].s # v.s \/ Lost(mv, X, A, "_B") = 0
      => Computes(Names, sub, mv, mpi_add_mpi(mv, X, A, "_B"), X, IntOf(m.mpi[A]) + z)
  BY <1>0, <1>1, <1>4, SumsAreExact
<1>6. m.mpi[A].s = v.s \/ Lost(mv, X, A, "_B") = 0
      => Computes(Names, sub, mv, mpi_sub_mpi(mv, X, A, "_B"), X, IntOf(m.mpi[A]) - z)
  BY <1>0, <1>1, <1>4, SumsAreExact
<1>7. Computes(Names, mul, mw, mpi_mul_mpi(mw, X, A, "_B"), X, IntOf(m.mpi[A]) * b)
  BY <1>0, <1>2, <1>4, MultiplicationIsExact
<1>8. m.mpi[A].s # v.s \/ Lost(mv, X, A, "_B") = 0
      => Computes(Names, sub \cup {"_B"}, m, mpi_add_mpi(mv, X, A, "_B"), X, IntOf(m.mpi[A]) + z)
  BY <1>0, <1>1, <1>5, WithInt DEF mv
<1>9. m.mpi[A].s = v.s \/ Lost(mv, X, A, "_B") = 0
      => Computes(Names, sub \cup {"_B"}, m, mpi_sub_mpi(mv, X, A, "_B"), X, IntOf(m.mpi[A]) - z)
  BY <1>0, <1>1, <1>6, WithInt DEF mv
<1>10. Computes(Names, mul \cup {"_B"}, m, mpi_mul_mpi(mw, X, A, "_B"), X, IntOf(m.mpi[A]) * b)
  BY <1>0, <1>2, <1>7, WithInt DEF mw
<1>11. sub \cup {"_B"} = {"sub.TB", "_B"} /\ mul \cup {"_B"} = {"mul.TA", "mul.TB", "_B"}
  OBVIOUS
<1> QED BY <1>8, <1>9, <1>10, <1>11 DEF mpi_add_int, mpi_sub_int, mpi_mul_int, mv, mw, v, w
=============================================================================
