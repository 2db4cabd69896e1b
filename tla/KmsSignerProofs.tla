-------------------------- MODULE KmsSignerProofs ---------------------------
(***************************************************************************)
(* The signature kmsSender.Sign returns is valid, for a group of any prime *)
(* order, any key, any hash and any answer of KMS.                         *)
(***************************************************************************)
EXTENDS KmsSigner, WellFoundedInduction, TLAPS

-----------------------------------------------------------------------------
(* Remainders.                                                             *)

\* The order is odd: HalfN (kms.go:20) cuts the scalars into two halves.
LEMMA OrderFacts ==
    /\ N \in Nat /\ N > 2
    /\ HalfN \in Nat /\ HalfN >= 1 /\ N = 2 * HalfN + 1
<1>1. N \in Nat /\ N > 2 /\ N % 2 # 0
  BY KmsSignerAssumption
<1> QED
  BY <1>1 DEF HalfN

LEMMA Remainder ==
    ASSUME NEW a \in Int, NEW d \in Nat, d > 0
    PROVE  a % d \in 0 .. d - 1 /\ \E q \in Int : a = q * d + (a % d)
<1>1. a % d \in 0 .. d - 1
  BY Z3
<1>2. a = (a \div d) * d + (a % d) /\ a \div d \in Int
  BY Z3
<1> QED
  BY <1>1, <1>2

LEMMA RemainderUnique ==
    ASSUME NEW d \in Nat, NEW q \in Int, NEW r \in 0 .. d - 1,
           NEW a \in Int, a = q * d + r
    PROVE  a % d = r
<1> DEFINE s == a % d
<1>0. d > 0
  OBVIOUS
<1>1. s \in 0 .. d - 1 /\ \E p \in Int : a = p * d + s
  BY <1>0, Remainder, Zenon
<1> HIDE DEF s
<1>2. PICK p \in Int : a = p * d + s
  BY <1>1
<1>3. s - r = (q - p) * d
  BY <1>1, <1>2, Z3
<1>4. /\ q - p >= 1 => (q - p) * d >= d
      /\ p - q >= 1 => (q - p) * d <= 0 - d
      /\ (q - p) * d \in Int
  BY Z3
<1>5. s - r < d /\ s - r > 0 - d
  BY <1>1
<1>6. q = p
  BY <1>1, <1>3, <1>4, <1>5
<1>7. (q - p) * d = 0
  BY <1>6, Z3
<1> QED
  BY <1>1, <1>3, <1>7 DEF s

\* a and b are congruent modulo N.
Cong(a, b) == \E q \in Int : a = b + q * N

LEMMA CongSame ==
    ASSUME NEW a \in Int, NEW b \in Int, Cong(a, b), NEW c \in Int
    PROVE  Cong(b, a) /\ Cong(a + c, b + c) /\ Cong(c * a, c * b)
<1> USE OrderFacts
<1>1. PICK q \in Int : a = b + q * N
  BY DEF Cong
<1>2. b = a + (0 - q) * N /\ 0 - q \in Int
  BY <1>1, Z3
<1>3. a + c = (b + c) + q * N
  BY <1>1, Z3
<1>4. c * a = c * b + (c * q) * N /\ c * q \in Int
  BY <1>1, Z3
<1>5. Cong(b, a) /\ Cong(a + c, b + c)
  BY <1>2, <1>3 DEF Cong
<1>6. Cong(c * a, c * b)
  BY <1>4, Zenon DEF Cong
<1> QED
  BY <1>5, <1>6

LEMMA CongTrans ==
    ASSUME NEW a \in Int, NEW b \in Int, NEW c \in Int, Cong(a, b), Cong(b, c)
    PROVE  Cong(a, c)
<1> USE OrderFacts
<1>1. PICK q \in Int : a = b + q * N
  BY DEF Cong
<1>2. PICK p \in Int : b = c + p * N
  BY DEF Cong
<1>3. a = c + (q + p) * N /\ q + p \in Int
  BY <1>1, <1>2, Z3
<1> QED
  BY <1>3 DEF Cong

\* What % N computes, and that it is the only remainder.
LEMMA CongMod ==
    ASSUME NEW a \in Int
    PROVE  /\ a % N \in 0 .. N - 1 /\ a % N \in Int /\ Cong(a, a % N)
           /\ \A r \in 0 .. N - 1 : Cong(a, r) => a % N = r
<1>0. N \in Nat /\ N > 0
  BY OrderFacts
<1>1. /\ N \in Nat /\ N > 0
      /\ a % N \in 0 .. N - 1 /\ \E q \in Int : a = q * N + (a % N)
  BY <1>0, Remainder, Zenon
<1>2. Cong(a, a % N)
  <2> DEFINE s == a % N
  <2>1. s \in Int /\ \E q \in Int : a = q * N + s
    BY <1>1
  <2> HIDE DEF s
  <2>2. PICK q \in Int : a = q * N + s
    BY <2>1
  <2>3. a = s + q * N
    BY <1>1, <2>1, <2>2, Z3
  <2>4. Cong(a, s)
    BY <2>3 DEF Cong
  <2> QED
    BY <2>4 DEF s
<1>3. ASSUME NEW r \in 0 .. N - 1, Cong(a, r) PROVE a % N = r
  <2>1. PICK q \in Int : a = r + q * N
    BY <1>3 DEF Cong
  <2>2. a = q * N + r
    BY <1>1, <2>1, Z3
  <2> QED
    BY <1>1, <2>2, RemainderUnique
<1> QED
  BY <1>1, <1>2, <1>3

-----------------------------------------------------------------------------
(* Inverses.                                                               *)

LEMMA LeastNatural ==
    ASSUME NEW S, S \subseteq Nat, S # {}
    PROVE  \E d \in S : \A e \in S : d <= e
<1> DEFINE R == OpToRel(<, Nat)
<1>1. IsWellFoundedOn(R, Nat)
  BY NatLessThanWellFounded
<1>2. \E x \in S : \A y \in S : ~ (<<y, x>> \in R)
  <2> HIDE DEF R
  <2> QED
    BY <1>1, WFMin
<1>3. PICK x \in S : \A y \in S : ~ (<<y, x>> \in R)
  BY <1>2
<1>4. \A y \in S : ~ (y < x)
  BY <1>3 DEF OpToRel
<1> QED
  BY <1>4

\* The least positive d that is congruent to a multiple of a divides N, and is
\* no more than a: it is 1, since N is prime.
LEMMA InverseExists ==
    ASSUME NEW a \in Scalar
    PROVE  \E i \in Scalar : (a * i) % N = 1
<1> DEFINE Combination(d) == \E x \in Int : Cong(a * x, d)
           S == {d \in Nat : d > 0 /\ Combination(d)}
<1>0. N \in Nat /\ N > 2 /\ a \in Int /\ a > 0 /\ a < N
  BY OrderFacts DEF Scalar
<1>1. a \in S
  <2>1. a * 1 = a
    BY <1>0, Z3
  <2>2. a = a + 0 * N
    BY <1>0, Z3
  <2>3. Cong(a * 1, a)
    BY <2>1, <2>2 DEF Cong
  <2> QED
    BY <1>0, <2>3
<1>2. PICK d \in S : \A e \in S : d <= e
  <2>1. S \subseteq Nat /\ S # {}
    BY <1>1
  <2> HIDE DEF S
  <2> QED
    BY <2>1, LeastNatural
<1>3. d \in Nat /\ d > 0 /\ d <= a
  BY <1>1, <1>2
<1>4. PICK x \in Int : Cong(a * x, d)
  BY <1>2
<1>5. N % d = 0
  <2> DEFINE m == N % d
  <2>1. m \in 0 .. d - 1 /\ \E q \in Int : N = q * d + m
    <3>1. N \in Int /\ d \in Nat /\ d > 0
      BY <1>0, <1>3
    <3> QED
      BY <3>1, Remainder, Zenon
  <2> HIDE DEF m
  <2>2. PICK q \in Int : N = q * d + m
    BY <2>1
  <2>3. PICK k \in Int : a * x = d + k * N
    BY <1>4 DEF Cong
  <2>4. a * ((0 - q) * x) = m + (0 - (1 + q * k)) * N
    <3>1. a * ((0 - q) * x) = (0 - q) * (a * x)
      BY <1>0, Z3
    <3>2. (0 - q) * (a * x) = (0 - q) * d + (0 - q) * (k * N)
      BY <1>0, <1>3, <2>3, Z3
    <3>3. (0 - q) * d = m - N
      BY <1>0, <1>3, <2>1, <2>2, Z3
    <3>4. (m - N) + (0 - q) * (k * N) = m + (0 - (1 + q * k)) * N
      BY <1>0, <2>1, Z3
    <3> QED
      BY <3>1, <3>2, <3>3, <3>4
  <2>5. (0 - q) * x \in Int /\ 0 - (1 + q * k) \in Int
    BY Z3
  <2>6. Combination(m)
    BY <2>4, <2>5 DEF Cong
  <2>7. ~ (m > 0)
    <3>1. ASSUME m > 0 PROVE FALSE
      <4>1. m \in S
        BY <2>1, <2>6, <3>1, <1>3
      <4>2. d <= m
        BY <1>2, <4>1
      <4> QED
        BY <1>3, <2>1, <4>2
    <3> QED
      BY <3>1
  <2> QED
    BY <1>3, <2>1, <2>7 DEF m
<1>6. d = 1
  BY <1>0, <1>3, <1>5, KmsSignerAssumption
<1>7. PICK i : i = x % N /\ i \in 0 .. N - 1 /\ i \in Int /\ Cong(x, i)
  BY CongMod
<1>8. Cong(a * i, 1)
  <2>1. Cong(a * x, a * i) /\ a * x \in Int /\ a * i \in Int
    <3>1. a * x \in Int /\ a * i \in Int /\ a \in Int /\ i \in Int
      BY <1>0, <1>7
    <3> QED
      BY <1>7, <3>1, CongSame, Zenon
  <2> QED
    BY <1>0, <1>4, <1>6, <1>7, <2>1, CongSame, CongTrans
<1>9. (a * i) % N = 1
  <2>1. a * i \in Int /\ 1 \in 0 .. N - 1
    BY <1>0, <1>7
  <2> QED
    BY <1>8, <2>1, CongMod
<1>10. i # 0
  <2>1. ASSUME i = 0 PROVE FALSE
    <3>1. a * i = 0 * N + 0 /\ a * i \in Int
      BY <1>0, <2>1, Z3
    <3>2. 0 \in 0 .. N - 1 /\ 0 \in Int
      BY <1>0
    <3>3. (a * i) % N = 0
      BY <1>0, <3>1, <3>2, RemainderUnique
    <3> QED
      BY <1>9, <3>3
  <2> QED
    BY <2>1
<1>11. i \in Scalar
  BY <1>0, <1>7, <1>10 DEF Scalar
<1> QED
  BY <1>9, <1>11

\* Multiplying by a scalar and by its inverse changes nothing modulo N.
LEMMA InverseCancels ==
    ASSUME NEW a \in Scalar, NEW b \in Int
    PROVE  InverseModN(a) \in Scalar /\ Cong(InverseModN(a) * (a * b), b)
<1> DEFINE i == InverseModN(a)
<1>1. i \in Scalar /\ (a * i) % N = 1
  BY InverseExists DEF InverseModN
<1> HIDE DEF i
<1>2. a \in Int /\ i \in Int /\ a * i \in Int
  BY <1>1, OrderFacts DEF Scalar
<1>3. Cong(a * i, 1)
  BY <1>1, <1>2, CongMod
<1>4. Cong(b * (a * i), b * 1)
  <2>1. 1 \in Int
    OBVIOUS
  <2> QED
    BY <1>2, <1>3, <2>1, CongSame, Zenon
<1>5. b * (a * i) = i * (a * b) /\ b * 1 = b
  BY <1>2, Z3
<1> QED
  BY <1>1, <1>4, <1>5 DEF i

-----------------------------------------------------------------------------
(* Points.                                                                 *)

\* A point is given by its x and its parity, and shares its x with its negative.
LEMMA PointFacts ==
    ASSUME NEW p \in Scalar
    PROVE  /\ XCoord[p] \in Nat /\ YParity[p] \in {0, 1}
           /\ N - p \in Scalar /\ XCoord[N - p] = XCoord[p]
           /\ \A q \in Scalar : XCoord[q] = XCoord[p] /\ YParity[q] = YParity[p] => q = p
<1>1. XCoord[p] \in Nat /\ YParity[p] \in {0, 1} /\ N - p \in Scalar
  BY CurveAssumption, OrderFacts DEF Scalar
<1>2. XCoord[N - p] = XCoord[p] /\ YParity[p] # YParity[N - p]
  BY <1>1, CurveAssumption
<1>3. ASSUME NEW q \in Scalar, XCoord[q] = XCoord[p], YParity[q] = YParity[p]
      PROVE  q = p
  <2>1. q \in {p, N - p}
    BY <1>3, CurveAssumption, Zenon
  <2> QED
    BY <1>2, <1>3, <2>1
<1> QED
  BY <1>1, <1>2, <1>3

\* An x, reduced (external: R of the answer of KMS).
LEMMA ReducedX ==
    ASSUME NEW k \in Scalar
    PROVE  /\ XCoord[k] % N \in 0 .. N - 1
           /\ XCoord[k] < N => XCoord[k] % N = XCoord[k]
<1>1. XCoord[k] \in Nat /\ N \in Nat /\ N > 0
  BY PointFacts, OrderFacts
<1> DEFINE x == XCoord[k]
<1> HIDE DEF x
<1>2. x \in Nat
  BY <1>1 DEF x
<1>3. x % N \in 0 .. N - 1
  BY <1>2, CongMod
<1>4. ASSUME x < N PROVE x % N = x
  <2>1. x \in 0 .. N - 1 /\ x = 0 * N + x
    BY <1>1, <1>2, <1>4
  <2> QED
    BY <1>1, <1>2, <2>1, RemainderUnique
<1> QED
  BY <1>3, <1>4 DEF x

\* k is the point of a signature (r, s) of h under pub.
PointOf(k, h, r, s, pub) ==
    k \in Scalar /\ r \in Scalar /\ XCoord[k] % N = r /\ (s * k) % N = (h + r * pub) % N

LEMMA SameRemainder ==
    ASSUME NEW a \in Int, NEW b \in Int
    PROVE  a % N = b % N <=> Cong(a, b)
<1>1. /\ a % N \in 0 .. N - 1 /\ a % N \in Int /\ Cong(a, a % N)
      /\ b % N \in 0 .. N - 1 /\ b % N \in Int /\ Cong(b, b % N)
  BY CongMod, Zenon
<1>2. ASSUME a % N = b % N PROVE Cong(a, b)
  <2>1. Cong(b % N, b)
    BY <1>1, CongSame, Zenon
  <2> QED
    BY <1>1, <1>2, <2>1, CongTrans, Zenon
<1>3. ASSUME Cong(a, b) PROVE a % N = b % N
  <2>1. Cong(a, b % N)
    BY <1>1, <1>3, CongTrans, Zenon
  <2> QED
    BY <1>1, <2>1, CongMod, Zenon
<1> QED
  BY <1>2, <1>3

\* If R did not lose the x of the point, recovery under the parity of the point
\* gives the key that signed.
LEMMA Recovers ==
    ASSUME NEW h \in Int, NEW s \in Int, NEW pub \in Scalar, NEW k, NEW r,
           PointOf(k, h, r, s, pub), XCoord[k] < N
    PROVE  Ecrecover(h, r, s, YParity[k]) = pub
<1> DEFINE R == CHOOSE p \in Lifts(r, YParity[k]) : TRUE
           i == InverseModN(r)
<1>1. k \in Scalar /\ XCoord[k] = r /\ r \in Scalar
  BY ReducedX DEF PointOf
<1>2. k \in Lifts(r, YParity[k])
  BY <1>1 DEF Lifts
<1>21. R = k
  <2>1. R \in Lifts(r, YParity[k])
    BY <1>2
  <2> HIDE DEF R
  <2> QED
    BY <1>1, <2>1, PointFacts DEF Lifts
<1>3. Ecrecover(h, r, s, YParity[k]) = (i * (s * k - h)) % N
  BY <1>2, <1>21 DEF Ecrecover
<1>4. i \in Scalar /\ \A b \in Int : Cong(i * (r * b), b)
  BY <1>1, InverseCancels
<1> HIDE DEF R, i
<1>5. /\ k \in Int /\ r \in Int /\ pub \in Int /\ i \in Int /\ pub \in 0 .. N - 1
      /\ s * k \in Int /\ s * k - h \in Int /\ r * pub \in Int /\ h + r * pub \in Int
      /\ i * (s * k - h) \in Int /\ i * (r * pub) \in Int /\ 0 - h \in Int
  BY <1>1, <1>4, OrderFacts DEF Scalar
<1>6. Cong(s * k, h + r * pub)
  BY <1>5, SameRemainder DEF PointOf
<1>7. Cong(s * k + (0 - h), (h + r * pub) + (0 - h))
  BY <1>5, <1>6, CongSame, Zenon
<1>8. s * k + (0 - h) = s * k - h /\ (h + r * pub) + (0 - h) = r * pub
  BY <1>5, Z3
<1>9. Cong(i * (s * k - h), i * (r * pub))
  <2>1. Cong(s * k - h, r * pub)
    BY <1>7, <1>8
  <2> QED
    BY <1>5, <2>1, CongSame, Zenon
<1>10. Cong(i * (s * k - h), pub)
  <2>1. Cong(i * (r * pub), pub)
    BY <1>4, <1>5
  <2> QED
    BY <1>5, <1>9, <2>1, CongTrans, Zenon
<1> QED
  BY <1>3, <1>5, <1>10, CongMod, Zenon

\* A signature with a point is one that the textbook verification accepts.
LEMMA Accepted ==
    ASSUME NEW h \in Int, NEW s \in Scalar, NEW pub \in Scalar, NEW k, NEW r,
           PointOf(k, h, r, s, pub)
    PROVE  SignedPoint(h, r, s, pub) = k /\ Verifies(h, r, s, pub)
<1> DEFINE i == InverseModN(s)
           p == (i * (h + r * pub)) % N
<1>1. k \in Scalar /\ XCoord[k] % N = r /\ r \in Scalar
  BY DEF PointOf
<1>2. i \in Scalar /\ \A b \in Int : Cong(i * (s * b), b)
  BY InverseCancels
<1> HIDE DEF i
<1>3. /\ k \in Int /\ r \in Int /\ pub \in Int /\ i \in Int /\ k \in 0 .. N - 1 /\ k # 0
      /\ s \in Int /\ s * k \in Int /\ h + r * pub \in Int
      /\ i * (h + r * pub) \in Int /\ i * (s * k) \in Int
  BY <1>1, <1>2, OrderFacts DEF Scalar
<1>4. Cong(h + r * pub, s * k)
  <2>1. Cong(s * k, h + r * pub)
    BY <1>3, SameRemainder DEF PointOf
  <2> QED
    BY <1>3, <2>1, CongSame, Zenon
<1>5. Cong(i * (h + r * pub), i * (s * k))
  BY <1>3, <1>4, CongSame, Zenon
<1>6. Cong(i * (h + r * pub), k)
  <2>1. Cong(i * (s * k), k)
    BY <1>2, <1>3
  <2> QED
    BY <1>3, <1>5, <2>1, CongTrans, Zenon
<1>7. p = k
  BY <1>3, <1>6, CongMod, Zenon
<1>8. SignedPoint(h, r, s, pub) = k
  BY <1>7 DEF SignedPoint, i
<1> QED
  BY <1>1, <1>3, <1>8 DEF Verifies, Infinity

\* If R lost the x of the point, no recovery gives the key that signed: the
\* point that r is taken for is another one.
LEMMA Loses ==
    ASSUME NEW h \in Int, NEW s \in Scalar, NEW pub \in Scalar, NEW k, NEW r,
           PointOf(k, h, r, s, pub), XCoord[k] >= N, NEW v \in {0, 1}
    PROVE  Ecrecover(h, r, s, v) # pub
<1> SUFFICES ASSUME Ecrecover(h, r, s, v) = pub
             PROVE  FALSE
  OBVIOUS
<1> DEFINE R == CHOOSE p \in Lifts(r, v) : TRUE
           i == InverseModN(r)
<1>1. k \in Scalar /\ r \in Scalar /\ pub # Infinity
  BY OrderFacts DEF PointOf, Infinity, Scalar
<1>2. Lifts(r, v) # {} /\ (i * (s * R - h)) % N = pub
  BY <1>1 DEF Ecrecover
<1>3. R \in Scalar /\ XCoord[R] = r
  <2>1. R \in Lifts(r, v)
    BY <1>2
  <2> QED
    BY <2>1 DEF Lifts
<1>4. i \in Scalar /\ \A b \in Int : Cong(i * (r * b), b)
  BY <1>1, InverseCancels
<1> HIDE DEF R, i
<1>5. /\ R \in Int /\ r \in Int /\ pub \in Int /\ i \in Int /\ s \in Int /\ N \in Nat
      /\ pub \in 0 .. N - 1 /\ s * R \in Int /\ s * R - h \in Int
      /\ r * pub \in Int /\ h + r * pub \in Int
      /\ i * (s * R - h) \in Int /\ r * (i * (s * R - h)) \in Int
      /\ i * (r * (s * R - h)) \in Int
  BY <1>1, <1>3, <1>4, OrderFacts DEF Scalar
<1>6. Cong(s * R - h, r * pub)
  <2>1. Cong(i * (s * R - h), pub)
    BY <1>2, <1>5, CongMod, Zenon
  <2>2. Cong(r * (i * (s * R - h)), r * pub)
    BY <1>5, <2>1, CongSame, Zenon
  <2>3. r * (i * (s * R - h)) = i * (r * (s * R - h))
    <3> DEFINE c == s * R - h
    <3>1. c \in Int
      BY <1>5
    <3> HIDE DEF c
    <3>2. r * (i * c) = i * (r * c)
      BY <1>5, <3>1, Z3
    <3> QED
      BY <3>2 DEF c
  <2>4. Cong(i * (r * (s * R - h)), s * R - h)
    BY <1>4, <1>5
  <2>5. Cong(s * R - h, i * (r * (s * R - h)))
    BY <1>5, <2>4, CongSame, Zenon
  <2> QED
    BY <1>5, <2>2, <2>3, <2>5, CongTrans
<1>7. (s * R) % N = (h + r * pub) % N
  <2>1. Cong((s * R - h) + h, r * pub + h)
    BY <1>5, <1>6, CongSame, Zenon
  <2>2. (s * R - h) + h = s * R /\ r * pub + h = h + r * pub
    BY <1>5
  <2>3. Cong(s * R, h + r * pub)
    BY <2>1, <2>2
  <2> QED
    BY <1>5, <2>3, SameRemainder, Zenon
<1>8. XCoord[R] < N /\ XCoord[R] % N = r
  <2>1. XCoord[R] < N
    BY <1>1, <1>3, OrderFacts DEF Scalar
  <2> QED
    BY <1>3, <2>1, ReducedX
<1>9. PointOf(R, h, r, s, pub)
  BY <1>1, <1>3, <1>7, <1>8 DEF PointOf
<1>10. R = k
  <2>1. SignedPoint(h, r, s, pub) = R
    BY <1>9, Accepted
  <2>2. SignedPoint(h, r, s, pub) = k
    BY Accepted
  <2> QED
    BY <2>1, <2>2
<1> QED
  BY <1>3, <1>5, <1>8, <1>10, PointFacts

\* What KMS answers is a signature whose point is its secret (external).
LEMMA KmsAnswers ==
    ASSUME NEW h \in Int, NEW pub \in Scalar, NEW k \in Scalar, NEW r \in Scalar,
           r = XCoord[k] % N
    PROVE  PointOf(k, h, r, (InverseModN(k) * (h + r * pub)) % N, pub)
<1> DEFINE c == h + r * pub
           i == InverseModN(k)
           s == (i * c) % N
<1>2. i \in Scalar /\ \A b \in Int : Cong(i * (k * b), b)
  BY InverseCancels
<1> HIDE DEF i
<1>3. c \in Int /\ i \in Int /\ k \in Int /\ i * c \in Int
  BY <1>2, OrderFacts DEF Scalar
<1>4. Cong(i * (k * c), c)
  BY <1>2, <1>3
<1> HIDE DEF c
<1>5. Cong(i * c, s) /\ s \in Int
  BY <1>3, CongMod, Zenon
<1> HIDE DEF s
<1>6. Cong(s, i * c) /\ s * k \in Int /\ k * (i * c) \in Int /\ i * (k * c) \in Int
  <2>1. Cong(s, i * c)
    BY <1>3, <1>5, CongSame, Zenon
  <2> QED
    BY <1>3, <1>5, <2>1
<1>7. Cong(k * s, k * (i * c))
  BY <1>3, <1>5, <1>6, CongSame, Zenon
<1>8. k * s = s * k /\ k * (i * c) = i * (k * c)
  BY <1>3, <1>5, Z3
<1>9. Cong(s * k, i * (k * c))
  BY <1>7, <1>8
<1>10. Cong(s * k, c)
  BY <1>3, <1>4, <1>6, <1>9, CongTrans, Zenon
<1>11. (s * k) % N = c % N
  BY <1>3, <1>6, <1>10, SameRemainder, Zenon
<1>12. PointOf(k, h, r, s, pub)
  BY <1>11 DEF PointOf, c
<1> QED
  BY <1>12 DEF c, i, s

\* Moving S to the lower half negates the point and keeps its x (kms.go:53-56).
LEMMA Negated ==
    ASSUME NEW h \in Int, NEW s \in Scalar, NEW pub \in Scalar, NEW k, NEW r,
           PointOf(k, h, r, s, pub)
    PROVE  PointOf(N - k, h, r, N - s, pub)
<1>1. /\ k \in Scalar /\ r \in Scalar /\ XCoord[k] % N = r
      /\ N - k \in Scalar /\ XCoord[N - k] % N = r
  BY PointFacts DEF PointOf
<1>2. /\ k \in Int /\ s \in Int /\ N \in Int /\ N - s - k \in Int
      /\ s * k \in Int /\ h + r * pub \in Int /\ (N - s) * (N - k) \in Int
  BY <1>1, OrderFacts DEF Scalar
<1>3. (N - s) * (N - k) = s * k + (N - s - k) * N
  BY <1>2, Z3
<1>4. Cong((N - s) * (N - k), s * k)
  BY <1>2, <1>3 DEF Cong
<1>5. Cong(s * k, h + r * pub)
  BY <1>2, SameRemainder DEF PointOf
<1>6. Cong((N - s) * (N - k), h + r * pub)
  BY <1>2, <1>4, <1>5, CongTrans, Zenon
<1>7. ((N - s) * (N - k)) % N = (h + r * pub) % N
  BY <1>2, <1>6, SameRemainder, Zenon
<1> QED
  BY <1>1, <1>7 DEF PointOf

-----------------------------------------------------------------------------
(* Sign.                                                                   *)

Recovered(v) == Ecrecover(hash, sigR, sigS, v)

\* R lost the x of the point.
XLost == XCoord[SignedPoint(hash, sigR, sigS, publicKey)] >= N

\* From the answer of KMS on, the signature has a point; V has been tried in
\* order, and what a recovery gave decided where Sign went.
SignInv ==
    /\ TypeOK
    /\ pc \in {"lowS", "try0", "try1", "signed", "error"} =>
         \E k \in Scalar : PointOf(k, hash, sigR, sigS, publicKey)
    /\ pc \in {"try0", "try1", "signed", "error"} => sigS <= HalfN
    /\ pc \in {"sign", "lowS", "try0"} => sigV = 0
    /\ pc = "try1" => Recovered(0) \notin {Infinity, publicKey}
    /\ pc = "signed" => Recovered(sigV) = publicKey /\ Recovered(0) # Infinity
    /\ pc = "error" => Recovered(0) = Infinity \/ XLost

LEMMA SignInit == Init => SignInv
BY OrderFacts DEF Init, SignInv, TypeOK, Scalar

LEMMA SignNext ==
    ASSUME SignInv, [Next]_vars
    PROVE  SignInv'
<1>0. /\ TypeOK /\ N \in Nat /\ N > 2 /\ HalfN \in Nat /\ N = 2 * HalfN + 1
      /\ hash \in Int /\ publicKey \in Scalar /\ publicKey # Infinity
      /\ sigS \in Scalar
  BY OrderFacts DEF SignInv, TypeOK, Scalar, Infinity
<1>1. CASE KmsSign
  <2>1. CASE /\ pc' = "kmsError"
             /\ UNCHANGED <<publicKey, hash, sigV, sigR, sigS>>
    BY <1>0, <2>1 DEF SignInv, TypeOK
  <2>2. ASSUME NEW k \in Scalar, sigR' = XCoord[k] % N,
               sigS' = (InverseModN(k) * (hash + sigR' * publicKey)) % N,
               sigR' # 0, sigS' # 0, pc' = "lowS",
               UNCHANGED <<publicKey, hash, sigV>>
        PROVE  SignInv'
    <3>1. sigR' \in Scalar
      BY <1>0, <2>2, ReducedX DEF Scalar
    <3>2. sigS' \in Scalar
      <4>1. InverseModN(k) \in Scalar
        BY <1>0, InverseCancels
      <4>2. InverseModN(k) * (hash + sigR' * publicKey) \in Int
        BY <1>0, <3>1, <4>1 DEF Scalar
      <4>3. sigS' \in 0 .. N - 1
        BY <2>2, <4>2, CongMod, Zenon
      <4> QED
        BY <1>0, <2>2, <4>3 DEF Scalar
    <3>3. PointOf(k, hash, sigR', sigS', publicKey)
      BY <1>0, <2>2, <3>1, KmsAnswers
    <3>4. \E l \in Scalar : PointOf(l, hash', sigR', sigS', publicKey')
      BY <2>2, <3>3
    <3>5. TypeOK'
      BY <1>0, <2>2, <3>1, <3>2 DEF TypeOK
    <3> QED
      BY <1>1, <2>2, <3>4, <3>5 DEF KmsSign, SignInv
  <2> QED
    BY <1>1, <2>1, <2>2 DEF KmsSign
<1>2. CASE LowS
  <2>1. PICK k \in Scalar : PointOf(k, hash, sigR, sigS, publicKey)
    BY <1>2 DEF LowS, SignInv
  <2>2. /\ sigS' \in Scalar /\ sigS' <= HalfN
        /\ sigS' = sigS \/ sigS' = N - sigS
    BY <1>0, <1>2 DEF LowS, Scalar
  <2>3. N - k \in Scalar
    BY PointFacts
  <2>4. PointOf(k, hash, sigR, sigS', publicKey) \/ PointOf(N - k, hash, sigR, sigS', publicKey)
    BY <1>0, <2>1, <2>2, Negated
  <2>5. UNCHANGED <<publicKey, hash, sigR, sigV>> /\ pc' = "try0" /\ pc = "lowS"
    BY <1>2 DEF LowS
  <2>6. \E l \in Scalar : PointOf(l, hash', sigR', sigS', publicKey')
    BY <2>3, <2>4, <2>5
  <2>7. TypeOK'
    BY <1>0, <2>2, <2>5 DEF TypeOK
  <2> QED
    BY <1>0, <2>2, <2>5, <2>6, <2>7 DEF SignInv
<1>3. CASE Try0
  BY <1>0, <1>3 DEF Try0, AfterRecovery, SignInv, TypeOK, Recovered, XLost
<1>4. CASE Try1
  <2>1. PICK k \in Scalar : PointOf(k, hash, sigR, sigS, publicKey)
    BY <1>4 DEF Try1, SignInv
  <2>2. SignedPoint(hash, sigR, sigS, publicKey) = k
    BY <1>0, <2>1, Accepted
  <2>3. Recovered(0) \notin {Infinity, publicKey} /\ sigS <= HalfN
    BY <1>4 DEF Try1, SignInv
  <2>4. sigV' = 1 /\ UNCHANGED <<publicKey, hash, sigR, sigS>>
    BY <1>4 DEF Try1
  <2>5. ASSUME XCoord[k] < N PROVE Recovered(1) = publicKey
    <3>1. Recovered(YParity[k]) = publicKey
      <4>1. hash \in Int /\ sigS \in Int /\ publicKey \in Scalar
        BY <1>0 DEF Scalar
      <4> QED
        BY <2>1, <2>5, <4>1, Recovers, Zenon DEF Recovered
    <3>2. YParity[k] \in {0, 1}
      BY PointFacts
    <3> QED
      BY <2>3, <3>1, <3>2
  <2>6. XCoord[k] < N \/ XCoord[k] >= N
    BY <1>0, PointFacts
  <2>7. (pc' = "signed" /\ Recovered(1) = publicKey) \/ (pc' = "error" /\ XLost)
    BY <1>0, <1>4, <2>2, <2>5, <2>6 DEF Try1, AfterRecovery, Recovered, XLost
  <2> QED
    BY <1>0, <2>1, <2>3, <2>4, <2>7 DEF SignInv, TypeOK, Recovered, XLost
<1>5. CASE UNCHANGED vars
  BY <1>5 DEF vars, SignInv, TypeOK, Recovered, XLost
<1> QED
  BY <1>1, <1>2, <1>3, <1>4, <1>5 DEF Next

LEMMA SignInvariant == Spec => []SignInv
<1>1. SignInv /\ [Next]_vars => SignInv'
  BY SignNext
<1> QED
  BY <1>1, SignInit, PTL DEF Spec

\* The parts of a signature stay scalars of the group, also after S was moved
\* (kms.go:53-56): neither R nor S is ever 0 or outgrows its 32 bytes
\* (kms.go:59-60).
THEOREM SignTypeCorrect == Spec => []TypeOK
<1>1. SignInv => TypeOK
  BY DEF SignInv
<1> QED
  BY <1>1, SignInvariant, PTL

\* For a group of any prime order, what Sign returns (kms.go:67, 77) has S in
\* the lower half, is a valid signature of the hash, and carries the V under
\* which the sender's key is recovered.
THEOREM SignReturnsValid == Spec => []ReturnsValid
<1>1. ASSUME SignInv PROVE ReturnsValid
  <2> SUFFICES ASSUME pc = "signed"
               PROVE  /\ sigS <= HalfN
                      /\ Verifies(hash, sigR, sigS, publicKey)
                      /\ Ecrecover(hash, sigR, sigS, sigV) = publicKey
    BY DEF ReturnsValid
  <2>1. PICK k \in Scalar : PointOf(k, hash, sigR, sigS, publicKey)
    BY <1>1 DEF SignInv
  <2>2. hash \in Int /\ sigS \in Scalar /\ publicKey \in Scalar
    BY <1>1, OrderFacts DEF SignInv, TypeOK
  <2>3. Verifies(hash, sigR, sigS, publicKey)
    BY <2>1, <2>2, Accepted
  <2> QED
    BY <1>1, <2>3 DEF SignInv, Recovered
<1> QED
  BY <1>1, SignInvariant, PTL

\* For a group of any prime order and every answer of KMS, Sign returns a
\* signature (kms.go:67, 77) unless R lost the x of its point, which recovery
\* ids 2 and 3 would have restored, or recovery under V = 0 is undefined; and in
\* these two cases it always gives up (kms.go:64, 74, 81).
THEOREM SignGivesUpExactly == Spec => []GivesUpExactly
<1>1. ASSUME SignInv PROVE GivesUpExactly
  <2> SUFFICES ASSUME pc \in {"signed", "error"}
               PROVE  pc = "error" <=> XLost \/ Recovered(0) = Infinity
    BY DEF GivesUpExactly, XLost, Recovered
  <2>1. pc = "error" => XLost \/ Recovered(0) = Infinity
    BY <1>1 DEF SignInv
  <2>2. pc = "signed" => Recovered(sigV) = publicKey /\ Recovered(0) # Infinity
    BY <1>1 DEF SignInv
  <2>3. ASSUME XLost PROVE Recovered(sigV) # publicKey
    <3>1. PICK k \in Scalar : PointOf(k, hash, sigR, sigS, publicKey)
      BY <1>1 DEF SignInv
    <3>2. /\ hash \in Int /\ sigS \in Scalar /\ publicKey \in Scalar
          /\ sigV \in {0, 1}
      BY <1>1, OrderFacts DEF SignInv, TypeOK
    <3>3. XCoord[k] >= N
      BY <2>3, <3>1, <3>2, Accepted DEF XLost
    <3> QED
      BY <3>1, <3>2, <3>3, Loses DEF Recovered
  <2> QED
    BY <2>1, <2>2, <2>3
<1> QED
  BY <1>1, SignInvariant, PTL
=============================================================================
