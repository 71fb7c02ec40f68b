-------------------------- MODULE ArithmeticLemmas --------------------------
(***************************************************************************)
(* Facts about Min, \div, %, words laid out by offset, and functions        *)
(* defined by recursion on the natural numbers, at any size.               *)
(***************************************************************************)
EXTENDS FiniteSetsExt, FiniteSetTheorems, TLAPS

\* A non-empty set of natural numbers has a least element, so Min is one.
\* (The sets 0 .. x, for x in S, have a minimal one under strict inclusion.)
LEMMA MinIsLeast ==
  ASSUME NEW S \in SUBSET Nat, S # {}
  PROVE  Min(S) \in S /\ \A x \in S : Min(S) <= x
<1> DEFINE T == {0 .. x : x \in S}
<1>1. T \subseteq FiniteSubsetsOf(Nat) /\ T # {}
  <2>1. \A x \in S : 0 .. x \in SUBSET Nat /\ IsFiniteSet(0 .. x)
    BY FS_Interval
  <2> QED
    BY <2>1 DEF FiniteSubsetsOf
<1>2. \E u \in T : \A v \in T : <<v, u>> \notin StrictSubsetOrdering(Nat)
  <2> HIDE DEF T
  <2> QED
    BY <1>1, FS_StrictSubsetOrderingWellFounded, WFMin
<1>3. PICK m \in S : \A y \in S : <<0 .. y, 0 .. m>> \notin StrictSubsetOrdering(Nat)
  BY <1>2
<1>4. \A y \in S : m <= y
  <2> SUFFICES ASSUME NEW y \in S, ~ (m <= y)
               PROVE  FALSE
    OBVIOUS
  <2>1. m \in Nat /\ y \in Nat /\ y < m
    OBVIOUS
  <2>2. 0 .. y \subseteq 0 .. m /\ m \in 0 .. m /\ m \notin 0 .. y
    BY <2>1
  <2>3. 0 .. y \in SUBSET Nat /\ 0 .. m \in SUBSET Nat
    OBVIOUS
  <2>4. <<0 .. y, 0 .. m>> \in StrictSubsetOrdering(Nat)
    BY <2>2, <2>3 DEF StrictSubsetOrdering
  <2> QED
    BY <1>3, <2>4
<1> QED
  BY <1>4 DEF Min

\* The table index % PROCS_MAX of the scan in yeild, on either side of a wrap.
LEMMA ModIdentity ==
  ASSUME NEW n \in Nat \ {0}, NEW a \in 0 .. n - 1
  PROVE  a % n = a
  OBVIOUS

LEMMA ModWrap ==
  ASSUME NEW n \in Nat \ {0}, NEW a \in 0 .. n - 1
  PROVE  (n + a) % n = a
  OBVIOUS

LEMMA ModRange ==
  ASSUME NEW n \in Nat \ {0}, NEW a \in Int
  PROVE  a % n \in 0 .. n - 1
  OBVIOUS

\* A number is its quotient times the divisor plus its remainder.
LEMMA DivMod ==
  ASSUME NEW a \in Nat, NEW n \in Nat \ {0}
  PROVE  a \div n \in Nat /\ a % n \in 0 .. n - 1 /\ a = n * (a \div n) + (a % n)
  OBVIOUS

\* Products of natural numbers, for leaves where the rest is linear.
LEMMA ProductOfNat ==
  ASSUME NEW a \in Nat, NEW b \in Nat PROVE a * b \in Nat
  OBVIOUS

\* The interval of n numbers that starts at n * a ends at most at n * b.
LEMMA ProductGrows ==
  ASSUME NEW a \in Nat, NEW b \in Nat, NEW n \in Nat, a < b
  PROVE  n * a + n <= n * b
<1>1. n * (b - a - 1) \in Nat
  BY ProductOfNat
<1> QED
  BY <1>1

\* Quotient and remainder of a number put together from a quotient and a
\* remainder, as the page number and the flags of a page-table entry.
LEMMA DivModUnique ==
  ASSUME NEW q \in Nat, NEW n \in Nat \ {0}, NEW r \in 0 .. n - 1
  PROVE  (n * q + r) \div n = q /\ (n * q + r) % n = r
<1>1. PICK a \in Nat : a = n * q + r
  BY ProductOfNat
<1>2. PICK d \in Nat : d = a \div n
  BY DivMod
<1>3. PICK m \in 0 .. n - 1 : m = a % n
  BY DivMod
<1>4. n * q + r = n * d + m
  BY <1>1, <1>2, <1>3, DivMod
<1>5. ~ (q < d)
  <2> SUFFICES ASSUME q < d PROVE FALSE
    OBVIOUS
  <2>1. n * q + n <= n * d
    BY ProductGrows
  <2>2. n * q \in Nat /\ n * d \in Nat
    BY ProductOfNat
  <2> QED
    BY <1>4, <2>1, <2>2
<1>6. ~ (d < q)
  <2> SUFFICES ASSUME d < q PROVE FALSE
    OBVIOUS
  <2>1. n * d + n <= n * q
    BY ProductGrows
  <2>2. n * q \in Nat /\ n * d \in Nat
    BY ProductOfNat
  <2> QED
    BY <1>4, <2>1, <2>2
<1>7. q = d
  BY <1>5, <1>6
<1>8. r = m
  BY <1>4, <1>7, ProductOfNat
<1> QED
  BY <1>1, <1>2, <1>3, <1>7, <1>8

\* An offset below n into one of b intervals of length n.
LEMMA ProductBound ==
  ASSUME NEW n \in Nat, NEW a \in Nat, NEW b \in Nat, a < b, NEW r \in Nat, r < n
  PROVE  n * a + r < n * b
<1>1. n * a \in Nat /\ n * b \in Nat /\ n * a + n <= n * b
  BY ProductGrows, ProductOfNat
<1> QED
  BY <1>1

\* The quotient of a number below n * b.
LEMMA QuotientBound ==
  ASSUME NEW a \in Nat, NEW n \in Nat \ {0}, NEW b \in Nat, a < n * b
  PROVE  a \div n < b
<1>1. PICK d \in Nat : d = a \div n
  BY DivMod
<1>2. PICK m \in 0 .. n - 1 : m = a % n
  BY DivMod
<1>3. a = n * d + m
  BY <1>1, <1>2, DivMod
<1> SUFFICES ASSUME ~ (d < b) PROVE FALSE
  BY <1>1
<1>4. CASE d = b
  BY <1>3, <1>4, ProductOfNat
<1>5. CASE b < d
  <2>1. n * b + n <= n * d /\ n * b \in Nat /\ n * d \in Nat
    BY <1>5, ProductGrows, ProductOfNat
  <2> QED
    BY <1>3, <2>1
<1> QED
  BY <1>4, <1>5

\* Dividing twice is dividing by the product.
LEMMA QuotientOfQuotient ==
  ASSUME NEW a \in Nat, NEW n \in Nat \ {0}, NEW k \in Nat \ {0}
  PROVE  (a \div n) \div k = a \div (k * n)
<1>1. PICK d \in Nat : d = a \div n
  BY DivMod
<1>2. PICK m \in 0 .. n - 1 : m = a % n
  BY DivMod
<1>3. a = n * d + m
  BY <1>1, <1>2, DivMod
<1>4. PICK e \in Nat : e = d \div k
  BY DivMod
<1>5. PICK j \in 0 .. k - 1 : j = d % k
  BY DivMod
<1>6. d = k * e + j
  BY <1>4, <1>5, DivMod
<1>7. a = (k * n) * e + (n * j + m)
  BY <1>3, <1>6
<1>8. n * j + m \in Nat /\ n * j + m < n * k
  BY ProductBound, ProductOfNat
<1>9. k * n \in Nat \ {0}
  <2>1. k * n = n * (k - 1) + n /\ n * (k - 1) \in Nat
    BY ProductOfNat
  <2> QED
    BY <2>1
<1>10. n * j + m \in 0 .. k * n - 1
  BY <1>8, <1>9
<1>11. a \div (k * n) = e
  BY <1>7, <1>9, <1>10, DivModUnique
<1> QED
  BY <1>1, <1>4, <1>11

\* Words stored by their offset from a stack pointer that has been moved down
\* by their number are read back at the same offsets.
LEMMA PushedWords ==
  ASSUME NEW S \in Nat, NEW d \in Nat, NEW n \in Nat, d + n + 1 <= S,
         NEW W, NEW mem \in [1 .. S -> W],
         NEW w, \A off \in 0 .. n : w[off] \in W,
         NEW m,
         m = [i \in 1 .. S |-> IF i \in d + 1 .. d + n + 1 THEN w[d + n + 1 - i]
                                                         ELSE mem[i]]
  PROVE  m \in [1 .. S -> W] /\ \A off \in 0 .. n : m[d + n + 1 - off] = w[off]
<1>1. \A off \in 0 .. n :
        /\ d + n + 1 - off \in 1 .. S
        /\ d + n + 1 - off \in d + 1 .. d + n + 1
        /\ d + n + 1 - (d + n + 1 - off) = off
  OBVIOUS
<1>2. \A i \in d + 1 .. d + n + 1 : d + n + 1 - i \in 0 .. n
  OBVIOUS
<1>3. \A i \in 1 .. S : m[i] = IF i \in d + 1 .. d + n + 1 THEN w[d + n + 1 - i]
                                                          ELSE mem[i]
  OBVIOUS
<1>4. m \in [1 .. S -> W]
  BY <1>2
<1>5. \A off \in 0 .. n : m[d + n + 1 - off] = w[off]
  BY <1>1, <1>3
<1> QED
  BY <1>4, <1>5

\* Floor division, of negative numbers too.
LEMMA IntDivMod ==
  ASSUME NEW a \in Int, NEW n1 \in Nat \ {0}
  PROVE  a \div n1 \in Int /\ a % n1 \in 0 .. n1 - 1 /\ a = n1 * (a \div n1) + (a % n1)
  OBVIOUS

LEMMA IntDivModUnique ==
  ASSUME NEW q \in Int, NEW n1 \in Nat \ {0}, NEW r \in 0 .. n1 - 1
  PROVE  (n1 * q + r) \div n1 = q /\ (n1 * q + r) % n1 = r
<1>0. \A x, y \in Int : x < y => n1 * x + n1 <= n1 * y
  <2> SUFFICES ASSUME NEW x \in Int, NEW y \in Int, x < y PROVE n1 * x + n1 <= n1 * y
    OBVIOUS
  <2>1. PICK z \in Nat : y = x + 1 + z
    <3>1. y - x - 1 \in Nat /\ y = x + 1 + (y - x - 1)
      OBVIOUS
    <3> QED
      BY <3>1
  <2>2. n1 * z \in Nat /\ n1 * y = n1 * x + n1 + n1 * z /\ n1 * x \in Int
    BY <2>1, ProductOfNat
  <2> QED
    BY <2>2
<1>1. PICK a \in Int : a = n1 * q + r
  OBVIOUS
<1>2. PICK e \in Int : e = a \div n1
  BY IntDivMod
<1>3. PICK m \in 0 .. n1 - 1 : m = a % n1
  BY IntDivMod
<1>4. n1 * q + r = n1 * e + m
  BY <1>1, <1>2, <1>3, IntDivMod
<1>5. PICK x \in Int : x = n1 * q
  OBVIOUS
<1>6. PICK y \in Int : y = n1 * e
  OBVIOUS
<1>7. q = e
  <2>1. q < e => x + n1 <= y
    BY <1>0, <1>5, <1>6
  <2>2. e < q => y + n1 <= x
    BY <1>0, <1>5, <1>6
  <2>3. x + r = y + m
    BY <1>4, <1>5, <1>6
  <2> QED
    BY <2>1, <2>2, <2>3
<1>8. r = m
  <2>1. x + r = y + m /\ x = y
    BY <1>4, <1>5, <1>6, <1>7
  <2> QED
    BY <2>1
<1> QED
  BY <1>1, <1>2, <1>3, <1>7, <1>8

\* One digit of a remainder is the same digit of the number.
LEMMA DigitOfRemainder ==
  ASSUME NEW a \in Int, NEW t \in Nat \ {0}, NEW b \in Nat \ {0}, NEW m \in Nat \ {0}
  PROVE  ((a % (t * b * m)) \div t) % b = (a \div t) % b
<1>1. PICK tm \in Nat \ {0} : tm = b * m
  <2>1. b * m \in Nat \ {0}
    OBVIOUS
  <2> QED
    BY <2>1
<1>2. PICK M \in Nat \ {0} : M = t * tm /\ M = t * b * m
  <2>1. t * tm \in Nat \ {0} /\ t * tm = t * b * m
    BY <1>1
  <2> QED
    BY <2>1
<1>3. PICK Q \in Int : Q = a \div M
  BY IntDivMod
<1>4. PICK R \in 0 .. M - 1 : R = a % M
  BY IntDivMod
<1>4a. a = M * Q + R
  BY <1>3, <1>4, IntDivMod
<1>5. PICK e \in Nat : e = R \div t
  BY DivMod
<1>6. PICK f \in 0 .. t - 1 : f = R % t
  BY DivMod
<1>6a. R = t * e + f
  BY <1>5, <1>6, DivMod
<1>7. a = t * (tm * Q + e) + f /\ tm * Q + e \in Int
  BY <1>2, <1>4a, <1>6a
<1>8. a \div t = tm * Q + e
  BY <1>7, IntDivModUnique
<1>9. PICK g \in Int : g = e \div b
  BY IntDivMod
<1>10. PICK h \in 0 .. b - 1 : h = e % b
  BY IntDivMod
<1>10a. e = b * g + h
  BY <1>9, <1>10, IntDivMod
<1>11. tm * Q + e = b * (m * Q + g) + h /\ m * Q + g \in Int
  BY <1>1, <1>10a
<1>12. (tm * Q + e) % b = h
  <2>1. PICK x \in Int : x = m * Q + g
    BY <1>11
  <2>2. (b * x + h) % b = h
    BY IntDivModUnique
  <2> QED
    BY <1>11, <2>1, <2>2
<1> QED
  BY <1>2, <1>4, <1>5, <1>8, <1>10, <1>12

\* The first digit of the last ones, and the rest of them.
LEMMA RemainderDigit ==
  ASSUME NEW w \in Nat, NEW t \in Nat \ {0}
  PROVE  (w % (10 * t)) \div t = (w \div t) % 10 /\ (w % (10 * t)) % t = w % t
<1>1. PICK m \in Nat \ {0} : m = 10 * t
  OBVIOUS
<1>2. PICK a \in Nat : a = w \div m
  BY DivMod
<1>3. PICK r \in 0 .. m - 1 : r = w % m
  BY DivMod
<1>4. w = m * a + r
  BY <1>2, <1>3, DivMod
<1>5. r \in Nat
  BY <1>1, <1>3
<1>6. PICK b \in Nat : b = r \div t
  BY <1>5, DivMod
<1>7. PICK e \in 0 .. t - 1 : e = r % t
  BY <1>5, DivMod
<1>8. r = t * b + e
  BY <1>5, <1>6, <1>7, DivMod
<1>9. b <= 9
  <2> SUFFICES ASSUME b >= 10 PROVE FALSE
    BY <1>6
  <2>1. t * b >= 10 * t
    OBVIOUS
  <2>2. r >= m
    BY <1>1, <1>7, <1>8, <2>1
  <2> QED
    BY <1>1, <1>3, <2>2
<1>10. PICK f \in Nat : f = 10 * a + b
  OBVIOUS
<1>11. w = t * f + e
  <2>1. m * a = t * (10 * a)
    BY <1>1
  <2>2. t * f = t * (10 * a) + t * b
    BY <1>10
  <2> QED
    BY <1>4, <1>8, <2>1, <2>2
<1>12. (t * f + e) \div t = f /\ (t * f + e) % t = e
  BY DivModUnique
<1>13. f % 10 = b
  BY <1>9, <1>10
<1> QED
  BY <1>1, <1>3, <1>6, <1>7, <1>11, <1>12, <1>13
-----------------------------------------------------------------------------
(* Induction and recursion *)

\* Induction, for a set in place of a predicate.
LEMMA InductionOnNat ==
  ASSUME NEW S \in SUBSET Nat, 0 \in S, \A x \in S : x + 1 \in S
  PROVE  S = Nat
<1> SUFFICES ASSUME S # Nat PROVE FALSE
  OBVIOUS
<1>1. Nat \ S # {} /\ Nat \ S \in SUBSET Nat
  OBVIOUS
<1>2. PICK m \in Nat \ S : \A x \in Nat \ S : m <= x
  <2>1. Min(Nat \ S) \in Nat \ S /\ \A x \in Nat \ S : Min(Nat \ S) <= x
    BY <1>1, MinIsLeast
  <2> QED
    BY <2>1
<1>3. m # 0 /\ m - 1 \in Nat
  BY <1>2
<1>4. m - 1 \in S
  BY <1>2, <1>3
<1>5. m - 1 + 1 \in S /\ m - 1 + 1 = m
  BY <1>4
<1> QED
  BY <1>5

IsStep(F, A) == F \in [Nat -> [A -> A]]
Iterates(g, a0, F, A) ==
  g \in [Nat -> A] /\ g[0] = a0 /\ \A k \in Nat : g[k + 1] = F[k][g[k]]

\* A function defined by recursion exists: the next value is F of the last one.
LEMMA RecursionOnNat ==
  ASSUME NEW A, NEW a0 \in A, NEW F, IsStep(F, A)
  PROVE  \E g : Iterates(g, a0, F, A)
<1> USE DEF IsStep
<1> DEFINE Upto(m, g) == /\ g \in [0 .. m -> A]
                         /\ g[0] = a0
                         /\ \A k \in 0 .. m - 1 : g[k + 1] = F[k][g[k]]
<1>1. \A m \in Nat : \E g : Upto(m, g)
  <2> DEFINE S == {m \in Nat : \E g : Upto(m, g)}
  <2>1. 0 \in S
    <3>1. Upto(0, [k \in 0 .. 0 |-> a0])
      OBVIOUS
    <3> QED
      BY <3>1
  <2>2. ASSUME NEW m \in S PROVE m + 1 \in S
    <3>1. PICK g : Upto(m, g)
      OBVIOUS
    <3> DEFINE h == [k \in 0 .. m + 1 |-> IF k = m + 1 THEN F[m][g[m]] ELSE g[k]]
    <3>2. m \in Nat /\ F[m][g[m]] \in A
      BY <3>1
    <3>3. h \in [0 .. m + 1 -> A] /\ h[0] = a0
      BY <3>1, <3>2
    <3>4. ASSUME NEW k \in 0 .. m PROVE h[k + 1] = F[k][h[k]]
      <4>1. CASE k = m
        BY <3>2, <4>1
      <4>2. CASE k < m
        <5>1. k \in 0 .. m - 1 /\ k + 1 \in 0 .. m + 1 /\ k \in 0 .. m + 1
          BY <3>2, <4>2
        <5>2. h[k + 1] = g[k + 1] /\ h[k] = g[k]
          BY <5>1, <3>2
        <5> QED
          BY <5>1, <5>2, <3>1
      <4> QED
        BY <4>1, <4>2, <3>2
    <3>5. Upto(m + 1, h)
      <4> HIDE DEF h
      <4> QED
        BY <3>2, <3>3, <3>4
    <3> HIDE DEF Upto, h
    <3> QED
      BY <3>2, <3>5
  <2> HIDE DEF Upto
  <2>3. S \in SUBSET Nat
    OBVIOUS
  <2> HIDE DEF S
  <2>4. S = Nat
    BY <2>1, <2>2, <2>3, InductionOnNat
  <2> QED
    BY <2>4 DEF S
<1>2. \A k \in Nat : \A m, j \in Nat : \A g, h :
        m >= k /\ j >= k /\ Upto(m, g) /\ Upto(j, h) => g[k] = h[k]
  <2> DEFINE S == {k \in Nat : \A m, j \in Nat : \A g, h :
                     m >= k /\ j >= k /\ Upto(m, g) /\ Upto(j, h) => g[k] = h[k]}
  <2>1. 0 \in S
    OBVIOUS
  <2> HIDE DEF Upto
  <2>2. ASSUME NEW k \in S PROVE k + 1 \in S
    <3>1. ASSUME NEW m \in Nat, NEW j \in Nat, NEW g, NEW h,
                 m >= k + 1, j >= k + 1, Upto(m, g), Upto(j, h)
          PROVE  g[k + 1] = h[k + 1]
      <4>1. g[k] = h[k] /\ k \in Nat
        BY <3>1
      <4>2. k \in 0 .. m - 1 /\ k \in 0 .. j - 1
        BY <3>1, <4>1
      <4>3. g[k + 1] = F[k][g[k]] /\ h[k + 1] = F[k][h[k]]
        BY <3>1, <4>2 DEF Upto
      <4> QED
        BY <4>1, <4>3
    <3>2. k + 1 \in Nat
      OBVIOUS
    <3> QED
      BY <3>1, <3>2
  <2>3. S \in SUBSET Nat
    OBVIOUS
  <2> HIDE DEF S
  <2>4. S = Nat
    BY <2>1, <2>2, <2>3, InductionOnNat
  <2> QED
    BY <2>4 DEF S
<1> DEFINE App(m) == CHOOSE g : Upto(m, g)
           f == [k \in Nat |-> App(k)[k]]
<1>3. \A m \in Nat : Upto(m, App(m))
  <2> HIDE DEF Upto
  <2> QED
    BY <1>1
<1> HIDE DEF App
<1>4. f \in [Nat -> A] /\ f[0] = a0
  BY <1>3
<1>5. ASSUME NEW k \in Nat PROVE f[k + 1] = F[k][f[k]]
  <2>1. App(k)[k] = App(k + 1)[k]
    <3> HIDE DEF Upto
    <3> QED
      BY <1>2, <1>3
  <2>2. App(k + 1)[k + 1] = F[k][App(k + 1)[k]]
    BY <1>3
  <2> QED
    BY <2>1, <2>2
<1> HIDE DEF f
<1> QED
  BY <1>4, <1>5 DEF Iterates

IsPowers(f, b) == f = [k \in Nat |-> IF k = 0 THEN 1 ELSE b * f[k - 1]]
Powers(f, b) ==
  f[0] = 1 /\ \A k \in Nat : f[k] \in Nat \ {0} /\ f[k + 1] = b * f[k]

\* The powers of a base are what their recursion says.
LEMMA PowersExist ==
  ASSUME NEW b \in Nat \ {0}
  PROVE  \E f : IsPowers(f, b)
<1> DEFINE F == [k \in Nat |-> [x \in Nat |-> b * x]]
<1>1. PICK g : Iterates(g, 1, F, Nat)
  <2>1. IsStep(F, Nat)
    BY ProductOfNat DEF IsStep
  <2> HIDE DEF F
  <2> QED
    BY <2>1, RecursionOnNat
<1>2. g \in [Nat -> Nat] /\ g[0] = 1 /\ \A k \in Nat : g[k + 1] = b * g[k]
  BY <1>1 DEF Iterates
<1>3. ASSUME NEW k \in Nat PROVE g[k] = IF k = 0 THEN 1 ELSE b * g[k - 1]
  <2>1. CASE k = 0
    BY <1>2, <2>1
  <2>2. CASE k # 0
    <3>1. k - 1 \in Nat /\ (k - 1) + 1 = k
      BY <2>2
    <3>2. g[(k - 1) + 1] = b * g[k - 1]
      BY ONLY <1>2, <3>1
    <3> QED
      BY <2>2, <3>1, <3>2
  <2> QED
    BY <2>1, <2>2
<1>4. IsPowers(g, b)
  BY <1>2, <1>3 DEF IsPowers
<1> QED
  BY <1>4

LEMMA PowersFollow ==
  ASSUME NEW b \in Nat \ {0}, NEW f, IsPowers(f, b)
  PROVE  Powers(f, b)
<1>1. \A k \in Nat : f[k] = IF k = 0 THEN 1 ELSE b * f[k - 1]
  BY DEF IsPowers
<1>2. ASSUME NEW k \in Nat PROVE f[k + 1] = b * f[k]
  <2>1. k + 1 \in Nat /\ k + 1 # 0 /\ (k + 1) - 1 = k
    OBVIOUS
  <2>2. f[k + 1] = b * f[(k + 1) - 1]
    BY ONLY <1>1, <2>1
  <2> QED
    BY <2>1, <2>2
<1>3. f[0] = 1
  BY <1>1
<1>4. \A k \in Nat : f[k] \in Nat \ {0}
  <2> DEFINE S == {k \in Nat : f[k] \in Nat \ {0}}
  <2>1. 0 \in S
    BY <1>3
  <2>2. ASSUME NEW k \in S PROVE k + 1 \in S
    <3>1. PICK x \in Nat \ {0} : x = f[k]
      OBVIOUS
    <3>2. b * x \in Nat \ {0}
      OBVIOUS
    <3> QED
      BY <1>2, <3>1, <3>2
  <2>3. S \in SUBSET Nat
    OBVIOUS
  <2> HIDE DEF S
  <2>4. S = Nat
    BY <2>1, <2>2, <2>3, InductionOnNat
  <2> QED
    BY <2>4 DEF S
<1> QED
  BY <1>2, <1>3, <1>4 DEF Powers
=============================================================================
