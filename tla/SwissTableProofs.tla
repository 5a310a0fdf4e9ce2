-------------------------- MODULE SwissTableProofs --------------------------
EXTENDS SwissTable, FiniteSetTheorems, WellFoundedInduction, TLAPS

-----------------------------------------------------------------------------
(* Numbers.                                                                *)

LEMMA LeastExists ==
  ASSUME NEW T \in SUBSET Nat, T # {}
  PROVE  \E n \in T : \A m \in T : n <= m
  <1> DEFINE R == {pair \in Nat \X Nat : pair[1] < pair[2]}
  <1>1. IsWellFoundedOn(R, Nat)
    BY NatLessThanWellFounded DEF OpToRel
  <1> HIDE DEF R
  <1>2. PICK n \in T : \A m \in T : <<m, n>> \notin R
    BY <1>1, WFMin
  <1>3. \A m \in T : ~(m < n)
    BY <1>2 DEF R
  <1> QED BY <1>3

LEMMA MinIsLeast ==
  ASSUME NEW T \in SUBSET Nat, T # {}
  PROVE  Min(T) \in T /\ \A m \in T : Min(T) <= m
  BY LeastExists DEF Min

LEMMA Division ==
  ASSUME NEW n \in Nat, NEW d \in Nat \ {0}
  PROVE  \E q \in Nat : \E r \in 0..(d - 1) :
           n = d * q + r /\ r = n % d /\ q = n \div d
  OBVIOUS

LEMMA Multiple ==
  ASSUME NEW d \in Nat \ {0}, NEW q \in Nat, NEW r \in 0..(d - 1)
  PROVE  (d * q + r) % d = r /\ (d * q + r) \div d = q
  OBVIOUS

\* d is the greatest common divisor of a and b, which are g and h times d.
CommonDivisor(a, b, d, g, h) ==
  a = d * g /\ b = d * h /\ \E x, y \in Int : x * g + y * h = 1

LEMMA Bezout ==
  ASSUME NEW a \in Nat \ {0}, NEW b \in Nat \ {0}
  PROVE  \E d, g, h \in Nat \ {0} : CommonDivisor(a, b, d, g, h)
  <1> DEFINE S == {s \in Nat \ {0} : \E x, y \in Int : s = x * a + y * b}
  <1>1. a \in S /\ b \in S
    <2>1. a = 1 * a + 0 * b /\ b = 0 * a + 1 * b
      OBVIOUS
    <2> QED BY <2>1
  <1>2. PICK d \in S : \A s \in S : d <= s
    BY <1>1, LeastExists
  <1>3. PICK x \in Int, y \in Int : d = x * a + y * b
    BY <1>2
  <1>4. ASSUME NEW c \in Nat \ {0}, NEW u \in Int, NEW v \in Int, c = u * a + v * b
        PROVE  \E g \in Nat \ {0} : c = d * g
    <2>1. d \in Nat \ {0}
      BY <1>2
    <2>2. PICK q \in Nat : \E r \in 0..(d - 1) :
            c = d * q + r /\ r = c % d /\ q = c \div d
      BY <2>1, Division
    <2>3. PICK r \in 0..(d - 1) : c = d * q + r
      BY <2>2
    <2>4. r = (u - q * x) * a + (v - q * y) * b
      BY <1>3, <1>4, <2>1, <2>3
    <2>5. r = 0
      <3>1. ASSUME r # 0 PROVE FALSE
        <4>1. r \in Nat \ {0} /\ r < d
          BY <2>1, <3>1
        <4>2. u - q * x \in Int /\ v - q * y \in Int
          OBVIOUS
        <4>3. r \in S
          <5>1. PICK x2 \in Int, y2 \in Int : x2 = u - q * x /\ y2 = v - q * y
            BY <4>2
          <5>2. r = x2 * a + y2 * b
            BY ONLY <2>4, <5>1
          <5> QED BY ONLY <4>1, <5>1, <5>2
        <4>4. d <= r
          BY ONLY <1>2, <4>3
        <4> QED BY ONLY <2>1, <4>1, <4>4
      <3> QED BY <3>1
    <2>6. c = d * q /\ q # 0
      BY <2>1, <2>3, <2>5
    <2> QED BY <2>6
  <1>5. PICK g \in Nat \ {0} : a = d * g
    BY <1>1, <1>4
  <1>6. PICK h \in Nat \ {0} : b = d * h
    BY <1>1, <1>4
  <1>7. x * g + y * h = 1
    <2>1. d * (x * g + y * h) = d * 1
      BY <1>2, <1>3, <1>5, <1>6
    <2>2. PICK z \in Int : z = x * g + y * h
      OBVIOUS
    <2>3. d \in Nat \ {0} /\ d * z = d * 1
      BY <1>2, <2>1, <2>2
    <2>4. z = 1
      BY <2>3
    <2> QED BY <2>2, <2>4
  <1>8. CommonDivisor(a, b, d, g, h)
    BY <1>5, <1>6, <1>7 DEF CommonDivisor
  <1>9. d \in Nat \ {0}
    BY <1>2
  <1> HIDE DEF S
  <1> QED BY <1>8, <1>9

\* Powers of two.
LEMMA Divides ==
  ASSUME NEW d \in Nat \ {0}, NEW z \in Int, NEW n \in Nat, n = d * z
  PROVE  n % d = 0 /\ z \in Nat
  <1>1. z \in Nat
    <2>1. ASSUME z < 0 PROVE FALSE
      <3>1. d * z < 0
        BY <2>1
      <3> QED BY <3>1
    <2> QED BY <2>1
  <1>2. 0 \in 0..(d - 1)
    OBVIOUS
  <1>3. (d * z + 0) % d = 0
    BY <1>1, <1>2, Multiple
  <1> QED BY <1>1, <1>3

LEMMA Quotient ==
  ASSUME NEW n \in Nat, NEW d \in Nat \ {0}, n % d = 0
  PROVE  \E q \in Nat : n = d * q /\ q = n \div d
  <1>1. PICK q \in Nat : \E r \in 0..(d - 1) :
          n = d * q + r /\ r = n % d /\ q = n \div d
    BY Division
  <1> QED BY <1>1

LEMMA EvenDivisor ==
  ASSUME NEW n, IsPowerOf2(n), NEW d \in Nat \ {0, 1}, NEW q \in Nat, n = d * q
  PROVE  d % 2 = 0
  <1>1. n \in Nat \ {0} /\ n % d = 0
    BY Divides DEF IsPowerOf2
  <1>2. q >= 1
    BY <1>1
  <1>3. d * q >= d
    BY <1>2
  <1>4. d \in 2..n
    BY <1>1, <1>3
  <1> QED BY <1>1, <1>4 DEF IsPowerOf2

\* The smaller of two divides the other.
LEMMA PowerDivides ==
  ASSUME NEW a, NEW b, IsPowerOf2(a), IsPowerOf2(b), a <= b
  PROVE  b % a = 0
  <1>1. a \in Nat \ {0} /\ b \in Nat \ {0}
    BY DEF IsPowerOf2
  <1>0. PICK d \in Nat \ {0}, g \in Nat \ {0}, h \in Nat \ {0} :
          CommonDivisor(a, b, d, g, h)
    BY ONLY <1>1, Bezout
  <1>2. PICK x \in Int, y \in Int :
          a = d * g /\ b = d * h /\ x * g + y * h = 1
    BY ONLY <1>0 DEF CommonDivisor
  <1>3. a = g * d /\ b = h * d
    BY <1>2
  <1>4. ASSUME g # 1, h # 1 PROVE FALSE
    <2>1. g % 2 = 0 /\ h % 2 = 0
      BY <1>3, <1>4, EvenDivisor
    <2>2. PICK i \in Nat : g = 2 * i
      BY <2>1
    <2>3. PICK j \in Nat : h = 2 * j
      BY <2>1
    <2>4. PICK z \in Int : z = x * i + y * j
      OBVIOUS
    <2>5. 2 * z = 1
      BY <1>2, <2>2, <2>3, <2>4
    <2> QED BY <2>5
  <1>5. CASE g = 1
    <2>1. b = a * h
      BY <1>2, <1>5
    <2> QED BY <1>1, <2>1, Divides
  <1>6. CASE h = 1
    <2>1. a = b * g
      BY <1>2, <1>6
    <2>2. g = 1
      <3>1. ASSUME g >= 2 PROVE FALSE
        <4>1. b * g >= b * 2
          BY <1>1, <3>1
        <4> QED BY <1>1, <2>1, <4>1
      <3> QED BY <3>1
    <2> QED BY <1>5, <2>2
  <1> QED BY <1>4, <1>5, <1>6

LEMMA DoublePower ==
  ASSUME NEW m, IsPowerOf2(m)
  PROVE  IsPowerOf2(2 * m)
  <1>1. m \in Nat \ {0} /\ 2 * m \in Nat \ {0}
    BY DEF IsPowerOf2
  <1>2. ASSUME NEW d \in 2..(2 * m), (2 * m) % d = 0 PROVE d % 2 = 0
    <2>1. d \in Nat \ {0, 1}
      BY <1>1
    <2>2. PICK q \in Nat : 2 * m = d * q /\ q = (2 * m) \div d
      BY <1>1, <1>2, <2>1, Quotient
    <2>3. CASE q % 2 = 0
      <3>1. PICK p \in Nat : q = 2 * p
        BY <2>3
      <3>2. 2 * m = 2 * (d * p)
        BY <2>1, <2>2, <3>1
      <3>3. m = d * p
        <4>1. PICK z \in Nat : z = d * p
          BY <2>1
        <4> QED BY <1>1, <3>2, <4>1
      <3> QED BY <2>1, <3>3, EvenDivisor
    <2>4. CASE q % 2 = 1 /\ d % 2 = 1
      <3>1. PICK p \in Nat : q = 2 * p + 1
        BY <2>4
      <3>2. PICK e \in Nat : d = 2 * e + 1
        BY <2>1, <2>4
      <3>3. 2 * m = 2 * (2 * (e * p) + e + p) + 1
        BY <2>2, <3>1, <3>2
      <3>4. PICK z \in Nat : z = 2 * (e * p) + e + p
        OBVIOUS
      <3>5. 2 * m = 2 * z + 1
        BY <3>3, <3>4
      <3> QED BY <1>1, <3>5
    <2> QED BY <2>1, <2>3, <2>4
  <1> QED BY <1>1, <1>2 DEF IsPowerOf2

LEMMA FactorPower ==
  ASSUME NEW n, IsPowerOf2(n), NEW d \in Nat \ {0}, NEW m \in Nat, n = d * m
  PROVE  IsPowerOf2(m)
  <1>1. n \in Nat \ {0} /\ m # 0
    BY DEF IsPowerOf2
  <1>2. ASSUME NEW e \in 2..m, m % e = 0 PROVE e % 2 = 0
    <2>1. PICK q \in Nat : m = e * q /\ q = m \div e
      BY <1>2, Quotient
    <2>2. PICK z \in Nat : z = d * q
      BY <2>1
    <2>3. n = e * z
      BY <2>1, <2>2
    <2>4. e \in Nat \ {0, 1}
      OBVIOUS
    <2> QED BY <2>2, <2>3, <2>4, EvenDivisor
  <1> QED BY <1>1, <1>2 DEF IsPowerOf2

\* What divides a product and has no odd factor divides the other factor of an
\* odd number.
LEMMA OddFactor ==
  ASSUME NEW m, IsPowerOf2(m), NEW a \in Nat, NEW b \in Nat, a % 2 = 1,
         NEW q \in Int, a * b = m * q
  PROVE  b % m = 0
  <1>1. m \in Nat \ {0} /\ a \in Nat \ {0}
    BY DEF IsPowerOf2
  <1>0. PICK d \in Nat \ {0}, g \in Nat \ {0}, h \in Nat \ {0} :
          CommonDivisor(a, m, d, g, h)
    BY ONLY <1>1, Bezout
  <1>2. PICK x \in Int, y \in Int :
          a = d * g /\ m = d * h /\ x * g + y * h = 1
    BY ONLY <1>0 DEF CommonDivisor
  <1>3. d = 1
    <2>1. ASSUME d # 1 PROVE FALSE
      <3>1. d % 2 = 0
        BY <1>2, <2>1, EvenDivisor
      <3>2. PICK e \in Nat : d = 2 * e
        BY <3>1
      <3>3. PICK z \in Nat : z = e * g
        OBVIOUS
      <3>4. a = 2 * z
        BY <1>2, <3>2, <3>3
      <3> QED BY <3>4
    <2> QED BY <2>1
  <1>4. x * a + y * m = 1
    BY <1>2, <1>3
  <1>5. b = (x * a + y * m) * b
    BY <1>4
  <1>6. b = x * (a * b) + m * (y * b)
    BY <1>1, <1>5
  <1>7. b = m * (x * q + y * b)
    BY <1>1, <1>6
  <1>8. x * q + y * b \in Int
    OBVIOUS
  <1> QED BY <1>1, <1>7, <1>8, Divides

-----------------------------------------------------------------------------
(* Probing.                                                                *)

Triangle(n) == (n * (n + 1)) \div 2

LEMMA TriangleDoubled ==
  ASSUME NEW n \in Nat
  PROVE  Triangle(n) \in Nat /\ 2 * Triangle(n) = n * (n + 1)
  <1>1. PICK z \in Nat : n * (n + 1) = 2 * z
    <2>1. CASE n % 2 = 0
      <3>1. PICK p \in Nat : n = 2 * p
        BY <2>1
      <3>2. n * (n + 1) = 2 * (p * (2 * p + 1)) /\ p * (2 * p + 1) \in Nat
        BY <3>1
      <3> QED BY <3>2
    <2>2. CASE n % 2 = 1
      <3>1. PICK p \in Nat : n = 2 * p + 1
        BY <2>2
      <3>2. n * (n + 1) = 2 * ((2 * p + 1) * (p + 1)) /\ (2 * p + 1) * (p + 1) \in Nat
        BY <3>1
      <3> QED BY <3>2
    <2> QED BY <2>1, <2>2
  <1>2. Triangle(n) = z
    BY <1>1 DEF Triangle
  <1> QED BY <1>1, <1>2

\* The triangular numbers below a power of two differ modulo that power.
LEMMA TrianglesDiffer ==
  ASSUME NEW m, IsPowerOf2(m), NEW c \in Nat,
         NEW i \in 0..(m - 1), NEW j \in 0..(m - 1), i < j,
         (c + Triangle(i)) % m = (c + Triangle(j)) % m
  PROVE  FALSE
  <1>1. m \in Nat \ {0} /\ i \in Nat /\ j \in Nat
    BY DEF IsPowerOf2
  <1>2. PICK s \in Nat, t \in Nat : /\ s = Triangle(i) /\ t = Triangle(j)
                                    /\ 2 * s = i * (i + 1) /\ 2 * t = j * (j + 1)
    BY <1>1, TriangleDoubled
  <1>3. PICK u \in Nat, w \in Nat : u = c + s /\ w = c + t /\ u % m = w % m
    BY <1>2
  <1>4. PICK p \in Nat : \E r \in 0..(m - 1) : u = m * p + r /\ r = u % m /\ p = u \div m
    BY <1>1, Division
  <1>5. PICK q \in Nat : \E r \in 0..(m - 1) : w = m * q + r /\ r = w % m /\ q = w \div m
    BY <1>1, Division
  <1>6. PICK r \in 0..(m - 1) : u = m * p + r /\ r = u % m
    BY <1>4
  <1>7. w = m * q + r
    <2>1. PICK e \in 0..(m - 1) : w = m * q + e /\ e = w % m
      BY <1>5
    <2>2. e = r
      BY <1>3, <1>6, <2>1
    <2> QED BY <2>1, <2>2
  <1>8. t - s = m * q - m * p
    BY <1>1, <1>2, <1>3, <1>6, <1>7
  <1>9. PICK a \in Nat \ {0}, b \in Nat \ {0} : a = j - i /\ b = j + i + 1
    BY <1>1
  <1>10. a * b = (2 * m) * (q - p)
    <2>1. a * b = j * (j + 1) - i * (i + 1)
      BY <1>1, <1>9
    <2>2. a * b = 2 * (m * q - m * p)
      BY <1>1, <1>2, <1>8, <2>1
    <2> QED BY <1>1, <2>2
  <1>11. a < 2 * m /\ b < 2 * m
    BY <1>1, <1>9
  <1>12. PICK n \in Nat \ {0} : n = 2 * m
    BY <1>1
  <1>13. IsPowerOf2(n) /\ q - p \in Int
    BY <1>12, DoublePower
  <1>14. ASSUME NEW e \in Nat \ {0}, e < n, e % n = 0 PROVE FALSE
    BY <1>14
  <1>15. CASE a % 2 = 1
    <2>1. b % n = 0
      BY <1>10, <1>13, <1>12, <1>15, OddFactor
    <2> QED BY <1>11, <1>12, <1>14, <2>1
  <1>16. CASE b % 2 = 1
    <2>1. b * a = n * (q - p)
      BY <1>10, <1>12
    <2>2. a % n = 0
      BY <1>13, <1>12, <1>16, <2>1, OddFactor
    <2> QED BY <1>11, <1>12, <1>14, <2>2
  <1>17. a % 2 = 1 \/ b % 2 = 1
    <2>1. a + b = 2 * j + 1
      BY <1>1, <1>9
    <2> QED BY <1>1, <1>9, <2>1
  <1> QED BY <1>15, <1>16, <1>17

IsSize(n) == IsPowerOf2(n) /\ n % GroupSize = 0
Groups(n) == {GroupOf(i) : i \in Slots(n)}

LEMMA Sizes ==
  ASSUME NEW n, IsSize(n)
  PROVE  /\ n \in Nat \ {0} /\ GroupSize \in Nat \ {0}
         /\ \E m \in Nat \ {0} :
              n = GroupSize * m /\ m = n \div GroupSize /\ IsPowerOf2(m)
  <1>1. n \in Nat \ {0} /\ GroupSize \in Nat \ {0}
    BY SizesAssumption DEF IsSize, IsPowerOf2
  <1>2. PICK m \in Nat : n = GroupSize * m /\ m = n \div GroupSize
    BY <1>1, Quotient DEF IsSize
  <1>3. IsPowerOf2(m)
    BY <1>1, <1>2, FactorPower DEF IsSize
  <1> QED BY <1>1, <1>2, <1>3 DEF IsPowerOf2

LEMMA Scaled ==
  ASSUME NEW g \in Nat \ {0}, NEW m \in Nat \ {0}, NEW u \in Nat
  PROVE  (g * u) % (g * m) = g * (u % m)
  <1>1. PICK p \in Nat : \E r \in 0..(m - 1) : u = m * p + r /\ r = u % m /\ p = u \div m
    BY Division
  <1>2. PICK r \in 0..(m - 1) : u = m * p + r /\ r = u % m
    BY <1>1
  <1>3. PICK n \in Nat \ {0}, s \in Nat : n = g * m /\ s = g * r
    <2>1. g * m \in Nat \ {0} /\ g * r \in Nat
      BY <1>2
    <2> QED BY <2>1
  <1>4. s \in 0..(n - 1)
    <2>1. g * (m - r) >= g * 1
      BY <1>2
    <2>2. g * (m - r) = n - s
      BY <1>2, <1>3
    <2> QED BY <1>3, <2>1, <2>2
  <1>5. g * u = n * p + s
    <2>1. g * u = g * (m * p + r)
      BY <1>2
    <2>2. g * (m * p + r) = (g * m) * p + g * r
      BY <1>1, <1>2
    <2> QED BY <1>3, <2>1, <2>2
  <1>6. (n * p + s) % n = s
    BY <1>1, <1>3, <1>4, Multiple
  <1> QED BY <1>2, <1>3, <1>5, <1>6

\* The slots below n fall into groups.
LEMMA GroupFacts ==
  ASSUME NEW n, IsSize(n), NEW i \in Slots(n)
  PROVE  /\ GroupOf(i) \in Groups(n) /\ i \in Group(GroupOf(i))
         /\ Group(GroupOf(i)) \subseteq Slots(n)
         /\ \A j \in Group(GroupOf(i)) : GroupOf(j) = GroupOf(i)
         /\ \E h \in 0..((n \div GroupSize) - 1) : GroupOf(i) = GroupSize * h
  <1>1. n \in Nat \ {0} /\ GroupSize \in Nat \ {0}
    BY Sizes
  <1>2. PICK m \in Nat \ {0} : n = GroupSize * m /\ m = n \div GroupSize
    BY Sizes
  <1>3. i \in Nat /\ i < n
    BY <1>1 DEF Slots
  <1>4. PICK h \in Nat : \E r \in 0..(GroupSize - 1) :
          i = GroupSize * h + r /\ r = i % GroupSize /\ h = i \div GroupSize
    BY <1>1, <1>3, Division
  <1>5. PICK r \in 0..(GroupSize - 1) : i = GroupSize * h + r /\ r = i % GroupSize
    BY <1>4
  <1>6. PICK b \in Nat : b = GroupSize * h
    BY <1>1
  <1>7. GroupOf(i) = b /\ i = b + r
    BY <1>5, <1>6 DEF GroupOf
  <1>8. h \in 0..(m - 1) /\ b + GroupSize <= n
    <2>1. h < m
      <3>1. ASSUME h >= m PROVE FALSE
        <4>1. GroupSize * h >= GroupSize * m
          BY <1>1, <3>1
        <4> QED BY <1>1, <1>2, <1>3, <1>6, <1>7, <4>1
      <3> QED BY <3>1
    <2>2. GroupSize * (m - h) >= GroupSize * 1
      BY <1>1, <2>1
    <2>3. GroupSize * (m - h) = n - b
      BY <1>1, <1>2, <1>6
    <2> QED BY <1>1, <1>6, <2>1, <2>2, <2>3
  <1>9. ASSUME NEW j \in Group(b) PROVE j \in Slots(n) /\ GroupOf(j) = b
    <2>1. PICK e \in 0..(GroupSize - 1) : j = b + e
      <3>1. j \in b..(b + GroupSize - 1)
        BY DEF Group
      <3>2. j - b \in 0..(GroupSize - 1) /\ j = b + (j - b)
        BY <1>1, <3>1
      <3> QED BY <3>2
    <2>2. j % GroupSize = e
      BY <1>1, <1>6, <2>1, Multiple
    <2> QED BY <1>1, <1>8, <2>1, <2>2 DEF Slots, GroupOf
  <1>10. i \in Group(b)
    BY <1>1, <1>5, <1>7 DEF Group
  <1>11. GroupOf(i) \in Groups(n)
    BY DEF Groups
  <1>12. h \in 0..((n \div GroupSize) - 1) /\ GroupOf(i) = GroupSize * h
    BY <1>2, <1>6, <1>7, <1>8
  <1> QED BY <1>7, <1>9, <1>10, <1>11, <1>12

LEMMA GroupsAre ==
  ASSUME NEW n, IsSize(n), NEW h \in 0..((n \div GroupSize) - 1)
  PROVE  GroupSize * h \in Groups(n)
  <1>1. n \in Nat \ {0} /\ GroupSize \in Nat \ {0}
    BY Sizes
  <1>2. PICK m \in Nat \ {0} : n = GroupSize * m /\ m = n \div GroupSize
    BY Sizes
  <1>3. PICK b \in Nat : b = GroupSize * h
    BY <1>1, <1>2
  <1>4. b < n
    <2>1. h < m
      BY <1>2
    <2>2. GroupSize * (m - h) >= GroupSize * 1
      BY <1>1, <1>2, <2>1
    <2>3. GroupSize * (m - h) = n - b
      BY <1>1, <1>2, <1>3
    <2> QED BY <1>1, <1>3, <2>2, <2>3
  <1>5. b % GroupSize = 0
    BY <1>1, <1>2, <1>3, Divides
  <1>6. GroupOf(b) = b /\ b \in Slots(n)
    BY <1>3, <1>4, <1>5, <1>1 DEF GroupOf, Slots
  <1> QED BY <1>3, <1>6 DEF Groups

LEMMA HomeIs ==
  ASSUME NEW n, IsSize(n), NEW k \in Key
  PROVE  \E h \in 0..((n \div GroupSize) - 1) : Home(k, n) = GroupSize * h
  <1>1. n \in Nat \ {0}
    BY Sizes
  <1>2. PICK x \in Nat : x = Hash[k]
    BY HashAssumption
  <1>3. x % n \in Slots(n)
    BY <1>1 DEF Slots
  <1> QED BY <1>2, <1>3, GroupFacts DEF Home

\* The probes for a key visit every group of a table, each once: the n-th is at
\* the n-th triangular number behind the first.
THEOREM ProbesVisitAllGroups ==
  ASSUME NEW n, IsSize(n), NEW k \in Key
  PROVE  /\ \A i \in Slots(n \div GroupSize) : ProbeIndex(k, n, i) \in Groups(n)
         /\ \A g \in Groups(n) : \E i \in Slots(n \div GroupSize) : ProbeIndex(k, n, i) = g
         /\ \A i, j \in Slots(n \div GroupSize) :
              ProbeIndex(k, n, i) = ProbeIndex(k, n, j) => i = j
  <1>1. n \in Nat \ {0} /\ GroupSize \in Nat \ {0}
    BY Sizes
  <1>2. PICK m \in Nat \ {0} : n = GroupSize * m /\ m = n \div GroupSize /\ IsPowerOf2(m)
    BY Sizes
  <1>3. PICK c \in 0..(m - 1) : Home(k, n) = GroupSize * c
    BY <1>2, HomeIs
  <1> DEFINE S == 0..(m - 1)
             at(i) == (c + Triangle(i)) % m
             f == [i \in S |-> at(i)]
  <1>4. S = Slots(n \div GroupSize)
    BY <1>2 DEF Slots
  <1>5. ASSUME NEW i \in S
        PROVE  at(i) \in S /\ ProbeIndex(k, n, i) = GroupSize * at(i)
    <2>1. PICK t \in Nat : t = Triangle(i)
      BY TriangleDoubled
    <2>2. PICK u \in Nat : u = c + t
      BY <1>2, <2>1
    <2>3. u % m \in S
      OBVIOUS
    <2>4. GroupSize * c + GroupSize * t = GroupSize * u
      BY <1>1, <1>2, <2>2
    <2>5. ProbeIndex(k, n, i) = (GroupSize * u) % (GroupSize * m)
      BY <1>2, <1>3, <2>1, <2>4 DEF ProbeIndex, Triangle
    <2>6. (GroupSize * u) % (GroupSize * m) = GroupSize * (u % m)
      BY <1>1, Scaled
    <2> QED BY <2>1, <2>2, <2>3, <2>5, <2>6
  <1>6. ASSUME NEW i \in S, NEW j \in S, at(i) = at(j) PROVE i = j
    <2>1. i < j \/ j < i \/ i = j
      BY <1>2
    <2>2. c \in Nat
      BY <1>2
    <2> QED BY <1>2, <1>6, <2>1, <2>2, TrianglesDiffer
  <1>7. IsFiniteSet(S)
    BY <1>2, FS_Interval
  <1> HIDE DEF S, at
  <1>8. f \in [S -> S] /\ \A i \in S : f[i] = at(i)
    BY <1>5
  <1>9. f \in Injection(S, S)
    BY <1>6, <1>8 DEF Injection, IsInjective
  <1>10. f \in Surjection(S, S)
    BY <1>7, <1>9, FS_Injection
  <1>11. ASSUME NEW i \in S PROVE ProbeIndex(k, n, i) \in Groups(n)
    BY <1>2, <1>5, GroupsAre DEF S
  <1>12. ASSUME NEW g \in Groups(n) PROVE \E i \in S : ProbeIndex(k, n, i) = g
    <2>1. PICK h \in S : g = GroupSize * h
      BY <1>2, GroupFacts DEF Groups, S
    <2>2. PICK i \in S : f[i] = h
      BY <1>10 DEF Surjection
    <2> QED BY <1>5, <1>8, <2>1, <2>2
  <1>13. ASSUME NEW i \in S, NEW j \in S, ProbeIndex(k, n, i) = ProbeIndex(k, n, j)
         PROVE  i = j
    <2>1. PICK x \in S, y \in S : x = at(i) /\ y = at(j)
      BY <1>5
    <2>2. GroupSize * x = GroupSize * y
      BY <1>5, <1>13, <2>1
    <2>3. x = y
      BY <1>1, <1>2, <2>2 DEF S
    <2> QED BY <1>6, <2>1, <2>3
  <1> QED BY <1>4, <1>11, <1>12, <1>13

-----------------------------------------------------------------------------
(* Storage.                                                                *)

\* A table is a record of these fields.
Shaped ==
  table = [t \in Table |->
             [alloc |-> table[t].alloc, slots |-> table[t].slots,
              storage |-> table[t].storage, budget |-> table[t].budget]]

\* The size says where the table lives.
SizesTell ==
  \A t \in Table :
    /\ table[t].alloc \in Nat
    /\ MovedFrom(t) \/ table[t].alloc >= SmallSize
    /\ SmallSize > 0 /\ IsSmall(t) => table[t].storage = Small
    /\ table[t].storage \in HeapBlock \cup {Small, NoStorage}

StorageInv == Shaped /\ SizesTell /\ StorageIsOwned

LEMMA FreedIs ==
  ASSUME StorageInv, NEW t \in Table
  PROVE  Freed(t) = BlocksOf(table[t].storage)
  <1>1. /\ table[t].alloc \in Nat /\ (table[t].storage = NoStorage <=> table[t].alloc = 0)
        /\ (table[t].storage = Small => table[t].alloc = SmallSize)
        /\ (SmallSize > 0 /\ table[t].alloc = SmallSize => table[t].storage = Small)
    BY DEF StorageInv, SizesTell, StorageIsOwned, MovedFrom, IsSmall
  <1>2. SmallSize \in Nat
    BY SizesAssumption DEF IsFirstSize, IsPowerOf2
  <1>3. Small # NoStorage
    BY DEF Small, NoStorage
  <1> QED BY <1>1, <1>2, <1>3 DEF Freed, MovedFrom, IsSmall, BlocksOf

\* There is a block for every table and one more.
LEMMA BlockLeft ==
  ASSUME NEW held, NEW f, held \subseteq {f[t] : t \in Table}
  PROVE  Min(HeapBlock \ held) \in HeapBlock \ held
  <1>1. ASSUME HeapBlock \subseteq held PROVE FALSE
    <2>1. PICK g \in [HeapBlock -> Table] : \A b \in HeapBlock : f[g[b]] = b
      <3>1. \A b \in HeapBlock : \E t \in Table : f[t] = b
        BY <1>1
      <3>2. [b \in HeapBlock |-> CHOOSE t \in Table : f[t] = b] \in [HeapBlock -> Table]
        BY <3>1
      <3> QED BY <3>1, <3>2
    <2>2. \E x, y \in HeapBlock : x # y /\ g[x] = g[y]
      <3>1. /\ IsFiniteSet(HeapBlock) /\ IsFiniteSet(Table)
            /\ Cardinality(Table) < Cardinality(HeapBlock)
        BY HeapAssumption
      <3> QED BY ONLY <2>1, <3>1, FS_PigeonHole
    <2> QED BY <2>1, <2>2
  <1>2. HeapBlock \ held # {} /\ HeapBlock \ held \in SUBSET Nat
    BY <1>1, HeapAssumption
  <1> QED BY <1>2, MinIsLeast

LEMMA BlockIsBlock ==
  ASSUME NEW b \in HeapBlock
  PROVE  b \notin {Small, NoStorage} /\ BlocksOf(b) = {b}
  <1>1. b \in Nat \ {0}
    BY HeapAssumption
  <1> QED BY <1>1 DEF Small, NoStorage, BlocksOf

\* One table gets another storage, which no other table has.
LEMMA OwnedStays ==
  ASSUME StorageInv, NEW t \in Table, NEW s \in HeapBlock \cup {Small, NoStorage},
         NEW x,
         table' = [table EXCEPT ![t] = x], Shaped', x.storage = s, x.alloc \in Nat,
         x.alloc = 0 <=> s = NoStorage,
         x.alloc = 0 \/ x.alloc >= SmallSize,
         s = Small => x.alloc = SmallSize,
         SmallSize > 0 /\ x.alloc = SmallSize => s = Small,
         \A u \in Table : u # t /\ table[u].storage = s => s \in {Small, NoStorage},
         heap' = (heap \ Freed(t)) \cup BlocksOf(s)
  PROVE  StorageInv'
  <1>1. DOMAIN table = Table /\ table'[t] = x
        /\ \A u \in Table : u # t => table'[u] = table[u]
    BY DEF StorageInv, Shaped
  <1>2. SizesTell'
    BY <1>1 DEF StorageInv, SizesTell, MovedFrom, IsSmall
  <1>3. heap' = {table'[u].storage : u \in Table} \ {Small, NoStorage}
    <2>1. heap = {table[u].storage : u \in Table} \ {Small, NoStorage}
      BY DEF StorageInv, StorageIsOwned
    <2>2. \A u \in Table : u # t /\ table[u].storage = table[t].storage
            => table[t].storage \in {Small, NoStorage}
      BY DEF StorageInv, StorageIsOwned
    <2>3. heap' = (heap \ BlocksOf(table[t].storage)) \cup BlocksOf(s)
      BY FreedIs
    <2>4. heap \ BlocksOf(table[t].storage) =
            {table[u].storage : u \in Table \ {t}} \ {Small, NoStorage}
      BY <2>1, <2>2 DEF BlocksOf
    <2> QED BY <1>1, <2>3, <2>4 DEF BlocksOf
  <1>4. \A u, w \in Table :
          /\ u # w /\ table'[u].storage = table'[w].storage
               => table'[u].storage \in {Small, NoStorage}
          /\ table'[u].storage = NoStorage <=> MovedFrom(u)'
          /\ table'[u].storage = Small => table'[u].alloc = SmallSize
    <2>1. \A u, w \in Table :
            u # w /\ table[u].storage = table[w].storage
               => table[u].storage \in {Small, NoStorage}
      BY DEF StorageInv, StorageIsOwned
    <2>2. \A u \in Table :
            /\ table[u].storage = NoStorage <=> table[u].alloc = 0
            /\ table[u].storage = Small => table[u].alloc = SmallSize
      BY DEF StorageInv, StorageIsOwned, MovedFrom
    <2>3. ASSUME NEW u \in Table, NEW w \in Table, u # w,
                 table'[u].storage = table'[w].storage
          PROVE  table'[u].storage \in {Small, NoStorage}
      <3>1. CASE u = t
        BY <1>1, <2>3, <3>1
      <3>2. CASE w = t
        BY <1>1, <2>3, <3>2
      <3>3. CASE u # t /\ w # t
        BY <1>1, <2>1, <2>3, <3>3
      <3> QED BY <3>1, <3>2, <3>3
    <2>4. ASSUME NEW u \in Table
          PROVE  /\ table'[u].storage = NoStorage <=> table'[u].alloc = 0
                 /\ table'[u].storage = Small => table'[u].alloc = SmallSize
      <3>1. CASE u = t
        BY <1>1, <3>1
      <3>2. CASE u # t
        BY <1>1, <2>2, <3>2
      <3> QED BY <3>1, <3>2
    <2> QED BY <2>3, <2>4 DEF MovedFrom
  <1>5. StorageIsOwned'
    BY <1>3, <1>4 DEF StorageIsOwned
  <1> QED BY <1>2, <1>5 DEF StorageInv

\* The size, the storage and the heap stay.
LEMMA StorageStays ==
  ASSUME StorageInv, Shaped', heap' = heap,
         \A t \in Table : /\ table'[t].alloc = table[t].alloc
                          /\ table'[t].storage = table[t].storage
  PROVE  StorageInv'
  <1>1. \A t \in Table : (MovedFrom(t)' <=> MovedFrom(t)) /\ (IsSmall(t)' <=> IsSmall(t))
    BY DEF MovedFrom, IsSmall
  <1>2. SizesTell'
    BY <1>1 DEF StorageInv, SizesTell
  <1>3. {table'[t].storage : t \in Table} = {table[t].storage : t \in Table}
    OBVIOUS
  <1>4. StorageIsOwned'
    BY <1>1, <1>3 DEF StorageInv, StorageIsOwned
  <1> QED BY <1>2, <1>4 DEF StorageInv

LEMMA StoresStays ==
  ASSUME StorageInv, NEW t \in Table, NEW i, NEW entry, NEW cost, Stores(t, i, entry, cost)
  PROVE  StorageInv'
  <1>1. PICK x : x = [table[t] EXCEPT !.slots[i] = entry, !.budget = @ - cost]
    OBVIOUS
  <1>2. table' = [table EXCEPT ![t] = x] /\ heap' = heap
    BY <1>1 DEF Stores
  <1>3. /\ DOMAIN table = Table
        /\ \A u \in Table : table[u] =
             [alloc |-> table[u].alloc, slots |-> table[u].slots,
              storage |-> table[u].storage, budget |-> table[u].budget]
    BY DEF StorageInv, Shaped
  <1>4. /\ x.alloc = table[t].alloc /\ x.storage = table[t].storage
        /\ x = [alloc |-> x.alloc, slots |-> x.slots, storage |-> x.storage, budget |-> x.budget]
    <2>1. PICK r : r = table[t]
      OBVIOUS
    <2>2. r = [alloc |-> r.alloc, slots |-> r.slots, storage |-> r.storage,
               budget |-> r.budget]
      BY <1>3, <2>1
    <2>3. x = [r EXCEPT !.slots[i] = entry, !.budget = @ - cost]
      BY <1>1, <2>1
    <2>4. PICK p : p = [r.slots EXCEPT ![i] = entry]
      OBVIOUS
    <2>5. x = [alloc |-> r.alloc, slots |-> p, storage |-> r.storage,
               budget |-> r.budget - cost]
      <3>1. r = [alloc |-> r.alloc, slots |-> r.slots, storage |-> r.storage,
                 budget |-> r.budget]
        BY <2>2
      <3>2. x = [[r EXCEPT !.slots = p] EXCEPT !.budget = r.budget - cost]
        BY <2>2, <2>3, <2>4
      <3> QED BY <3>1, <3>2
    <2> QED BY <2>1, <2>5
  <1>5. \A u \in Table : table'[u] = IF u = t THEN x ELSE table[u]
    BY <1>2, <1>3
  <1>6. Shaped'
    BY <1>2, <1>3, <1>4, <1>5 DEF Shaped
  <1>7. \A u \in Table : /\ table'[u].alloc = table[u].alloc
                         /\ table'[u].storage = table[u].storage
    BY <1>4, <1>5
  <1> QED BY <1>2, <1>6, <1>7, StorageStays

LEMMA RegrownOwns ==
  ASSUME StorageInv, NEW t \in Table, NEW n \in Nat, NEW slots, NEW spent,
         ~MovedFrom(t), n > table[t].alloc, Regrown(t, n, slots, spent)
  PROVE  StorageInv'
  <1> DEFINE x == [alloc |-> n, slots |-> slots, storage |-> NewBlock,
                   budget |-> GrowthThresholdForAllocSize(n)
                                - Cardinality(Present(table[t].slots)) - spent]
  <1>1. table' = [table EXCEPT ![t] = x] /\ heap' = (heap \cup {NewBlock}) \ Freed(t)
    BY DEF Regrown
  <1>2. DOMAIN table = Table /\ heap = {table[u].storage : u \in Table} \ {Small, NoStorage}
    BY DEF StorageInv, Shaped, StorageIsOwned
  <1>3. NewBlock \in HeapBlock \ heap
    <2>1. PICK f : f = [u \in Table |-> table[u].storage]
      OBVIOUS
    <2>2. PICK held : held = heap
      OBVIOUS
    <2>3. held \subseteq {f[u] : u \in Table}
      BY <1>2, <2>1, <2>2
    <2>4. Min(HeapBlock \ held) \in HeapBlock \ held
      BY <2>3, BlockLeft
    <2> QED BY <2>2, <2>4 DEF NewBlock
  <1>4. /\ x.storage = NewBlock /\ x.alloc = n
        /\ x = [alloc |-> x.alloc, slots |-> x.slots, storage |-> x.storage, budget |-> x.budget]
    OBVIOUS
  <1> HIDE DEF x
  <1>5. Shaped'
    <2>1. \A u \in Table : table[u] =
            [alloc |-> table[u].alloc, slots |-> table[u].slots,
             storage |-> table[u].storage, budget |-> table[u].budget]
      BY DEF StorageInv, Shaped
    <2>2. \A u \in Table : table'[u] = IF u = t THEN x ELSE table[u]
      BY <1>1, <1>2
    <2> QED BY <1>1, <1>2, <1>4, <2>1, <2>2 DEF Shaped
  <1>6. NewBlock \notin {Small, NoStorage} /\ BlocksOf(NewBlock) = {NewBlock}
    BY <1>3, BlockIsBlock
  <1>7. \A u \in Table : table[u].storage # NewBlock
    BY <1>2, <1>3, <1>6
  <1>8. heap' = (heap \ Freed(t)) \cup BlocksOf(NewBlock)
    <2>1. NewBlock \notin Freed(t)
      BY <1>7 DEF Freed
    <2> QED BY <1>1, <1>6, <2>1
  <1>9. n # 0 /\ n > SmallSize /\ n # SmallSize
    <2>1. table[t].alloc \in Nat /\ table[t].alloc # 0 /\ table[t].alloc >= SmallSize
      BY DEF StorageInv, SizesTell, MovedFrom
    <2>2. SmallSize \in Nat
      BY SizesAssumption DEF IsFirstSize, IsPowerOf2
    <2> QED BY <2>1, <2>2
  <1>10. SmallSize \in Nat
    BY SizesAssumption DEF IsFirstSize, IsPowerOf2
  <1>11. PICK s : s = NewBlock
    OBVIOUS
  <1>12. /\ s \in HeapBlock \cup {Small, NoStorage} /\ s # Small /\ s # NoStorage
         /\ x.storage = s /\ x.alloc \in Nat /\ x.alloc # 0 /\ x.alloc > SmallSize
         /\ \A u \in Table : table[u].storage # s
         /\ heap' = (heap \ Freed(t)) \cup BlocksOf(s)
    BY <1>3, <1>4, <1>6, <1>7, <1>8, <1>9, <1>11
  <1>13. PICK y : y = x
    OBVIOUS
  <1>14. table' = [table EXCEPT ![t] = y]
    BY <1>1, <1>13
  <1>15. /\ y.storage = s /\ y.alloc \in Nat /\ y.alloc # 0
         /\ y.alloc >= SmallSize /\ y.alloc # SmallSize
    BY <1>12, <1>13, <1>10
  <1> QED BY ONLY <1>5, <1>12, <1>14, <1>15, OwnedStays, StorageInv

LEMMA ShapedStays ==
  ASSUME StorageInv, NEW t \in Table, NEW x,
         table' = [table EXCEPT ![t] = x],
         x = [alloc |-> x.alloc, slots |-> x.slots, storage |-> x.storage, budget |-> x.budget]
  PROVE  Shaped'
  <1>1. /\ DOMAIN table = Table
        /\ \A u \in Table : table[u] =
             [alloc |-> table[u].alloc, slots |-> table[u].slots,
              storage |-> table[u].storage, budget |-> table[u].budget]
    BY DEF StorageInv, Shaped
  <1>2. \A u \in Table : table'[u] = IF u = t THEN x ELSE table[u]
    BY <1>1
  <1> QED BY <1>1, <1>2 DEF Shaped

LEMMA GrowOwns ==
  ASSUME StorageInv, NEW t \in Table, NEW n \in Nat, ~MovedFrom(t),
         GrowToAllocSizeImpl(t, n)
  PROVE  StorageInv' \/ UNCHANGED vars
  <1>1. CASE n <= table[t].alloc
    BY <1>1 DEF GrowToAllocSizeImpl
  <1>2. CASE ~(n <= table[t].alloc)
    <2>1. table[t].alloc \in Nat
      BY DEF StorageInv, SizesTell
    <2>2. n > table[t].alloc
      BY <1>2, <2>1
    <2>3. Regrown(t, n, GrownSlots(table[t].slots, n), 0)
      BY <1>2 DEF GrowToAllocSizeImpl
    <2> QED BY <2>2, <2>3, RegrownOwns
  <1> QED BY <1>1, <1>2

LEMMA InsertNewOwns ==
  ASSUME StorageInv, NEW t \in Table, NEW entry, ~MovedFrom(t), InsertNew(t, entry)
  PROVE  StorageInv'
  <1>1. \/ \E i, cost : Stores(t, i, entry, cost)
        \/ \E slots : Regrown(t, ComputeNextAllocSize(table[t].alloc), slots, 1)
    BY DEF InsertNew
  <1>2. ASSUME NEW i, NEW cost, Stores(t, i, entry, cost) PROVE StorageInv'
    BY <1>2, StoresStays
  <1>3. ASSUME NEW slots, Regrown(t, ComputeNextAllocSize(table[t].alloc), slots, 1)
        PROVE  StorageInv'
    <2>1. PICK n : n = ComputeNextAllocSize(table[t].alloc)
      OBVIOUS
    <2>2. table[t].alloc \in Nat /\ table[t].alloc # 0
      BY DEF StorageInv, SizesTell, MovedFrom
    <2>3. n \in Nat /\ n > table[t].alloc
      BY <2>1, <2>2 DEF ComputeNextAllocSize
    <2>4. Regrown(t, n, slots, 1)
      BY <1>3, <2>1
    <2> QED BY <2>3, <2>4, RegrownOwns
  <1> QED BY <1>1, <1>2, <1>3

LEMMA InsertOwns ==
  ASSUME StorageInv, NEW t \in Table, NEW k \in Key, NEW v, Insert(t, k, v)
  PROVE  StorageInv' \/ UNCHANGED vars
  BY InsertNewOwns DEF Insert

LEMMA UpdateOwns ==
  ASSUME StorageInv, NEW t \in Table, NEW k \in Key, NEW v, Update(t, k, v)
  PROVE  StorageInv'
  <1>1. ~MovedFrom(t)
    BY DEF Update
  <1>2. InsertNew(t, Entry(k, v)) \/ \E i, cost : Stores(t, i, Entry(k, v), cost)
    BY DEF Update
  <1>3. ASSUME NEW i, NEW cost, Stores(t, i, Entry(k, v), cost) PROVE StorageInv'
    BY <1>3, StoresStays
  <1> QED BY <1>1, <1>2, <1>3, InsertNewOwns

LEMMA EraseOwns ==
  ASSUME StorageInv, NEW t \in Table, NEW k \in Key, Erase(t, k)
  PROVE  StorageInv' \/ UNCHANGED vars
  <1>1. UNCHANGED vars \/ \E i, entry, cost : Stores(t, i, entry, cost)
    BY DEF Erase
  <1>2. ASSUME NEW i, NEW entry, NEW cost, Stores(t, i, entry, cost) PROVE StorageInv'
    BY <1>2, StoresStays
  <1> QED BY <1>1, <1>2

LEMMA ClearOwns ==
  ASSUME StorageInv, NEW t \in Table, Clear(t)
  PROVE  StorageInv'
  <1>1. PICK r : r = table[t]
    OBVIOUS
  <1>2. /\ DOMAIN table = Table
        /\ r = [alloc |-> r.alloc, slots |-> r.slots, storage |-> r.storage,
                budget |-> r.budget]
    BY <1>1 DEF StorageInv, Shaped
  <1>3. PICK p, b : /\ p = ClearedSlots(table[t].slots)
                    /\ b = GrowthThresholdForAllocSize(table[t].alloc)
    OBVIOUS
  <1>4. PICK x : x = [alloc |-> r.alloc, slots |-> p, storage |-> r.storage, budget |-> b]
    OBVIOUS
  <1>5. /\ x = [alloc |-> x.alloc, slots |-> x.slots, storage |-> x.storage,
                budget |-> x.budget]
        /\ x.alloc = table[t].alloc /\ x.storage = table[t].storage
    BY <1>1, <1>4
  <1>6. heap' = heap /\ table' = [table EXCEPT ![t].slots = ClearedSlots(@),
                 ![t].budget = GrowthThresholdForAllocSize(table[t].alloc)]
    BY DEF Clear
  <1>7. table' = [table EXCEPT ![t] = [[r EXCEPT !.slots = p] EXCEPT !.budget = b]]
    BY <1>1, <1>2, <1>3, <1>6
  <1>8. [[r EXCEPT !.slots = p] EXCEPT !.budget = b] = x
    <2>1. r = [alloc |-> r.alloc, slots |-> r.slots, storage |-> r.storage,
               budget |-> r.budget]
      BY <1>2
    <2>2. PICK y : y = [[r EXCEPT !.slots = p] EXCEPT !.budget = b]
      OBVIOUS
    <2>3. y = [alloc |-> r.alloc, slots |-> p, storage |-> r.storage, budget |-> b]
      BY <2>1, <2>2
    <2> QED BY <1>4, <2>2, <2>3
  <1>9. table' = [table EXCEPT ![t] = x]
    BY <1>7, <1>8
  <1>10. \A u \in Table : /\ table'[u].alloc = table[u].alloc
                          /\ table'[u].storage = table[u].storage
    BY <1>2, <1>5, <1>9
  <1> QED BY <1>5, <1>6, <1>9, <1>10, ShapedStays, StorageStays

LEMMA SmallOrFirst ==
  /\ SmallSize \in Nat
  /\ MinAllocatedSize \in Nat /\ MinAllocatedSize # 0
  BY SizesAssumption DEF IsFirstSize, IsPowerOf2

LEMMA ResetOwns ==
  ASSUME StorageInv, NEW t \in Table, Reset(t)
  PROVE  StorageInv'
  <1>1. PICK s, x :
          /\ s = IF SmallSize > 0 THEN Small ELSE Min(HeapBlock \ (heap \ Freed(t)))
          /\ x = Fresh(s)
    OBVIOUS
  <1>2. table' = [table EXCEPT ![t] = x] /\ heap' = (heap \ Freed(t)) \cup BlocksOf(s)
    BY <1>1 DEF Reset
  <1>3. PICK n : n = IF SmallSize > 0 THEN SmallSize ELSE MinAllocatedSize
    OBVIOUS
  <1>4. /\ x = [alloc |-> n, slots |-> AllEmpty(n), storage |-> s,
                budget |-> GrowthThresholdForAllocSize(n)]
        /\ x.alloc = n /\ x.storage = s
    BY <1>1, <1>3 DEF Fresh
  <1>5. n \in Nat /\ n # 0 /\ n >= SmallSize
    BY <1>3, SmallOrFirst
  <1>6. /\ heap = {table[u].storage : u \in Table} \ {Small, NoStorage}
        /\ \A u \in Table : u # t /\ table[u].storage = table[t].storage
              => table[t].storage \in {Small, NoStorage}
    BY DEF StorageInv, StorageIsOwned
  <1>7. CASE SmallSize > 0
    <2>1. s = Small /\ n = SmallSize
      BY <1>1, <1>3, <1>7
    <2>2. s \in HeapBlock \cup {Small, NoStorage} /\ s # NoStorage
      BY <2>1 DEF Small, NoStorage
    <2>3. Shaped'
      BY <1>2, <1>4, ShapedStays
    <2>4. /\ x.storage = s /\ x.alloc \in Nat /\ x.alloc # 0 /\ x.alloc >= SmallSize
          /\ x.alloc = SmallSize
      BY <1>4, <1>5, <2>1
    <2> QED BY ONLY <1>2, <2>1, <2>2, <2>3, <2>4, OwnedStays, StorageInv
  <1>8. CASE ~(SmallSize > 0)
    <2>1. SmallSize = 0 /\ n = MinAllocatedSize
      BY <1>3, <1>8, SmallOrFirst
    <2>2. s \in HeapBlock \ (heap \ Freed(t))
      <3>1. PICK f : f = [u \in Table |-> table[u].storage]
        OBVIOUS
      <3>2. PICK held : held = heap \ Freed(t)
        OBVIOUS
      <3>3. held \subseteq {f[u] : u \in Table}
        BY <1>6, <3>1, <3>2
      <3>4. Min(HeapBlock \ held) \in HeapBlock \ held
        BY <3>3, BlockLeft
      <3> QED BY <1>1, <1>8, <3>2, <3>4
    <2>3. s \notin {Small, NoStorage}
      BY <2>2, BlockIsBlock
    <2>4. \A u \in Table : u # t => table[u].storage # s
      <3>1. Freed(t) = BlocksOf(table[t].storage)
        BY FreedIs
      <3> QED BY <1>6, <2>2, <2>3, <3>1 DEF BlocksOf
    <2>5. Shaped'
      BY <1>2, <1>4, ShapedStays
    <2>6. /\ x.storage = s /\ x.alloc \in Nat /\ x.alloc # 0 /\ x.alloc >= SmallSize
          /\ SmallSize = 0
      BY <1>4, <1>5, <2>1
    <2>7. s # Small /\ s # NoStorage /\ s \in HeapBlock \cup {Small, NoStorage}
      BY <2>2, <2>3
    <2> QED BY ONLY <1>2, <2>4, <2>5, <2>6, <2>7, OwnedStays, StorageInv
  <1> QED BY <1>7, <1>8

LEMMA CopyOwns ==
  ASSUME StorageInv, NEW t \in Table, NEW from \in Table, CopyAssign(t, from)
  PROVE  StorageInv' \/ UNCHANGED vars
  <1>1. CASE UNCHANGED vars
    BY <1>1
  <1>2. CASE /\ t # from /\ MovedFrom(from) /\ ~MovedFrom(t)
             /\ table' = [table EXCEPT ![t] = Gone(table[t].budget)]
             /\ heap' = heap \ Freed(t)
    <2>1. PICK x, b : b = table[t].budget /\ x = Gone(b)
      OBVIOUS
    <2>2. /\ x = [alloc |-> 0, slots |-> << >>, storage |-> NoStorage, budget |-> b]
          /\ x.alloc = 0 /\ x.storage = NoStorage
      BY <2>1 DEF Gone
    <2>3. table' = [table EXCEPT ![t] = x] /\ heap' = (heap \ Freed(t)) \cup BlocksOf(NoStorage)
      BY <1>2, <2>1 DEF BlocksOf
    <2>4. Shaped'
      BY <2>2, <2>3, ShapedStays
    <2>5. PICK s : s = NoStorage
      OBVIOUS
    <2>6. /\ s \in HeapBlock \cup {Small, NoStorage} /\ s # Small /\ s = NoStorage
          /\ x.storage = s /\ x.alloc = 0 /\ x.alloc \in Nat
          /\ heap' = (heap \ Freed(t)) \cup BlocksOf(s)
          /\ SmallSize \in Nat
      BY <2>2, <2>3, <2>5, SmallOrFirst DEF Small, NoStorage
    <2>7. /\ s = NoStorage <=> x.alloc = 0
          /\ s = Small => x.alloc = SmallSize
          /\ SmallSize > 0 /\ x.alloc = SmallSize => s = Small
          /\ \A u \in Table : u # t /\ table[u].storage = s => s \in {Small, NoStorage}
          /\ x.alloc = 0 \/ x.alloc >= SmallSize
      BY <2>6
    <2>8. table' = [table EXCEPT ![t] = x]
      BY <2>3
    <2> QED BY ONLY <2>8, <2>4, <2>6, <2>7, OwnedStays, StorageInv
  <1>3. CASE /\ t # from /\ ~MovedFrom(from)
             /\ \E s : /\ s = IF table[from].alloc = table[t].alloc THEN table[t].storage
                              ELSE StorageFor(table[from].alloc, heap \ Freed(t))
                       /\ table' = [table EXCEPT ![t] = [table[from] EXCEPT !.storage = s]]
                       /\ heap' = (heap \ Freed(t)) \cup BlocksOf(s)
    <2>1. PICK s :
            /\ s = IF table[from].alloc = table[t].alloc THEN table[t].storage
                   ELSE StorageFor(table[from].alloc, heap \ Freed(t))
            /\ table' = [table EXCEPT ![t] = [table[from] EXCEPT !.storage = s]]
            /\ heap' = (heap \ Freed(t)) \cup BlocksOf(s)
      BY <1>3
    <2>2. PICK r, x : r = table[from] /\ x = [r EXCEPT !.storage = s]
      OBVIOUS
    <2>3. r = [alloc |-> r.alloc, slots |-> r.slots, storage |-> r.storage,
               budget |-> r.budget]
      BY <2>2 DEF StorageInv, Shaped
    <2>4. x = [alloc |-> r.alloc, slots |-> r.slots, storage |-> s, budget |-> r.budget]
      <3>1. x = [r EXCEPT !.storage = s]
        BY <2>2
      <3> QED BY <2>3, <3>1
    <2>5. /\ x = [alloc |-> x.alloc, slots |-> x.slots, storage |-> x.storage,
                  budget |-> x.budget]
          /\ x.alloc = table[from].alloc /\ x.storage = s
      BY <2>2, <2>4
    <2>6. table' = [table EXCEPT ![t] = x]
      BY <2>1, <2>2
    <2>7. Shaped'
      BY <2>5, <2>6, ShapedStays
    <2>8. \A u \in Table :
            /\ table[u].alloc \in Nat /\ (table[u].alloc = 0 \/ table[u].alloc >= SmallSize)
            /\ table[u].storage \in HeapBlock \cup {Small, NoStorage}
            /\ (SmallSize > 0 /\ table[u].alloc = SmallSize => table[u].storage = Small)
            /\ (table[u].storage = NoStorage <=> table[u].alloc = 0)
            /\ (table[u].storage = Small => table[u].alloc = SmallSize)
      BY DEF StorageInv, SizesTell, StorageIsOwned, MovedFrom, IsSmall
    <2>9. table[from].alloc # 0
      BY <1>3 DEF MovedFrom
    <2>10. /\ heap = {table[u].storage : u \in Table} \ {Small, NoStorage}
           /\ \A u \in Table : u # t /\ table[u].storage = table[t].storage
                => table[t].storage \in {Small, NoStorage}
      BY DEF StorageInv, StorageIsOwned
    <2>11. /\ s \in HeapBlock \cup {Small, NoStorage} /\ s # NoStorage
           /\ s = Small => x.alloc = SmallSize
           /\ SmallSize > 0 /\ x.alloc = SmallSize => s = Small
           /\ \A u \in Table : u # t /\ table[u].storage = s => s \in {Small, NoStorage}
      <3>1. CASE table[from].alloc = table[t].alloc
        <4>1. s = table[t].storage /\ x.alloc = table[t].alloc /\ table[t].alloc # 0
          BY <2>1, <2>5, <2>9, <3>1
        <4> QED BY <2>8, <2>10, <4>1
      <3>2. CASE table[from].alloc # table[t].alloc /\ table[from].alloc = SmallSize
        <4>1. s = Small /\ x.alloc = SmallSize
          BY <2>1, <2>5, <3>2 DEF StorageFor
        <4> QED BY <4>1 DEF Small, NoStorage
      <3>3. CASE table[from].alloc # table[t].alloc /\ table[from].alloc # SmallSize
        <4>1. PICK f : f = [u \in Table |-> table[u].storage]
          OBVIOUS
        <4>2. PICK held : held = heap \ Freed(t)
          OBVIOUS
        <4>3. held \subseteq {f[u] : u \in Table}
          BY <2>10, <4>1, <4>2
        <4>4. Min(HeapBlock \ held) \in HeapBlock \ held
          BY <4>3, BlockLeft
        <4>5. s \in HeapBlock \ (heap \ Freed(t))
          BY <2>1, <3>3, <4>2, <4>4 DEF StorageFor
        <4>6. s \notin {Small, NoStorage}
          BY <4>5, BlockIsBlock
        <4>7. \A u \in Table : u # t => table[u].storage # s
          <5>1. Freed(t) = BlocksOf(table[t].storage)
            BY FreedIs
          <5> QED BY <2>10, <4>5, <4>6, <5>1 DEF BlocksOf
        <4> QED BY <2>5, <3>3, <4>5, <4>6, <4>7
      <3> QED BY <3>1, <3>2, <3>3
    <2>12. /\ x.storage = s /\ x.alloc \in Nat /\ x.alloc # 0
           /\ x.alloc = 0 \/ x.alloc >= SmallSize
      BY <2>5, <2>8, <2>9
    <2>13. heap' = (heap \ Freed(t)) \cup BlocksOf(s)
      BY <2>1
    <2> QED BY ONLY <2>6, <2>7, <2>11, <2>12, <2>13, OwnedStays, StorageInv
  <1> QED BY <1>1, <1>2, <1>3 DEF CopyAssign

LEMMA MoveOwns ==
  ASSUME StorageInv, NEW t \in Table, NEW from \in Table, MoveAssign(t, from)
  PROVE  StorageInv'
  <1>1. PICK arg, g :
          /\ arg = IF t = from THEN Gone(table[t].budget) ELSE table[from]
          /\ g = Gone(arg.budget)
    OBVIOUS
  <1>2. /\ table' = [[table EXCEPT ![from] = g] EXCEPT ![t] = arg]
        /\ heap' = heap \ Freed(t)
    BY <1>1 DEF MoveAssign
  <1>3. /\ DOMAIN table = Table
        /\ \A u \in Table : table[u] =
             [alloc |-> table[u].alloc, slots |-> table[u].slots,
              storage |-> table[u].storage, budget |-> table[u].budget]
    BY DEF StorageInv, Shaped
  <1>4. /\ g = [alloc |-> 0, slots |-> << >>, storage |-> NoStorage, budget |-> g.budget]
        /\ g.alloc = 0 /\ g.storage = NoStorage /\ g.slots = << >>
    BY <1>1 DEF Gone
  <1>5. arg = [alloc |-> arg.alloc, slots |-> arg.slots, storage |-> arg.storage,
               budget |-> arg.budget]
    BY <1>1, <1>3 DEF Gone
  <1>6. \A u \in Table : table'[u] = IF u = t THEN arg ELSE IF u = from THEN g ELSE table[u]
    BY <1>2, <1>3
  <1>7. Shaped'
    <2>1. table' = [u \in Table |-> table'[u]]
      BY <1>2, <1>3
    <2>2. \A u \in Table : table'[u] =
             [alloc |-> table'[u].alloc, slots |-> table'[u].slots,
              storage |-> table'[u].storage, budget |-> table'[u].budget]
      BY <1>3, <1>4, <1>5, <1>6
    <2> QED BY <2>1, <2>2 DEF Shaped
  <1>8. \A u \in Table :
          /\ table[u].alloc \in Nat /\ (table[u].alloc = 0 \/ table[u].alloc >= SmallSize)
          /\ table[u].storage \in HeapBlock \cup {Small, NoStorage}
          /\ (SmallSize > 0 /\ table[u].alloc = SmallSize => table[u].storage = Small)
          /\ (table[u].storage = NoStorage <=> table[u].alloc = 0)
          /\ (table[u].storage = Small => table[u].alloc = SmallSize)
    BY DEF StorageInv, SizesTell, StorageIsOwned, MovedFrom, IsSmall
  <1>9. /\ heap = {table[u].storage : u \in Table} \ {Small, NoStorage}
        /\ \A u, w \in Table : u # w /\ table[u].storage = table[w].storage
             => table[u].storage \in {Small, NoStorage}
    BY DEF StorageInv, StorageIsOwned
  <1>10. heap' = heap \ BlocksOf(table[t].storage)
    BY <1>2, FreedIs
  <1>11. CASE t = from
    <2>1. \A u \in Table : table'[u].alloc = (IF u = t THEN 0 ELSE table[u].alloc)
                        /\ table'[u].storage = (IF u = t THEN NoStorage ELSE table[u].storage)
      BY <1>1, <1>6, <1>11 DEF Gone
    <2>2. SizesTell'
      BY <1>8, <2>1, SmallOrFirst DEF SizesTell, MovedFrom, IsSmall
    <2>3. heap' = {table'[u].storage : u \in Table} \ {Small, NoStorage}
      BY <1>9, <1>10, <2>1 DEF BlocksOf
    <2>4. \A u, w \in Table : u # w /\ table'[u].storage = table'[w].storage
             => table'[u].storage \in {Small, NoStorage}
      BY <1>9, <2>1
    <2>5. \A u \in Table :
            /\ (table'[u].storage = NoStorage <=> table'[u].alloc = 0)
            /\ (table'[u].storage = Small => table'[u].alloc = SmallSize)
      BY <1>8, <2>1 DEF Small, NoStorage
    <2> QED BY <1>7, <2>2, <2>3, <2>4, <2>5 DEF StorageInv, StorageIsOwned, MovedFrom
  <1>12. CASE t # from
    <2>1. \A u \in Table :
            /\ table'[u].alloc = (IF u = t THEN table[from].alloc
                                  ELSE IF u = from THEN 0 ELSE table[u].alloc)
            /\ table'[u].storage = (IF u = t THEN table[from].storage
                                    ELSE IF u = from THEN NoStorage ELSE table[u].storage)
      BY <1>1, <1>4, <1>6, <1>12
    <2>2. SizesTell'
      BY <1>8, <2>1, SmallOrFirst DEF SizesTell, MovedFrom, IsSmall
    <2>3. heap' = {table'[u].storage : u \in Table} \ {Small, NoStorage}
      <3>1. \A s : s \in heap' => s \in {table'[u].storage : u \in Table} \ {Small, NoStorage}
        <4>1. ASSUME NEW s \in heap'
              PROVE  s \in {table'[u].storage : u \in Table} \ {Small, NoStorage}
          <5>1. /\ s \notin {Small, NoStorage} /\ s # table[t].storage
                /\ s \in {table[u].storage : u \in Table}
            BY <1>9, <1>10, <4>1 DEF BlocksOf
          <5>2. PICK u \in Table : table[u].storage = s
            BY <5>1
          <5>3. u # t
            BY <5>1, <5>2
          <5>4. CASE u = from
            <6>1. table'[t].storage = s
              BY <2>1, <5>2, <5>4
            <6> QED BY <5>1, <6>1
          <5>5. CASE u # from
            <6>1. table'[u].storage = s
              BY <2>1, <5>2, <5>3, <5>5
            <6> QED BY <5>1, <6>1
          <5> QED BY <5>4, <5>5
        <4> QED BY <4>1
      <3>2. ASSUME NEW u \in Table, table'[u].storage \notin {Small, NoStorage}
            PROVE  table'[u].storage \in heap'
        <4>1. u # from
          BY <1>12, <2>1, <3>2
        <4>2. CASE u = t
          <5>1. table'[u].storage = table[from].storage
            BY <2>1, <4>2
          <5>2. table[from].storage # table[t].storage
            BY <1>9, <1>12, <3>2, <5>1
          <5> QED BY <1>9, <1>10, <3>2, <5>1, <5>2 DEF BlocksOf
        <4>3. CASE u # t
          <5>1. table'[u].storage = table[u].storage
            BY <2>1, <4>1, <4>3
          <5>2. table[u].storage # table[t].storage
            BY <1>9, <3>2, <4>3, <5>1
          <5> QED BY <1>9, <1>10, <3>2, <5>1, <5>2 DEF BlocksOf
        <4> QED BY <4>2, <4>3
      <3>3. \A s : s \in {table'[u].storage : u \in Table} \ {Small, NoStorage} => s \in heap'
        BY <3>2
      <3> QED BY <3>1, <3>3
    <2>4. \A u, w \in Table : u # w /\ table'[u].storage = table'[w].storage
             => table'[u].storage \in {Small, NoStorage}
      <3>1. ASSUME NEW u \in Table, NEW w \in Table, u # w,
                   table'[u].storage = table'[w].storage,
                   table'[u].storage \notin {Small, NoStorage}
            PROVE  FALSE
        <4>1. u # from /\ w # from
          BY <1>12, <2>1, <3>1
        <4>2. CASE u = t
          <5>1. /\ w # t /\ table'[w].storage = table[w].storage
                /\ table'[u].storage = table[from].storage
            BY <2>1, <3>1, <4>1, <4>2
          <5> QED BY <1>9, <3>1, <4>1, <5>1
        <4>3. CASE w = t
          <5>1. /\ u # t /\ table'[u].storage = table[u].storage
                /\ table'[w].storage = table[from].storage
            BY <2>1, <3>1, <4>1, <4>3
          <5> QED BY <1>9, <3>1, <4>1, <5>1
        <4>4. CASE u # t /\ w # t
          <5>1. /\ table'[u].storage = table[u].storage
                /\ table'[w].storage = table[w].storage
            BY <2>1, <4>1, <4>4
          <5> QED BY <1>9, <3>1, <5>1
        <4> QED BY <4>2, <4>3, <4>4
      <3> QED BY <3>1
    <2>5. \A u \in Table :
            /\ (table'[u].storage = NoStorage <=> table'[u].alloc = 0)
            /\ (table'[u].storage = Small => table'[u].alloc = SmallSize)
      BY <1>8, <2>1 DEF Small, NoStorage
    <2> QED BY <1>7, <2>2, <2>3, <2>4, <2>5 DEF StorageInv, StorageIsOwned, MovedFrom
  <1> QED BY <1>11, <1>12

LEMMA InitOwns == Init => StorageInv
  <1> SUFFICES ASSUME Init PROVE StorageInv
    OBVIOUS
  <1>1. PICK first \in [Table -> IF SmallSize > 0 THEN {Small} ELSE HeapBlock] :
          /\ SmallSize > 0 \/ \A t, u \in Table : first[t] = first[u] => t = u
          /\ table = [t \in Table |-> Fresh(first[t])]
          /\ heap = UNION {BlocksOf(first[t]) : t \in Table}
    BY DEF Init
  <1>2. PICK n : n = IF SmallSize > 0 THEN SmallSize ELSE MinAllocatedSize
    OBVIOUS
  <1>3. \A t \in Table : table[t] =
          [alloc |-> n, slots |-> AllEmpty(n), storage |-> first[t],
           budget |-> GrowthThresholdForAllocSize(n)]
    BY <1>1, <1>2 DEF Fresh
  <1>4. n \in Nat /\ n # 0 /\ n >= SmallSize
    BY <1>2, SmallOrFirst
  <1>5. Shaped
    BY <1>1, <1>3 DEF Shaped
  <1>6. \A t \in Table : table[t].alloc = n /\ table[t].storage = first[t]
    <2>1. ASSUME NEW t \in Table
          PROVE  table[t].alloc = n /\ table[t].storage = first[t]
      <3>1. PICK r, a, b :
              /\ r = table[t] /\ a = AllEmpty(n) /\ b = GrowthThresholdForAllocSize(n)
        OBVIOUS
      <3>2. r = [alloc |-> n, slots |-> a, storage |-> first[t], budget |-> b]
        BY <1>3, <3>1
      <3> QED BY <3>1, <3>2
    <2> QED BY <2>1
  <1>7. CASE SmallSize > 0
    <2>1. n = SmallSize /\ \A t \in Table : table[t].storage = Small
      BY <1>1, <1>2, <1>6, <1>7
    <2>2. SizesTell
      BY <1>4, <1>6, <2>1 DEF SizesTell, MovedFrom, IsSmall
    <2>3. heap = {}
      BY <1>1, <1>6, <2>1 DEF BlocksOf
    <2>4. StorageIsOwned
      BY <1>4, <1>6, <2>1, <2>3 DEF StorageIsOwned, MovedFrom, Small, NoStorage
    <2> QED BY <1>5, <2>2, <2>4 DEF StorageInv
  <1>8. CASE ~(SmallSize > 0)
    <2>1. SmallSize = 0 /\ n = MinAllocatedSize
      BY <1>2, <1>8, SmallOrFirst
    <2>2. \A t \in Table : first[t] \in HeapBlock /\ table[t].storage \in HeapBlock
      BY <1>1, <1>6, <1>8
    <2>3. \A t \in Table : table[t].storage \notin {Small, NoStorage}
      BY <2>2, BlockIsBlock
    <2>4. \A t \in Table : BlocksOf(first[t]) = {first[t]}
      BY <2>2, BlockIsBlock
    <2>5. SizesTell
      BY <1>4, <1>6, <2>1, <2>2 DEF SizesTell, MovedFrom, IsSmall
    <2>6. heap = {table[t].storage : t \in Table} \ {Small, NoStorage}
      BY <1>1, <1>6, <2>3, <2>4
    <2>7. \A t, u \in Table : table[t].storage = table[u].storage => t = u
      BY <1>1, <1>6, <1>8
    <2>8. StorageIsOwned
      BY <1>4, <1>6, <2>3, <2>6, <2>7 DEF StorageIsOwned, MovedFrom
    <2> QED BY <1>5, <2>5, <2>8 DEF StorageInv
  <1> QED BY <1>7, <1>8

LEMMA ReserveOwns ==
  ASSUME StorageInv, NEW t \in Table, NEW count, GrowForInsertCount(t, count)
  PROVE  StorageInv' \/ UNCHANGED vars
  <1>1. CASE UNCHANGED vars
    BY <1>1
  <1>2. CASE /\ PowersAbove(SpaceForInserts(t, count)) # {}
             /\ GrowToAllocSizeImpl(t, NextPowerOf2(SpaceForInserts(t, count)))
    <2>1. PICK S, n : S = PowersAbove(SpaceForInserts(t, count)) /\ n = Min(S)
      OBVIOUS
    <2>2. S \in SUBSET Nat /\ S # {}
      BY <1>2, <2>1 DEF PowersAbove, IsPowerOf2
    <2>3. n \in Nat
      BY <2>1, <2>2, MinIsLeast
    <2>4. GrowToAllocSizeImpl(t, n)
      BY <1>2, <2>1 DEF NextPowerOf2
    <2> QED BY <2>3, <2>4, GrowOwns DEF GrowForInsertCount
  <1> QED BY <1>1, <1>2 DEF GrowForInsertCount

LEMMA StorageInductive == StorageInv /\ [Next]_vars => StorageInv'
  <1> SUFFICES ASSUME StorageInv, [Next]_vars PROVE StorageInv'
    OBVIOUS
  <1>1. CASE UNCHANGED vars
    BY <1>1 DEF vars, StorageInv, Shaped, SizesTell, StorageIsOwned, MovedFrom, IsSmall
  <1>2. ASSUME NEW t \in Table, NEW k \in Key, Erase(t, k)
        PROVE  StorageInv' \/ UNCHANGED vars
    BY <1>2, EraseOwns
  <1>3. ASSUME NEW t \in Table, NEW k \in Key, NEW v, Insert(t, k, v) \/ Update(t, k, v)
        PROVE  StorageInv' \/ UNCHANGED vars
    BY <1>3, InsertOwns, UpdateOwns
  <1>4. ASSUME NEW t \in Table, Clear(t) \/ Reset(t)
        PROVE  StorageInv'
    BY <1>4, ClearOwns, ResetOwns
  <1>5. ASSUME NEW t \in Table, NEW n \in AllocSize, GrowToAllocSize(t, n)
        PROVE  StorageInv' \/ UNCHANGED vars
    <2>1. n \in Nat
      BY SizesAssumption DEF IsPowerOf2
    <2> QED BY <1>5, <2>1, GrowOwns DEF GrowToAllocSize
  <1>6. ASSUME NEW t \in Table, NEW count \in Count, GrowForInsertCount(t, count)
        PROVE  StorageInv' \/ UNCHANGED vars
    BY <1>6, ReserveOwns
  <1>7. ASSUME NEW t \in Table, NEW from \in Table,
               CopyAssign(t, from) \/ MoveAssign(t, from)
        PROVE  StorageInv' \/ UNCHANGED vars
    BY <1>7, CopyOwns, MoveOwns
  <1>8. Next => StorageInv' \/ UNCHANGED vars
    BY <1>2, <1>3, <1>4, <1>5, <1>6, <1>7 DEF Next
  <1> QED BY <1>1, <1>8

\* Whatever is grown, reset, copied, moved or moved into itself, each block
\* of the heap is held by one table and none that was freed is held
\* (Destroy, MoveFrom, SetUpStorage, operator=).
THEOREM StorageCorrect == Spec => []StorageIsOwned
  <1>1. StorageInv => StorageIsOwned
    BY DEF StorageInv
  <1> QED BY InitOwns, StorageInductive, <1>1, PTL DEF Spec

-----------------------------------------------------------------------------
(* Slots.                                                                  *)

IsCell(c) ==
  \/ c \in {Empty, Deleted}
  \/ \E k \in Key : \E v \in Val[k] : c = Entry(k, v)

IsSlots(s, n) ==
  s = [i \in Slots(n) |-> s[i]] /\ \A i \in Slots(n) : IsCell(s[i])

\* No key has two slots.
Unique(s) ==
  \A i, j \in Present(s) : s[i].key = s[j].key => i = j

\* The probes for key k come to the group g, and no search ends before it.
Reaches(s, k, g) ==
  \E m \in Probes(s) : /\ ProbeGroup(s, k, m) = g
                       /\ \A p \in Slots(m) : ~HasEmpty(s, k, p)

Reachable(s) == \A i \in Present(s) : Reaches(s, s[i].key, GroupOf(i))

Sound(s, n) == IsSlots(s, n) /\ Unique(s) /\ Reachable(s)

HasRoom(s) == \E i \in DOMAIN s : s[i] = Empty
HasKey(s, k) == \E i \in Present(s) : s[i].key = k

LEMMA CellFacts ==
  ASSUME NEW c, IsCell(c)
  PROVE  /\ c = Empty <=> c.mark = "empty"
         /\ c = Deleted <=> c.mark = "deleted"
         /\ c.mark = "present" <=> c # Empty /\ c # Deleted
         /\ c.mark = "present" => c.key \in Key
         /\ Empty # Deleted
  <1>1. Empty.mark = "empty" /\ Deleted.mark = "deleted"
    BY DEF Empty, Deleted
  <1>2. CASE c = Empty
    BY <1>1, <1>2
  <1>3. CASE c = Deleted
    BY <1>1, <1>3
  <1>4. ASSUME NEW k \in Key, NEW v, c = Entry(k, v)
        PROVE  c.mark = "present" /\ c.key \in Key
    BY <1>4 DEF Entry
  <1> QED BY <1>1, <1>2, <1>3, <1>4 DEF IsCell

LEMMA EntryIsCell ==
  ASSUME NEW k \in Key, NEW v \in Val[k]
  PROVE  /\ IsCell(Entry(k, v)) /\ Entry(k, v).mark = "present"
         /\ Entry(k, v).key = k
  BY DEF IsCell, Entry

LEMMA MarksAreCells == IsCell(Empty) /\ IsCell(Deleted)
  BY DEF IsCell

LEMMA SlotsAre ==
  ASSUME NEW n \in Nat
  PROVE  IsFiniteSet(Slots(n)) /\ Cardinality(Slots(n)) = n
  <1>1. IsFiniteSet(0..(n - 1)) /\ Cardinality(0..(n - 1)) = n
    BY FS_Interval
  <1> QED BY <1>1 DEF Slots

LEMMA SizeIs ==
  ASSUME NEW n \in Nat, NEW s, IsSlots(s, n)
  PROVE  DOMAIN s = Slots(n) /\ Size(s) = n /\ IsFiniteSet(Slots(n))
  <1>1. DOMAIN s = Slots(n)
    BY DEF IsSlots
  <1>2. IsFiniteSet(0..(n - 1)) /\ Cardinality(0..(n - 1)) = n
    BY FS_Interval
  <1> QED BY <1>1, <1>2 DEF Size, Slots

\* Where the probes for k may come to.
LEMMA ProbeFacts ==
  ASSUME NEW n, IsSize(n), NEW s, IsSlots(s, n), NEW k \in Key
  PROVE  /\ \A m \in Probes(s) : ProbeGroup(s, k, m) \in Groups(n)
         /\ \A g \in Groups(n) : \E m \in Probes(s) : ProbeGroup(s, k, m) = g
         /\ Probes(s) \in SUBSET Nat
         /\ \A m \in Probes(s) : \A p \in Slots(m) : p \in Probes(s) /\ p < m
         /\ \A m \in Probes(s) : \A p \in 0..m : p \in Probes(s)
         /\ \A m, p \in Probes(s) : p \in Slots(m) <=> p < m
  <1>1. n \in Nat \ {0} /\ GroupSize \in Nat \ {0}
    BY Sizes
  <1>2. Size(s) = n
    BY <1>1, SizeIs
  <1>3. PICK m \in Nat \ {0} : m = n \div GroupSize
    BY Sizes
  <1>4. Probes(s) = 0..(m - 1)
    BY <1>2, <1>3 DEF Probes, Slots
  <1>5. \A i \in Slots(n \div GroupSize) : ProbeIndex(k, n, i) \in Groups(n)
    BY ProbesVisitAllGroups
  <1>6. \A g \in Groups(n) : \E i \in Slots(n \div GroupSize) : ProbeIndex(k, n, i) = g
    BY ProbesVisitAllGroups
  <1>7. Probes(s) = Slots(n \div GroupSize)
    BY <1>2 DEF Probes
  <1>8. \A i \in Probes(s) : ProbeGroup(s, k, i) = ProbeIndex(k, n, i)
    BY <1>2 DEF ProbeGroup
  <1>9. /\ \A i \in Probes(s) : ProbeGroup(s, k, i) \in Groups(n)
        /\ \A g \in Groups(n) : \E i \in Probes(s) : ProbeGroup(s, k, i) = g
    BY <1>5, <1>6, <1>7, <1>8
  <1>10. /\ Probes(s) \in SUBSET Nat
         /\ \A i \in Probes(s) : \A p \in Slots(i) : p \in Probes(s) /\ p < i
         /\ \A i \in Probes(s) : \A p \in 0..i : p \in Probes(s)
         /\ \A i, p \in Probes(s) : p \in Slots(i) <=> p < i
    BY <1>4 DEF Slots
  <1> QED BY <1>9, <1>10

LEMMA GroupIs ==
  ASSUME NEW n, IsSize(n), NEW g \in Groups(n)
  PROVE  /\ Group(g) \subseteq Slots(n)
         /\ \A j \in Group(g) : GroupOf(j) = g
         /\ \A j \in Slots(n) : GroupOf(j) = g => j \in Group(g)
  <1>1. PICK i \in Slots(n) : g = GroupOf(i)
    BY DEF Groups
  <1>2. \A j \in Slots(n) : j \in Group(GroupOf(j))
    BY GroupFacts
  <1> QED BY <1>1, <1>2, GroupFacts

\* The first of some probes.
LEMMA FirstIs ==
  ASSUME NEW n, IsSize(n), NEW s, IsSlots(s, n), NEW k \in Key,
         NEW T \in SUBSET Probes(s), T # {}
  PROVE  \E m \in Probes(s) : m \in T /\ \A p \in Slots(m) : p \notin T
  <1>1. /\ Probes(s) \in SUBSET Nat
        /\ \A m \in Probes(s) : \A p \in Slots(m) : p \in Probes(s) /\ p < m
    BY ProbeFacts
  <1>2. PICK m \in T : \A p \in T : m <= p
    BY <1>1, LeastExists
  <1>3. \A p \in Slots(m) : p \notin T
    BY <1>1, <1>2
  <1> QED BY <1>2, <1>3

LEMMA LastProbeIs ==
  ASSUME NEW n, IsSize(n), NEW s, IsSlots(s, n), NEW k \in Key,
         \E m \in Probes(s) : EndsAt(s, k, m)
  PROVE  /\ LastProbe(s, k) \in Probes(s) /\ EndsAt(s, k, LastProbe(s, k))
         /\ \A p \in Slots(LastProbe(s, k)) : ~EndsAt(s, k, p)
  <1> DEFINE T == {m \in Probes(s) : EndsAt(s, k, m)}
  <1>1. \E m \in Probes(s) : m \in T /\ \A p \in Slots(m) : p \notin T
    BY FirstIs
  <1>2. \A m \in Probes(s) : \A p \in Slots(m) : p \in Probes(s)
    BY ProbeFacts
  <1>3. \E m \in Probes(s) : EndsAt(s, k, m) /\ \A p \in Slots(m) : ~EndsAt(s, k, p)
    BY <1>1, <1>2
  <1>4. LastProbe(s, k) =
          CHOOSE m \in Probes(s) : EndsAt(s, k, m) /\ \A p \in Slots(m) : ~EndsAt(s, k, p)
    BY DEF LastProbe, First
  <1> QED BY <1>3, <1>4

\* Where InsertIntoEmpty puts an entry.
LEMMA InsertIntoEmptyIs ==
  ASSUME NEW n, IsSize(n), NEW s, IsSlots(s, n), NEW entry, entry.key \in Key,
         HasRoom(s)
  PROVE  \E i \in Slots(n) :
           /\ s[i] = Empty /\ Reaches(s, entry.key, GroupOf(i))
           /\ InsertIntoEmpty(s, entry) = [s EXCEPT ![i] = entry]
  <1>1. PICK k \in Key : k = entry.key
    OBVIOUS
  <1>2. n \in Nat \ {0} /\ DOMAIN s = Slots(n)
    BY Sizes, SizeIs
  <1>3. PICK j \in Slots(n) : s[j] = Empty
    BY <1>2 DEF HasRoom
  <1>4. PICK m \in Probes(s) : ProbeGroup(s, k, m) = GroupOf(j)
    BY GroupFacts, ProbeFacts
  <1> DEFINE T == {p \in Probes(s) : HasEmpty(s, k, p)}
  <1>5. m \in T
    BY <1>3, <1>4, GroupFacts DEF HasEmpty, EmptyIn
  <1>6. \E q \in Probes(s) : q \in T /\ \A p \in Slots(q) : p \notin T
    BY <1>5, FirstIs
  <1>7. \A q \in Probes(s) : \A p \in Slots(q) : p \in Probes(s)
    BY ProbeFacts
  <1>8. \E q \in Probes(s) : HasEmpty(s, k, q) /\ \A p \in Slots(q) : ~HasEmpty(s, k, p)
    BY <1>6, <1>7
  <1>9. PICK at : at = CHOOSE q \in Probes(s) :
          HasEmpty(s, k, q) /\ \A p \in Slots(q) : ~HasEmpty(s, k, p)
    OBVIOUS
  <1>10. at \in Probes(s) /\ HasEmpty(s, k, at) /\ \A p \in Slots(at) : ~HasEmpty(s, k, p)
    BY <1>8, <1>9
  <1>11. at = First(s, LAMBDA q : HasEmpty(s, entry.key, q))
    BY <1>1, <1>9 DEF First
  <1>12. PICK g, S : g = ProbeGroup(s, k, at) /\ S = EmptyIn(s, g)
    OBVIOUS
  <1>13. g \in Groups(n) /\ S # {}
    BY <1>10, <1>12, ProbeFacts DEF HasEmpty
  <1>14. S \in SUBSET Slots(n) /\ \A i \in S : s[i] = Empty /\ GroupOf(i) = g
    BY <1>12, <1>13, GroupIs DEF EmptyIn
  <1>15. S \in SUBSET Nat
    BY <1>2, <1>14 DEF Slots
  <1>16. Min(S) \in S
    BY <1>13, <1>15, MinIsLeast
  <1>17. InsertIntoEmpty(s, entry) = [s EXCEPT ![Min(S)] = entry]
    BY <1>1, <1>11, <1>12 DEF InsertIntoEmpty
  <1>18. Reaches(s, k, g)
    BY <1>10, <1>12 DEF Reaches
  <1> QED BY <1>1, <1>14, <1>16, <1>17, <1>18

\* Writing one cell of a table, if it opens no group and brings no second slot.
LEMMA PutIsSound ==
  ASSUME NEW n, IsSize(n), NEW s, Sound(s, n), NEW i \in Slots(n), NEW c, IsCell(c),
         c = Empty => \E j \in Group(GroupOf(i)) : s[j] = Empty,
         c.mark = "present" => /\ Reaches(s, c.key, GroupOf(i))
                               /\ \A j \in Present(s) : s[j].key = c.key => j = i
  PROVE  Sound([s EXCEPT ![i] = c], n)
  <1>1. PICK r : r = [s EXCEPT ![i] = c]
    OBVIOUS
  <1>2. n \in Nat \ {0} /\ DOMAIN s = Slots(n) /\ IsSlots(s, n)
    BY Sizes, SizeIs DEF Sound
  <1>3. /\ DOMAIN r = Slots(n)
        /\ \A j \in Slots(n) : r[j] = IF j = i THEN c ELSE s[j]
    BY <1>1, <1>2
  <1>4. IsSlots(r, n)
    <2>1. r = [j \in Slots(n) |-> r[j]]
      BY <1>1, <1>2
    <2>2. \A j \in Slots(n) : IsCell(r[j])
      BY <1>2, <1>3 DEF IsSlots
    <2> QED BY <2>1, <2>2 DEF IsSlots
  <1>5. Size(r) = Size(s) /\ Probes(r) = Probes(s)
    BY <1>2, <1>3 DEF Size, Probes
  <1>6. \A k, p : ProbeGroup(r, k, p) = ProbeGroup(s, k, p)
    BY <1>5 DEF ProbeGroup
  <1>7. ASSUME NEW k \in Key, NEW p \in Probes(s), HasEmpty(r, k, p)
        PROVE  HasEmpty(s, k, p)
    <2>1. PICK g : g = ProbeGroup(s, k, p) /\ g \in Groups(n)
      BY <1>2, ProbeFacts
    <2>2. PICK j \in Group(g) : r[j] = Empty
      BY <1>6, <1>7, <2>1 DEF HasEmpty, EmptyIn
    <2>3. j \in Slots(n) /\ GroupOf(j) = g
      BY <2>1, GroupIs
    <2>4. \E q \in Group(g) : s[q] = Empty
      <3>1. CASE j = i
        <4>1. c = Empty
          BY <1>3, <2>2, <2>3, <3>1
        <4> QED BY <2>3, <3>1, <4>1
      <3>2. CASE j # i
        BY <1>3, <2>2, <2>3, <3>2
      <3> QED BY <3>1, <3>2
    <2> QED BY <2>1, <2>4 DEF HasEmpty, EmptyIn
  <1>8. ASSUME NEW k \in Key, NEW g, Reaches(s, k, g)
        PROVE  Reaches(r, k, g)
    <2>1. PICK m \in Probes(s) : /\ ProbeGroup(s, k, m) = g
                                 /\ \A p \in Slots(m) : ~HasEmpty(s, k, p)
      BY <1>8 DEF Reaches
    <2>2. \A p \in Slots(m) : p \in Probes(s)
      BY <1>2, ProbeFacts
    <2>3. \A p \in Slots(m) : ~HasEmpty(r, k, p)
      BY <1>7, <2>1, <2>2
    <2> QED BY <1>5, <1>6, <2>1, <2>3 DEF Reaches
  <1>9. Present(s) \subseteq Slots(n) /\ Present(r) \subseteq Slots(n)
    BY <1>2, <1>3 DEF Present
  <1>10. \A j \in Present(r) : j # i => j \in Present(s) /\ r[j] = s[j]
    BY <1>2, <1>3 DEF Present
  <1>11. i \in Present(r) => r[i] = c /\ c.mark = "present"
    BY <1>3 DEF Present
  <1>12. Unique(r)
    <2>1. ASSUME NEW j \in Present(r), NEW p \in Present(r), r[j].key = r[p].key
          PROVE  j = p
      <3>1. CASE j # i /\ p # i
        BY <1>10, <2>1, <3>1 DEF Sound, Unique
      <3>2. CASE j = i /\ p # i
        BY <1>10, <1>11, <2>1, <3>2
      <3>3. CASE j # i /\ p = i
        BY <1>10, <1>11, <2>1, <3>3
      <3> QED BY <3>1, <3>2, <3>3
    <2> QED BY <2>1 DEF Unique
  <1>13. Reachable(r)
    <2>1. ASSUME NEW j \in Present(r)
          PROVE  Reaches(r, r[j].key, GroupOf(j))
      <3>1. r[j].key \in Key
        <4>1. IsCell(r[j]) /\ r[j].mark = "present"
          BY <1>4, <1>9 DEF IsSlots, Present
        <4> QED BY <4>1, CellFacts
      <3>2. Reaches(s, r[j].key, GroupOf(j))
        <4>1. CASE j = i
          BY <1>11, <4>1
        <4>2. CASE j # i
          BY <1>10, <4>2 DEF Sound, Reachable
        <4> QED BY <4>1, <4>2
      <3> QED BY <1>8, <3>1, <3>2
    <2> QED BY <2>1 DEF Reachable
  <1> QED BY <1>1, <1>4, <1>12, <1>13 DEF Sound

\* The slots that are not empty, after one cell is written.
LEMMA PutCounts ==
  ASSUME NEW n \in Nat, NEW s, IsSlots(s, n), NEW i \in Slots(n), NEW c
  PROVE  /\ IsFiniteSet(NonEmpty(s)) /\ Cardinality(NonEmpty(s)) \in Nat
         /\ s[i] = Empty /\ c # Empty =>
              Cardinality(NonEmpty([s EXCEPT ![i] = c])) = Cardinality(NonEmpty(s)) + 1
         /\ s[i] # Empty /\ c # Empty =>
              Cardinality(NonEmpty([s EXCEPT ![i] = c])) = Cardinality(NonEmpty(s))
         /\ s[i] # Empty /\ c = Empty =>
              Cardinality(NonEmpty([s EXCEPT ![i] = c])) = Cardinality(NonEmpty(s)) - 1
  <1>1. DOMAIN s = Slots(n) /\ IsFiniteSet(Slots(n))
    BY SizeIs
  <1>2. PICK r, A, B : r = [s EXCEPT ![i] = c] /\ A = NonEmpty(s) /\ B = NonEmpty(r)
    OBVIOUS
  <1>3. /\ \A j : j \in A <=> j \in Slots(n) /\ s[j] # Empty
        /\ \A j : j \in B <=> j \in Slots(n) /\ IF j = i THEN c # Empty ELSE s[j] # Empty
    BY <1>1, <1>2 DEF NonEmpty
  <1>4. IsFiniteSet(A) /\ IsFiniteSet(B)
    <2>1. A \subseteq Slots(n) /\ B \subseteq Slots(n)
      BY <1>3
    <2> QED BY <1>1, <2>1, FS_Subset
  <1>5. Cardinality(A) \in Nat
    BY <1>4, FS_CardinalityType
  <1>6. ASSUME s[i] = Empty, c # Empty PROVE Cardinality(B) = Cardinality(A) + 1
    <2>1. B = A \cup {i} /\ i \notin A
      BY <1>3, <1>6
    <2> QED BY <1>4, <2>1, FS_AddElement
  <1>7. ASSUME s[i] # Empty, c # Empty PROVE Cardinality(B) = Cardinality(A)
    <2>1. B = A
      BY <1>3, <1>7
    <2> QED BY <2>1
  <1>8. ASSUME s[i] # Empty, c = Empty PROVE Cardinality(B) = Cardinality(A) - 1
    <2>1. B = A \ {i} /\ i \in A
      BY <1>3, <1>8
    <2> QED BY <1>4, <2>1, FS_RemoveElement
  <1> QED BY <1>2, <1>4, <1>5, <1>6, <1>7, <1>8

\* A search ends, and where its key is.
LEMMA LookupIs ==
  ASSUME NEW n, IsSize(n), NEW s, Sound(s, n), NEW k \in Key,
         \E m \in Probes(s) : EndsAt(s, k, m)
  PROVE  /\ LookupEntry(s, k) = {i \in Present(s) : s[i].key = k}
         /\ LastProbe(s, k) \in Probes(s) /\ EndsAt(s, k, LastProbe(s, k))
         /\ \A p \in Slots(LastProbe(s, k)) : ~HasEmpty(s, k, p)
  <1>1. n \in Nat \ {0} /\ DOMAIN s = Slots(n) /\ IsSlots(s, n)
    BY Sizes, SizeIs DEF Sound
  <1>2. PICK l : l = LastProbe(s, k)
    OBVIOUS
  <1>3. l \in Probes(s) /\ EndsAt(s, k, l) /\ \A p \in Slots(l) : ~EndsAt(s, k, p)
    BY <1>1, <1>2, LastProbeIs
  <1>4. \A m \in Probes(s) : Holding(s, k, m) \subseteq {i \in Present(s) : s[i].key = k}
    <2>1. \A m \in Probes(s) : Group(ProbeGroup(s, k, m)) \subseteq Slots(n)
      BY <1>1, ProbeFacts, GroupIs
    <2> QED BY <1>1, <2>1 DEF Holding, Present
  <1>5. ASSUME NEW i \in Present(s), s[i].key = k PROVE Holding(s, k, l) = {i}
    <2>1. i \in Slots(n)
      BY <1>1 DEF Present
    <2>2. PICK m \in Probes(s) : /\ ProbeGroup(s, k, m) = GroupOf(i)
                                 /\ \A p \in Slots(m) : ~HasEmpty(s, k, p)
      BY <1>5 DEF Sound, Reachable, Reaches
    <2>3. i \in Holding(s, k, m)
      BY <1>5, <2>1, <2>2, GroupFacts DEF Holding, Present
    <2>4. \A p \in Probes(s) : Holding(s, k, p) \subseteq {i}
      BY <1>4, <1>5 DEF Sound, Unique
    <2>5. /\ \A p \in Slots(l) : p \in Probes(s)
          /\ m \in Slots(l) <=> m < l
          /\ l \in Slots(m) <=> l < m
          /\ l \in Nat /\ m \in Nat
      BY <1>1, <1>3, ProbeFacts
    <2>6. ~(m < l)
      BY <1>3, <2>3, <2>5 DEF EndsAt
    <2>7. CASE l = m
      BY <1>3, <2>3, <2>4, <2>7
    <2>8. CASE l < m
      BY <1>3, <2>2, <2>4, <2>5, <2>8 DEF EndsAt
    <2> QED BY <2>5, <2>6, <2>7, <2>8
  <1>6. LookupEntry(s, k) = Holding(s, k, l)
    BY <1>2 DEF LookupEntry
  <1>7. \A i \in {j \in Present(s) : s[j].key = k} : i \in LookupEntry(s, k)
    BY <1>5, <1>6
  <1> QED BY <1>2, <1>3, <1>4, <1>6, <1>7 DEF EndsAt

\* A table with an empty slot ends every search.
LEMMA RoomEnds ==
  ASSUME NEW n, IsSize(n), NEW s, IsSlots(s, n), NEW k \in Key, HasRoom(s)
  PROVE  \E m \in Probes(s) : EndsAt(s, k, m)
  <1>1. n \in Nat \ {0} /\ DOMAIN s = Slots(n)
    BY Sizes, SizeIs
  <1>2. PICK j \in Slots(n) : s[j] = Empty
    BY <1>1 DEF HasRoom
  <1>3. PICK m \in Probes(s) : ProbeGroup(s, k, m) = GroupOf(j)
    BY GroupFacts, ProbeFacts
  <1>4. HasEmpty(s, k, m)
    BY <1>2, <1>3, GroupFacts DEF HasEmpty, EmptyIn
  <1> QED BY <1>4 DEF EndsAt

\* A table without an entry.
LEMMA NoEntriesSound ==
  ASSUME NEW n, IsSize(n), NEW s, IsSlots(s, n), Present(s) = {}
  PROVE  Sound(s, n)
  BY DEF Sound, Unique, Reachable

LEMMA AllEmptyIs ==
  ASSUME NEW n \in Nat
  PROVE  /\ IsSlots(AllEmpty(n), n) /\ DOMAIN AllEmpty(n) = Slots(n)
         /\ Present(AllEmpty(n)) = {} /\ NonEmpty(AllEmpty(n)) = {}
  BY DEF AllEmpty, IsSlots, IsCell, Present, NonEmpty, Empty

-----------------------------------------------------------------------------
(* Moving entries to another table.                                        *)

EntriesOf(s) == {s[i] : i \in Present(s)}
NoneDeleted(s) == \A i \in DOMAIN s : s[i] # Deleted

\* The table s has the entries of these slots of old, and nothing was deleted.
Holds(s, n, old, which) ==
  Sound(s, n) /\ NoneDeleted(s) /\ EntriesOf(s) = {old[i] : i \in which}

\* The slots whose entries the new table has when the slots below m were seen.
Have(old, from, m) == {i \in Present(old) : i \notin from \/ i < m}

LEMMA PresentIs ==
  ASSUME NEW n \in Nat, NEW s, IsSlots(s, n)
  PROVE  /\ Present(s) \subseteq Slots(n) /\ IsFiniteSet(Present(s))
         /\ \A i \in Present(s) : IsCell(s[i]) /\ s[i].mark = "present" /\ s[i].key \in Key
         /\ \A i \in Slots(n) : i \in Present(s) <=> s[i] # Empty /\ s[i] # Deleted
         /\ Present(s) \subseteq NonEmpty(s)
         /\ NoneDeleted(s) => NonEmpty(s) = Present(s)
  <1>1. DOMAIN s = Slots(n) /\ IsFiniteSet(Slots(n))
    BY SizeIs
  <1>2. \A i \in Slots(n) : IsCell(s[i])
    BY DEF IsSlots
  <1>3. \A i \in Slots(n) : s[i].mark = "present" <=> s[i] # Empty /\ s[i] # Deleted
    BY <1>2, CellFacts
  <1>4. Present(s) \subseteq Slots(n)
    BY <1>1 DEF Present
  <1>5. \A i \in Present(s) : IsCell(s[i]) /\ s[i].mark = "present" /\ s[i].key \in Key
    BY <1>1, <1>2, CellFacts DEF Present
  <1>6. \A i \in Slots(n) : i \in Present(s) <=> s[i] # Empty /\ s[i] # Deleted
    BY <1>1, <1>3 DEF Present
  <1>7. IsFiniteSet(Present(s))
    BY <1>1, <1>4, FS_Subset
  <1> QED BY <1>1, <1>4, <1>5, <1>6, <1>7 DEF NonEmpty, NoneDeleted

\* A larger table does not fill up with the entries of a smaller one.
LEMMA LargerHasRoom ==
  ASSUME NEW n, IsSize(n), NEW s, Sound(s, n), NoneDeleted(s),
         NEW o \in Nat, NEW old, IsSlots(old, o), o < n,
         EntriesOf(s) \subseteq EntriesOf(old)
  PROVE  HasRoom(s)
  <1>1. n \in Nat \ {0} /\ DOMAIN s = Slots(n) /\ IsSlots(s, n)
    BY Sizes, SizeIs DEF Sound
  <1> SUFFICES ASSUME ~HasRoom(s) PROVE FALSE
    OBVIOUS
  <1>2. \A i \in Slots(n) : i \in Present(s)
    BY <1>1, PresentIs DEF HasRoom, NoneDeleted
  <1>3. \A i \in Slots(n) : \E j \in Slots(o) : old[j] = s[i]
    <2>1. ASSUME NEW i \in Slots(n) PROVE \E j \in Slots(o) : old[j] = s[i]
      <3>1. s[i] \in EntriesOf(old)
        BY <1>2 DEF EntriesOf
      <3>2. Present(old) \subseteq Slots(o)
        BY PresentIs
      <3> QED BY <3>1, <3>2 DEF EntriesOf
    <2> QED BY <2>1
  <1>4. PICK f : f = [i \in Slots(n) |-> CHOOSE j \in Slots(o) : old[j] = s[i]]
    OBVIOUS
  <1>5. f \in [Slots(n) -> Slots(o)] /\ \A i \in Slots(n) : old[f[i]] = s[i]
    BY <1>3, <1>4
  <1>6. /\ IsFiniteSet(Slots(n)) /\ IsFiniteSet(Slots(o))
        /\ Cardinality(Slots(o)) < Cardinality(Slots(n))
    <2>1. /\ IsFiniteSet(Slots(n)) /\ Cardinality(Slots(n)) = n
          /\ IsFiniteSet(Slots(o)) /\ Cardinality(Slots(o)) = o
      BY <1>1, SlotsAre
    <2> QED BY <2>1
  <1>7. \E i, j \in Slots(n) : i # j /\ f[i] = f[j]
    BY ONLY <1>5, <1>6, FS_PigeonHole
  <1>8. PICK i \in Slots(n), j \in Slots(n) : i # j /\ f[i] = f[j]
    BY <1>7
  <1>9. s[i] = s[j]
    BY <1>5, <1>8
  <1> QED BY <1>2, <1>8, <1>9 DEF Sound, Unique

\* One entry more.
LEMMA InsertedHolds ==
  ASSUME NEW n, IsSize(n), NEW s, Sound(s, n), HasRoom(s),
         NEW k \in Key, NEW v \in Val[k], ~HasKey(s, k)
  PROVE  LET r == InsertIntoEmpty(s, Entry(k, v))
         IN /\ Sound(r, n) /\ (NoneDeleted(s) => NoneDeleted(r))
            /\ EntriesOf(r) = EntriesOf(s) \cup {Entry(k, v)}
            /\ Cardinality(NonEmpty(r)) = Cardinality(NonEmpty(s)) + 1
  <1>1. n \in Nat \ {0} /\ DOMAIN s = Slots(n) /\ IsSlots(s, n)
    BY Sizes, SizeIs DEF Sound
  <1>2. PICK c : c = Entry(k, v)
    OBVIOUS
  <1>3. IsCell(c) /\ c.mark = "present" /\ c.key = k /\ c # Empty /\ c # Deleted
    BY <1>2, EntryIsCell, CellFacts
  <1>4. PICK i \in Slots(n) :
          /\ s[i] = Empty /\ Reaches(s, c.key, GroupOf(i))
          /\ InsertIntoEmpty(s, c) = [s EXCEPT ![i] = c]
    BY <1>1, <1>3, InsertIntoEmptyIs
  <1>5. PICK r : r = [s EXCEPT ![i] = c]
    OBVIOUS
  <1>6. DOMAIN r = Slots(n) /\ \A j \in Slots(n) : r[j] = IF j = i THEN c ELSE s[j]
    BY <1>1, <1>5
  <1>7. Sound(r, n)
    <2>1. \A j \in Present(s) : s[j].key # k
      BY DEF HasKey
    <2> QED BY <1>3, <1>4, <1>5, <2>1, PutIsSound
  <1>8. NoneDeleted(s) => NoneDeleted(r)
    BY <1>1, <1>3, <1>6 DEF NoneDeleted
  <1>9. EntriesOf(r) = EntriesOf(s) \cup {c}
    <2>1. \A j : j \in Present(r) <=> j = i \/ j \in Present(s)
      BY <1>1, <1>3, <1>6 DEF Present
    <2>2. i \notin Present(s)
      BY <1>1, <1>4, PresentIs
    <2>3. \A j \in Present(s) : r[j] = s[j]
      BY <1>1, <1>6, <2>2 DEF Present
    <2>4. r[i] = c
      BY <1>6
    <2> QED BY <2>1, <2>3, <2>4 DEF EntriesOf
  <1>10. Cardinality(NonEmpty(r)) = Cardinality(NonEmpty(s)) + 1
    <2>1. n \in Nat /\ IsSlots(s, n) /\ s[i] = Empty /\ c # Empty
      BY <1>1, <1>3, <1>4
    <2>2. Cardinality(NonEmpty([s EXCEPT ![i] = c])) = Cardinality(NonEmpty(s)) + 1
      BY ONLY <2>1, PutCounts
    <2> QED BY <1>5, <2>2
  <1> QED BY <1>2, <1>4, <1>5, <1>7, <1>8, <1>9, <1>10

\* The next entry of old is none of those moved before.
LEMMA HasStep ==
  ASSUME NEW o \in Nat, NEW old, IsSlots(old, o), Unique(old),
         NEW n, IsSize(n), o < n, NEW from \in SUBSET Present(old),
         NEW m \in Slots(o), NEW s, Holds(s, n, old, Have(old, from, m))
  PROVE  Holds(IF m \in from THEN InsertIntoEmpty(s, old[m]) ELSE s,
               n, old, Have(old, from, m + 1))
  <1>1. Present(old) \subseteq Slots(o) /\ m \in Nat
    BY PresentIs DEF Slots
  <1>2. Sound(s, n) /\ NoneDeleted(s) /\ EntriesOf(s) = {old[i] : i \in Have(old, from, m)}
    BY DEF Holds
  <1>3. Present(old) \subseteq Nat
    BY <1>1 DEF Slots
  <1>4. CASE m \notin from
    <2>1. Have(old, from, m + 1) = Have(old, from, m)
      BY <1>1, <1>3, <1>4 DEF Have
    <2> QED BY <1>4, <2>1
  <1>5. CASE m \in from
    <2>1. Have(old, from, m + 1) = Have(old, from, m) \cup {m} /\ m \notin Have(old, from, m)
      BY <1>1, <1>3, <1>5 DEF Have
    <2>2. IsCell(old[m]) /\ old[m].mark = "present"
      BY <1>5, PresentIs
    <2>11. PICK k \in Key : \E v \in Val[k] : old[m] = Entry(k, v)
      BY <2>2, CellFacts DEF IsCell
    <2>3. PICK v \in Val[k] : old[m] = Entry(k, v)
      BY <2>11
    <2>4. old[m].key = k
      BY <2>3, EntryIsCell
    <2>5. ~HasKey(s, k)
      <3>1. ASSUME NEW j \in Present(s), s[j].key = k PROVE FALSE
        <4>1. s[j] \in EntriesOf(s)
          BY DEF EntriesOf
        <4>2. PICK i \in Have(old, from, m) : s[j] = old[i]
          BY <1>2, <4>1
        <4>3. i \in Present(old) /\ m \in Present(old) /\ i # m /\ old[i].key = old[m].key
          BY <1>5, <2>1, <2>4, <3>1, <4>2 DEF Have
        <4> QED BY <4>3 DEF Unique
      <3> QED BY <3>1 DEF HasKey
    <2>6. EntriesOf(s) \subseteq EntriesOf(old)
      BY <1>2 DEF EntriesOf, Have
    <2>7. HasRoom(s)
      BY <1>2, <2>6, LargerHasRoom
    <2>8. PICK r : r = InsertIntoEmpty(s, Entry(k, v))
      OBVIOUS
    <2>9. Sound(r, n) /\ NoneDeleted(r) /\ EntriesOf(r) = EntriesOf(s) \cup {Entry(k, v)}
      BY <1>2, <2>5, <2>7, <2>8, InsertedHolds
    <2>10. EntriesOf(r) = {old[i] : i \in Have(old, from, m + 1)}
      BY <1>2, <2>1, <2>3, <2>9
    <2> QED BY <1>5, <2>3, <2>8, <2>9, <2>10 DEF Holds
  <1> QED BY <1>4, <1>5

\* The tables that Reinserted goes through.
MovesFrom(f, s, old, from, m) ==
  /\ f = [i \in 0..m |-> f[i]] /\ f[0] = s
  /\ \A i \in 1..m :
       f[i] = IF i - 1 \in from THEN InsertIntoEmpty(f[i - 1], old[i - 1])
              ELSE f[i - 1]

LEMMA MovesFromExist ==
  ASSUME NEW s, NEW old, NEW from, NEW n \in Nat
  PROVE  \E f : MovesFrom(f, s, old, from, n)
  <1> DEFINE T == {m \in Nat : ~\E f : MovesFrom(f, s, old, from, m)}
  <1> SUFFICES T = {}
    OBVIOUS
  <1> SUFFICES ASSUME T # {} PROVE FALSE
    OBVIOUS
  <1>1. PICK m \in T : \A x \in T : m <= x
    BY LeastExists
  <1>2. m # 0
    <2>1. MovesFrom([x \in 0..0 |-> s], s, old, from, 0)
      BY DEF MovesFrom
    <2> QED BY <1>1, <2>1
  <1>3. m - 1 \in Nat /\ m - 1 \notin T
    BY <1>1, <1>2
  <1>4. PICK f : MovesFrom(f, s, old, from, m - 1)
    BY <1>3
  <1>5. PICK last : last = IF m - 1 \in from THEN InsertIntoEmpty(f[m - 1], old[m - 1])
                           ELSE f[m - 1]
    OBVIOUS
  <1> DEFINE g == [x \in 0..m |-> IF x = m THEN last ELSE f[x]]
  <1>6. MovesFrom(g, s, old, from, m)
    <2>1. g = [x \in 0..m |-> g[x]] /\ g[0] = s
      BY <1>2, <1>3, <1>4 DEF MovesFrom
    <2>2. ASSUME NEW x \in 1..m
          PROVE  g[x] = IF x - 1 \in from THEN InsertIntoEmpty(g[x - 1], old[x - 1])
                        ELSE g[x - 1]
      <3>1. x - 1 \in 0..m /\ x - 1 # m /\ x \in 0..m
        BY <1>1
      <3>2. g[x - 1] = f[x - 1]
        BY <3>1
      <3>3. CASE x = m
        BY <1>5, <3>1, <3>2, <3>3
      <3>4. CASE x # m
        <4>1. x \in 1..(m - 1)
          BY <1>1, <3>4
        <4>2. f[x] = IF x - 1 \in from THEN InsertIntoEmpty(f[x - 1], old[x - 1])
                     ELSE f[x - 1]
          BY <1>4, <4>1 DEF MovesFrom
        <4> QED BY <3>1, <3>2, <3>4, <4>2
      <3> QED BY <3>3, <3>4
    <2> QED BY <2>1, <2>2 DEF MovesFrom
  <1> QED BY <1>1, <1>6

LEMMA ReinsertedIsMoved ==
  ASSUME NEW s, NEW old, NEW from, NEW o \in Nat, Size(old) = o
  PROVE  \E f : MovesFrom(f, s, old, from, o) /\ Reinserted(s, old, from) = f[o]
  <1> DEFINE body(f) == [i \in 0..o |->
                           IF i = 0 THEN s
                           ELSE IF i - 1 \in from THEN InsertIntoEmpty(f[i - 1], old[i - 1])
                           ELSE f[i - 1]]
             moved == CHOOSE f : f = body(f)
  <1>1. PICK f : MovesFrom(f, s, old, from, o)
    BY MovesFromExist
  <1>2. f = body(f)
    <2>1. ASSUME NEW i \in 0..o
          PROVE  f[i] = IF i = 0 THEN s
                        ELSE IF i - 1 \in from THEN InsertIntoEmpty(f[i - 1], old[i - 1])
                        ELSE f[i - 1]
      <3>1. CASE i = 0
        BY <1>1, <3>1 DEF MovesFrom
      <3>2. CASE i # 0
        <4>1. i \in 1..o
          BY <3>2
        <4> QED BY <1>1, <3>2, <4>1 DEF MovesFrom
      <3> QED BY <3>1, <3>2
    <2> QED BY <1>1, <2>1 DEF MovesFrom
  <1>3. moved = body(moved)
    BY <1>2
  <1>4. Reinserted(s, old, from) = moved[o]
    BY DEF Reinserted
  <1> HIDE DEF moved
  <1>5. MovesFrom(moved, s, old, from, o)
    <2>1. moved = [i \in 0..o |-> moved[i]]
      BY <1>3
    <2>2. moved[0] = s
      BY <1>3
    <2>3. ASSUME NEW i \in 1..o
          PROVE  moved[i] = IF i - 1 \in from
                            THEN InsertIntoEmpty(moved[i - 1], old[i - 1])
                            ELSE moved[i - 1]
      <3>1. i \in 0..o /\ i # 0
        OBVIOUS
      <3> QED BY <1>3, <3>1
    <2> QED BY <2>1, <2>2, <2>3 DEF MovesFrom
  <1> QED BY <1>4, <1>5

\* When the new table holds all entries but those of `from`, it holds all
\* after these were inserted.
LEMMA ReinsertedHolds ==
  ASSUME NEW o \in Nat, NEW old, IsSlots(old, o), Unique(old),
         NEW n, IsSize(n), o < n, NEW from \in SUBSET Present(old),
         NEW s, Holds(s, n, old, Present(old) \ from)
  PROVE  Holds(Reinserted(s, old, from), n, old, Present(old))
  <1>1. Size(old) = o
    BY SizeIs
  <1>2. PICK f : MovesFrom(f, s, old, from, o) /\ Reinserted(s, old, from) = f[o]
    BY <1>1, ReinsertedIsMoved
  <1>3. Present(old) \subseteq Slots(o) /\ \A i \in Slots(o) : i \in Nat /\ i < o
    BY PresentIs DEF Slots
  <1> DEFINE Good(m) == Holds(f[m], n, old, Have(old, from, m))
             T == {m \in 0..o : ~Good(m)}
  <1>4. Good(0)
    <2>1. Have(old, from, 0) = Present(old) \ from
      BY <1>3 DEF Have
    <2>2. f[0] = s
      BY <1>2 DEF MovesFrom
    <2> QED BY <2>1, <2>2
  <1>5. ASSUME NEW m \in 0..o, m # 0, Good(m - 1) PROVE Good(m)
    <2>1. PICK p \in Slots(o) : p = m - 1 /\ m = p + 1
      <3>1. m - 1 \in Slots(o) /\ m = (m - 1) + 1
        BY <1>5 DEF Slots
      <3> QED BY <3>1
    <2>2. Holds(f[p], n, old, Have(old, from, p))
      BY <1>5, <2>1
    <2>3. Holds(IF p \in from THEN InsertIntoEmpty(f[p], old[p]) ELSE f[p],
                n, old, Have(old, from, p + 1))
      BY <2>2, HasStep
    <2>4. f[m] = IF p \in from THEN InsertIntoEmpty(f[p], old[p]) ELSE f[p]
      <3>1. m \in 1..o
        BY <1>5
      <3> QED BY <1>2, <2>1, <3>1 DEF MovesFrom
    <2> QED BY <2>1, <2>3, <2>4
  <1> HIDE DEF Good
  <1>6. T = {}
    <2> SUFFICES ASSUME T # {} PROVE FALSE
      OBVIOUS
    <2>5. T \in SUBSET Nat
      OBVIOUS
    <2>1. PICK m \in T : \A x \in T : m <= x
      BY <2>5, LeastExists
    <2>2. m # 0
      BY <1>4, <2>1
    <2>3. m - 1 \in 0..o /\ m - 1 \notin T
      BY <2>1, <2>2
    <2>4. Good(m - 1)
      BY <2>3
    <2> QED BY <1>5, <2>1, <2>2, <2>4
  <1>7. Good(o)
    BY <1>6
  <1>8. Have(old, from, o) = Present(old)
    BY <1>3 DEF Have
  <1> QED BY <1>2, <1>7, <1>8 DEF Good

-----------------------------------------------------------------------------
(* A table of twice the size.                                              *)

LEMMA TwiceIsSize ==
  ASSUME NEW o, IsSize(o)
  PROVE  IsSize(2 * o) /\ 2 * o \in Nat \ {0}
  <1>1. o \in Nat \ {0} /\ GroupSize \in Nat \ {0} /\ o % GroupSize = 0
    BY Sizes DEF IsSize
  <1>2. PICK m \in Nat : o = GroupSize * m /\ m = o \div GroupSize
    BY <1>1, Quotient
  <1>3. PICK n \in Nat \ {0} : n = 2 * o
    BY <1>1
  <1>4. PICK z \in Nat : z = 2 * m
    OBVIOUS
  <1>5. n = GroupSize * z
    BY <1>1, <1>2, <1>3, <1>4
  <1>6. n % GroupSize = 0
    BY <1>1, <1>5, Divides
  <1>7. IsPowerOf2(n)
    BY <1>3, DoublePower DEF IsSize
  <1> QED BY <1>3, <1>6, <1>7 DEF IsSize

LEMMA HalvesAre ==
  ASSUME NEW o, IsSize(o), NEW i \in Slots(o)
  PROVE  /\ i \in Slots(2 * o) /\ i + o \in Slots(2 * o) /\ i # i + o
         /\ i % o = i /\ (i + o) % o = i
         /\ GroupOf(i) \in Slots(o) /\ GroupOf(i + o) = GroupOf(i) + o
         /\ GroupOf(i) # GroupOf(i) + o
  <1>1. o \in Nat \ {0} /\ GroupSize \in Nat \ {0} /\ i \in 0..(o - 1)
    BY Sizes DEF Slots
  <1>2. PICK m \in Nat \ {0} : o = GroupSize * m /\ m = o \div GroupSize
    BY Sizes
  <1>3. PICK h \in Nat : \E r \in 0..(GroupSize - 1) :
          i = GroupSize * h + r /\ r = i % GroupSize /\ h = i \div GroupSize
    BY <1>1, Division
  <1>4. PICK r \in 0..(GroupSize - 1) : i = GroupSize * h + r /\ r = i % GroupSize
    BY <1>3
  <1>5. PICK g \in Nat : g = GroupSize * h
    BY <1>1
  <1>6. GroupOf(i) = g /\ i = g + r
    BY <1>1, <1>4, <1>5 DEF GroupOf
  <1>7. PICK e \in Nat : e = h + m
    OBVIOUS
  <1>8. (GroupSize * e + r) % GroupSize = r
    BY <1>1, Multiple
  <1>9. GroupSize * e = g + o
    BY <1>1, <1>2, <1>5, <1>7
  <1>10. PICK j \in Nat : j = i + o
    BY <1>1
  <1>11. j = GroupSize * e + r
    <2>1. j = (g + o) + r
      BY <1>1, <1>4, <1>6, <1>10
    <2> QED BY <1>9, <2>1
  <1>12. j % GroupSize = r
    BY <1>8, <1>11
  <1>13. GroupOf(j) = g + o
    <2>1. GroupOf(j) = j - r
      BY <1>12 DEF GroupOf
    <2> QED BY <1>1, <1>4, <1>6, <1>10, <2>1
  <1>14. (o * 0 + i) % o = i /\ (o * 1 + i) % o = i
    BY <1>1, Multiple
  <1>15. o * 0 + i = i /\ o * 1 + i = j
    BY <1>1, <1>10
  <1>16. i % o = i /\ j % o = i
    BY <1>14, <1>15
  <1>17. i \in Slots(2 * o) /\ j \in Slots(2 * o) /\ i # j /\ g \in Slots(o) /\ g # g + o
    BY <1>1, <1>4, <1>6, <1>10 DEF Slots
  <1> QED BY <1>6, <1>10, <1>13, <1>16, <1>17

LEMMA SlotIsInHalf ==
  ASSUME NEW o, IsSize(o), NEW j \in Slots(2 * o)
  PROVE  j % o \in Slots(o) /\ (j = j % o \/ j = (j % o) + o)
  <1>1. o \in Nat \ {0} /\ j \in Nat /\ j < 2 * o
    BY Sizes DEF Slots
  <1>2. PICK q \in Nat : \E r \in 0..(o - 1) : j = o * q + r /\ r = j % o /\ q = j \div o
    BY <1>1, Division
  <1>3. PICK r \in 0..(o - 1) : j = o * q + r /\ r = j % o
    BY <1>2
  <1>4. q = 0 \/ q = 1
    <2>1. ASSUME q >= 2 PROVE FALSE
      <3>1. o * q >= o * 2
        BY <1>1, <2>1
      <3> QED BY <1>1, <1>3, <3>1
    <2> QED BY <2>1
  <1>5. j = r \/ j = r + o
    <2>1. CASE q = 0
      BY <1>1, <1>3, <2>1
    <2>2. CASE q = 1
      BY <1>1, <1>3, <2>2
    <2> QED BY <1>4, <2>1, <2>2
  <1> QED BY <1>1, <1>3, <1>5 DEF Slots

\* The home of a key stays, or moves up by the old size.
LEMMA HomeDoubles ==
  ASSUME NEW o, IsSize(o), NEW k \in Key
  PROVE  /\ Home(k, 2 * o) = Home(k, o) \/ Home(k, 2 * o) = Home(k, o) + o
         /\ Home(k, 2 * o) \in Slots(2 * o)
  <1>1. o \in Nat \ {0}
    BY Sizes
  <1>2. PICK x \in Nat : x = Hash[k]
    BY HashAssumption
  <1>3. PICK n \in Nat \ {0} : n = 2 * o
    BY <1>1
  <1>4. PICK q \in Nat : \E r \in 0..(n - 1) : x = n * q + r /\ r = x % n /\ q = x \div n
    BY Division
  <1>5. PICK r \in 0..(n - 1) : x = n * q + r /\ r = x % n
    BY <1>4
  <1>6. r \in Slots(2 * o)
    BY <1>3, <1>5 DEF Slots
  <1>7. PICK s \in Slots(o) : s = r % o /\ (r = s \/ r = s + o)
    BY <1>6, SlotIsInHalf
  <1>8. s \in 0..(o - 1)
    BY <1>7 DEF Slots
  <1>9. x % o = s
    <2>1. CASE r = s
      <3>1. PICK z \in Nat : z = 2 * q
        OBVIOUS
      <3>2. x = o * z + s
        <4>1. n * q = o * z
          BY <1>1, <1>3, <3>1
        <4> QED BY <1>5, <2>1, <4>1
      <3> QED BY <1>1, <1>8, <3>2, Multiple
    <2>2. CASE r = s + o
      <3>1. PICK z \in Nat : z = 2 * q + 1
        OBVIOUS
      <3>2. x = o * z + s
        <4>1. n * q + o = o * z
          BY <1>1, <1>3, <3>1
        <4>2. PICK a \in Nat : a = n * q
          OBVIOUS
        <4>3. x = a + r /\ r = s + o /\ a + o = o * z
          BY <1>5, <2>2, <4>1, <4>2
        <4>4. PICK b \in Int : b = o * z
          BY <1>1
        <4>5. x = b + s
          BY <1>1, <1>8, <4>2, <4>3, <4>4
        <4> QED BY <4>4, <4>5
      <3> QED BY <1>1, <1>8, <3>2, Multiple
    <2> QED BY <1>7, <2>1, <2>2
  <1>10. Home(k, o) = GroupOf(s) /\ Home(k, 2 * o) = GroupOf(r)
    BY <1>2, <1>3, <1>5, <1>9 DEF Home
  <1>11. GroupOf(s) \in Slots(o) /\ GroupOf(s + o) = GroupOf(s) + o
    BY HalvesAre
  <1>12. GroupOf(s) \in Slots(2 * o) /\ GroupOf(s) + o \in Slots(2 * o)
    BY <1>1, <1>11 DEF Slots
  <1> QED BY <1>7, <1>10, <1>11, <1>12

\* The first probe is at home.
LEMMA HomeIsReached ==
  ASSUME NEW n, IsSize(n), NEW s, IsSlots(s, n), NEW k \in Key,
         Home(k, n) \in Slots(n)
  PROVE  Reaches(s, k, Home(k, n))
  <1>1. n \in Nat \ {0} /\ GroupSize \in Nat \ {0}
    BY Sizes
  <1>2. Size(s) = n
    BY <1>1, SizeIs
  <1>3. PICK h : h = Home(k, n)
    OBVIOUS
  <1>4. h \in 0..(n - 1)
    BY <1>3 DEF Slots
  <1>5. ProbeIndex(k, n, 0) = (h + GroupSize * ((0 * (0 + 1)) \div 2)) % n
    BY <1>3 DEF ProbeIndex
  <1>6. (0 * (0 + 1)) \div 2 = 0
    OBVIOUS
  <1>7. h + GroupSize * 0 = n * 0 + h
    BY <1>1, <1>4
  <1>8. (n * 0 + h) % n = h
    BY <1>1, <1>4, Multiple
  <1>9. ProbeGroup(s, k, 0) = h
    BY <1>2, <1>5, <1>6, <1>7, <1>8 DEF ProbeGroup
  <1>10. 0 \in Probes(s) /\ Slots(0) = {}
    <2>1. PICK m \in Nat \ {0} : m = n \div GroupSize
      BY Sizes
    <2> QED BY <1>2, <2>1 DEF Probes, Slots
  <1> QED BY <1>3, <1>9, <1>10 DEF Reaches

\* What GrowToNextAllocSize makes of a table (Widened) has its entries.
LEMMA WidenedHolds ==
  ASSUME NEW o, IsSize(o), NEW old, Sound(old, o)
  PROVE  Holds(Widened(old), 2 * o, old, Present(old))
  <1>1. o \in Nat \ {0} /\ DOMAIN old = Slots(o) /\ IsSlots(old, o) /\ Size(old) = o
    BY Sizes, SizeIs DEF Sound
  <1>2. PICK n : n = 2 * o /\ IsSize(n) /\ n \in Nat \ {0} /\ o < n
    BY <1>1, TwiceIsSize
  <1>3. PICK home : home = {i \in Present(old) : Home(old[i].key, o) = GroupOf(i)}
    OBVIOUS
  <1>4. PICK s : s = [j \in Slots(n) |->
                   IF /\ j % o \in home
                      /\ Home(old[j % o].key, n) = GroupOf(j)
                   THEN old[j % o] ELSE Empty]
    OBVIOUS
  <1>5. Widened(old) = Reinserted(s, old, Present(old) \ home)
    BY <1>1, <1>2, <1>3, <1>4 DEF Widened
  <1>6. /\ Present(old) \subseteq Slots(o)
        /\ \A i \in Present(old) : /\ IsCell(old[i]) /\ old[i].mark = "present"
                                   /\ old[i].key \in Key
                                   /\ old[i] # Empty /\ old[i] # Deleted
    BY <1>1, PresentIs, CellFacts
  <1>7. DOMAIN s = Slots(n) /\ IsSlots(s, n)
    <2>1. ASSUME NEW j \in Slots(n) PROVE IsCell(s[j])
      BY <1>3, <1>4, <1>6, MarksAreCells
    <2> QED BY <1>4, <2>1 DEF IsSlots
  <1>8. Empty.mark # "present" /\ Empty # Deleted
    BY DEF Empty, Deleted
  <1>9. ASSUME NEW j \in Present(s)
        PROVE  /\ j \in Slots(n) /\ j % o \in home /\ s[j] = old[j % o]
               /\ Home(s[j].key, n) = GroupOf(j)
    BY <1>4, <1>7, <1>8 DEF Present
  <1>10. NoneDeleted(s)
    BY <1>3, <1>4, <1>6, <1>7, <1>8 DEF NoneDeleted
  <1>11. Unique(s)
    <2>1. ASSUME NEW i \in Present(s), NEW j \in Present(s), s[i].key = s[j].key
          PROVE  i = j
      <3>1. i % o \in Present(old) /\ j % o \in Present(old) /\ old[i % o].key = old[j % o].key
        BY <1>3, <1>9, <2>1
      <3>2. i % o = j % o
        BY <3>1 DEF Sound, Unique
      <3>3. GroupOf(i) = GroupOf(j)
        BY <1>9, <2>1
      <3>4. PICK r \in Slots(o) : r = i % o /\ r = j % o
        BY <1>3, <1>6, <1>9, <3>2
      <3>5. (i = r \/ i = r + o) /\ (j = r \/ j = r + o)
        BY <1>2, <1>9, <3>4, SlotIsInHalf
      <3>6. GroupOf(r) # GroupOf(r + o)
        BY HalvesAre
      <3> QED BY <3>3, <3>5, <3>6
    <2> QED BY <2>1 DEF Unique
  <1>12. Reachable(s)
    <2>1. ASSUME NEW j \in Present(s) PROVE Reaches(s, s[j].key, GroupOf(j))
      <3>1. s[j].key \in Key
        BY <1>3, <1>6, <1>9
      <3>2. Home(s[j].key, n) \in Slots(n)
        BY <1>2, <3>1, HomeDoubles
      <3> QED BY <1>2, <1>7, <1>9, <3>1, <3>2, HomeIsReached
    <2> QED BY <2>1 DEF Reachable
  <1>13. EntriesOf(s) = {old[i] : i \in home}
    <2>1. ASSUME NEW i \in home PROVE \E j \in Present(s) : s[j] = old[i]
      <3>1. i \in Slots(o) /\ i \in Present(old)
        BY <1>3, <1>6
      <3>2. PICK k \in Key : k = old[i].key
        BY <1>6, <3>1
      <3>3. Home(k, o) = GroupOf(i)
        BY <1>3, <3>2
      <3>4. Home(k, n) = GroupOf(i) \/ Home(k, n) = GroupOf(i) + o
        BY <1>2, <3>3, HomeDoubles
      <3>5. \E j \in Slots(n) : j % o = i /\ Home(k, n) = GroupOf(j)
        BY <1>2, <3>1, <3>4, HalvesAre
      <3>6. PICK j \in Slots(n) : j % o = i /\ Home(k, n) = GroupOf(j)
        BY <3>5
      <3>7. s[j] = old[i]
        BY <1>4, <3>2, <3>6
      <3>8. j \in Present(s)
        BY <1>6, <1>7, <3>1, <3>7 DEF Present
      <3> QED BY <3>7, <3>8
    <2>2. \A j \in Present(s) : s[j] \in {old[i] : i \in home}
      BY <1>9
    <2> QED BY <2>1, <2>2 DEF EntriesOf
  <1>14. home = Present(old) \ (Present(old) \ home)
    BY <1>3
  <1>15. Holds(s, n, old, Present(old) \ (Present(old) \ home))
    BY <1>7, <1>10, <1>11, <1>12, <1>13, <1>14 DEF Holds, Sound
  <1>16. PICK from \in SUBSET Present(old) : from = Present(old) \ home
    OBVIOUS
  <1>17. Unique(old)
    BY DEF Sound
  <1>18. Holds(s, n, old, Present(old) \ from)
    BY <1>15, <1>16
  <1>19. Holds(Reinserted(s, old, from), n, old, Present(old))
    BY <1>1, <1>2, <1>17, <1>18, ReinsertedHolds
  <1> QED BY <1>2, <1>5, <1>16, <1>19

\* GrowToAllocSizeImpl to more than twice the size.
LEMMA RehashedHolds ==
  ASSUME NEW o, IsSize(o), NEW old, Sound(old, o), NEW n, IsSize(n), o < n
  PROVE  Holds(Rehashed(old, n), n, old, Present(old))
  <1>1. o \in Nat \ {0} /\ n \in Nat \ {0} /\ IsSlots(old, o) /\ Unique(old)
    BY Sizes DEF Sound
  <1>2. PICK s : s = AllEmpty(n)
    OBVIOUS
  <1>3. IsSlots(s, n) /\ DOMAIN s = Slots(n) /\ Present(s) = {} /\ NonEmpty(s) = {}
    BY <1>1, <1>2, AllEmptyIs
  <1>4. Sound(s, n)
    BY <1>3, NoEntriesSound
  <1>5. NoneDeleted(s)
    BY <1>2 DEF NoneDeleted, AllEmpty, Empty, Deleted
  <1>6. EntriesOf(s) = {old[i] : i \in Present(old) \ Present(old)}
    BY <1>3 DEF EntriesOf
  <1>7. PICK from \in SUBSET Present(old) : from = Present(old)
    OBVIOUS
  <1>8. Holds(s, n, old, Present(old) \ from)
    BY <1>4, <1>5, <1>6, <1>7 DEF Holds
  <1>9. Holds(Reinserted(s, old, from), n, old, Present(old))
    BY <1>1, <1>8, ReinsertedHolds
  <1> QED BY <1>2, <1>7, <1>9 DEF Rehashed

LEMMA GrownHolds ==
  ASSUME NEW o, IsSize(o), NEW old, Sound(old, o), NEW n, IsSize(n), o < n
  PROVE  Holds(GrownSlots(old, n), n, old, Present(old))
  <1>1. o \in Nat /\ IsSlots(old, o)
    BY Sizes DEF Sound
  <1>2. Size(old) = o
    BY <1>1, SizeIs
  <1> QED BY <1>2, WidenedHolds, RehashedHolds DEF GrownSlots, ComputeNextAllocSize

\* As many slots are used as there are entries.
LEMMA HoldsCounts ==
  ASSUME NEW o, IsSize(o), NEW old, Sound(old, o), NEW n, IsSize(n), NEW s,
         Holds(s, n, old, Present(old))
  PROVE  /\ Cardinality(NonEmpty(s)) = Cardinality(Present(old))
         /\ Cardinality(Present(old)) <= Cardinality(NonEmpty(old))
         /\ Cardinality(Present(old)) \in Nat
  <1>1. /\ o \in Nat \ {0} /\ n \in Nat \ {0} /\ IsSlots(old, o) /\ IsSlots(s, n)
        /\ Unique(s) /\ Unique(old)
    BY Sizes DEF Sound, Holds
  <1>2. /\ NonEmpty(s) = Present(s) /\ IsFiniteSet(Present(s)) /\ IsFiniteSet(Present(old))
        /\ Present(old) \subseteq NonEmpty(old)
    BY <1>1, PresentIs DEF Holds
  <1>3. IsFiniteSet(NonEmpty(old))
    <2>1. NonEmpty(old) \subseteq Slots(o) /\ IsFiniteSet(Slots(o))
      BY <1>1, SizeIs DEF NonEmpty
    <2> QED BY <2>1, FS_Subset
  <1>4. {s[i] : i \in Present(s)} = {old[i] : i \in Present(old)}
    BY DEF Holds, EntriesOf
  <1>5. PICK A, B : A = Present(s) /\ B = Present(old)
    OBVIOUS
  <1>6. /\ \A i \in A : \E j \in B : old[j] = s[i]
        /\ \A j \in B : \E i \in A : s[i] = old[j]
        /\ \A i, j \in A : s[i] = s[j] => i = j
        /\ \A i, j \in B : old[i] = old[j] => i = j
        /\ IsFiniteSet(A) /\ IsFiniteSet(B)
    BY <1>1, <1>2, <1>4, <1>5 DEF Unique
  <1>7. PICK f : f = [i \in A |-> CHOOSE j \in B : old[j] = s[i]]
    OBVIOUS
  <1>8. f \in [A -> B] /\ \A i \in A : old[f[i]] = s[i]
    BY <1>6, <1>7
  <1>9. PICK g : g = [j \in B |-> CHOOSE i \in A : s[i] = old[j]]
    OBVIOUS
  <1>10. g \in [B -> A] /\ \A j \in B : s[g[j]] = old[j]
    BY <1>6, <1>9
  <1>11. \A i, j \in A : f[i] = f[j] => i = j
    BY <1>6, <1>8
  <1>12. \A i, j \in B : g[i] = g[j] => i = j
    BY <1>6, <1>10
  <1>13. f \in Injection(A, B) /\ g \in Injection(B, A)
    BY <1>8, <1>10, <1>11, <1>12 DEF Injection, IsInjective
  <1>14. Cardinality(A) <= Cardinality(B) /\ Cardinality(B) <= Cardinality(A)
    BY <1>6, <1>13, FS_Injection
  <1>15. Cardinality(A) \in Nat /\ Cardinality(B) \in Nat
    BY <1>6, FS_CardinalityType
  <1>16. Cardinality(Present(old)) <= Cardinality(NonEmpty(old))
    BY <1>2, <1>3, FS_Subset
  <1> QED BY <1>2, <1>5, <1>14, <1>15, <1>16

-----------------------------------------------------------------------------
(* The growth budget.                                                      *)

LEMMA ThresholdIs ==
  ASSUME NEW n \in Nat
  PROVE  /\ GrowthThresholdForAllocSize(n) \in Nat
         /\ n >= LoadDivisor => GrowthThresholdForAllocSize(n) < n
  <1>1. LoadDivisor \in Nat \ {0, 1}
    BY SizesAssumption
  <1>2. PICK d \in Nat \ {0, 1} : d = LoadDivisor
    BY <1>1
  <1>3. PICK q \in Nat : \E r \in 0..(d - 1) : n = d * q + r /\ r = n % d /\ q = n \div d
    BY Division
  <1>4. PICK r \in 0..(d - 1) : n = d * q + r /\ q = n \div d
    BY <1>3
  <1>5. d * q >= q
    BY <1>2
  <1>6. n >= d => q >= 1
    <2>1. ASSUME q = 0, n >= d PROVE FALSE
      <3>1. n = r
        BY <1>4, <2>1
      <3> QED BY <1>4, <2>1, <3>1
    <2> QED BY <2>1
  <1>7. GrowthThresholdForAllocSize(n) = n - q
    BY <1>2, <1>4 DEF GrowthThresholdForAllocSize
  <1>8. n >= q
    <2>1. PICK a \in Nat : a = d * q
      BY <1>2
    <2> QED BY <1>4, <1>5, <2>1
  <1> QED BY <1>2, <1>6, <1>7, <1>8

\* More slots are more room.
LEMMA ThresholdGrows ==
  ASSUME NEW a \in Nat, NEW b \in Nat
  PROVE  /\ a <= b => GrowthThresholdForAllocSize(a) <= GrowthThresholdForAllocSize(b)
         /\ a + 2 <= b => GrowthThresholdForAllocSize(a) < GrowthThresholdForAllocSize(b)
  <1>1. PICK d \in Nat \ {0, 1} : d = LoadDivisor
    BY SizesAssumption
  <1>2. PICK q \in Nat : \E r \in 0..(d - 1) : a = d * q + r /\ r = a % d /\ q = a \div d
    BY Division
  <1>3. PICK r \in 0..(d - 1) : a = d * q + r /\ q = a \div d
    BY <1>2
  <1>4. PICK p \in Nat : \E s \in 0..(d - 1) : b = d * p + s /\ s = b % d /\ p = b \div d
    BY Division
  <1>5. PICK s \in 0..(d - 1) : b = d * p + s /\ p = b \div d
    BY <1>4
  <1>6. /\ GrowthThresholdForAllocSize(a) = a - q
        /\ GrowthThresholdForAllocSize(b) = b - p
    BY <1>1, <1>3, <1>5 DEF GrowthThresholdForAllocSize
  <1>7. CASE p = q
    <2>1. b - a = s - r
      BY <1>3, <1>5, <1>7
    <2> QED BY <1>6, <1>7, <2>1
  <1>8. CASE p < q
    <2>1. d * (q - p) >= d * 1
      BY <1>8
    <2>2. d * (q - p) = d * q - d * p
      OBVIOUS
    <2>3. PICK u \in Int, w \in Int : u = d * q /\ w = d * p
      OBVIOUS
    <2>4. a > b
      BY <1>3, <1>5, <2>1, <2>2, <2>3
    <2> QED BY <2>4
  <1>9. CASE p = q + 1
    <2>1. b - a = d + (s - r)
      <3>1. d * (q + 1) = d * q + d
        OBVIOUS
      <3>2. PICK u \in Int : u = d * q
        OBVIOUS
      <3> QED BY <1>3, <1>5, <1>9, <3>1, <3>2
    <2>2. (b - p) - (a - q) = (b - a) - 1
      BY <1>9
    <2> QED BY <1>6, <2>1, <2>2
  <1>10. CASE p > q + 1
    <2>1. PICK e \in Nat : e = p - q /\ e >= 2
      <3>1. p - q \in Nat /\ p - q >= 2
        BY <1>10
      <3> QED BY <3>1
    <2>2. b - a = d * e + (s - r)
      <3>1. d * e = d * p - d * q
        BY <2>1
      <3>2. PICK u \in Int, w \in Int : u = d * q /\ w = d * p
        OBVIOUS
      <3> QED BY <1>3, <1>5, <3>1, <3>2
    <2>3. d * e >= d + e
      <3>1. (d - 1) * (e - 1) >= 1
        <4>1. PICK x \in Nat \ {0}, y \in Nat \ {0} : x = d - 1 /\ y = e - 1
          <5>1. d - 1 \in Nat \ {0} /\ e - 1 \in Nat \ {0}
            BY <2>1
          <5> QED BY <5>1
        <4>2. x * y >= 1
          OBVIOUS
        <4> QED BY <4>1, <4>2
      <3>2. (d - 1) * (e - 1) = d * e - d - e + 1
        BY <2>1
      <3>3. PICK u \in Int : u = d * e
        OBVIOUS
      <3> QED BY <3>1, <3>2, <3>3
    <2>4. PICK u \in Int : u = d * e
      OBVIOUS
    <2>5. (b - p) - (a - q) = (u + (s - r)) - e
      BY <2>1, <2>2, <2>4
    <2>6. (u + (s - r)) - e >= d + (s - r)
      BY <2>3, <2>4
    <2>7. d + (s - r) >= 1
      OBVIOUS
    <2> QED BY <1>6, <2>5, <2>6, <2>7
  <1> QED BY <1>7, <1>8, <1>9, <1>10

-----------------------------------------------------------------------------
(* The invariant of a table that was not moved from.                       *)

WellKept(r) ==
  /\ IsSize(r.alloc) /\ r.alloc >= LoadDivisor
  /\ Sound(r.slots, r.alloc)
  /\ r.budget = GrowthThresholdForAllocSize(r.alloc) - Cardinality(NonEmpty(r.slots))
  /\ r.budget \in Nat

AllKept == \A t \in Table : MovedFrom(t) \/ WellKept(table[t])

LEMMA KeptHasRoom ==
  ASSUME NEW n, IsSize(n), n >= LoadDivisor, NEW s, IsSlots(s, n),
         GrowthThresholdForAllocSize(n) - Cardinality(NonEmpty(s)) \in Nat
  PROVE  HasRoom(s)
  <1>1. n \in Nat \ {0}
    BY Sizes
  <1>2. DOMAIN s = Slots(n) /\ Cardinality(Slots(n)) = n
    BY <1>1, SizeIs, SlotsAre
  <1>3. GrowthThresholdForAllocSize(n) < n /\ GrowthThresholdForAllocSize(n) \in Nat
    BY <1>1, ThresholdIs
  <1>4. ASSUME ~HasRoom(s) PROVE FALSE
    <2>1. NonEmpty(s) = Slots(n)
      BY <1>2, <1>4 DEF HasRoom, NonEmpty
    <2> QED BY <1>1, <1>2, <1>3, <2>1
  <1> QED BY <1>4

LEMMA KeptStays ==
  ASSUME Shaped, AllKept, NEW t \in Table, NEW x, table' = [table EXCEPT ![t] = x],
         x.alloc = 0 \/ WellKept(x)
  PROVE  AllKept'
  <1>1. DOMAIN table = Table
    BY DEF Shaped
  <1>2. \A u \in Table : table'[u] = IF u = t THEN x ELSE table[u]
    BY <1>1
  <1>3. ASSUME NEW u \in Table PROVE MovedFrom(u)' \/ WellKept(table'[u])
    <2>1. CASE u = t
      BY <1>2, <2>1 DEF MovedFrom
    <2>2. CASE u # t
      BY <1>2, <2>2 DEF MovedFrom, AllKept
    <2> QED BY <2>1, <2>2
  <1> QED BY <1>3 DEF AllKept

\* The table r after one slot was written is x.
Written(x, r, i, entry, cost) ==
  /\ x.alloc = r.alloc /\ x.storage = r.storage
  /\ x.slots = [r.slots EXCEPT ![i] = entry]
  /\ x.budget = r.budget - cost

LEMMA StoredIs ==
  ASSUME Shaped, NEW t \in Table, NEW i, NEW entry, NEW cost, Stores(t, i, entry, cost)
  PROVE  \E x : table' = [table EXCEPT ![t] = x] /\ Written(x, table[t], i, entry, cost)
  <1>1. PICK r : r = table[t]
    OBVIOUS
  <1>2. PICK x : x = [r EXCEPT !.slots[i] = entry, !.budget = @ - cost]
    OBVIOUS
  <1>3. table' = [table EXCEPT ![t] = x]
    BY <1>1, <1>2 DEF Stores
  <1>4. r = [alloc |-> r.alloc, slots |-> r.slots, storage |-> r.storage,
             budget |-> r.budget]
    BY <1>1 DEF Shaped
  <1>5. PICK p, b : p = [r.slots EXCEPT ![i] = entry] /\ b = r.budget - cost
    OBVIOUS
  <1>6. x = [alloc |-> r.alloc, slots |-> p, storage |-> r.storage, budget |-> b]
    <2>1. x = [[r EXCEPT !.slots = p] EXCEPT !.budget = b]
      BY <1>2, <1>4, <1>5
    <2> QED BY <1>4, <2>1
  <1>7. /\ x.alloc = r.alloc /\ x.storage = r.storage /\ x.slots = p /\ x.budget = b
    BY <1>6
  <1>8. Written(x, table[t], i, entry, cost)
    BY <1>1, <1>5, <1>7 DEF Written
  <1> QED BY <1>3, <1>8

\* A call that writes one slot keeps the table.
LEMMA StoreKeeps ==
  ASSUME Shaped, AllKept, NEW t \in Table, ~MovedFrom(t),
         NEW i \in Slots(table[t].alloc), NEW c, IsCell(c), NEW cost,
         Stores(t, i, c, cost),
         c = Empty => \E j \in Group(GroupOf(i)) : table[t].slots[j] = Empty,
         c.mark = "present" =>
           /\ Reaches(table[t].slots, c.key, GroupOf(i))
           /\ \A j \in Present(table[t].slots) : table[t].slots[j].key = c.key => j = i,
         \/ table[t].slots[i] = Empty /\ c # Empty /\ cost = 1 /\ table[t].budget # 0
         \/ table[t].slots[i] # Empty /\ c # Empty /\ cost = 0
         \/ table[t].slots[i] # Empty /\ c = Empty /\ cost = -1
  PROVE  AllKept'
  <1>1. PICK r : r = table[t]
    OBVIOUS
  <1>2. PICK x : /\ table' = [table EXCEPT ![t] = x]
                 /\ x.alloc = r.alloc
                 /\ x.slots = [r.slots EXCEPT ![i] = c]
                 /\ x.budget = r.budget - cost
    <2>1. PICK x : table' = [table EXCEPT ![t] = x] /\ Written(x, table[t], i, c, cost)
      BY StoredIs
    <2>2. /\ x.alloc = r.alloc /\ x.slots = [r.slots EXCEPT ![i] = c]
          /\ x.budget = r.budget - cost
      BY <1>1, <2>1 DEF Written
    <2> QED BY <2>1, <2>2
  <1>3. WellKept(r)
    BY <1>1 DEF AllKept
  <1>4. PICK n, s : n = r.alloc /\ s = r.slots
    OBVIOUS
  <1>5. IsSize(n) /\ Sound(s, n) /\ n \in Nat /\ i \in Slots(n) /\ IsSlots(s, n)
        /\ n >= LoadDivisor
    BY <1>1, <1>3, <1>4, Sizes DEF WellKept, Sound
  <1>6. /\ c = Empty => \E j \in Group(GroupOf(i)) : s[j] = Empty
        /\ c.mark = "present" => /\ Reaches(s, c.key, GroupOf(i))
                                 /\ \A j \in Present(s) : s[j].key = c.key => j = i
    BY <1>1, <1>4
  <1>7. Sound([s EXCEPT ![i] = c], n)
    BY <1>5, <1>6, PutIsSound
  <1>8. PICK m \in Nat : m = Cardinality(NonEmpty(s))
    BY <1>5, PutCounts
  <1>9. Cardinality(NonEmpty([s EXCEPT ![i] = c])) = m + cost /\ cost \in {0, 1, -1}
        /\ r.budget - cost \in Nat
    <2>1. r.budget \in Nat
      BY <1>3 DEF WellKept
    <2>2. CASE s[i] = Empty /\ c # Empty /\ cost = 1 /\ r.budget # 0
      <3>1. Cardinality(NonEmpty([s EXCEPT ![i] = c])) = Cardinality(NonEmpty(s)) + 1
        BY ONLY <1>5, <2>2, PutCounts
      <3> QED BY <1>8, <2>1, <2>2, <3>1
    <2>3. CASE s[i] # Empty /\ c # Empty /\ cost = 0
      <3>1. Cardinality(NonEmpty([s EXCEPT ![i] = c])) = Cardinality(NonEmpty(s))
        BY ONLY <1>5, <2>3, PutCounts
      <3> QED BY <1>8, <2>1, <2>3, <3>1
    <2>4. CASE s[i] # Empty /\ c = Empty /\ cost = -1
      <3>1. Cardinality(NonEmpty([s EXCEPT ![i] = c])) = Cardinality(NonEmpty(s)) - 1
        BY ONLY <1>5, <2>4, PutCounts
      <3> QED BY <1>8, <2>1, <2>4, <3>1
    <2> QED BY <1>1, <1>4, <2>2, <2>3, <2>4
  <1>10. GrowthThresholdForAllocSize(n) \in Nat
    BY <1>5, ThresholdIs
  <1>11. r.budget = GrowthThresholdForAllocSize(n) - m
    BY <1>3, <1>4, <1>8 DEF WellKept
  <1>12. x.budget = GrowthThresholdForAllocSize(n) - Cardinality(NonEmpty(x.slots))
    BY <1>2, <1>4, <1>8, <1>9, <1>10, <1>11
  <1>13. WellKept(x)
    BY <1>2, <1>4, <1>5, <1>7, <1>9, <1>12 DEF WellKept
  <1> QED BY <1>2, <1>13, KeptStays

\* The table of t was grown to the slots r, which have these entries.
GrownTo(t, n, r, entries, spent) ==
  /\ Regrown(t, n, r, spent)
  /\ IsSize(n) /\ n > table[t].alloc /\ (spent = 1 => n >= table[t].alloc + 2)
  /\ Sound(r, n) /\ EntriesOf(r) = entries
  /\ Cardinality(NonEmpty(r)) = Cardinality(Present(table[t].slots)) + spent
  /\ Cardinality(Present(table[t].slots)) \in Nat
  /\ Cardinality(Present(table[t].slots)) <= Cardinality(NonEmpty(table[t].slots))

LEMMA RegrownKeeps ==
  ASSUME Shaped, AllKept, NEW t \in Table, ~MovedFrom(t),
         NEW n, NEW slots, NEW entries, NEW spent \in {0, 1},
         GrownTo(t, n, slots, entries, spent)
  PROVE  AllKept'
  <1>17. /\ Regrown(t, n, slots, spent)
         /\ IsSize(n) /\ n > table[t].alloc /\ (spent = 1 => n >= table[t].alloc + 2)
         /\ Sound(slots, n)
    BY DEF GrownTo
  <1>18. /\ Cardinality(NonEmpty(slots)) = Cardinality(Present(table[t].slots)) + spent
         /\ Cardinality(Present(table[t].slots)) \in Nat
         /\ Cardinality(Present(table[t].slots)) <= Cardinality(NonEmpty(table[t].slots))
    BY DEF GrownTo
  <1>1. PICK b, s : /\ b = GrowthThresholdForAllocSize(n)
                             - Cardinality(Present(table[t].slots)) - spent
                    /\ s = NewBlock
    OBVIOUS
  <1>2. PICK x : x = [alloc |-> n, slots |-> slots, storage |-> s, budget |-> b]
    OBVIOUS
  <1>3. x.alloc = n /\ x.slots = slots /\ x.budget = b
    BY <1>2
  <1>4. table' = [table EXCEPT ![t] = x]
    BY <1>1, <1>2, <1>17 DEF Regrown
  <1>5. PICK a, m, w : /\ a = table[t].alloc /\ m = Cardinality(Present(table[t].slots))
                       /\ w = Cardinality(NonEmpty(table[t].slots))
    OBVIOUS
  <1>6. WellKept(table[t])
    BY DEF AllKept
  <1>7. /\ IsSize(a) /\ a >= LoadDivisor /\ IsSlots(table[t].slots, a)
        /\ GrowthThresholdForAllocSize(a) - w \in Nat
    BY <1>5, <1>6 DEF WellKept, Sound
  <1>8. a \in Nat \ {0} /\ n \in Nat \ {0}
    BY <1>7, <1>17, Sizes
  <1>9. /\ GrowthThresholdForAllocSize(n) \in Nat /\ GrowthThresholdForAllocSize(a) \in Nat
        /\ a <= n => GrowthThresholdForAllocSize(a) <= GrowthThresholdForAllocSize(n)
        /\ a + 2 <= n => GrowthThresholdForAllocSize(a) < GrowthThresholdForAllocSize(n)
    BY <1>8, ThresholdIs, ThresholdGrows
  <1>10. w \in Nat
    BY <1>5, <1>7, <1>8, SizeIs, FS_Subset, FS_CardinalityType DEF NonEmpty
  <1>11. m \in Nat /\ m <= w /\ n > a /\ (spent = 1 => n >= a + 2)
    BY <1>5, <1>17, <1>18
  <1>12. b = GrowthThresholdForAllocSize(n) - m - spent
    BY <1>1, <1>5
  <1>13. b \in Nat /\ b = GrowthThresholdForAllocSize(n) - (m + spent)
    BY <1>7, <1>8, <1>9, <1>10, <1>11, <1>12
  <1>14. Cardinality(NonEmpty(slots)) = m + spent
    BY <1>5, <1>18
  <1>15. n >= LoadDivisor
    BY <1>7, <1>8, <1>11, SizesAssumption
  <1>16. WellKept(x)
    BY <1>3, <1>13, <1>14, <1>15, <1>17 DEF WellKept
  <1> QED BY <1>4, <1>16, KeptStays

LEMMA GrowIs ==
  ASSUME Shaped, AllKept, NEW t \in Table, NEW n, IsPowerOf2(n), ~MovedFrom(t),
         GrowToAllocSizeImpl(t, n)
  PROVE  \/ UNCHANGED vars
         \/ \E r : GrownTo(t, n, r, EntriesOf(table[t].slots), 0)
  <1>1. CASE n <= table[t].alloc
    BY <1>1 DEF GrowToAllocSizeImpl
  <1>2. CASE ~(n <= table[t].alloc)
    <2>1. PICK o, old : o = table[t].alloc /\ old = table[t].slots
      OBVIOUS
    <2>2. IsSize(o) /\ Sound(old, o)
      BY <2>1 DEF AllKept, WellKept
    <2>3. o \in Nat \ {0} /\ n \in Nat \ {0} /\ GroupSize \in Nat \ {0} /\ o < n
      BY <1>2, <2>1, <2>2, Sizes DEF IsPowerOf2
    <2>4. GroupSize <= o
      <3>1. PICK m \in Nat \ {0} : o = GroupSize * m /\ m = o \div GroupSize
        BY <2>2, Sizes
      <3>2. GroupSize * m >= GroupSize * 1
        BY <2>3
      <3> QED BY <2>3, <3>1, <3>2
    <2>5. n % GroupSize = 0
      <3>1. IsPowerOf2(GroupSize) /\ GroupSize <= n
        BY <2>3, <2>4, SizesAssumption
      <3> QED BY <3>1, PowerDivides
    <2>6. IsSize(n)
      BY <2>5 DEF IsSize
    <2>7. PICK s : s = GrownSlots(old, n)
      OBVIOUS
    <2>8. Holds(s, n, old, Present(old))
      BY <2>2, <2>3, <2>6, <2>7, GrownHolds
    <2>9. /\ Cardinality(NonEmpty(s)) = Cardinality(Present(old))
          /\ Cardinality(Present(old)) <= Cardinality(NonEmpty(old))
          /\ Cardinality(Present(old)) \in Nat
      BY <2>2, <2>6, <2>8, HoldsCounts
    <2>10. Sound(s, n)
      BY <2>8 DEF Holds
    <2>11. Regrown(t, n, s, 0)
      BY <1>2, <2>1, <2>7 DEF GrowToAllocSizeImpl
    <2>12. /\ n > table[t].alloc
           /\ Cardinality(NonEmpty(s)) = Cardinality(Present(table[t].slots)) + 0
           /\ Cardinality(Present(table[t].slots)) \in Nat
           /\ Cardinality(Present(table[t].slots)) <= Cardinality(NonEmpty(table[t].slots))
      BY <2>1, <2>3, <2>9
    <2>13. EntriesOf(s) = EntriesOf(table[t].slots)
      BY <2>1, <2>8 DEF Holds, EntriesOf
    <2> QED BY <2>6, <2>10, <2>11, <2>12, <2>13 DEF GrownTo
  <1> QED BY <1>1, <1>2

LEMMA GrowKeeps ==
  ASSUME Shaped, AllKept, NEW t \in Table, NEW n, IsPowerOf2(n), ~MovedFrom(t),
         GrowToAllocSizeImpl(t, n)
  PROVE  AllKept' \/ UNCHANGED vars
  <1>1. \/ UNCHANGED vars
        \/ \E r : GrownTo(t, n, r, EntriesOf(table[t].slots), 0)
    BY GrowIs
  <1>2. PICK spent \in {0, 1} : spent = 0
    OBVIOUS
  <1> QED BY <1>1, <1>2, RegrownKeeps

\* InsertImpl writes the entry of a new key to the slot i.
NewSlot(t, k, i, cost) ==
  /\ i \in Slots(table[t].alloc) /\ Reaches(table[t].slots, k, GroupOf(i))
  /\ \/ table[t].slots[i] = Deleted /\ cost = 0
     \/ table[t].slots[i] = Empty /\ cost = 1 /\ table[t].budget # 0

LEMMA InsertNewIs ==
  ASSUME Shaped, AllKept, NEW t \in Table, NEW k \in Key, NEW v \in Val[k],
         ~MovedFrom(t), SearchEnds(t, k), LookupEntry(table[t].slots, k) = {},
         InsertNew(t, Entry(k, v))
  PROVE  /\ ~HasKey(table[t].slots, k)
         /\ \/ \E i, cost : Stores(t, i, Entry(k, v), cost) /\ NewSlot(t, k, i, cost)
            \/ \E n, r : GrownTo(t, n, r, EntriesOf(table[t].slots) \cup {Entry(k, v)}, 1)
  <1>1. PICK o, old, c : o = table[t].alloc /\ old = table[t].slots /\ c = Entry(k, v)
    OBVIOUS
  <1>2. /\ IsSize(o) /\ Sound(old, o) /\ o \in Nat \ {0} /\ IsSlots(old, o)
        /\ DOMAIN old = Slots(o) /\ table[t].budget \in Nat /\ o >= LoadDivisor
    BY <1>1, Sizes, SizeIs DEF AllKept, WellKept, Sound
  <1>3. IsCell(c) /\ c.mark = "present" /\ c.key = k /\ c # Empty /\ c # Deleted
    BY <1>1, EntryIsCell, CellFacts
  <1>4. PICK last : last = LastProbe(old, k)
    OBVIOUS
  <1>5. \E m \in Probes(old) : EndsAt(old, k, m)
    BY <1>1 DEF SearchEnds
  <1>6. /\ last \in Probes(old) /\ EndsAt(old, k, last)
        /\ \A p \in Slots(last) : ~HasEmpty(old, k, p)
        /\ {i \in Present(old) : old[i].key = k} = {}
    BY <1>1, <1>2, <1>4, <1>5, LookupIs
  <1>7. ~HasKey(table[t].slots, k)
    BY <1>1, <1>6 DEF HasKey
  <1>8. /\ Probes(old) \in SUBSET Nat
        /\ \A p \in 0..last : p \in Probes(old)
        /\ \A m \in Probes(old) : ProbeGroup(old, k, m) \in Groups(o)
        /\ \A m, p \in Probes(old) : p \in Slots(m) <=> p < m
        /\ \A m \in Probes(old) : \A p \in Slots(m) : p \in Probes(old) /\ p < m
    BY <1>2, <1>6, ProbeFacts
  <1>9. PICK over : over = {p \in 0..last : DeletedIn(old, ProbeGroup(old, k, p)) # {}}
    OBVIOUS
  <1>10. ASSUME NEW m \in Probes(old), m <= last
         PROVE  Reaches(old, k, ProbeGroup(old, k, m))
    <2>1. \A p \in Slots(m) : p \in Slots(last)
      BY <1>6, <1>8, <1>10
    <2> QED BY <1>6, <2>1 DEF Reaches
  <1>11. ASSUME over # {},
                Stores(t, Min(DeletedIn(old, ProbeGroup(old, k, Min(over)))), c, 0)
         PROVE  \E i, cost : Stores(t, i, c, cost) /\ NewSlot(t, k, i, cost)
    <2>1. over \in SUBSET Nat
      BY <1>9
    <2>2. PICK m : m = Min(over)
      OBVIOUS
    <2>3. m \in over /\ m \in Probes(old) /\ m <= last
      BY <1>8, <1>9, <1>11, <2>1, <2>2, MinIsLeast
    <2>4. PICK g, S : g = ProbeGroup(old, k, m) /\ S = DeletedIn(old, g)
      OBVIOUS
    <2>5. g \in Groups(o) /\ S # {}
      BY <1>8, <1>9, <2>3, <2>4
    <2>6. S \in SUBSET Slots(o) /\ \A i \in S : old[i] = Deleted /\ GroupOf(i) = g
      BY <1>2, <2>4, <2>5, GroupIs DEF DeletedIn
    <2>7. S \in SUBSET Nat
      BY <2>6 DEF Slots
    <2>8. PICK i : i = Min(S)
      OBVIOUS
    <2>9. i \in S /\ i \in Slots(o) /\ old[i] = Deleted /\ GroupOf(i) = g
      BY <2>5, <2>6, <2>7, <2>8, MinIsLeast
    <2>10. Reaches(old, k, g)
      BY <1>10, <2>3, <2>4
    <2>11. Stores(t, i, c, 0)
      BY <1>11, <2>2, <2>4, <2>8
    <2>12. NewSlot(t, k, i, 0)
      BY <1>1, <2>9, <2>10 DEF NewSlot
    <2> QED BY <2>11, <2>12
  <1>12. ASSUME over = {}, table[t].budget # 0,
                Stores(t, Min(EmptyIn(old, ProbeGroup(old, k, last))), c, 1)
         PROVE  \E i, cost : Stores(t, i, c, cost) /\ NewSlot(t, k, i, cost)
    <2>1. PICK g, S : g = ProbeGroup(old, k, last) /\ S = EmptyIn(old, g)
      OBVIOUS
    <2>2. g \in Groups(o)
      BY <1>6, <1>8, <2>1
    <2>3. S # {}
      <3>1. Holding(old, k, last) = {}
        BY <1>1, <1>4 DEF LookupEntry
      <3> QED BY <1>6, <2>1, <3>1 DEF EndsAt, HasEmpty
    <2>4. S \in SUBSET Slots(o) /\ \A i \in S : old[i] = Empty /\ GroupOf(i) = g
      BY <1>2, <2>1, <2>2, GroupIs DEF EmptyIn
    <2>5. S \in SUBSET Nat
      BY <2>4 DEF Slots
    <2>6. PICK i : i = Min(S)
      OBVIOUS
    <2>7. i \in S /\ i \in Slots(o) /\ old[i] = Empty /\ GroupOf(i) = g
      BY <2>3, <2>4, <2>5, <2>6, MinIsLeast
    <2>8. Reaches(old, k, g)
      <3>1. last <= last
        BY <1>6, <1>8
      <3> QED BY <1>6, <1>10, <2>1, <3>1
    <2>9. Stores(t, i, c, 1)
      BY <1>12, <2>1, <2>6
    <2>10. NewSlot(t, k, i, 1)
      BY <1>1, <1>12, <2>7, <2>8 DEF NewSlot
    <2> QED BY <2>9, <2>10
  <1>13. ASSUME Regrown(t, ComputeNextAllocSize(o), InsertIntoEmpty(Widened(old), c), 1)
         PROVE  \E n, r : GrownTo(t, n, r, EntriesOf(table[t].slots) \cup {Entry(k, v)}, 1)
    <2>1. PICK n, s, r : n = 2 * o /\ s = Widened(old) /\ r = InsertIntoEmpty(s, c)
      OBVIOUS
    <2>2. IsSize(n) /\ n \in Nat \ {0}
      BY <1>2, <2>1, TwiceIsSize
    <2>3. Holds(s, n, old, Present(old))
      BY <1>2, <2>1, WidenedHolds
    <2>4. Sound(s, n) /\ NoneDeleted(s) /\ EntriesOf(s) = EntriesOf(old)
      BY <2>3 DEF Holds, EntriesOf
    <2>5. HasRoom(s)
      BY <1>2, <2>1, <2>2, <2>4, LargerHasRoom
    <2>6. ~HasKey(s, k)
      <3>1. ASSUME NEW j \in Present(s), s[j].key = k PROVE FALSE
        <4>1. s[j] \in EntriesOf(old)
          BY <2>4 DEF EntriesOf
        <4>2. PICK i \in Present(old) : s[j] = old[i]
          BY <4>1 DEF EntriesOf
        <4> QED BY <1>6, <3>1, <4>2
      <3> QED BY <3>1 DEF HasKey
    <2>7. /\ Sound(r, n) /\ EntriesOf(r) = EntriesOf(s) \cup {c}
          /\ Cardinality(NonEmpty(r)) = Cardinality(NonEmpty(s)) + 1
      BY <1>1, <2>1, <2>2, <2>4, <2>5, <2>6, InsertedHolds
    <2>8. /\ Cardinality(NonEmpty(s)) = Cardinality(Present(old))
          /\ Cardinality(Present(old)) <= Cardinality(NonEmpty(old))
          /\ Cardinality(Present(old)) \in Nat
      BY <1>2, <2>2, <2>3, HoldsCounts
    <2>10. n > o /\ n >= o + 2
      <3>1. o >= 2
        BY <1>2, SizesAssumption
      <3> QED BY <1>2, <2>1, <3>1
    <2>11. Regrown(t, n, r, 1)
      BY <1>13, <2>1 DEF ComputeNextAllocSize
    <2>12. /\ n > table[t].alloc /\ n >= table[t].alloc + 2
           /\ Cardinality(NonEmpty(r)) = Cardinality(Present(table[t].slots)) + 1
           /\ Cardinality(Present(table[t].slots)) \in Nat
           /\ Cardinality(Present(table[t].slots)) <= Cardinality(NonEmpty(table[t].slots))
      BY <1>1, <2>7, <2>8, <2>10
    <2>13. EntriesOf(r) = EntriesOf(table[t].slots) \cup {Entry(k, v)}
      BY <1>1, <2>4, <2>7
    <2> QED BY <2>2, <2>7, <2>11, <2>12, <2>13 DEF GrownTo
  <1>14. \/ /\ over # {}
            /\ Stores(t, Min(DeletedIn(old, ProbeGroup(old, k, Min(over)))), c, 0)
         \/ /\ over = {} /\ table[t].budget # 0
            /\ Stores(t, Min(EmptyIn(old, ProbeGroup(old, k, last))), c, 1)
         \/ Regrown(t, ComputeNextAllocSize(o), InsertIntoEmpty(Widened(old), c), 1)
    <2>1. Entry(k, v).key = k
      BY DEF Entry
    <2> QED BY <1>1, <1>4, <1>9, <2>1 DEF InsertNew
  <1> QED BY <1>1, <1>7, <1>11, <1>12, <1>13, <1>14

LEMMA InsertNewKeeps ==
  ASSUME Shaped, AllKept, NEW t \in Table, NEW k \in Key, NEW v \in Val[k],
         ~MovedFrom(t), SearchEnds(t, k), LookupEntry(table[t].slots, k) = {},
         InsertNew(t, Entry(k, v))
  PROVE  AllKept'
  <1>1. /\ ~HasKey(table[t].slots, k)
        /\ \/ \E i, cost : Stores(t, i, Entry(k, v), cost) /\ NewSlot(t, k, i, cost)
           \/ \E n, r : GrownTo(t, n, r, EntriesOf(table[t].slots) \cup {Entry(k, v)}, 1)
    BY InsertNewIs
  <1>2. ASSUME NEW i, NEW cost, Stores(t, i, Entry(k, v), cost), NewSlot(t, k, i, cost)
        PROVE  AllKept'
    <2>1. PICK c : c = Entry(k, v)
      OBVIOUS
    <2>2. IsCell(c) /\ c.mark = "present" /\ c.key = k /\ c # Empty
      BY <2>1, EntryIsCell, CellFacts
    <2>3. /\ i \in Slots(table[t].alloc) /\ Stores(t, i, c, cost)
          /\ Reaches(table[t].slots, c.key, GroupOf(i))
          /\ \A j \in Present(table[t].slots) : table[t].slots[j].key = c.key => j = i
      BY <1>1, <1>2, <2>1, <2>2 DEF NewSlot, HasKey
    <2>4. \/ table[t].slots[i] = Empty /\ c # Empty /\ cost = 1 /\ table[t].budget # 0
          \/ table[t].slots[i] # Empty /\ c # Empty /\ cost = 0
      BY <1>2, <2>2 DEF NewSlot, Empty, Deleted
    <2> QED BY <2>2, <2>3, <2>4, StoreKeeps
  <1>3. ASSUME NEW n, NEW r,
               GrownTo(t, n, r, EntriesOf(table[t].slots) \cup {Entry(k, v)}, 1)
        PROVE  AllKept'
    <2>1. PICK spent, e : /\ spent \in {0, 1} /\ spent = 1
                          /\ e = EntriesOf(table[t].slots) \cup {Entry(k, v)}
      OBVIOUS
    <2>2. GrownTo(t, n, r, e, spent)
      BY <1>3, <2>1
    <2> QED BY <2>1, <2>2, RegrownKeeps
  <1> QED BY <1>1, <1>2, <1>3

\* The slot in which Update and Erase find a key.
LEMMA FoundIs ==
  ASSUME AllKept, NEW t \in Table, NEW k \in Key, ~MovedFrom(t), SearchEnds(t, k),
         LookupEntry(table[t].slots, k) # {}
  PROVE  /\ Min(LookupEntry(table[t].slots, k)) \in Present(table[t].slots)
         /\ Min(LookupEntry(table[t].slots, k)) \in Slots(table[t].alloc)
         /\ table[t].slots[Min(LookupEntry(table[t].slots, k))].key = k
  <1>1. PICK o, old, at : /\ o = table[t].alloc /\ old = table[t].slots
                          /\ at = LookupEntry(old, k)
    OBVIOUS
  <1>2. /\ IsSize(o) /\ Sound(old, o) /\ o \in Nat \ {0} /\ IsSlots(old, o)
    BY <1>1, Sizes DEF AllKept, WellKept, Sound
  <1>3. at = {i \in Present(old) : old[i].key = k}
    <2>1. \E m \in Probes(old) : EndsAt(old, k, m)
      BY <1>1 DEF SearchEnds
    <2> QED BY <1>1, <1>2, <2>1, LookupIs
  <1>4. Present(old) \subseteq Slots(o)
    BY <1>2, PresentIs
  <1>5. at \in SUBSET Nat /\ at # {}
    BY <1>1, <1>3, <1>4 DEF Slots
  <1>6. PICK i : i = Min(at) /\ i \in at
    BY <1>5, MinIsLeast
  <1> QED BY <1>1, <1>3, <1>4, <1>6

LEMMA UpdateKeeps ==
  ASSUME Shaped, AllKept, NEW t \in Table, NEW k \in Key, NEW v \in Val[k], Update(t, k, v)
  PROVE  AllKept'
  <1>1. PICK o, old, at, c : /\ o = table[t].alloc /\ old = table[t].slots
                             /\ at = LookupEntry(old, k) /\ c = Entry(k, v)
    OBVIOUS
  <1>2. ~MovedFrom(t) /\ SearchEnds(t, k)
    BY DEF Update
  <1>3. /\ IsSize(o) /\ Sound(old, o) /\ o \in Nat \ {0} /\ IsSlots(old, o)
    BY <1>1, <1>2, Sizes DEF AllKept, WellKept, Sound
  <1>4. CASE at = {}
    <2>1. InsertNew(t, Entry(k, v))
      BY <1>1, <1>4 DEF Update
    <2> QED BY <1>1, <1>2, <1>4, <2>1, InsertNewKeeps
  <1>5. CASE at # {}
    <2>4. PICK i : i = Min(at)
      OBVIOUS
    <2>5. i \in Present(old) /\ i \in Slots(o) /\ old[i].key = k
      BY <1>1, <1>2, <1>5, <2>4, FoundIs
    <2>6. PICK cost : cost = 0
      OBVIOUS
    <2>7. Stores(t, i, c, cost)
      BY <1>1, <1>5, <2>4, <2>6 DEF Update
    <2>8. IsCell(c) /\ c.mark = "present" /\ c.key = k /\ c # Empty
      BY <1>1, EntryIsCell, CellFacts
    <2>9. /\ Reaches(old, k, GroupOf(i))
          /\ \A j \in Present(old) : old[j].key = k => j = i
          /\ old[i] # Empty
      BY <1>3, <2>5, PresentIs DEF Sound, Reachable, Unique
    <2>10. /\ i \in Slots(table[t].alloc) /\ Stores(t, i, c, cost)
           /\ Reaches(table[t].slots, c.key, GroupOf(i))
           /\ \A j \in Present(table[t].slots) : table[t].slots[j].key = c.key => j = i
           /\ table[t].slots[i] # Empty
      BY <1>1, <2>5, <2>7, <2>8, <2>9
    <2> QED BY <1>2, <2>6, <2>8, <2>10, StoreKeeps
  <1> QED BY <1>4, <1>5

LEMMA InsertKeeps ==
  ASSUME Shaped, AllKept, NEW t \in Table, NEW k \in Key, NEW v \in Val[k], Insert(t, k, v)
  PROVE  AllKept' \/ UNCHANGED vars
  BY InsertNewKeeps DEF Insert

LEMMA EraseKeeps ==
  ASSUME Shaped, AllKept, NEW t \in Table, NEW k \in Key, Erase(t, k)
  PROVE  AllKept' \/ UNCHANGED vars
  <1>1. PICK o, old, at : /\ o = table[t].alloc /\ old = table[t].slots
                          /\ at = LookupEntry(old, k)
    OBVIOUS
  <1>2. ~MovedFrom(t) /\ SearchEnds(t, k)
    BY DEF Erase
  <1>3. /\ IsSize(o) /\ Sound(old, o) /\ o \in Nat \ {0} /\ IsSlots(old, o)
    BY <1>1, <1>2, Sizes DEF AllKept, WellKept, Sound
  <1>4. CASE at = {}
    BY <1>1, <1>4 DEF Erase
  <1>5. CASE at # {}
    <2>4. PICK i : i = Min(at)
      OBVIOUS
    <2>5. i \in Present(old) /\ i \in Slots(o)
      BY <1>1, <1>2, <1>5, <2>4, FoundIs
    <2>6. old[i] # Empty
      BY <1>3, <2>5, PresentIs
    <2>7. /\ Empty.mark # "present" /\ Deleted.mark # "present" /\ Deleted # Empty
          /\ IsCell(Empty) /\ IsCell(Deleted)
      BY MarksAreCells DEF Empty, Deleted
    <2>8. \/ EmptyIn(old, GroupOf(i)) # {} /\ Stores(t, i, Empty, -1)
          \/ Stores(t, i, Deleted, 0)
      BY <1>1, <1>5, <2>4 DEF Erase
    <2>9. i \in Slots(table[t].alloc) /\ table[t].slots[i] # Empty
      BY <1>1, <2>5, <2>6
    <2>10. ASSUME EmptyIn(old, GroupOf(i)) # {}, Stores(t, i, Empty, -1) PROVE AllKept'
      <3>1. PICK c, cost : c = Empty /\ cost = -1
        OBVIOUS
      <3>2. \E j \in Group(GroupOf(i)) : table[t].slots[j] = Empty
        BY <1>1, <2>10 DEF EmptyIn
      <3>3. /\ IsCell(c) /\ Stores(t, i, c, cost) /\ c.mark # "present"
        BY <2>7, <2>10, <3>1
      <3> QED BY <1>2, <2>9, <3>1, <3>2, <3>3, StoreKeeps
    <2>11. ASSUME Stores(t, i, Deleted, 0) PROVE AllKept'
      <3>1. PICK c, cost : c = Deleted /\ cost = 0
        OBVIOUS
      <3>2. IsCell(c) /\ Stores(t, i, c, cost) /\ c.mark # "present" /\ c # Empty
        BY <2>7, <2>11, <3>1
      <3> QED BY <1>2, <2>9, <3>1, <3>2, StoreKeeps
    <2> QED BY <2>8, <2>10, <2>11
  <1> QED BY <1>4, <1>5

\* A table of empty slots, with all its budget.
LEMMA EmptyIsKept ==
  ASSUME NEW x, IsSize(x.alloc), x.alloc >= LoadDivisor, IsSlots(x.slots, x.alloc),
         Present(x.slots) = {}, NonEmpty(x.slots) = {},
         x.budget = GrowthThresholdForAllocSize(x.alloc)
  PROVE  WellKept(x)
  <1>1. PICK n, s : n = x.alloc /\ s = x.slots
    OBVIOUS
  <1>2. n \in Nat /\ IsSize(n) /\ IsSlots(s, n) /\ Present(s) = {}
    BY <1>1, Sizes
  <1>3. Sound(s, n) /\ GrowthThresholdForAllocSize(n) \in Nat
    BY <1>2, NoEntriesSound, ThresholdIs
  <1>4. Cardinality({}) = 0
    BY FS_EmptySet
  <1>5. x.budget = GrowthThresholdForAllocSize(n) - Cardinality(NonEmpty(s))
    BY <1>1, <1>3, <1>4
  <1> QED BY <1>1, <1>3, <1>5 DEF WellKept

LEMMA ClearIs ==
  ASSUME ~ClearsAnything, Shaped, AllKept, NEW t \in Table, Clear(t)
  PROVE  \E x : /\ table' = [table EXCEPT ![t] = x] /\ WellKept(x)
                /\ x.alloc = table[t].alloc /\ Present(x.slots) = {}
  <1>1. PICK r, p, b : /\ r = table[t] /\ p = ClearedSlots(r.slots)
                       /\ b = GrowthThresholdForAllocSize(r.alloc)
    OBVIOUS
  <1>2. r = [alloc |-> r.alloc, slots |-> r.slots, storage |-> r.storage,
             budget |-> r.budget]
    BY <1>1 DEF Shaped
  <1>3. PICK x : x = [alloc |-> r.alloc, slots |-> p, storage |-> r.storage, budget |-> b]
    OBVIOUS
  <1>4. x.alloc = r.alloc /\ x.slots = p /\ x.budget = b
    BY <1>3
  <1>5. table' = [table EXCEPT ![t].slots = ClearedSlots(@),
                 ![t].budget = GrowthThresholdForAllocSize(table[t].alloc)]
    BY DEF Clear
  <1>6. table' = [table EXCEPT ![t] = [[r EXCEPT !.slots = p] EXCEPT !.budget = b]]
    <2>1. DOMAIN table = Table
      BY DEF Shaped
    <2> QED BY <1>1, <1>2, <1>5, <2>1
  <1>7. [[r EXCEPT !.slots = p] EXCEPT !.budget = b] = x
    <2>1. PICK y : y = [[r EXCEPT !.slots = p] EXCEPT !.budget = b]
      OBVIOUS
    <2>2. y = [alloc |-> r.alloc, slots |-> p, storage |-> r.storage, budget |-> b]
      BY <1>2, <2>1
    <2> QED BY <1>3, <2>1, <2>2
  <1>8. table' = [table EXCEPT ![t] = x]
    BY <1>6, <1>7
  <1>9. WellKept(r) /\ \A i \in NonEmpty(r.slots) : GroupOf(i) \in GroupsSeen(r.slots)
    BY <1>1 DEF AllKept, Clear
  <1>10. PICK n, s : n = r.alloc /\ s = r.slots
    OBVIOUS
  <1>11. /\ IsSize(n) /\ n >= LoadDivisor /\ n \in Nat /\ IsSlots(s, n)
         /\ DOMAIN s = Slots(n)
    BY <1>9, <1>10, Sizes, SizeIs DEF WellKept, Sound
  <1>12. DOMAIN p = Slots(n) /\ p = [i \in Slots(n) |-> p[i]]
         /\ \A i \in Slots(n) : p[i] = Empty
    <2>1. p = [i \in Slots(n) |-> IF GroupOf(i) \in GroupsSeen(s) THEN Empty ELSE s[i]]
      BY <1>1, <1>10, <1>11 DEF ClearedSlots
    <2>2. \A i \in Slots(n) : s[i] # Empty => GroupOf(i) \in GroupsSeen(s)
      BY <1>9, <1>10, <1>11 DEF NonEmpty
    <2> QED BY <2>1, <2>2
  <1>13. IsSlots(p, n) /\ Present(p) = {} /\ NonEmpty(p) = {}
    <2>1. Empty.mark # "present"
      BY DEF Empty
    <2> QED BY <1>12, <2>1, MarksAreCells DEF IsSlots, Present, NonEmpty
  <1>14. WellKept(x)
    BY <1>1, <1>4, <1>10, <1>11, <1>13, EmptyIsKept
  <1> QED BY <1>1, <1>4, <1>8, <1>13, <1>14

LEMMA ClearKeeps ==
  ASSUME ~ClearsAnything, Shaped, AllKept, NEW t \in Table, Clear(t)
  PROVE  AllKept'
  BY ClearIs, KeptStays

LEMMA FreshIsKept ==
  ASSUME NEW s
  PROVE  WellKept(Fresh(s))
  <1>1. PICK n, x : /\ n = (IF SmallSize > 0 THEN SmallSize ELSE MinAllocatedSize)
                    /\ x = Fresh(s)
    OBVIOUS
  <1>2. IsFirstSize(n)
    <2>1. SmallSize \in Nat
      BY SmallOrFirst
    <2> QED BY <1>1, <2>1, SizesAssumption
  <1>3. IsSize(n) /\ n >= LoadDivisor /\ n \in Nat
    BY <1>2 DEF IsFirstSize, IsSize, IsPowerOf2
  <1>4. PICK p, b : p = AllEmpty(n) /\ b = GrowthThresholdForAllocSize(n)
    OBVIOUS
  <1>5. x = [alloc |-> n, slots |-> p, storage |-> s, budget |-> b]
    BY <1>1, <1>4 DEF Fresh
  <1>6. x.alloc = n /\ x.slots = p /\ x.budget = b
    BY <1>5
  <1>7. IsSlots(p, n) /\ Present(p) = {} /\ NonEmpty(p) = {}
    BY <1>3, <1>4, AllEmptyIs
  <1> QED BY <1>1, <1>3, <1>4, <1>6, <1>7, EmptyIsKept

LEMMA ResetKeeps ==
  ASSUME Shaped, AllKept, NEW t \in Table, Reset(t)
  PROVE  AllKept'
  <1>1. PICK s : table' = [table EXCEPT ![t] = Fresh(s)]
    BY DEF Reset
  <1>2. PICK x : x = Fresh(s) /\ WellKept(x)
    BY FreshIsKept
  <1>3. table' = [table EXCEPT ![t] = x]
    BY <1>1, <1>2
  <1> QED BY <1>2, <1>3, KeptStays

LEMMA CopyKeeps ==
  ASSUME Shaped, AllKept, NEW t \in Table, NEW from \in Table, CopyAssign(t, from)
  PROVE  AllKept' \/ UNCHANGED vars
  <1>1. CASE UNCHANGED vars
    BY <1>1
  <1>2. CASE table' = [table EXCEPT ![t] = Gone(table[t].budget)]
    <2>1. PICK x, b : b = table[t].budget /\ x = Gone(b)
      OBVIOUS
    <2>2. x.alloc = 0
      BY <2>1 DEF Gone
    <2>3. table' = [table EXCEPT ![t] = x]
      BY <1>2, <2>1
    <2> QED BY <2>2, <2>3, KeptStays
  <1>3. CASE ~MovedFrom(from) /\ \E s : table' = [table EXCEPT ![t] = [table[from] EXCEPT !.storage = s]]
    <2>1. PICK s : table' = [table EXCEPT ![t] = [table[from] EXCEPT !.storage = s]]
      BY <1>3
    <2>2. PICK r, x : r = table[from] /\ x = [r EXCEPT !.storage = s]
      OBVIOUS
    <2>3. r = [alloc |-> r.alloc, slots |-> r.slots, storage |-> r.storage,
               budget |-> r.budget]
      BY <2>2 DEF Shaped
    <2>4. x = [alloc |-> r.alloc, slots |-> r.slots, storage |-> s, budget |-> r.budget]
      <3>1. x = [r EXCEPT !.storage = s]
        BY <2>2
      <3> QED BY <2>3, <3>1
    <2>5. x.alloc = r.alloc /\ x.slots = r.slots /\ x.budget = r.budget
      BY <2>4
    <2>6. WellKept(r)
      BY <1>3, <2>2 DEF AllKept
    <2>7. WellKept(x)
      BY <2>5, <2>6 DEF WellKept
    <2>8. table' = [table EXCEPT ![t] = x]
      BY <2>1, <2>2
    <2> QED BY <2>7, <2>8, KeptStays
  <1> QED BY <1>1, <1>2, <1>3 DEF CopyAssign

LEMMA MoveKeeps ==
  ASSUME Shaped, AllKept, NEW t \in Table, NEW from \in Table, MoveAssign(t, from)
  PROVE  AllKept'
  <1>1. PICK arg, g :
          /\ arg = IF t = from THEN Gone(table[t].budget) ELSE table[from]
          /\ g = Gone(arg.budget)
    OBVIOUS
  <1>2. table' = [[table EXCEPT ![from] = g] EXCEPT ![t] = arg]
    BY <1>1 DEF MoveAssign
  <1>3. DOMAIN table = Table
    BY DEF Shaped
  <1>4. \A u \in Table : table'[u] = IF u = t THEN arg ELSE IF u = from THEN g ELSE table[u]
    BY <1>2, <1>3
  <1>5. g.alloc = 0
    BY <1>1 DEF Gone
  <1>6. arg.alloc = 0 \/ WellKept(arg)
    <2>1. Gone(table[t].budget).alloc = 0
      BY DEF Gone
    <2> QED BY <1>1, <2>1 DEF AllKept, MovedFrom
  <1>7. ASSUME NEW u \in Table PROVE MovedFrom(u)' \/ WellKept(table'[u])
    <2>1. CASE u = t
      BY <1>4, <1>6, <2>1 DEF MovedFrom
    <2>2. CASE u # t /\ u = from
      BY <1>4, <1>5, <2>2 DEF MovedFrom
    <2>3. CASE u # t /\ u # from
      BY <1>4, <2>3 DEF MovedFrom, AllKept
    <2> QED BY <2>1, <2>2, <2>3
  <1> QED BY <1>7 DEF AllKept

LEMMA InitKeeps == Init => AllKept
  <1> SUFFICES ASSUME Init PROVE AllKept
    OBVIOUS
  <1>1. PICK first : table = [t \in Table |-> Fresh(first[t])]
    BY DEF Init
  <1>2. \A t \in Table : WellKept(table[t])
    BY <1>1, FreshIsKept
  <1> QED BY <1>2 DEF AllKept

LEMMA PowerAbove ==
  ASSUME NEW m, PowersAbove(m) # {}
  PROVE  /\ NextPowerOf2(m) \in PowersAbove(m)
         /\ IsPowerOf2(NextPowerOf2(m))
  <1>1. PowersAbove(m) \in SUBSET Nat
    BY DEF PowersAbove, IsPowerOf2
  <1>2. NextPowerOf2(m) \in PowersAbove(m)
    BY <1>1, MinIsLeast DEF NextPowerOf2
  <1> QED BY <1>2 DEF PowersAbove

LEMMA ReserveKeeps ==
  ASSUME Shaped, AllKept, NEW t \in Table, NEW count, GrowForInsertCount(t, count)
  PROVE  AllKept' \/ UNCHANGED vars
  <1>1. CASE UNCHANGED vars
    BY <1>1
  <1>2. CASE /\ PowersAbove(SpaceForInserts(t, count)) # {}
             /\ GrowToAllocSizeImpl(t, NextPowerOf2(SpaceForInserts(t, count)))
    <2>1. PICK n : n = NextPowerOf2(SpaceForInserts(t, count)) /\ IsPowerOf2(n)
      BY <1>2, PowerAbove
    <2>2. GrowToAllocSizeImpl(t, n) /\ ~MovedFrom(t)
      BY <1>2, <2>1 DEF GrowForInsertCount
    <2> QED BY <2>1, <2>2, GrowKeeps
  <1> QED BY <1>1, <1>2 DEF GrowForInsertCount

IInv == StorageInv /\ AllKept

LEMMA KeptInductive ==
  ASSUME ~ClearsAnything
  PROVE  IInv /\ [Next]_vars => IInv'
  <1> SUFFICES ASSUME IInv, [Next]_vars PROVE IInv'
    OBVIOUS
  <1>1. StorageInv' /\ Shaped /\ AllKept
    BY StorageInductive DEF IInv, StorageInv
  <1>2. UNCHANGED vars => AllKept'
    BY <1>1 DEF vars, AllKept, MovedFrom
  <1>3. ASSUME NEW t \in Table, NEW k \in Key, Erase(t, k)
        PROVE  AllKept' \/ UNCHANGED vars
    BY <1>1, <1>3, EraseKeeps
  <1>4. ASSUME NEW t \in Table, NEW k \in Key, NEW v \in Val[k],
               Insert(t, k, v) \/ Update(t, k, v)
        PROVE  AllKept' \/ UNCHANGED vars
    BY <1>1, <1>4, InsertKeeps, UpdateKeeps
  <1>5. ASSUME NEW t \in Table, Clear(t) \/ Reset(t)
        PROVE  AllKept'
    BY <1>1, <1>5, ClearKeeps, ResetKeeps
  <1>6. ASSUME NEW t \in Table, NEW n \in AllocSize, GrowToAllocSize(t, n)
        PROVE  AllKept' \/ UNCHANGED vars
    <2>1. IsPowerOf2(n)
      BY SizesAssumption
    <2> QED BY <1>1, <1>6, <2>1, GrowKeeps DEF GrowToAllocSize
  <1>7. ASSUME NEW t \in Table, NEW count \in Count, GrowForInsertCount(t, count)
        PROVE  AllKept' \/ UNCHANGED vars
    BY <1>1, <1>7, ReserveKeeps
  <1>8. ASSUME NEW t \in Table, NEW from \in Table,
               CopyAssign(t, from) \/ MoveAssign(t, from)
        PROVE  AllKept' \/ UNCHANGED vars
    BY <1>1, <1>8, CopyKeeps, MoveKeeps
  <1>9. Next => AllKept' \/ UNCHANGED vars
    BY <1>3, <1>4, <1>5, <1>6, <1>7, <1>8 DEF Next
  <1> QED BY <1>1, <1>2, <1>9 DEF IInv

LEMMA KeptIsSound == AllKept => TableIsSound
  <1> SUFFICES ASSUME AllKept, NEW t \in Table, ~MovedFrom(t)
               PROVE  /\ \A k \in Key :
                           /\ SearchEnds(t, k)
                           /\ LookupEntry(table[t].slots, k) =
                                {i \in Present(table[t].slots) : table[t].slots[i].key = k}
                           /\ Cardinality(LookupEntry(table[t].slots, k)) <= 1
                      /\ table[t].alloc = Size(table[t].slots)
                      /\ table[t].budget = GrowthThresholdForAllocSize(table[t].alloc)
                                             - Cardinality(NonEmpty(table[t].slots))
                      /\ table[t].budget >= 0
    BY DEF TableIsSound, KeysAreFound, BudgetIsExact
  <1>1. WellKept(table[t])
    BY DEF AllKept
  <1>2. PICK n, s : n = table[t].alloc /\ s = table[t].slots
    OBVIOUS
  <1>3. /\ IsSize(n) /\ n >= LoadDivisor /\ Sound(s, n) /\ IsSlots(s, n)
        /\ n \in Nat /\ Size(s) = n
        /\ GrowthThresholdForAllocSize(n) - Cardinality(NonEmpty(s)) \in Nat
    BY <1>1, <1>2, Sizes, SizeIs DEF WellKept, Sound
  <1>4. HasRoom(s)
    BY <1>3, KeptHasRoom
  <1>5. ASSUME NEW k \in Key
        PROVE  /\ SearchEnds(t, k)
               /\ LookupEntry(s, k) = {i \in Present(s) : s[i].key = k}
               /\ Cardinality(LookupEntry(s, k)) <= 1
    <2>1. \E m \in Probes(s) : EndsAt(s, k, m)
      BY <1>3, <1>4, RoomEnds
    <2>2. LookupEntry(s, k) = {i \in Present(s) : s[i].key = k}
      BY <1>3, <2>1, LookupIs
    <2>3. Cardinality(LookupEntry(s, k)) <= 1
      <3>1. CASE LookupEntry(s, k) = {}
        BY <3>1, FS_EmptySet
      <3>2. CASE LookupEntry(s, k) # {}
        <4>1. PICK i : i \in LookupEntry(s, k)
          BY <3>2
        <4>2. LookupEntry(s, k) = {i}
          BY <1>3, <2>2, <4>1 DEF Sound, Unique
        <4>3. Cardinality({i}) = 1
          BY FS_Singleton
        <4> QED BY <4>2, <4>3
      <3> QED BY <3>1, <3>2
    <2> QED BY <1>2, <2>1, <2>2, <2>3 DEF SearchEnds
  <1> QED BY <1>1, <1>2, <1>3, <1>5 DEF WellKept

\* For any number of keys, any hash and any group size, each key is found
\* where it is and each growth budget is what its table has left, if Clear
\* leaves no group of deleted slots behind (LookupEntry, InsertImpl,
\* EraseImpl, GrowToNextAllocSize, GrowToAllocSizeImpl, CopySlotsFrom).
THEOREM TableCorrect ==
  ASSUME ~ClearsAnything
  PROVE  Spec => []TableIsSound
  <1>1. Init => IInv
    BY InitOwns, InitKeeps DEF IInv
  <1>2. IInv /\ [Next]_vars => IInv'
    BY KeptInductive
  <1>3. IInv => TableIsSound
    BY KeptIsSound DEF IInv
  <1> QED BY <1>1, <1>2, <1>3, PTL DEF Spec

-----------------------------------------------------------------------------
(* Reserving room.                                                         *)

\* As many slots as GrowForInsertCount asks for take more than m entries.
LEMMA ThresholdCovers ==
  ASSUME NEW m \in Nat, NEW n \in Nat, n > m + (m \div (LoadDivisor - 1))
  PROVE  GrowthThresholdForAllocSize(n) > m
  <1>1. PICK d \in Nat \ {0, 1} : d = LoadDivisor
    BY SizesAssumption
  <1>2. PICK e \in Nat \ {0} : e = d - 1 /\ d = e + 1
    <2>1. d - 1 \in Nat \ {0} /\ d = (d - 1) + 1
      OBVIOUS
    <2> QED BY <2>1
  <1>3. PICK q \in Nat : \E r \in 0..(e - 1) : m = e * q + r /\ r = m % e /\ q = m \div e
    BY Division
  <1>4. PICK r \in 0..(e - 1) : m = e * q + r /\ q = m \div e
    BY <1>3
  <1>5. n > m + q
    BY <1>1, <1>2, <1>4
  <1>6. PICK s \in 0..(d - 1) : s = r + 1
    <2>1. r + 1 \in 0..(d - 1)
      BY <1>2
    <2> QED BY <2>1
  <1>7. (d * q + s) \div d = q
    BY Multiple
  <1>8. PICK y \in Nat : y = m + q + 1
    OBVIOUS
  <1>9. d * q + s = y
    <2>1. d * q = e * q + q
      BY <1>2
    <2>2. PICK a \in Nat, b \in Nat : a = e * q /\ b = d * q
      OBVIOUS
    <2>3. m = a + r /\ b = a + q /\ s = r + 1 /\ y = m + q + 1
      BY <1>4, <1>6, <1>8, <2>1, <2>2
    <2>4. b + s = y
      BY <2>3
    <2> QED BY <2>2, <2>4
  <1>10. y \div d = q
    BY <1>7, <1>9
  <1>11. GrowthThresholdForAllocSize(y) = m + 1
    BY <1>1, <1>8, <1>10 DEF GrowthThresholdForAllocSize
  <1>12. y <= n
    BY <1>5, <1>8
  <1>13. GrowthThresholdForAllocSize(y) <= GrowthThresholdForAllocSize(n)
    BY <1>12, ThresholdGrows
  <1>14. GrowthThresholdForAllocSize(n) \in Nat
    BY ThresholdIs
  <1> QED BY <1>11, <1>13, <1>14

LEMMA ReservedIsEnough ==
  ASSUME IInv, NEW t \in Table, NEW count \in Count, GrowForInsertCount(t, count)
  PROVE  table'[t].budget >= count
  <1>1. Shaped /\ AllKept /\ ~MovedFrom(t)
    BY DEF IInv, StorageInv, GrowForInsertCount
  <1>10. DOMAIN table = Table /\ count \in Nat
    BY <1>1, SizesAssumption DEF Shaped
  <1>2. PICK b : b = table[t].budget
    OBVIOUS
  <1>3. PICK a, s : a = table[t].alloc /\ s = table[t].slots
    OBVIOUS
  <1>4. PICK w : w = Cardinality(NonEmpty(s))
    OBVIOUS
  <1>5. /\ IsSize(a) /\ Sound(s, a) /\ IsSlots(s, a) /\ a \in Nat
        /\ b = GrowthThresholdForAllocSize(a) - w /\ b \in Nat
    BY <1>1, <1>2, <1>3, <1>4, Sizes DEF AllKept, WellKept, Sound
  <1>6. PICK g \in Nat : g = GrowthThresholdForAllocSize(a)
    BY <1>5, ThresholdIs
  <1>7. w \in Nat
    BY <1>4, <1>5, SizeIs, FS_Subset, FS_CardinalityType DEF NonEmpty
  <1>8. CASE count < b
    <2>1. table' = table
      BY <1>2, <1>8 DEF GrowForInsertCount, vars
    <2>2. table'[t].budget = b
      BY <1>2, <2>1
    <2>3. b \in Nat
      BY <1>5
    <2> QED BY <1>8, <1>10, <2>2, <2>3
  <1>9. CASE ~(count < b)
    <2>1. PICK m \in Nat : m = w + count
      BY <1>10, <1>7
    <2>2. SpaceForInserts(t, count) = m + (m \div (LoadDivisor - 1))
      <3>1. GrowthThresholdForAllocSize(table[t].alloc) - table[t].budget = w
        BY <1>2, <1>3, <1>5, <1>6, <1>7
      <3> QED BY <2>1, <3>1 DEF SpaceForInserts
    <2>3. PICK x : x = SpaceForInserts(t, count)
      OBVIOUS
    <2>4. PowersAbove(x) # {} /\ GrowToAllocSizeImpl(t, NextPowerOf2(x))
      BY <1>2, <1>9, <2>3 DEF GrowForInsertCount
    <2>5. PICK n : n = NextPowerOf2(x) /\ n \in PowersAbove(x) /\ IsPowerOf2(n)
      BY <2>4, PowerAbove
    <2>6. n \in Nat /\ n > x
      <3>1. x \in Nat
        <4>1. PICK e \in Nat \ {0} : e = LoadDivisor - 1
          <5>1. LoadDivisor - 1 \in Nat \ {0}
            BY SizesAssumption
          <5> QED BY <5>1
        <4>2. PICK q \in Nat : \E r \in 0..(e - 1) :
                m = e * q + r /\ r = m % e /\ q = m \div e
          BY Division
        <4>3. x = m + (m \div e)
          BY <2>2, <2>3, <4>1
        <4>4. x = m + q
          BY <4>2, <4>3
        <4> QED BY <4>4
      <3>2. n \in (x + 1)..MaxAlloc
        BY <2>5 DEF PowersAbove
      <3> QED BY <3>1, <3>2, SizesAssumption
    <2>7. GrowthThresholdForAllocSize(n) > m /\ GrowthThresholdForAllocSize(n) \in Nat
      BY <2>2, <2>3, <2>6, ThresholdCovers, ThresholdIs
    <2>8. GrowToAllocSizeImpl(t, n)
      BY <2>4, <2>5
    <2>9. CASE n <= a
      <3>1. table' = table
        BY <1>3, <2>8, <2>9 DEF GrowToAllocSizeImpl, vars
      <3>2. GrowthThresholdForAllocSize(n) <= g
        BY <1>5, <1>6, <2>6, <2>9, ThresholdGrows
      <3>3. table'[t].budget = b /\ b = g - w
        BY <1>2, <1>5, <1>6, <3>1
      <3>4. g > m
        BY <1>6, <2>7, <3>2
      <3> QED BY <1>7, <1>10, <2>1, <3>3, <3>4
    <2>10. CASE ~(n <= a)
      <3>1. PICK p : p = Cardinality(Present(s))
        OBVIOUS
      <3>2. p \in Nat /\ p <= w
        <4>1. IsFiniteSet(NonEmpty(s)) /\ Present(s) \subseteq NonEmpty(s)
          BY <1>5, PresentIs, SizeIs, FS_Subset DEF NonEmpty
        <4>2. IsFiniteSet(Present(s)) /\ Cardinality(Present(s)) <= Cardinality(NonEmpty(s))
          BY <4>1, FS_Subset
        <4> QED BY <1>4, <3>1, <4>2, FS_CardinalityType
      <3>3. Regrown(t, n, GrownSlots(s, n), 0)
        BY <1>3, <2>8, <2>10 DEF GrowToAllocSizeImpl
      <3>4. PICK r, c, h : r = GrownSlots(s, n) /\ h = NewBlock
                           /\ c = GrowthThresholdForAllocSize(n) - p - 0
        OBVIOUS
      <3>5. table' = [table EXCEPT ![t] =
              [alloc |-> n, slots |-> r, storage |-> h, budget |-> c]]
        BY <1>3, <3>1, <3>3, <3>4 DEF Regrown
      <3>6. table'[t].budget = c
        BY <1>10, <3>5
      <3> QED BY <1>10, <1>7, <2>1, <2>7, <3>2, <3>4, <3>6
    <2> QED BY <2>9, <2>10
  <1> QED BY <1>8, <1>9

\* After GrowForInsertCount(count) there is room for count insertions, whatever
\* the table held and however much of it was deleted (GrowForInsertCountImpl).
THEOREM ReserveCorrect ==
  ASSUME ~ClearsAnything
  PROVE  Spec => ReserveSuffices
  <1>1. Init => IInv
    BY InitOwns, InitKeeps DEF IInv
  <1>2. IInv /\ [Next]_vars => IInv'
    BY KeptInductive
  <1>3. IInv /\ [Next]_vars =>
          [\A t \in Table : \A count \in Count :
             GrowForInsertCount(t, count) => table'[t].budget >= count]_vars
    BY ReservedIsEnough
  <1> QED BY <1>1, <1>2, <1>3, PTL DEF Spec, ReserveSuffices

-----------------------------------------------------------------------------
(* The maps.                                                               *)

MapOf(s) == [k \in KeysOf(s) |-> ValueIn(s, k)]

LEMMA KeyedValue ==
  ASSUME NEW s, Unique(s), NEW i \in Present(s)
  PROVE  s[i].key \in KeysOf(s) /\ ValueIn(s, s[i].key) = s[i].value
  <1>1. s[i].key \in KeysOf(s)
    BY DEF KeysOf
  <1>2. PICK j : j = CHOOSE p \in Present(s) : s[p].key = s[i].key
    OBVIOUS
  <1>3. j \in Present(s) /\ s[j].key = s[i].key
    BY <1>2
  <1>4. j = i
    BY <1>3 DEF Unique
  <1> QED BY <1>1, <1>2, <1>4 DEF ValueIn

\* A map with an entry for each present slot is that of the slots.
LEMMA MapIs ==
  ASSUME NEW s, Unique(s), NEW m, NEW K, m = [k \in K |-> m[k]],
         \A k \in K : \E i \in Present(s) : s[i].key = k,
         \A i \in Present(s) : s[i].key \in K /\ m[s[i].key] = s[i].value
  PROVE  MapOf(s) = m
  <1>1. KeysOf(s) = K
    BY DEF KeysOf
  <1>2. ASSUME NEW k \in K PROVE ValueIn(s, k) = m[k]
    <2>1. PICK i \in Present(s) : s[i].key = k
      OBVIOUS
    <2> QED BY <2>1, KeyedValue
  <1> QED BY <1>1, <1>2 DEF MapOf

LEMMA MapHas ==
  ASSUME NEW s, Unique(s)
  PROVE  /\ DOMAIN MapOf(s) = KeysOf(s)
         /\ MapOf(s) = [k \in KeysOf(s) |-> MapOf(s)[k]]
         /\ \A i \in Present(s) : /\ s[i].key \in KeysOf(s)
                                  /\ MapOf(s)[s[i].key] = s[i].value
         /\ \A k \in KeysOf(s) : \E i \in Present(s) : s[i].key = k
  BY KeyedValue DEF MapOf, KeysOf

LEMMA SameEntries ==
  ASSUME NEW s, Unique(s), NEW r, Unique(r), EntriesOf(r) = EntriesOf(s)
  PROVE  MapOf(r) = MapOf(s)
  <1>1. PICK m, K : m = MapOf(s) /\ K = KeysOf(s)
    OBVIOUS
  <1>2. /\ m = [k \in K |-> m[k]]
        /\ \A i \in Present(s) : s[i].key \in K /\ m[s[i].key] = s[i].value
        /\ \A k \in K : \E i \in Present(s) : s[i].key = k
    BY <1>1, MapHas
  <1>3. /\ \A i \in Present(r) : \E j \in Present(s) : s[j] = r[i]
        /\ \A j \in Present(s) : \E i \in Present(r) : r[i] = s[j]
    BY DEF EntriesOf
  <1>4. \A i \in Present(r) : r[i].key \in K /\ m[r[i].key] = r[i].value
    BY <1>2, <1>3
  <1>5. \A k \in K : \E i \in Present(r) : r[i].key = k
    BY <1>2, <1>3
  <1>6. MapOf(r) = m
    BY <1>2, <1>4, <1>5, MapIs
  <1> QED BY <1>1, <1>6

LEMMA EntryAdded ==
  ASSUME NEW s, Unique(s), NEW r, Unique(r), NEW k, NEW v,
         EntriesOf(r) = EntriesOf(s) \cup {Entry(k, v)}, ~HasKey(s, k)
  PROVE  MapOf(r) = Maps!With(MapOf(s), k, v)
  <1>1. PICK m, K : m = MapOf(s) /\ K = KeysOf(s)
    OBVIOUS
  <1>2. /\ DOMAIN m = K
        /\ \A i \in Present(s) : s[i].key \in K /\ m[s[i].key] = s[i].value
        /\ \A x \in K : \E i \in Present(s) : s[i].key = x
    BY <1>1, MapHas
  <1>3. k \notin K
    BY <1>2 DEF HasKey
  <1>4. PICK n : n = [x \in K \cup {k} |-> IF x = k THEN v ELSE m[x]]
    OBVIOUS
  <1>5. PICK c : c = Entry(k, v) /\ c.key = k /\ c.value = v
    <2>1. Entry(k, v).key = k /\ Entry(k, v).value = v
      BY DEF Entry
    <2> QED BY <2>1
  <1>6. /\ \A i \in Present(r) : r[i] = c \/ \E j \in Present(s) : s[j] = r[i]
        /\ \A j \in Present(s) : \E i \in Present(r) : r[i] = s[j]
        /\ \E i \in Present(r) : r[i] = c
    BY <1>5 DEF EntriesOf
  <1>7. \A i \in Present(r) : r[i].key \in K \cup {k} /\ n[r[i].key] = r[i].value
    <2>1. ASSUME NEW i \in Present(r)
          PROVE  r[i].key \in K \cup {k} /\ n[r[i].key] = r[i].value
      <3>1. CASE r[i] = c
        BY <1>4, <1>5, <3>1
      <3>2. CASE \E j \in Present(s) : s[j] = r[i]
        <4>1. r[i].key \in K /\ m[r[i].key] = r[i].value
          BY <1>2, <3>2
        <4> QED BY <1>3, <1>4, <4>1
      <3> QED BY <1>6, <3>1, <3>2
    <2> QED BY <2>1
  <1>8. \A x \in K \cup {k} : \E i \in Present(r) : r[i].key = x
    BY <1>2, <1>5, <1>6
  <1>9. n = [x \in K \cup {k} |-> n[x]] /\ Unique(r)
    BY <1>4
  <1>10. MapOf(r) = n
    <2>1. PICK L : L = K \cup {k}
      OBVIOUS
    <2>2. n = [x \in L |-> n[x]]
      BY <1>9, <2>1
    <2>3. \A x \in L : \E j \in Present(r) : r[j].key = x
      BY <1>8, <2>1
    <2>4. \A j \in Present(r) : r[j].key \in L /\ n[r[j].key] = r[j].value
      BY <1>7, <2>1
    <2>5. Unique(r)
      BY <1>9
    <2> QED BY ONLY <2>2, <2>3, <2>4, <2>5, MapIs
  <1> QED BY <1>1, <1>2, <1>4, <1>10 DEF Maps!With

\* Writing a cell with this key.
LEMMA EntryWritten ==
  ASSUME NEW n \in Nat, NEW s, IsSlots(s, n), Unique(s), NEW i \in Slots(n),
         NEW k, NEW v, i \in Present(s) => s[i].key = k,
         \A j \in Present(s) : s[j].key = k => j = i,
         Unique([s EXCEPT ![i] = Entry(k, v)])
  PROVE  MapOf([s EXCEPT ![i] = Entry(k, v)]) = Maps!With(MapOf(s), k, v)
  <1>1. PICK m, K : m = MapOf(s) /\ K = KeysOf(s)
    OBVIOUS
  <1>2. /\ DOMAIN m = K
        /\ \A j \in Present(s) : s[j].key \in K /\ m[s[j].key] = s[j].value
        /\ \A x \in K : \E j \in Present(s) : s[j].key = x
    BY <1>1, MapHas
  <1>3. PICK c : c = Entry(k, v) /\ c.key = k /\ c.value = v /\ c.mark = "present"
    <2>1. /\ Entry(k, v).key = k /\ Entry(k, v).value = v
          /\ Entry(k, v).mark = "present"
      BY DEF Entry
    <2> QED BY <2>1
  <1>4. PICK r : r = [s EXCEPT ![i] = c]
    OBVIOUS
  <1>5. DOMAIN s = Slots(n) /\ DOMAIN r = Slots(n)
        /\ \A j \in Slots(n) : r[j] = IF j = i THEN c ELSE s[j]
    BY <1>4, SizeIs
  <1>6. /\ i \in Present(r) /\ r[i] = c
        /\ \A j \in Present(r) : j # i => j \in Present(s) /\ r[j] = s[j]
        /\ \A j \in Present(s) : j # i => j \in Present(r) /\ r[j] = s[j]
    BY <1>3, <1>5 DEF Present
  <1>7. PICK g : g = [x \in K \cup {k} |-> IF x = k THEN v ELSE m[x]]
    OBVIOUS
  <1>8. \A j \in Present(r) : r[j].key \in K \cup {k} /\ g[r[j].key] = r[j].value
    <2>1. ASSUME NEW j \in Present(r)
          PROVE  r[j].key \in K \cup {k} /\ g[r[j].key] = r[j].value
      <3>1. CASE j = i
        BY <1>3, <1>6, <1>7, <3>1
      <3>2. CASE j # i
        <4>1. j \in Present(s) /\ r[j] = s[j] /\ s[j].key # k
          BY <1>6, <3>2
        <4> QED BY <1>2, <1>7, <4>1
      <3> QED BY <3>1, <3>2
    <2> QED BY <2>1
  <1>9. \A x \in K \cup {k} : \E j \in Present(r) : r[j].key = x
    <2>1. ASSUME NEW x \in K, x # k PROVE \E j \in Present(r) : r[j].key = x
      <3>1. PICK j \in Present(s) : s[j].key = x
        BY <1>2
      <3>2. j # i
        BY <2>1, <3>1
      <3> QED BY <1>6, <3>1, <3>2
    <2> QED BY <1>3, <1>6, <2>1
  <1>10. g = [x \in K \cup {k} |-> g[x]] /\ Unique(r)
    BY <1>3, <1>4, <1>7
  <1>11. MapOf(r) = g
    <2>1. PICK L : L = K \cup {k}
      OBVIOUS
    <2>2. g = [x \in L |-> g[x]]
      BY <1>10, <2>1
    <2>3. \A x \in L : \E j \in Present(r) : r[j].key = x
      BY <1>9, <2>1
    <2>4. \A j \in Present(r) : r[j].key \in L /\ g[r[j].key] = r[j].value
      BY <1>8, <2>1
    <2>5. Unique(r)
      BY <1>10
    <2> QED BY ONLY <2>2, <2>3, <2>4, <2>5, MapIs
  <1> QED BY <1>1, <1>2, <1>3, <1>4, <1>7, <1>11 DEF Maps!With

LEMMA EntryErased ==
  ASSUME NEW n \in Nat, NEW s, IsSlots(s, n), Unique(s), NEW i \in Present(s),
         NEW c, c.mark # "present", Unique([s EXCEPT ![i] = c])
  PROVE  MapOf([s EXCEPT ![i] = c]) = Maps!Without(MapOf(s), s[i].key)
  <1>1. PICK m, K, k : m = MapOf(s) /\ K = KeysOf(s) /\ k = s[i].key
    OBVIOUS
  <1>2. /\ DOMAIN m = K
        /\ \A j \in Present(s) : s[j].key \in K /\ m[s[j].key] = s[j].value
        /\ \A x \in K : \E j \in Present(s) : s[j].key = x
    BY <1>1, MapHas
  <1>3. PICK r : r = [s EXCEPT ![i] = c]
    OBVIOUS
  <1>4. DOMAIN s = Slots(n) /\ DOMAIN r = Slots(n) /\ i \in Slots(n)
        /\ \A j \in Slots(n) : r[j] = IF j = i THEN c ELSE s[j]
    BY <1>3, SizeIs, PresentIs
  <1>5. /\ \A j \in Present(r) : j # i /\ j \in Present(s) /\ r[j] = s[j]
        /\ \A j \in Present(s) : j # i => j \in Present(r) /\ r[j] = s[j]
    BY <1>4 DEF Present
  <1>6. PICK g : g = [x \in K \ {k} |-> m[x]]
    OBVIOUS
  <1>7. \A j \in Present(r) : r[j].key \in K \ {k} /\ g[r[j].key] = r[j].value
    <2>1. ASSUME NEW j \in Present(r)
          PROVE  r[j].key \in K \ {k} /\ g[r[j].key] = r[j].value
      <3>1. j # i /\ j \in Present(s) /\ r[j] = s[j]
        BY <1>5
      <3>2. s[j].key # k
        BY <1>1, <3>1 DEF Unique
      <3>3. s[j].key \in K /\ m[s[j].key] = s[j].value
        BY <1>2, <3>1
      <3> QED BY <1>6, <3>1, <3>2, <3>3
    <2> QED BY <2>1
  <1>8. \A x \in K \ {k} : \E j \in Present(r) : r[j].key = x
    <2>1. ASSUME NEW x \in K, x # k PROVE \E j \in Present(r) : r[j].key = x
      <3>1. PICK j \in Present(s) : s[j].key = x
        BY <1>2
      <3>2. j # i
        BY <1>1, <2>1, <3>1
      <3> QED BY <1>5, <3>1, <3>2
    <2> QED BY <2>1
  <1>9. g = [x \in K \ {k} |-> g[x]] /\ Unique(r)
    BY <1>3, <1>6
  <1>10. MapOf(r) = g
    <2>1. PICK L : L = K \ {k}
      OBVIOUS
    <2>2. g = [x \in L |-> g[x]]
      BY <1>9, <2>1
    <2>3. \A x \in L : \E j \in Present(r) : r[j].key = x
      BY <1>8, <2>1
    <2>4. \A j \in Present(r) : r[j].key \in L /\ g[r[j].key] = r[j].value
      BY <1>7, <2>1
    <2>5. Unique(r)
      BY <1>9
    <2> QED BY ONLY <2>2, <2>3, <2>4, <2>5, MapIs
  <1> QED BY <1>1, <1>2, <1>3, <1>6, <1>10 DEF Maps!Without

LEMMA NoMap ==
  ASSUME NEW s, Present(s) = {}
  PROVE  MapOf(s) = Maps!None
  <1>1. KeysOf(s) = {}
    BY DEF KeysOf
  <1> QED BY <1>1 DEF MapOf, Maps!None

\* What the proofs say of a table that was moved from.
GoneAreEmpty == \A t \in Table : MovedFrom(t) => table[t].slots = << >>

TheMaps == [t \in Table |-> Contents(t)]
TheMoved == {t \in Table : MovedFrom(t)}

MapsInv == IInv /\ GoneAreEmpty

LEMMA GoneMap == MapOf(<< >>) = Maps!None
  <1>1. Present(<< >>) = {}
    BY DEF Present
  <1> QED BY <1>1, NoMap

LEMMA ContentsIs == \A t : Contents(t) = MapOf(table[t].slots)
  BY DEF Contents, MapOf

\* One table is changed to x, by a call that leaves it in use.
LEMMA CallMaps ==
  ASSUME Shaped, Shaped', GoneAreEmpty, NEW t \in Table, ~MovedFrom(t), NEW x,
         table' = [table EXCEPT ![t] = x], x.alloc # 0,
         MapOf(x.slots) \in Maps!Results(Contents(t))
  PROVE  Maps!Next /\ GoneAreEmpty'
  <1>1. DOMAIN table = Table
    BY DEF Shaped
  <1>2. \A u \in Table : table'[u] = IF u = t THEN x ELSE table[u]
    BY <1>1
  <1>3. \A u \in Table : MovedFrom(u)' <=> MovedFrom(u)
    BY <1>2 DEF MovedFrom
  <1>4. GoneAreEmpty'
    BY <1>2, <1>3 DEF GoneAreEmpty
  <1>5. Contents(t)' = MapOf(x.slots) /\ \A u \in Table : u # t => Contents(u)' = Contents(u)
    BY <1>2 DEF Contents, MapOf
  <1>6. TheMoved' = TheMoved /\ t \notin TheMoved
    BY <1>3 DEF TheMoved
  <1>7. TheMaps'[t] = MapOf(x.slots) /\ TheMaps[t] = Contents(t)
    BY <1>5 DEF TheMaps
  <1>8. TheMaps' = [TheMaps EXCEPT ![t] = TheMaps'[t]]
    BY <1>5 DEF TheMaps
  <1>9. Maps!Call(t)
    BY <1>6, <1>7, <1>8 DEF Maps!Call, Maps!Becomes, TheMoved, TheMaps
  <1> QED BY <1>4, <1>9 DEF Maps!Next

LEMMA StayMaps ==
  ASSUME UNCHANGED vars, GoneAreEmpty
  PROVE  TheMaps' = TheMaps /\ TheMoved' = TheMoved /\ GoneAreEmpty'
  BY DEF vars, TheMaps, TheMoved, Contents, MovedFrom, GoneAreEmpty

LEMMA StoreMaps ==
  ASSUME Shaped, Shaped', AllKept, GoneAreEmpty, NEW t \in Table, ~MovedFrom(t),
         NEW i, NEW c, NEW cost, Stores(t, i, c, cost),
         MapOf([table[t].slots EXCEPT ![i] = c]) \in Maps!Results(Contents(t))
  PROVE  Maps!Next /\ GoneAreEmpty'
  <1>1. PICK x : table' = [table EXCEPT ![t] = x] /\ Written(x, table[t], i, c, cost)
    BY StoredIs
  <1>2. x.alloc # 0 /\ x.slots = [table[t].slots EXCEPT ![i] = c]
    BY <1>1 DEF Written, MovedFrom
  <1>3. MapOf(x.slots) \in Maps!Results(Contents(t))
    BY <1>2
  <1> QED BY <1>1, <1>2, <1>3, CallMaps

LEMMA RegrownIs ==
  ASSUME NEW t \in Table, NEW n, NEW slots, NEW spent, Regrown(t, n, slots, spent)
  PROVE  \E x : /\ table' = [table EXCEPT ![t] = x]
                /\ x.alloc = n /\ x.slots = slots
  <1>1. PICK b, s : /\ b = GrowthThresholdForAllocSize(n)
                             - Cardinality(Present(table[t].slots)) - spent
                    /\ s = NewBlock
    OBVIOUS
  <1>2. PICK x : x = [alloc |-> n, slots |-> slots, storage |-> s, budget |-> b]
    OBVIOUS
  <1>3. x.alloc = n /\ x.slots = slots
    BY <1>2
  <1>4. table' = [table EXCEPT ![t] = x]
    BY <1>1, <1>2 DEF Regrown
  <1> QED BY <1>3, <1>4

LEMMA GrownMaps ==
  ASSUME Shaped, Shaped', AllKept, GoneAreEmpty, NEW t \in Table, ~MovedFrom(t),
         NEW n, NEW r, NEW entries, NEW spent, GrownTo(t, n, r, entries, spent),
         MapOf(r) \in Maps!Results(Contents(t))
  PROVE  Maps!Next /\ GoneAreEmpty'
  <1>1. Regrown(t, n, r, spent) /\ IsSize(n)
    BY DEF GrownTo
  <1>2. PICK x : table' = [table EXCEPT ![t] = x] /\ x.alloc = n /\ x.slots = r
    BY <1>1, RegrownIs
  <1>3. x.alloc # 0 /\ MapOf(x.slots) \in Maps!Results(Contents(t))
    BY <1>1, <1>2, Sizes
  <1> QED BY <1>2, <1>3, CallMaps

LEMMA ResultsAre ==
  ASSUME NEW m
  PROVE  /\ m \in Maps!Results(m) /\ Maps!None \in Maps!Results(m)
         /\ \A k \in Key : Maps!Without(m, k) \in Maps!Results(m)
         /\ \A k \in Key : \A v \in Val[k] : Maps!With(m, k, v) \in Maps!Results(m)
  BY DEF Maps!Results

LEMMA GrowMaps ==
  ASSUME Shaped, Shaped', AllKept, GoneAreEmpty, NEW t \in Table, NEW n,
         IsPowerOf2(n), ~MovedFrom(t), GrowToAllocSizeImpl(t, n)
  PROVE  (Maps!Next /\ GoneAreEmpty') \/ UNCHANGED vars
  <1>1. PICK e : e = EntriesOf(table[t].slots)
    OBVIOUS
  <1>2. UNCHANGED vars \/ \E r : GrownTo(t, n, r, e, 0)
    BY <1>1, GrowIs
  <1>3. ASSUME NEW r, GrownTo(t, n, r, e, 0) PROVE Maps!Next /\ GoneAreEmpty'
    <2>1. PICK s : s = table[t].slots
      OBVIOUS
    <2>2. Unique(s) /\ Unique(r) /\ EntriesOf(r) = EntriesOf(s)
      BY <1>1, <1>3, <2>1 DEF AllKept, WellKept, Sound, GrownTo
    <2>3. MapOf(r) = Contents(t)
      BY <2>1, <2>2, SameEntries, ContentsIs
    <2>4. MapOf(r) \in Maps!Results(Contents(t))
      BY <2>3, ResultsAre
    <2> QED BY <1>3, <2>4, GrownMaps
  <1> QED BY <1>2, <1>3

\* The slots after a write are those of a sound table.
LEMMA WrittenIsUnique ==
  ASSUME Shaped, AllKept', NEW t \in Table, ~MovedFrom(t),
         NEW i, NEW c, NEW cost, Stores(t, i, c, cost)
  PROVE  Unique([table[t].slots EXCEPT ![i] = c])
  <1>1. PICK x : table' = [table EXCEPT ![t] = x] /\ Written(x, table[t], i, c, cost)
    BY StoredIs
  <1>2. table'[t] = x
    BY <1>1 DEF Shaped
  <1>3. x.alloc # 0 /\ x.slots = [table[t].slots EXCEPT ![i] = c]
    BY <1>1 DEF Written, MovedFrom
  <1>4. WellKept(x)
    BY <1>2, <1>3 DEF AllKept, MovedFrom
  <1> QED BY <1>3, <1>4 DEF WellKept, Sound

LEMMA InsertNewMaps ==
  ASSUME Shaped, Shaped', AllKept, AllKept', GoneAreEmpty,
         NEW t \in Table, NEW k \in Key, NEW v \in Val[k],
         ~MovedFrom(t), SearchEnds(t, k), LookupEntry(table[t].slots, k) = {},
         InsertNew(t, Entry(k, v))
  PROVE  Maps!Next /\ GoneAreEmpty'
  <1>1. PICK o, s, c, e : /\ o = table[t].alloc /\ s = table[t].slots
                          /\ c = Entry(k, v) /\ e = EntriesOf(s) \cup {c}
    OBVIOUS
  <1>2. Unique(s) /\ IsSlots(s, o) /\ o \in Nat /\ DOMAIN s = Slots(o)
    BY <1>1, Sizes, SizeIs DEF AllKept, WellKept, Sound
  <1>3. /\ ~HasKey(s, k)
        /\ \/ \E i, cost : Stores(t, i, c, cost) /\ NewSlot(t, k, i, cost)
           \/ \E n, r : GrownTo(t, n, r, e, 1)
    BY <1>1, InsertNewIs
  <1>4. Maps!With(MapOf(s), k, v) \in Maps!Results(Contents(t))
    BY <1>1, ContentsIs, ResultsAre
  <1>5. ASSUME NEW i, NEW cost, Stores(t, i, c, cost), NewSlot(t, k, i, cost)
        PROVE  Maps!Next /\ GoneAreEmpty'
    <2>1. i \in Slots(o) /\ (s[i] = Deleted \/ s[i] = Empty)
      BY <1>1, <1>5 DEF NewSlot
    <2>2. i \notin Present(s)
      BY <1>2, <2>1 DEF Present, Empty, Deleted
    <2>3. Unique([s EXCEPT ![i] = c])
      BY <1>1, <1>5, WrittenIsUnique
    <2>4. \A j \in Present(s) : s[j].key = k => j = i
      BY <1>3 DEF HasKey
    <2>5. MapOf([s EXCEPT ![i] = c]) = Maps!With(MapOf(s), k, v)
      BY <1>1, <1>2, <2>1, <2>2, <2>3, <2>4, EntryWritten
    <2> QED BY <1>1, <1>4, <1>5, <2>5, StoreMaps
  <1>6. ASSUME NEW n, NEW r, GrownTo(t, n, r, e, 1)
        PROVE  Maps!Next /\ GoneAreEmpty'
    <2>1. Unique(r) /\ EntriesOf(r) = EntriesOf(s) \cup {Entry(k, v)}
      BY <1>1, <1>6 DEF GrownTo, Sound
    <2>2. MapOf(r) = Maps!With(MapOf(s), k, v)
      BY <1>2, <1>3, <2>1, EntryAdded
    <2> QED BY <1>4, <1>6, <2>2, GrownMaps
  <1> QED BY <1>3, <1>5, <1>6

LEMMA InsertMaps ==
  ASSUME Shaped, Shaped', AllKept, AllKept', GoneAreEmpty,
         NEW t \in Table, NEW k \in Key, NEW v \in Val[k], Insert(t, k, v)
  PROVE  (Maps!Next /\ GoneAreEmpty') \/ UNCHANGED vars
  BY InsertNewMaps DEF Insert

LEMMA UpdateMaps ==
  ASSUME Shaped, Shaped', AllKept, AllKept', GoneAreEmpty,
         NEW t \in Table, NEW k \in Key, NEW v \in Val[k], Update(t, k, v)
  PROVE  Maps!Next /\ GoneAreEmpty'
  <1>1. PICK o, s, at, c : /\ o = table[t].alloc /\ s = table[t].slots
                           /\ at = LookupEntry(s, k) /\ c = Entry(k, v)
    OBVIOUS
  <1>2. ~MovedFrom(t) /\ SearchEnds(t, k)
    BY DEF Update
  <1>3. Unique(s) /\ IsSlots(s, o) /\ o \in Nat
    BY <1>1, <1>2, Sizes DEF AllKept, WellKept, Sound
  <1>4. CASE at = {}
    <2>1. InsertNew(t, Entry(k, v))
      BY <1>1, <1>4 DEF Update
    <2> QED BY <1>1, <1>2, <1>4, <2>1, InsertNewMaps
  <1>5. CASE at # {}
    <2>1. PICK i, cost : i = Min(at) /\ cost = 0
      OBVIOUS
    <2>2. i \in Present(s) /\ i \in Slots(o) /\ s[i].key = k
      BY <1>1, <1>2, <1>5, <2>1, FoundIs
    <2>3. Stores(t, i, c, cost)
      BY <1>1, <1>5, <2>1 DEF Update
    <2>4. Unique([s EXCEPT ![i] = c])
      BY <1>1, <1>2, <2>3, WrittenIsUnique
    <2>5. \A j \in Present(s) : s[j].key = k => j = i
      BY <1>3, <2>2 DEF Unique
    <2>6. MapOf([s EXCEPT ![i] = c]) = Maps!With(MapOf(s), k, v)
      BY <1>1, <1>3, <2>2, <2>4, <2>5, EntryWritten
    <2>7. MapOf([s EXCEPT ![i] = c]) \in Maps!Results(Contents(t))
      BY <1>1, <2>6, ContentsIs, ResultsAre
    <2> QED BY <1>1, <1>2, <2>3, <2>7, StoreMaps
  <1> QED BY <1>4, <1>5

LEMMA EraseMaps ==
  ASSUME Shaped, Shaped', AllKept, AllKept', GoneAreEmpty,
         NEW t \in Table, NEW k \in Key, Erase(t, k)
  PROVE  (Maps!Next /\ GoneAreEmpty') \/ UNCHANGED vars
  <1>1. PICK o, s, at : /\ o = table[t].alloc /\ s = table[t].slots
                        /\ at = LookupEntry(s, k)
    OBVIOUS
  <1>2. ~MovedFrom(t) /\ SearchEnds(t, k)
    BY DEF Erase
  <1>3. Unique(s) /\ IsSlots(s, o) /\ o \in Nat
    BY <1>1, <1>2, Sizes DEF AllKept, WellKept, Sound
  <1>4. CASE at = {}
    BY <1>1, <1>4 DEF Erase
  <1>5. CASE at # {}
    <2>1. PICK i : i = Min(at)
      OBVIOUS
    <2>2. i \in Present(s) /\ s[i].key = k
      BY <1>1, <1>2, <1>5, <2>1, FoundIs
    <2>3. \E c \in {Empty, Deleted} : \E cost : Stores(t, i, c, cost)
      BY <1>1, <1>5, <2>1 DEF Erase
    <2>4. PICK c, cost : c \in {Empty, Deleted} /\ Stores(t, i, c, cost)
      BY <2>3
    <2>5. c.mark # "present"
      BY <2>4 DEF Empty, Deleted
    <2>6. Unique([s EXCEPT ![i] = c])
      BY <1>1, <1>2, <2>4, WrittenIsUnique
    <2>7. MapOf([s EXCEPT ![i] = c]) = Maps!Without(MapOf(s), k)
      BY <1>3, <2>2, <2>5, <2>6, EntryErased
    <2>8. MapOf([s EXCEPT ![i] = c]) \in Maps!Results(Contents(t))
      BY <1>1, <2>7, ContentsIs, ResultsAre
    <2> QED BY <1>1, <1>2, <2>4, <2>8, StoreMaps
  <1> QED BY <1>4, <1>5

LEMMA ClearMaps ==
  ASSUME ~ClearsAnything, Shaped, Shaped', AllKept, GoneAreEmpty,
         NEW t \in Table, Clear(t)
  PROVE  Maps!Next /\ GoneAreEmpty'
  <1>1. PICK x : /\ table' = [table EXCEPT ![t] = x] /\ WellKept(x)
                 /\ x.alloc = table[t].alloc /\ Present(x.slots) = {}
    BY ClearIs
  <1>2. ~MovedFrom(t) /\ x.alloc # 0
    BY <1>1 DEF Clear, MovedFrom
  <1>3. MapOf(x.slots) \in Maps!Results(Contents(t))
    BY <1>1, NoMap, ResultsAre
  <1> QED BY <1>1, <1>2, <1>3, CallMaps

LEMMA ResetMaps ==
  ASSUME Shaped, GoneAreEmpty, NEW t \in Table, Reset(t)
  PROVE  Maps!Next /\ GoneAreEmpty'
  <1>1. PICK s : table' = [table EXCEPT ![t] = Fresh(s)]
    BY DEF Reset
  <1>2. PICK x, n : /\ x = Fresh(s)
                    /\ n = IF SmallSize > 0 THEN SmallSize ELSE MinAllocatedSize
    OBVIOUS
  <1>3. x.alloc = n /\ x.slots = AllEmpty(n)
    BY <1>2 DEF Fresh
  <1>4. n \in Nat /\ n # 0
    BY <1>2, SmallOrFirst
  <1>5. DOMAIN table = Table
    BY DEF Shaped
  <1>6. \A u \in Table : table'[u] = IF u = t THEN x ELSE table[u]
    BY <1>1, <1>2, <1>5
  <1>7. Contents(t)' = Maps!None
    <2>1. Contents(t)' = MapOf(x.slots)
      BY <1>6 DEF Contents, MapOf
    <2>2. Present(x.slots) = {}
      BY <1>3, <1>4, AllEmptyIs
    <2> QED BY <2>1, <2>2, NoMap
  <1>8. \A u \in Table : u # t => Contents(u)' = Contents(u)
    BY <1>6 DEF Contents
  <1>9. \A u \in Table : MovedFrom(u)' <=> u # t /\ MovedFrom(u)
    BY <1>3, <1>4, <1>6 DEF MovedFrom
  <1>10. TheMoved' = TheMoved \ {t}
    BY <1>9 DEF TheMoved
  <1>11. TheMaps'[t] = Maps!None /\ TheMaps' = [TheMaps EXCEPT ![t] = TheMaps'[t]]
    BY <1>7, <1>8 DEF TheMaps
  <1>12. Maps!Reset(t)
    BY <1>10, <1>11 DEF Maps!Reset, Maps!Becomes, TheMoved, TheMaps
  <1>13. GoneAreEmpty'
    BY <1>6, <1>9 DEF GoneAreEmpty
  <1> QED BY <1>12, <1>13 DEF Maps!Next

\* The table t becomes x, which has the slots and the size of another.
LEMMA CopiedMaps ==
  ASSUME Shaped, GoneAreEmpty, NEW t \in Table, NEW from \in Table, NEW x,
         table' = [table EXCEPT ![t] = x],
         x.alloc = table[from].alloc, x.slots = table[from].slots
  PROVE  Maps!Next /\ GoneAreEmpty'
  <1>1. DOMAIN table = Table
    BY DEF Shaped
  <1>2. \A u \in Table : table'[u] = IF u = t THEN x ELSE table[u]
    BY <1>1
  <1>3. Contents(t)' = Contents(from) /\ \A u \in Table : u # t => Contents(u)' = Contents(u)
    BY <1>2 DEF Contents
  <1>4. /\ MovedFrom(t)' <=> MovedFrom(from)
        /\ \A u \in Table : u # t => (MovedFrom(u)' <=> MovedFrom(u))
    BY <1>2 DEF MovedFrom
  <1>5. TheMoved' = IF from \in TheMoved THEN TheMoved \cup {t} ELSE TheMoved \ {t}
    BY <1>4 DEF TheMoved
  <1>6. /\ TheMaps'[t] = TheMaps[from]
        /\ TheMaps' = [TheMaps EXCEPT ![t] = TheMaps'[t]]
    BY <1>3 DEF TheMaps
  <1>7. Maps!Copy(t, from)
    BY <1>5, <1>6 DEF Maps!Copy, Maps!Becomes, TheMoved, TheMaps
  <1>8. GoneAreEmpty'
    BY <1>2, <1>4 DEF GoneAreEmpty
  <1> QED BY <1>7, <1>8 DEF Maps!Next

LEMMA CopyMaps ==
  ASSUME Shaped, GoneAreEmpty, NEW t \in Table, NEW from \in Table, CopyAssign(t, from)
  PROVE  (Maps!Next /\ GoneAreEmpty') \/ UNCHANGED vars
  <1>1. CASE UNCHANGED vars
    BY <1>1
  <1>2. CASE MovedFrom(from) /\ table' = [table EXCEPT ![t] = Gone(table[t].budget)]
    <2>1. PICK x, b : b = table[t].budget /\ x = Gone(b)
      OBVIOUS
    <2>2. x.alloc = 0 /\ x.slots = << >>
      BY <2>1 DEF Gone
    <2>3. table' = [table EXCEPT ![t] = x]
      BY <1>2, <2>1
    <2>4. table[from].alloc = 0 /\ table[from].slots = << >>
      BY <1>2 DEF MovedFrom, GoneAreEmpty
    <2> QED BY <2>2, <2>3, <2>4, CopiedMaps
  <1>3. CASE \E s : table' = [table EXCEPT ![t] = [table[from] EXCEPT !.storage = s]]
    <2>1. PICK s : table' = [table EXCEPT ![t] = [table[from] EXCEPT !.storage = s]]
      BY <1>3
    <2>2. PICK r, x : r = table[from] /\ x = [r EXCEPT !.storage = s]
      OBVIOUS
    <2>3. r = [alloc |-> r.alloc, slots |-> r.slots, storage |-> r.storage,
               budget |-> r.budget]
      BY <2>2 DEF Shaped
    <2>4. x = [alloc |-> r.alloc, slots |-> r.slots, storage |-> s, budget |-> r.budget]
      <3>1. x = [r EXCEPT !.storage = s]
        BY <2>2
      <3> QED BY <2>3, <3>1
    <2>5. x.alloc = table[from].alloc /\ x.slots = table[from].slots
      BY <2>2, <2>4
    <2>6. table' = [table EXCEPT ![t] = x]
      BY <2>1, <2>2
    <2> QED BY <2>5, <2>6, CopiedMaps
  <1> QED BY <1>1, <1>2, <1>3 DEF CopyAssign

LEMMA MoveMaps ==
  ASSUME Shaped, GoneAreEmpty, NEW t \in Table, NEW from \in Table, MoveAssign(t, from)
  PROVE  Maps!Next /\ GoneAreEmpty'
  <1>1. PICK arg, g :
          /\ arg = IF t = from THEN Gone(table[t].budget) ELSE table[from]
          /\ g = Gone(arg.budget)
    OBVIOUS
  <1>2. table' = [[table EXCEPT ![from] = g] EXCEPT ![t] = arg]
    BY <1>1 DEF MoveAssign
  <1>3. DOMAIN table = Table
    BY DEF Shaped
  <1>4. \A u \in Table : table'[u] = IF u = t THEN arg ELSE IF u = from THEN g ELSE table[u]
    BY <1>2, <1>3
  <1>5. g.alloc = 0 /\ g.slots = << >>
    BY <1>1 DEF Gone
  <1>6. t = from => arg.alloc = 0 /\ arg.slots = << >>
    BY <1>1 DEF Gone
  <1>7. MapOf(<< >>) = Maps!None
    BY GoneMap
  <1>8. /\ Contents(from)' = Maps!None
        /\ t # from => Contents(t)' = Contents(from)
        /\ \A u \in Table : u # t /\ u # from => Contents(u)' = Contents(u)
    <2>1. table'[from].slots = << >>
      BY <1>4, <1>5, <1>6
    <2>2. Contents(from)' = MapOf(table'[from].slots)
      BY DEF Contents, MapOf
    <2>3. t # from => table'[t] = table[from]
      BY <1>1, <1>4
    <2>4. t # from => Contents(t)' = Contents(from)
      BY <2>3 DEF Contents
    <2>5. \A u \in Table : u # t /\ u # from => Contents(u)' = Contents(u)
      BY <1>4 DEF Contents
    <2> QED BY <1>7, <2>1, <2>2, <2>4, <2>5
  <1>9. /\ MovedFrom(from)'
        /\ t # from => (MovedFrom(t)' <=> MovedFrom(from))
        /\ \A u \in Table : u # t /\ u # from => (MovedFrom(u)' <=> MovedFrom(u))
    BY <1>1, <1>4, <1>5, <1>6 DEF MovedFrom
  <1>10. TheMoved' = (IF from \in TheMoved THEN TheMoved \cup {t} ELSE TheMoved \ {t})
                       \cup {from}
    BY <1>9 DEF TheMoved
  <1>11. TheMaps' = [TheMaps EXCEPT ![t] = TheMaps[from], ![from] = Maps!None]
    <2>1. PICK n : n = Maps!None
      OBVIOUS
    <2>2. \A u \in Table : TheMaps'[u] = IF u = from THEN n
                                         ELSE IF u = t THEN TheMaps[from] ELSE TheMaps[u]
      BY <1>8, <2>1 DEF TheMaps
    <2>3. DOMAIN TheMaps = Table /\ TheMaps' = [u \in Table |-> TheMaps'[u]]
      BY DEF TheMaps
    <2>4. TheMaps' = [[TheMaps EXCEPT ![t] = TheMaps[from]] EXCEPT ![from] = n]
      BY <2>2, <2>3
    <2> QED BY <2>1, <2>4
  <1>12. Maps!Move(t, from)
    BY <1>10, <1>11 DEF Maps!Move, TheMoved, TheMaps
  <1>13. GoneAreEmpty'
    <2>1. ASSUME NEW u \in Table, MovedFrom(u)' PROVE table'[u].slots = << >>
      <3>1. CASE u = t /\ u = from
        BY <1>4, <1>6, <3>1
      <3>2. CASE u = t /\ u # from
        BY <1>1, <1>4, <2>1, <3>2 DEF MovedFrom, GoneAreEmpty
      <3>3. CASE u # t /\ u = from
        BY <1>4, <1>5, <3>3
      <3>4. CASE u # t /\ u # from
        BY <1>4, <2>1, <3>4 DEF MovedFrom, GoneAreEmpty
      <3> QED BY <3>1, <3>2, <3>3, <3>4
    <2> QED BY <2>1 DEF GoneAreEmpty
  <1> QED BY <1>12, <1>13 DEF Maps!Next

LEMMA ReserveMaps ==
  ASSUME Shaped, Shaped', AllKept, GoneAreEmpty, NEW t \in Table, NEW count,
         GrowForInsertCount(t, count)
  PROVE  (Maps!Next /\ GoneAreEmpty') \/ UNCHANGED vars
  <1>1. CASE UNCHANGED vars
    BY <1>1
  <1>2. CASE /\ PowersAbove(SpaceForInserts(t, count)) # {}
             /\ GrowToAllocSizeImpl(t, NextPowerOf2(SpaceForInserts(t, count)))
    <2>1. PICK n : n = NextPowerOf2(SpaceForInserts(t, count)) /\ IsPowerOf2(n)
      BY <1>2, PowerAbove
    <2>2. GrowToAllocSizeImpl(t, n) /\ ~MovedFrom(t)
      BY <1>2, <2>1 DEF GrowForInsertCount
    <2> QED BY <2>1, <2>2, GrowMaps
  <1> QED BY <1>1, <1>2 DEF GrowForInsertCount

LEMMA InitMaps == Init => Maps!Init /\ GoneAreEmpty
  <1> SUFFICES ASSUME Init PROVE Maps!Init /\ GoneAreEmpty
    OBVIOUS
  <1>1. PICK first : table = [t \in Table |-> Fresh(first[t])]
    BY DEF Init
  <1>2. PICK n : n = IF SmallSize > 0 THEN SmallSize ELSE MinAllocatedSize
    OBVIOUS
  <1>3. n \in Nat /\ n # 0
    BY <1>2, SmallOrFirst
  <1>4. ASSUME NEW t \in Table
        PROVE  table[t].alloc = n /\ table[t].slots = AllEmpty(n)
    <2>1. PICK x, p, b : /\ x = Fresh(first[t]) /\ p = AllEmpty(n)
                         /\ b = GrowthThresholdForAllocSize(n)
      OBVIOUS
    <2>2. x = [alloc |-> n, slots |-> p, storage |-> first[t], budget |-> b]
      BY <1>2, <2>1 DEF Fresh
    <2>3. table[t] = x
      BY <1>1, <2>1
    <2> QED BY <2>1, <2>2, <2>3
  <1>5. \A t \in Table : ~MovedFrom(t) /\ Contents(t) = Maps!None
    <2>1. Present(AllEmpty(n)) = {}
      BY <1>3, AllEmptyIs
    <2>2. MapOf(AllEmpty(n)) = Maps!None
      BY <2>1, NoMap
    <2> QED BY <1>3, <1>4, <2>2, ContentsIs DEF MovedFrom
  <1>6. [t \in Table |-> Contents(t)] = [t \in Table |-> Maps!None]
    BY <1>5
  <1>7. {t \in Table : MovedFrom(t)} = {} /\ GoneAreEmpty
    BY <1>5 DEF GoneAreEmpty
  <1> QED BY <1>6, <1>7 DEF Maps!Init

LEMMA StepMaps ==
  ASSUME ~ClearsAnything, IInv, IInv', GoneAreEmpty, [Next]_vars
  PROVE  [Maps!Next]_<<TheMaps, TheMoved>> /\ GoneAreEmpty'
  <1>1. Shaped /\ Shaped' /\ AllKept /\ AllKept'
    BY DEF IInv, StorageInv
  <1>2. ASSUME NEW t \in Table, NEW k \in Key, Erase(t, k)
        PROVE  (Maps!Next /\ GoneAreEmpty') \/ UNCHANGED vars
    BY <1>1, <1>2, EraseMaps
  <1>3. ASSUME NEW t \in Table, NEW k \in Key, NEW v \in Val[k],
               Insert(t, k, v) \/ Update(t, k, v)
        PROVE  (Maps!Next /\ GoneAreEmpty') \/ UNCHANGED vars
    BY <1>1, <1>3, InsertMaps, UpdateMaps
  <1>4. ASSUME NEW t \in Table, Clear(t) \/ Reset(t)
        PROVE  Maps!Next /\ GoneAreEmpty'
    BY <1>1, <1>4, ClearMaps, ResetMaps
  <1>5. ASSUME NEW t \in Table, NEW n \in AllocSize, GrowToAllocSize(t, n)
        PROVE  (Maps!Next /\ GoneAreEmpty') \/ UNCHANGED vars
    <2>1. IsPowerOf2(n)
      BY SizesAssumption
    <2> QED BY <1>1, <1>5, <2>1, GrowMaps DEF GrowToAllocSize
  <1>6. ASSUME NEW t \in Table, NEW count \in Count, GrowForInsertCount(t, count)
        PROVE  (Maps!Next /\ GoneAreEmpty') \/ UNCHANGED vars
    BY <1>1, <1>6, ReserveMaps
  <1>7. ASSUME NEW t \in Table, NEW from \in Table,
               CopyAssign(t, from) \/ MoveAssign(t, from)
        PROVE  (Maps!Next /\ GoneAreEmpty') \/ UNCHANGED vars
    BY <1>1, <1>7, CopyMaps, MoveMaps
  <1>8. Next => (Maps!Next /\ GoneAreEmpty') \/ UNCHANGED vars
    BY <1>2, <1>3, <1>4, <1>5, <1>6, <1>7 DEF Next
  <1>9. UNCHANGED vars => UNCHANGED <<TheMaps, TheMoved>> /\ GoneAreEmpty'
    BY StayMaps
  <1> QED BY <1>8, <1>9

\* Every call has on the maps that the tables stand for the effect that Map's
\* interface states, and leaves the other tables' maps alone (map.h).
THEOREM MapsCorrect ==
  ASSUME ~ClearsAnything
  PROVE  Spec => ImplementsMaps
  <1>1. Init => MapsInv /\ Maps!Init
    BY InitOwns, InitKeeps, InitMaps DEF MapsInv, IInv
  <1>2. MapsInv /\ [Next]_vars => MapsInv' /\ [Maps!Next]_<<TheMaps, TheMoved>>
    BY KeptInductive, StepMaps DEF MapsInv
  <1>3. ImplementsMaps <=> Maps!Init /\ [][Maps!Next]_<<TheMaps, TheMoved>>
    BY DEF ImplementsMaps, Maps!Spec, TheMaps, TheMoved
  <1> QED BY <1>1, <1>2, <1>3, PTL DEF Spec
=============================================================================
