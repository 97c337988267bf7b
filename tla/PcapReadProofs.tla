--------------------------- MODULE PcapReadProofs ---------------------------
(***************************************************************************)
(* Theorems about how redextract reads a capture file, for any width of a  *)
(* field and of a byte, and for any file.                                  *)
(***************************************************************************)
EXTENDS PcapRead, Sums

-----------------------------------------------------------------------------
(* The powers of RADIX.                                                    *)

LEMMA Widths ==
  /\ FIELD \in Nat \ {0} /\ RADIX \in Nat \ {0, 1} /\ FIELD - 1 \in Nat
  /\ FileHeader = 6 * FIELD /\ RecordHeader = 4 * FIELD
  /\ FileHeader \in Nat \ {0} /\ RecordHeader \in Nat \ {0}
BY PcapReadAssumption DEF FileHeader, RecordHeader

\* f has the first n powers, and the 0th.
PowersTo(f, n) ==
  /\ f \in [0..n -> Nat \ {0}] /\ f[0] = 1
  /\ \A m \in 0..n - 1 : f[m + 1] = RADIX * f[m]

LEMMA PowersExist ==
  ASSUME NEW n \in Nat PROVE \E f : PowersTo(f, n)
<1> DEFINE G == { m \in Nat : \E f : PowersTo(f, m) }
<1>1. 0 \in G
  <2> DEFINE f == [m \in 0..0 |-> 1]
  <2>1. PowersTo(f, 0)
    BY DEF PowersTo
  <2> QED
    BY <2>1
<1>2. ASSUME NEW m \in Nat, m \in G PROVE m + 1 \in G
  <2>1. PICK f : PowersTo(f, m)
    BY <1>2
  <2> DEFINE g == [k \in 0..m + 1 |-> IF k = m + 1 THEN RADIX * f[m] ELSE f[k]]
  <2>2. /\ f \in [0..m -> Nat \ {0}] /\ f[0] = 1
        /\ \A k \in 0..m - 1 : f[k + 1] = RADIX * f[k]
    BY <2>1 DEF PowersTo
  <2>3. RADIX * f[m] \in Nat \ {0}
    <3>1. \A a, b \in Nat \ {0} : a * b \in Nat \ {0}
      OBVIOUS
    <3> QED
      BY <2>2, <3>1, Widths
  <2>4. \A k \in 0..m + 1 : k # m + 1 => k \in 0..m
    OBVIOUS
  <2>5. g \in [0..m + 1 -> Nat \ {0}]
    BY <2>2, <2>3, <2>4
  <2>6. g[0] = 1
    BY <2>2
  <2>7. ASSUME NEW k \in 0..m PROVE g[k + 1] = RADIX * g[k]
    <3>1. CASE k = m
      BY <3>1
    <3>2. CASE k # m
      BY <2>2, <3>2
    <3> QED
      BY <3>1, <3>2
  <2>8. (m + 1) - 1 = m
    OBVIOUS
  <2> HIDE DEF g
  <2>9. PowersTo(g, m + 1)
    BY <2>5, <2>6, <2>7, <2>8 DEF PowersTo
  <2> QED
    BY <2>9
<1>3. Nat \subseteq G
  <2> HIDE DEF G
  <2> QED
    BY <1>1, <1>2, NatSetInduction
<1> QED
  BY <1>3

LEMMA PowersAgree ==
  ASSUME NEW n \in Nat, NEW f, PowersTo(f, n), NEW m \in Nat, NEW g, PowersTo(g, m)
  PROVE  \A k \in Nat : k <= n /\ k <= m => f[k] = g[k]
<1> DEFINE G == { k \in Nat : k <= n /\ k <= m => f[k] = g[k] }
<1>1. 0 \in G
  BY DEF PowersTo
<1>2. ASSUME NEW k \in Nat, k \in G PROVE k + 1 \in G
  <2> SUFFICES ASSUME k + 1 <= n, k + 1 <= m PROVE f[k + 1] = g[k + 1]
    OBVIOUS
  <2>1. k \in 0..n - 1 /\ k \in 0..m - 1
    OBVIOUS
  <2>2. f[k + 1] = RADIX * f[k] /\ g[k + 1] = RADIX * g[k]
    BY <2>1 DEF PowersTo
  <2> QED
    BY <1>2, <2>1, <2>2
<1>3. Nat \subseteq G
  <2> HIDE DEF G
  <2> QED
    BY <1>1, <1>2, NatSetInduction
<1> QED
  BY <1>3

\* Power is what its definition says.
LEMMA PowerIs == Power = [n \in Nat |-> IF n = 0 THEN 1 ELSE RADIX * Power[n - 1]]
<1> DEFINE upto(n) == CHOOSE f : PowersTo(f, n)
           p == [n \in Nat |-> upto(n)[n]]
<1>1. \A n \in Nat : PowersTo(upto(n), n)
  BY PowersExist
<1>2. ASSUME NEW n \in Nat PROVE p[n] = IF n = 0 THEN 1 ELSE RADIX * p[n - 1]
  <2>1. CASE n = 0
    BY <1>1, <2>1 DEF PowersTo
  <2>2. CASE n # 0
    <3>1. n - 1 \in Nat /\ n - 1 <= n /\ n - 1 <= n - 1 /\ n - 1 \in 0..n - 1
          /\ n - 1 + 1 = n
      BY <2>2
    <3>2. PowersTo(upto(n), n) /\ PowersTo(upto(n - 1), n - 1)
      BY <1>1, <3>1
    <3> HIDE DEF upto
    <3>3. upto(n)[n] = RADIX * upto(n)[n - 1]
      BY <3>1, <3>2 DEF PowersTo
    <3>4. upto(n)[n - 1] = upto(n - 1)[n - 1]
      BY <3>1, <3>2, PowersAgree
    <3> QED
      BY <2>2, <3>1, <3>3, <3>4
  <2> QED
    BY <2>1, <2>2
<1>3. p = [n \in Nat |-> IF n = 0 THEN 1 ELSE RADIX * p[n - 1]]
  <2> DEFINE q == [n \in Nat |-> IF n = 0 THEN 1 ELSE RADIX * p[n - 1]]
  <2>1. \A n \in Nat : p[n] = q[n]
    BY <1>2
  <2>2. p = [n \in Nat |-> p[n]]
    OBVIOUS
  <2> HIDE DEF p
  <2>3. p = q
    BY <2>1, <2>2
  <2> QED
    BY <2>3
<1> HIDE DEF p
<1>4. Power = CHOOSE g : g = [n \in Nat |-> IF n = 0 THEN 1 ELSE RADIX * g[n - 1]]
  BY DEF Power
<1> QED
  BY <1>3, <1>4

LEMMA Powers ==
  /\ Power[0] = 1
  /\ \A n \in Nat : Power[n] \in Nat \ {0} /\ Power[n + 1] = RADIX * Power[n]
<1>1. Power[0] = 1
  BY PowerIs
<1>2. ASSUME NEW n \in Nat PROVE Power[n + 1] = RADIX * Power[n]
  <2>1. n + 1 \in Nat /\ n + 1 # 0 /\ n + 1 - 1 = n
    OBVIOUS
  <2> QED
    BY <2>1, PowerIs
<1> DEFINE G == { n \in Nat : Power[n] \in Nat \ {0} }
<1>3. 0 \in G
  BY <1>1
<1>4. ASSUME NEW n \in Nat, n \in G PROVE n + 1 \in G
  <2>1. \A a, b \in Nat \ {0} : a * b \in Nat \ {0}
    OBVIOUS
  <2>2. Power[n + 1] = RADIX * Power[n] /\ Power[n] \in Nat \ {0} /\ RADIX \in Nat \ {0}
    BY <1>2, <1>4, Widths
  <2>3. RADIX * Power[n] \in Nat \ {0}
    BY <2>1, <2>2
  <2> QED
    BY <2>2, <2>3
<1>5. Nat \subseteq G
  <2> HIDE DEF G
  <2> QED
    BY <1>3, <1>4, NatSetInduction
<1> QED
  BY <1>1, <1>2, <1>5

-----------------------------------------------------------------------------
(* The digits of a number.                                                 *)

LEMMA DivideTwice ==
  ASSUME NEW v \in Nat, NEW a \in Nat \ {0}, NEW b \in Nat \ {0}
  PROVE  v \div (b * a) = (v \div a) \div b
<1> DEFINE q == v \div a
           r == v % a
           s == q \div b
           t == q % b
           x == v \div (b * a)
           y == v % (b * a)
<1>1. q \in Nat /\ r \in 0..a - 1 /\ v = q * a + r
  BY Divided
<1>2. s \in Nat /\ t \in 0..b - 1 /\ q = s * b + t
  BY <1>1, Divided
<1>3. b * a \in Nat \ {0}
  OBVIOUS
<1>4. x \in Nat /\ y \in 0..b * a - 1 /\ v = x * (b * a) + y
  BY <1>3, Divided
<1> HIDE DEF q, r, s, t, x, y
<1>5. t * a + r \in 0..b * a - 1
  <2>1. (t + 1) * a <= b * a
    BY <1>2, ProductMonotone
  <2>2. (t + 1) * a = t * a + a /\ t * a \in Nat
    BY <1>2
  <2> QED
    BY <1>1, <1>3, <2>1, <2>2
<1>6. v = s * (b * a) + (t * a + r)
  <2>1. q * a = (s * b) * a + t * a
    BY <1>2
  <2>2. (s * b) * a = s * (b * a)
    BY <1>2
  <2>3. s * (b * a) \in Nat /\ t * a \in Nat
    BY <1>2, <1>3
  <2> QED
    BY <1>1, <2>1, <2>2, <2>3
<1>7. x = s
  BY <1>2, <1>3, <1>4, <1>5, <1>6, OneQuotient
<1> QED
  BY <1>7 DEF x, s, q

LEMMA Quotient ==
  ASSUME NEW K \in Nat \ {0}, NEW q \in Nat, NEW r \in 0..K - 1
  PROVE  (q * K + r) \div K = q /\ (q * K + r) % K = r
<1> DEFINE n == q * K + r
           x == n \div K
           y == n % K
<1>1. n \in Nat
  OBVIOUS
<1>2. x \in Nat /\ y \in 0..K - 1 /\ n = x * K + y
  BY <1>1, Divided
<1>3. q * K + r = x * K + y
  BY <1>2
<1> HIDE DEF x, y
<1>4. q = x /\ r = y
  BY <1>2, <1>3, OneQuotient
<1> QED
  BY <1>4 DEF x, y

\* The digits at places 0 to j - 1, and the sets they are summed over.
LEMMA Below ==
  ASSUME NEW j \in Nat
  PROVE  /\ IsFiniteSet(0..j - 1) /\ j \notin 0..j - 1
         /\ (0..j - 1) \cup {j} = 0..(j + 1) - 1
<1>1. IsFiniteSet(0..j - 1)
  <2>1. 0 \in Int /\ j - 1 \in Int
    OBVIOUS
  <2> QED
    BY <2>1, FS_Interval
<1> QED
  BY <1>1

LEMMA PowerPositive ==
  ASSUME NEW n \in Nat PROVE Power[n] \in Nat \ {0} /\ Power[n] \in Nat
BY Powers

LEMMA ProductNat ==
  ASSUME NEW a \in Nat, NEW b \in Nat PROVE a * b \in Nat
OBVIOUS

\* A number is the sum of its digits, each times the power of its place.
LEMMA SumOfDigits ==
  ASSUME NEW v \in 0..U32 - 1, NEW f,
         \A n \in 0..FIELD - 1 : f[n] = ((v \div Power[n]) % RADIX) * Power[n]
  PROVE  SumFunctionOnSet(f, 0..FIELD - 1) = v
<1>1. v \in Nat /\ FIELD \in Nat /\ U32 \in Nat \ {0} /\ v < U32
  BY Widths, Powers DEF U32
<1> DEFINE S(j) == SumFunctionOnSet(f, 0..j - 1)
           q(j) == v \div Power[j]
           G == { j \in Nat : j <= FIELD => S(j) \in Nat /\ v = S(j) + q(j) * Power[j] }
<1>2. \A n \in Nat : q(n) \in Nat /\ (q(n) % RADIX) \in 0..RADIX - 1
                     /\ q(n) = (q(n) \div RADIX) * RADIX + (q(n) % RADIX)
                     /\ (q(n) \div RADIX) \in Nat
  <2> SUFFICES ASSUME NEW n \in Nat
               PROVE  q(n) \in Nat /\ (q(n) % RADIX) \in 0..RADIX - 1
                      /\ q(n) = (q(n) \div RADIX) * RADIX + (q(n) % RADIX)
                      /\ (q(n) \div RADIX) \in Nat
    OBVIOUS
  <2>1. q(n) \in Nat
    BY <1>1, PowerPositive, Divided
  <2> HIDE DEF q
  <2>2. RADIX \in Nat \ {0}
    BY Widths
  <2> QED
    BY <2>1, <2>2, Divided
<1>3. \A n \in 0..FIELD - 1 : f[n] \in Nat
  <2> SUFFICES ASSUME NEW n \in 0..FIELD - 1 PROVE f[n] \in Nat
    OBVIOUS
  <2>1. n \in Nat
    BY <1>1
  <2>2. f[n] = (q(n) % RADIX) * Power[n]
    OBVIOUS
  <2> HIDE DEF q
  <2>3. (q(n) % RADIX) \in 0..RADIX - 1 /\ Power[n] \in Nat /\ RADIX \in Nat
    BY <1>2, <2>1, PowerPositive, Widths
  <2>4. (q(n) % RADIX) \in Nat
    BY <2>3
  <2> QED
    BY <2>2, <2>3, <2>4, ProductNat
<1>4. 0 \in G
  <2>1. 0..0 - 1 = {}
    OBVIOUS
  <2>2. S(0) = 0
    BY <2>1, SumEmpty
  <2>3. Power[0] = 1 /\ q(0) = v
    BY <1>1, Powers
  <2> HIDE DEF S, q
  <2> QED
    BY <1>1, <2>2, <2>3
<1>5. ASSUME NEW j \in Nat, j \in G PROVE j + 1 \in G
  <2> SUFFICES ASSUME j + 1 <= FIELD
               PROVE  S(j + 1) \in Nat /\ v = S(j + 1) + q(j + 1) * Power[j + 1]
    OBVIOUS
  <2>1. j \in 0..FIELD - 1 /\ j <= FIELD
    BY <1>1
  <2>2. S(j) \in Nat /\ v = S(j) + q(j) * Power[j]
    BY <1>5, <2>1
  <2>3. S(j + 1) = S(j) + f[j]
    <3>1. \A x \in (0..j - 1) \cup {j} : f[x] \in Nat
      BY <1>1, <1>3, <2>1
    <3>2. SumFunctionOnSet(f, (0..j - 1) \cup {j}) = SumFunctionOnSet(f, 0..j - 1) + f[j]
      <4>1. IsFiniteSet(0..j - 1) /\ j \notin 0..j - 1
        BY Below
      <4> QED
        BY <3>1, <4>1, SumAdd
    <3>3. (0..j - 1) \cup {j} = 0..(j + 1) - 1
      BY Below
    <3> QED
      BY <3>2, <3>3
  <2>4. f[j] = (q(j) % RADIX) * Power[j] /\ f[j] \in Nat
    BY <1>3, <2>1
  <2>5. Power[j + 1] = RADIX * Power[j] /\ Power[j] \in Nat \ {0} /\ Power[j] \in Nat
    BY Powers
  <2>6. q(j + 1) = q(j) \div RADIX
    BY <1>1, <2>5, Widths, DivideTwice
  <2> HIDE DEF S, q
  <2>7. q(j) * Power[j] = (q(j) \div RADIX) * (RADIX * Power[j]) + (q(j) % RADIX) * Power[j]
    <3>1. \A a, b, c, d \in Nat : (a * b + d) * c = a * (b * c) + d * c
      OBVIOUS
    <3>2. (q(j) \div RADIX) \in Nat /\ RADIX \in Nat
          /\ q(j) = (q(j) \div RADIX) * RADIX + (q(j) % RADIX)
      BY <1>2, Widths
    <3>3. (q(j) % RADIX) \in Nat
      <4>1. (q(j) % RADIX) \in 0..RADIX - 1
        BY <1>2
      <4> QED
        BY <3>2, <4>1
    <3> QED
      BY <2>5, <3>1, <3>2, <3>3
  <2>8. q(j) * Power[j] = q(j + 1) * Power[j + 1] + f[j]
    BY <2>4, <2>5, <2>6, <2>7
  <2>9. q(j + 1) * Power[j + 1] \in Nat /\ q(j) * Power[j] \in Nat
    BY <1>2, PowerPositive, ProductNat
  <2> QED
    BY <2>2, <2>3, <2>4, <2>8, <2>9
<1>6. FIELD \in G
  <2>1. Nat \subseteq G
    <3> HIDE DEF G
    <3> QED
      BY <1>4, <1>5, NatSetInduction
  <2> QED
    BY <1>1, <2>1
<1>7. q(FIELD) = 0
  <2>1. U32 \in Nat \ {0} /\ v \in 0..U32 - 1 /\ 0 * U32 + v = v
    BY <1>1
  <2>2. (0 * U32 + v) \div U32 = 0
    BY <2>1, Quotient
  <2> QED
    BY <2>1, <2>2 DEF U32
<1>8. S(FIELD) \in Nat /\ v = S(FIELD) + q(FIELD) * Power[FIELD]
  BY <1>1, <1>6
<1>9. S(FIELD) = v
  <2> HIDE DEF S, q
  <2>1. q(FIELD) * Power[FIELD] = 0
    BY <1>1, <1>7, PowerPositive
  <2> QED
    BY <1>8, <2>1
<1> QED
  BY <1>9

\* The number that some digits make is less than the power of the next place.
LEMMA DigitsBelow ==
  ASSUME NEW d, NEW f,
         \A n \in 0..FIELD - 1 : d[n] \in 0..RADIX - 1 /\ f[n] = d[n] * Power[n]
  PROVE  \A j \in 0..FIELD : /\ SumFunctionOnSet(f, 0..j - 1) \in Nat
                             /\ SumFunctionOnSet(f, 0..j - 1) < Power[j]
<1> DEFINE S(j) == SumFunctionOnSet(f, 0..j - 1)
           G == { j \in Nat : j <= FIELD => S(j) \in Nat /\ S(j) < Power[j] }
<1>1. FIELD \in Nat /\ RADIX \in Nat
  BY Widths
<1>2. \A n \in 0..FIELD - 1 : f[n] \in Nat
  <2> SUFFICES ASSUME NEW n \in 0..FIELD - 1 PROVE f[n] \in Nat
    OBVIOUS
  <2>1. n \in Nat /\ d[n] \in Nat /\ f[n] = d[n] * Power[n]
    BY <1>1
  <2> QED
    BY <2>1, PowerPositive, ProductNat
<1>3. 0 \in G
  <2>1. 0..0 - 1 = {}
    OBVIOUS
  <2>2. S(0) = 0
    BY <2>1, SumEmpty
  <2> HIDE DEF S
  <2> QED
    BY <2>2, Powers
<1>4. ASSUME NEW j \in Nat, j \in G PROVE j + 1 \in G
  <2> SUFFICES ASSUME j + 1 <= FIELD
               PROVE  S(j + 1) \in Nat /\ S(j + 1) < Power[j + 1]
    OBVIOUS
  <2>1. j \in 0..FIELD - 1 /\ j <= FIELD
    BY <1>1
  <2>2. S(j) \in Nat /\ S(j) < Power[j]
    BY <1>4, <2>1
  <2>3. S(j + 1) = S(j) + f[j]
    <3>1. \A x \in (0..j - 1) \cup {j} : f[x] \in Nat
      BY <1>1, <1>2, <2>1
    <3>2. SumFunctionOnSet(f, (0..j - 1) \cup {j}) = SumFunctionOnSet(f, 0..j - 1) + f[j]
      <4>1. IsFiniteSet(0..j - 1) /\ j \notin 0..j - 1
        BY Below
      <4> QED
        BY <3>1, <4>1, SumAdd
    <3>3. (0..j - 1) \cup {j} = 0..(j + 1) - 1
      BY Below
    <3> QED
      BY <3>2, <3>3
  <2> HIDE DEF S
  <2>4. f[j] = d[j] * Power[j] /\ f[j] \in Nat /\ d[j] \in Nat /\ d[j] + 1 <= RADIX
    BY <1>1, <1>2, <2>1
  <2>5. Power[j + 1] = RADIX * Power[j] /\ Power[j] \in Nat
    BY Powers
  <2>6. (d[j] + 1) * Power[j] <= RADIX * Power[j]
    BY <1>1, <2>4, <2>5, ProductMonotone
  <2>7. (d[j] + 1) * Power[j] = d[j] * Power[j] + Power[j]
    BY <2>4, <2>5
  <2>8. RADIX * Power[j] \in Nat
    BY <1>1, <2>5, ProductNat
  <2> QED
    BY <2>2, <2>3, <2>4, <2>5, <2>6, <2>7, <2>8
<1>5. Nat \subseteq G
  <2> HIDE DEF G
  <2> QED
    BY <1>3, <1>4, NatSetInduction
<1> QED
  BY <1>1, <1>5

\* Its top digit is left when it is divided by the power of the top place.
LEMMA TopDigit ==
  ASSUME NEW d, NEW f,
         \A n \in 0..FIELD - 1 : d[n] \in 0..RADIX - 1 /\ f[n] = d[n] * Power[n]
  PROVE  /\ SumFunctionOnSet(f, 0..FIELD - 1) \in Nat
         /\ SumFunctionOnSet(f, 0..FIELD - 1) \div Power[FIELD - 1] = d[FIELD - 1]
<1> DEFINE t == FIELD - 1
           low == SumFunctionOnSet(f, 0..t - 1)
<1>1. t \in Nat /\ t \in 0..FIELD /\ t \in 0..FIELD - 1 /\ t + 1 = FIELD /\ FIELD \in 0..FIELD
  BY Widths
<1>2. low \in Nat /\ low < Power[t]
  BY <1>1, DigitsBelow
<1>3. SumFunctionOnSet(f, 0..FIELD - 1) \in Nat
  BY <1>1, DigitsBelow
<1>4. Power[t] \in Nat \ {0} /\ d[t] \in Nat /\ f[t] = d[t] * Power[t] /\ f[t] \in Nat
  <2>1. Power[t] \in Nat \ {0} /\ d[t] \in Nat /\ f[t] = d[t] * Power[t]
    BY <1>1, PowerPositive, Widths
  <2> QED
    BY <2>1, ProductNat
<1>5. SumFunctionOnSet(f, 0..FIELD - 1) = low + f[t]
  <2>1. \A x \in (0..t - 1) \cup {t} : f[x] \in Nat
    <3> SUFFICES ASSUME NEW x \in 0..FIELD - 1 PROVE f[x] \in Nat
      BY <1>1
    <3>1. x \in Nat /\ d[x] \in Nat /\ f[x] = d[x] * Power[x]
      BY Widths
    <3> QED
      BY <3>1, PowerPositive, ProductNat
  <2>2. IsFiniteSet(0..t - 1) /\ t \notin 0..t - 1 /\ (0..t - 1) \cup {t} = 0..FIELD - 1
    <3> HIDE DEF t
    <3>1. IsFiniteSet(0..t - 1) /\ t \notin 0..t - 1 /\ (0..t - 1) \cup {t} = 0..(t + 1) - 1
      BY <1>1, Below
    <3> QED
      BY <1>1, <3>1
  <2>3. SumFunctionOnSet(f, (0..t - 1) \cup {t}) = low + f[t]
    BY <2>1, <2>2, SumAdd
  <2> QED
    BY <2>2, <2>3
<1> HIDE DEF t, low
<1>6. low + f[t] = d[t] * Power[t] + low /\ low \in 0..Power[t] - 1
  BY <1>2, <1>4
<1>7. (d[t] * Power[t] + low) \div Power[t] = d[t]
  BY <1>4, <1>6, Quotient
<1> QED
  BY <1>3, <1>5, <1>6, <1>7 DEF t

-----------------------------------------------------------------------------
(* Where the records of a file are.                                        *)

Captured(c) ==
  /\ c.lens \in Seq(0..U32 - 1) /\ c.fill \in 0..RADIX - 1 /\ c.cut \in Nat

\* The places of the records, and the one behind the last.
RecordsOf(c) == 1..Len(c.lens) + 1

LEMMA LensAre ==
  ASSUME NEW c, Captured(c)
  PROVE  /\ Len(c.lens) \in Nat /\ DOMAIN c.lens = 1..Len(c.lens)
         /\ \A k \in 1..Len(c.lens) : c.lens[k] \in 0..U32 - 1 /\ c.lens[k] \in Nat
         /\ U32 \in Nat \ {0}
<1>1. U32 \in Nat \ {0}
  BY Widths, Powers DEF U32
<1> QED
  BY <1>1 DEF Captured

LEMMA Starts ==
  ASSUME NEW c, Captured(c)
  PROVE  /\ Start(c, 1) = FileHeader
         /\ \A k \in RecordsOf(c) : Start(c, k) \in Nat
         /\ \A k \in DOMAIN c.lens :
              Start(c, k + 1) = Start(c, k) + RecordHeader + c.lens[k]
<1> DEFINE S(k) == SumFunctionOnSet(c.lens, 1..k - 1)
<1>1. Start(c, 1) = FileHeader
  <2>1. S(1) = 0
    <3>1. 1..1 - 1 = {}
      OBVIOUS
    <3> QED
      BY <3>1, SumEmpty
  <2>2. (1 - 1) * RecordHeader = 0
    BY Widths
  <2> HIDE DEF S
  <2>3. Start(c, 1) = FileHeader + (1 - 1) * RecordHeader + S(1)
    BY DEF Start, S
  <2> QED
    BY <2>1, <2>2, <2>3, Widths
<1>2. ASSUME NEW k \in RecordsOf(c)
      PROVE  k \in Nat /\ k - 1 \in Nat /\ S(k) \in Nat /\ IsFiniteSet(1..k - 1)
  <2>1. k \in Nat /\ k - 1 \in Nat /\ 1..k - 1 \subseteq 1..Len(c.lens)
    BY LensAre DEF RecordsOf
  <2>2. IsFiniteSet(1..k - 1)
    <3>1. 1 \in Int /\ k - 1 \in Int
      BY <2>1
    <3> QED
      BY <3>1, FS_Interval
  <2>3. \A x \in 1..k - 1 : c.lens[x] \in Nat
    BY <2>1, LensAre
  <2> QED
    BY <2>1, <2>2, <2>3, SumInNat
<1>3. ASSUME NEW k \in RecordsOf(c)
      PROVE  /\ Start(c, k) \in Nat /\ (k - 1) * RecordHeader \in Nat
             /\ Start(c, k) = FileHeader + (k - 1) * RecordHeader + S(k)
  <2> HIDE DEF S
  <2>1. (k - 1) * RecordHeader \in Nat
    BY <1>2, Widths, ProductNat
  <2>2. Start(c, k) = FileHeader + (k - 1) * RecordHeader + S(k)
    BY DEF Start, S
  <2>3. S(k) \in Nat /\ FileHeader \in Nat
    BY <1>2, Widths
  <2> QED
    BY <2>1, <2>2, <2>3
<1>4. ASSUME NEW k \in DOMAIN c.lens
      PROVE  Start(c, k + 1) = Start(c, k) + RecordHeader + c.lens[k]
  <2>1. /\ k \in RecordsOf(c) /\ k + 1 \in RecordsOf(c) /\ k \in 1..Len(c.lens)
        /\ k \notin 1..k - 1 /\ (1..k - 1) \cup {k} = 1..(k + 1) - 1
        /\ (1..k - 1) \cup {k} \subseteq 1..Len(c.lens)
    BY LensAre DEF RecordsOf
  <2>2. S(k + 1) = S(k) + c.lens[k]
    <3>1. \A x \in (1..k - 1) \cup {k} : c.lens[x] \in Nat
      BY <2>1, LensAre
    <3>2. SumFunctionOnSet(c.lens, (1..k - 1) \cup {k})
            = SumFunctionOnSet(c.lens, 1..k - 1) + c.lens[k]
      BY <1>2, <2>1, <3>1, SumAdd
    <3> QED
      BY <2>1, <3>2
  <2> HIDE DEF S
  <2>3. ((k + 1) - 1) * RecordHeader = (k - 1) * RecordHeader + RecordHeader
    <3>1. \A a, b \in Nat : ((a + 1) - 1) * b = (a - 1) * b + b
      OBVIOUS
    <3>2. k \in Nat /\ RecordHeader \in Nat
      BY <1>2, <2>1, Widths
    <3> QED
      BY <3>1, <3>2
  <2>4. /\ Start(c, k) = FileHeader + (k - 1) * RecordHeader + S(k)
        /\ Start(c, k + 1) = FileHeader + ((k + 1) - 1) * RecordHeader + S(k + 1)
        /\ (k - 1) * RecordHeader \in Nat
    BY <1>3, <2>1
  <2>5. FileHeader \in Nat /\ RecordHeader \in Nat /\ S(k) \in Nat /\ c.lens[k] \in Nat
    BY <1>2, <2>1, Widths, LensAre
  <2> QED
    BY <2>2, <2>3, <2>4, <2>5
<1> QED
  BY <1>1, <1>3, <1>4

\* A record starts behind the whole header of every one before.
LEMMA StartsInOrder ==
  ASSUME NEW c, Captured(c)
  PROVE  \A k \in RecordsOf(c) : \A j \in 1..k - 1 :
           Start(c, j + 1) <= Start(c, k) /\ Start(c, j) + RecordHeader <= Start(c, k)
<1> DEFINE G == { k \in Nat : k \in RecordsOf(c) =>
                    \A j \in 1..k - 1 : Start(c, j + 1) <= Start(c, k) }
<1>1. Len(c.lens) \in Nat /\ DOMAIN c.lens = 1..Len(c.lens)
  BY LensAre
<1>2. 0 \in G
  BY <1>1 DEF RecordsOf
<1>3. ASSUME NEW k \in Nat, k \in G PROVE k + 1 \in G
  <2> SUFFICES ASSUME k + 1 \in RecordsOf(c), NEW j \in 1..(k + 1) - 1
               PROVE  Start(c, j + 1) <= Start(c, k + 1)
    OBVIOUS
  <2>1. k \in DOMAIN c.lens /\ k \in RecordsOf(c) /\ j + 1 \in RecordsOf(c)
    BY <1>1 DEF RecordsOf
  <2>2. Start(c, k + 1) \in Nat /\ Start(c, k) \in Nat /\ Start(c, j + 1) \in Nat
        /\ Start(c, k + 1) = Start(c, k) + RecordHeader + c.lens[k]
        /\ c.lens[k] \in Nat
    BY <1>1, <2>1, Starts, LensAre
  <2>3. CASE j = k
    BY <2>2, <2>3
  <2>4. CASE j # k
    <3>1. j \in 1..k - 1
      BY <2>4
    <3>2. Start(c, j + 1) <= Start(c, k)
      BY <1>3, <2>1, <3>1
    <3> QED
      BY <2>2, <3>2, Widths
  <2> QED
    BY <2>3, <2>4
<1>4. Nat \subseteq G
  <2> HIDE DEF G
  <2> QED
    BY <1>2, <1>3, NatSetInduction
<1>5. ASSUME NEW k \in RecordsOf(c), NEW j \in 1..k - 1
      PROVE  Start(c, j + 1) <= Start(c, k) /\ Start(c, j) + RecordHeader <= Start(c, k)
  <2>1. k \in Nat /\ j \in DOMAIN c.lens /\ j \in RecordsOf(c) /\ j + 1 \in RecordsOf(c)
    BY <1>1 DEF RecordsOf
  <2>2. Start(c, j + 1) <= Start(c, k)
    BY <1>4, <2>1
  <2>3. /\ Start(c, j + 1) = Start(c, j) + RecordHeader + c.lens[j]
        /\ Start(c, j) \in Nat /\ Start(c, k) \in Nat /\ c.lens[j] \in Nat
    BY <1>1, <2>1, Starts, LensAre
  <2> QED
    BY <2>2, <2>3, Widths
<1> QED
  BY <1>5

LEMMA Sizes ==
  ASSUME NEW c, Captured(c)
  PROVE  /\ Size(c) \in Nat /\ Size(c) <= Start(c, Len(c.lens) + 1)
         /\ c.cut = 0 => Size(c) = Start(c, Len(c.lens) + 1)
<1>1. Len(c.lens) + 1 \in RecordsOf(c) /\ c.cut \in Nat
  BY LensAre DEF RecordsOf, Captured
<1>2. Whole(c) \in Nat /\ Whole(c) = Start(c, Len(c.lens) + 1)
  BY <1>1, Starts DEF Whole
<1>3. c.cut = 0 => Whole(c) # 0
  <2>1. Start(c, 1) = FileHeader /\ 1 \in RecordsOf(c)
    BY Starts, LensAre DEF RecordsOf
  <2>2. CASE Len(c.lens) + 1 = 1
    BY <1>2, <2>1, <2>2, Widths
  <2>3. CASE Len(c.lens) + 1 # 1
    <3>1. 1 \in 1..(Len(c.lens) + 1) - 1
      BY <2>3, LensAre
    <3>2. Start(c, 1) + RecordHeader <= Start(c, Len(c.lens) + 1)
      BY <1>1, <3>1, StartsInOrder
    <3> QED
      BY <1>2, <2>1, <3>2, Widths
  <2> QED
    BY <2>2, <2>3
<1> QED
  BY <1>1, <1>2, <1>3 DEF Size

\* The records in a file come before those that are not.
LEMMA PresentFirst ==
  ASSUME NEW c, Captured(c), NEW k \in Present(c), NEW j \in 1..k
  PROVE  j \in Present(c)
<1>1. /\ k \in 1..Len(c.lens) /\ Start(c, k + 1) <= Size(c) /\ Size(c) \in Nat
      /\ DOMAIN c.lens = 1..Len(c.lens) /\ Len(c.lens) \in Nat
  BY LensAre, Sizes DEF Present
<1>2. j \in DOMAIN c.lens /\ k + 1 \in RecordsOf(c) /\ j + 1 \in RecordsOf(c)
  BY <1>1 DEF RecordsOf
<1>3. Start(c, j + 1) <= Start(c, k + 1)
  <2>1. CASE j = k
    BY <1>2, <2>1, Starts
  <2>2. CASE j # k
    <3>1. j + 1 \in 1..k
      BY <1>1, <2>2
    <3>2. j \in 1..(k + 1) - 1
      BY <1>1
    <3> QED
      BY <1>2, <3>2, StartsInOrder
  <2> QED
    BY <2>1, <2>2
<1>4. Start(c, j + 1) \in Nat /\ Start(c, k + 1) \in Nat
  BY <1>2, Starts
<1> QED
  BY <1>1, <1>2, <1>3, <1>4 DEF Present

-----------------------------------------------------------------------------
(* What is read of a length.                                               *)

LEMMA DigitType ==
  ASSUME NEW c, NEW v \in Nat, NEW n \in 0..FIELD - 1
  PROVE  Digit(c, v, n) \in 0..RADIX - 1
<1> DEFINE m == IF c.magic = "flipped" THEN FIELD - 1 - n ELSE n
<1>1. m \in Nat /\ RADIX \in Nat \ {0}
  BY Widths
<1> HIDE DEF m
<1> DEFINE q == v \div Power[m]
<1>2. q \in Nat
  BY <1>1, PowerPositive, Divided
<1>3. Digit(c, v, n) = q % RADIX
  BY DEF Digit, m
<1> HIDE DEF q
<1>4. (q % RADIX) \in 0..RADIX - 1
  BY <1>1, <1>2, Divided
<1> QED
  BY <1>3, <1>4

\* The bytes of the length of record k are its digits.
LEMMA LengthBytes ==
  ASSUME NEW c, Captured(c), NEW k \in DOMAIN c.lens, NEW n \in 0..FIELD - 1
  PROVE  Byte(c, Start(c, k) + 2 * FIELD + n) = Digit(c, c.lens[k], n)
<1> DEFINE o == Start(c, k) + 2 * FIELD + n
           length == { j \in DOMAIN c.lens : o - Start(c, j) \in 2 * FIELD..4 * FIELD - 1 }
<1>1. /\ DOMAIN c.lens = 1..Len(c.lens) /\ Len(c.lens) \in Nat
      /\ \A j \in DOMAIN c.lens : j \in RecordsOf(c) /\ Start(c, j) \in Nat
  BY LensAre, Starts DEF RecordsOf
<1>2. n \in Nat /\ n < FIELD /\ FIELD \in Nat
  BY Widths
<1>3. k \in length
  BY <1>1, <1>2
<1>4. ASSUME NEW j \in length PROVE j = k
  <2>1. j < k => Start(c, j) + 4 * FIELD <= Start(c, k)
    <3> SUFFICES ASSUME j < k PROVE Start(c, j) + RecordHeader <= Start(c, k)
      BY Widths
    <3>1. j \in 1..k - 1
      BY <1>1
    <3> QED
      BY <1>1, <3>1, StartsInOrder
  <2>2. k < j => Start(c, k) + 4 * FIELD <= Start(c, j)
    <3> SUFFICES ASSUME k < j PROVE Start(c, k) + RecordHeader <= Start(c, j)
      BY Widths
    <3>1. k \in 1..j - 1
      BY <1>1
    <3> QED
      BY <1>1, <3>1, StartsInOrder
  <2>3. j \in Nat /\ k \in Nat /\ Start(c, j) \in Nat /\ Start(c, k) \in Nat
        /\ o - Start(c, j) >= 2 * FIELD /\ o - Start(c, j) < 4 * FIELD
    BY <1>1, <1>2
  <2> QED
    BY <1>2, <2>1, <2>2, <2>3
<1>5. length = {k}
  BY <1>3, <1>4
<1>6. (o - Start(c, k)) % FIELD = n
  <2>1. o - Start(c, k) = 2 * FIELD + n
    BY <1>1, <1>2
  <2>2. (2 * FIELD + n) % FIELD = n
    BY Widths, Quotient
  <2> QED
    BY <2>1, <2>2
<1>7. Byte(c, o) = IF length = {} THEN c.fill
                   ELSE LET j == CHOOSE j \in length : TRUE
                        IN Digit(c, c.lens[j], (o - Start(c, j)) % FIELD)
  BY DEF Byte
<1> HIDE DEF o, length
<1>8. (CHOOSE j \in length : TRUE) = k
  BY <1>5
<1>9. Byte(c, o) = Digit(c, c.lens[k], n)
  BY <1>5, <1>6, <1>7, <1>8
<1> QED
  BY <1>9 DEF o

\* Every byte is one.
LEMMA ByteType ==
  ASSUME NEW c, Captured(c), NEW o \in Int
  PROVE  Byte(c, o) \in 0..RADIX - 1
<1> DEFINE length == { j \in DOMAIN c.lens : o - Start(c, j) \in 2 * FIELD..4 * FIELD - 1 }
<1>1. CASE length = {}
  BY <1>1 DEF Byte, Captured
<1>2. CASE length # {}
  <2> DEFINE j == CHOOSE j \in length : TRUE
             m == (o - Start(c, j)) % FIELD
  <2>1. j \in length
    BY <1>2
  <2> HIDE DEF j
  <2>2. c.lens[j] \in Nat /\ o - Start(c, j) \in Nat
    BY <2>1, LensAre, Widths
  <2>3. m \in 0..FIELD - 1
    BY <2>2, Widths, Divided
  <2>4. Byte(c, o) = Digit(c, c.lens[j], m)
    BY <1>2 DEF Byte, j
  <2> HIDE DEF m
  <2> QED
    BY <2>2, <2>3, <2>4, DigitType
<1> QED
  BY <1>1, <1>2

\* A field, as the digits that are there, and 0 for those beyond the end.
FieldDigits(p) ==
  [n \in 0..FIELD - 1 |-> IF p + n < Size(file) THEN Byte(file, p + n) ELSE 0]
FieldParts(p) ==
  [n \in 0..FIELD - 1 |-> IF p + n < Size(file) THEN Byte(file, p + n) * Power[n] ELSE 0]

LEMMA FieldIs ==
  ASSUME Captured(file), NEW p \in Int
  PROVE  /\ Field(p) = SumFunctionOnSet(FieldParts(p), 0..FIELD - 1)
         /\ \A n \in 0..FIELD - 1 : /\ FieldDigits(p)[n] \in 0..RADIX - 1
                                    /\ FieldParts(p)[n] = FieldDigits(p)[n] * Power[n]
<1>1. DOMAIN FieldParts(p) = 0..FIELD - 1
  BY DEF FieldParts
<1>2. Field(p) = SumFunction(FieldParts(p))
  BY DEF Field, FieldParts
<1>3. Field(p) = SumFunctionOnSet(FieldParts(p), 0..FIELD - 1)
  BY <1>1, <1>2 DEF SumFunction
<1>4. ASSUME NEW n \in 0..FIELD - 1
      PROVE  /\ FieldDigits(p)[n] \in 0..RADIX - 1
             /\ FieldParts(p)[n] = FieldDigits(p)[n] * Power[n]
  <2>1. p + n \in Int /\ n \in Nat /\ 0 \in 0..RADIX - 1
    BY Widths
  <2>2. Byte(file, p + n) \in 0..RADIX - 1
    BY <2>1, ByteType
  <2>3. Power[n] \in Nat /\ 0 * Power[n] = 0
    BY <2>1, PowerPositive
  <2>4. CASE p + n < Size(file)
    BY <2>2, <2>4 DEF FieldDigits, FieldParts
  <2>5. CASE ~(p + n < Size(file))
    BY <2>1, <2>3, <2>5 DEF FieldDigits, FieldParts
  <2> QED
    BY <2>4, <2>5
<1> QED
  BY <1>3, <1>4

LEMMA FieldTop ==
  ASSUME Captured(file), NEW p \in Int
  PROVE  /\ Field(p) \in Nat
         /\ endianfixl(Field(p)) = FieldDigits(p)[FIELD - 1]
         /\ FieldDigits(p)[FIELD - 1] \in Nat
<1>1. /\ Field(p) = SumFunctionOnSet(FieldParts(p), 0..FIELD - 1)
      /\ \A n \in 0..FIELD - 1 : /\ FieldDigits(p)[n] \in 0..RADIX - 1
                                 /\ FieldParts(p)[n] = FieldDigits(p)[n] * Power[n]
  BY FieldIs
<1>2. /\ SumFunctionOnSet(FieldParts(p), 0..FIELD - 1) \in Nat
      /\ SumFunctionOnSet(FieldParts(p), 0..FIELD - 1) \div Power[FIELD - 1]
           = FieldDigits(p)[FIELD - 1]
  BY <1>1, TopDigit
<1>3. FieldDigits(p)[FIELD - 1] \in Nat
  <2>1. FIELD - 1 \in 0..FIELD - 1 /\ RADIX \in Nat
    BY Widths
  <2> QED
    BY <1>1, <2>1
<1> QED
  BY <1>1, <1>2, <1>3 DEF endianfixl

LEMMA LengthType ==
  ASSUME Captured(file), NEW p \in Int
  PROVE  LengthIncluded(p) \in Nat
BY FieldTop DEF LengthIncluded

\* Beyond the end a length of 0 is read.
LEMMA LengthPastEnd ==
  ASSUME Captured(file), NEW p \in Int, p >= Size(file)
  PROVE  LengthIncluded(p) = 0
<1>1. \A n \in 0..FIELD - 1 : ~(p + n < Size(file))
  BY Sizes
<1>2. \A n \in 0..FIELD - 1 : FieldParts(p)[n] = 0 /\ FieldDigits(p)[n] = 0
  BY <1>1 DEF FieldParts, FieldDigits
<1>3. IsFiniteSet(0..FIELD - 1) /\ FIELD - 1 \in 0..FIELD - 1
  <2>1. FIELD \in Nat /\ FIELD - 1 \in 0..FIELD - 1
    BY Widths
  <2> QED
    BY <2>1, Below
<1>4. Field(p) = 0
  BY <1>2, <1>3, FieldIs, SumZero
<1>5. endianfixl(Field(p)) = 0
  BY <1>2, <1>3, FieldTop
<1> QED
  BY <1>4, <1>5 DEF LengthIncluded

\* Of a record whose header is in the file the length is read: of a flipped one
\* its lowest byte.
LEMMA LengthIs ==
  ASSUME Captured(file), NEW k \in DOMAIN file.lens,
         Start(file, k) + RecordHeader <= Size(file),
         EndianFlip <=> file.magic = "flipped"
  PROVE  LengthIncluded(Start(file, k) + 2 * FIELD) =
           IF file.magic = "flipped" THEN file.lens[k] % RADIX ELSE file.lens[k]
<1> DEFINE v == file.lens[k]
           p == Start(file, k) + 2 * FIELD
<1>1. v \in 0..U32 - 1 /\ v \in Nat /\ Start(file, k) \in Nat /\ p \in Int
      /\ Size(file) \in Nat
  <2>1. v \in 0..U32 - 1 /\ v \in Nat /\ k \in RecordsOf(file)
    BY LensAre DEF RecordsOf
  <2>2. Start(file, k) \in Nat /\ Size(file) \in Nat
    BY <2>1, Starts, Sizes
  <2> QED
    BY <2>1, <2>2, Widths
<1>2. ASSUME NEW n \in 0..FIELD - 1
      PROVE  /\ FieldDigits(p)[n] = Digit(file, v, n)
             /\ FieldParts(p)[n] = Digit(file, v, n) * Power[n]
  <2>1. p + n < Size(file)
    BY <1>1, Widths
  <2>2. Byte(file, p + n) = Digit(file, v, n)
    BY LengthBytes
  <2> HIDE DEF p, v
  <2> QED
    BY <2>1, <2>2 DEF FieldDigits, FieldParts
<1> HIDE DEF p, v
<1>3. CASE file.magic = "flipped"
  <2>1. FIELD - 1 \in 0..FIELD - 1 /\ FIELD - 1 - (FIELD - 1) = 0
    BY Widths
  <2>2. endianfixl(Field(p)) = Digit(file, v, FIELD - 1)
    BY <1>1, <1>2, <2>1, FieldTop
  <2>3. Digit(file, v, FIELD - 1) = (v \div Power[0]) % RADIX
    BY <1>3, <2>1 DEF Digit
  <2>4. v \div Power[0] = v
    BY <1>1, Powers
  <2> QED
    BY <1>3, <2>2, <2>3, <2>4 DEF LengthIncluded, p, v
<1>4. CASE file.magic # "flipped"
  <2>1. \A n \in 0..FIELD - 1 : FieldParts(p)[n] = ((v \div Power[n]) % RADIX) * Power[n]
    BY <1>2, <1>4 DEF Digit
  <2>2. SumFunctionOnSet(FieldParts(p), 0..FIELD - 1) = v
    BY <1>1, <2>1, SumOfDigits
  <2>3. Field(p) = v
    BY <1>1, <2>2, FieldIs
  <2> QED
    BY <1>4, <2>3 DEF LengthIncluded, p, v
<1> QED
  BY <1>3, <1>4

\* A length that the byte order fix preserves is read as it is.
LEMMA SmallRemainder ==
  ASSUME NEW v \in 0..RADIX - 1 PROVE v % RADIX = v
<1>1. 0 * RADIX + v = v /\ RADIX \in Nat \ {0}
  BY Widths
<1>2. (0 * RADIX + v) % RADIX = v
  BY <1>1, Quotient
<1> QED
  BY <1>1, <1>2

-----------------------------------------------------------------------------
(* One call of readNextPacket.                                             *)

Reads == {Null} \cup [len : Nat, from : Int, got : Int]

TypeInv ==
  /\ file \in Captures /\ pos \in Int /\ eof \in BOOLEAN /\ EndianFlip \in BOOLEAN
  /\ returned \in Seq(Reads)

\* The file was opened as what it is: one too short for its header is at its end.
OpenedInv ==
  IF Size(file) < FileHeader THEN eof /\ returned = <<>>
  ELSE file.magic # "other" /\ (EndianFlip <=> file.magic = "flipped")

LEMMA FileType ==
  ASSUME TypeInv
  PROVE  /\ Captured(file) /\ file.magic \in {"native", "flipped", "other"}
         /\ Size(file) \in Nat /\ Len(returned) \in Nat
         /\ DOMAIN returned = 1..Len(returned)
<1>1. Captured(file) /\ file.magic \in {"native", "flipped", "other"}
  BY PcapReadAssumption DEF TypeInv, Captured
<1> QED
  BY <1>1, Sizes DEF TypeInv

LEMMA NullRead ==
  /\ Null \in Reads /\ Null.len = -1
  /\ \A r \in [len : Nat, from : Int, got : Int] : r # Null
<1>1. Null.len = -1 /\ ~(-1 \in Nat)
  BY DEF Null
<1> QED
  BY <1>1 DEF Reads

\* The call returns something, and the end of the file is noticed only there.
LEMMA ReadOne ==
  ASSUME TypeInv, readNextPacket
  PROVE  LET len == LengthIncluded(pos + 2 * FIELD)
             packet == [len |-> len, from |-> DataAt, got |-> After(DataAt, len) - DataAt]
         IN /\ len \in Nat /\ DataAt \in Int /\ packet \in Reads /\ packet # Null
            /\ DEFAULT_READ_BUFFER \in Nat /\ RADIX - 1 <= DEFAULT_READ_BUFFER
            /\ IF len > DEFAULT_READ_BUFFER
               THEN /\ pos' = DataAt + len /\ eof' = FALSE /\ returned' = Append(returned, Null)
               ELSE /\ pos' = After(DataAt, len) /\ returned' = Append(returned, packet)
                    /\ eof' = (Short(pos, RecordHeader) \/ Short(DataAt, len))
            /\ pos' \in Int /\ eof' \in BOOLEAN
            /\ eof' => pos' >= Size(file)
<1> DEFINE len == LengthIncluded(pos + 2 * FIELD)
           packet == [len |-> len, from |-> DataAt, got |-> After(DataAt, len) - DataAt]
<1>1. pos \in Int /\ pos + 2 * FIELD \in Int /\ Size(file) \in Nat /\ RecordHeader \in Nat
  BY FileType, Widths DEF TypeInv
<1>2. len \in Nat
  BY <1>1, FileType, LengthType
<1>3. DEFAULT_READ_BUFFER \in Nat /\ RADIX - 1 <= DEFAULT_READ_BUFFER
  <2>1. U32 \in Nat
    BY Widths, PowerPositive DEF U32
  <2> QED
    BY <2>1, Widths, PcapReadAssumption
<1>4. IF len > DEFAULT_READ_BUFFER
      THEN /\ pos' = DataAt + len /\ eof' = FALSE /\ returned' = Append(returned, Null)
      ELSE /\ pos' = After(DataAt, len) /\ returned' = Append(returned, packet)
           /\ eof' = (Short(pos, RecordHeader) \/ Short(DataAt, len))
  BY DEF readNextPacket, Skip
<1> HIDE DEF len
<1>5. DataAt \in Int /\ After(DataAt, len) \in Int
  BY <1>1, <1>2 DEF DataAt, After
<1>6. packet \in [len : Nat, from : Int, got : Int]
  BY <1>2, <1>5
<1>7. Short(pos, RecordHeader) \/ Short(DataAt, len) => After(DataAt, len) >= Size(file)
  BY <1>1, <1>2 DEF DataAt, After, Short
<1>8. pos' \in Int /\ eof' \in BOOLEAN /\ (eof' => pos' >= Size(file))
  <2> HIDE DEF packet
  <2>1. CASE len > DEFAULT_READ_BUFFER
    <3>1. pos' = DataAt + len /\ eof' = FALSE
      BY <1>4, <2>1
    <3>2. pos' \in Int
      BY <1>2, <1>5, <3>1
    <3>3. eof' \in BOOLEAN /\ ~eof'
      BY <3>1
    <3> QED
      BY <3>2, <3>3
  <2>2. CASE ~(len > DEFAULT_READ_BUFFER)
    <3>1. pos' = After(DataAt, len)
      BY <1>4, <2>2
    <3>2. eof' = (Short(pos, RecordHeader) \/ Short(DataAt, len))
      BY <1>4, <2>2
    <3>3. Short(pos, RecordHeader) \in BOOLEAN /\ Short(DataAt, len) \in BOOLEAN
      BY DEF Short
    <3> QED
      BY <1>5, <1>7, <3>1, <3>2, <3>3
  <2> QED
    BY <2>1, <2>2
<1>9. packet \in Reads /\ packet # Null
  BY <1>6, NullRead DEF Reads
<1> HIDE DEF packet
<1> QED
  BY <1>2, <1>3, <1>4, <1>5, <1>8, <1>9 DEF len, packet

\* A record that is wholly in the file is returned right if its length is, and
\* then the next call is at the next record.
LEMMA ReadPresent ==
  ASSUME TypeInv, readNextPacket, NEW k \in Present(file), pos = Start(file, k),
         file.magic # "other", EndianFlip <=> file.magic = "flipped"
  PROVE  /\ \E r \in Reads : /\ returned' = Append(returned, r)
                             /\ r = Record(file, k) <=> Fixable(file, k)
         /\ Fixable(file, k) => pos' = Start(file, k + 1) /\ ~eof'
<1> DEFINE v == file.lens[k]
           len == LengthIncluded(pos + 2 * FIELD)
           packet == [len |-> len, from |-> DataAt, got |-> After(DataAt, len) - DataAt]
<1>1. /\ k \in DOMAIN file.lens /\ Start(file, k + 1) <= Size(file)
      /\ Start(file, k + 1) = Start(file, k) + RecordHeader + v
      /\ v \in Nat /\ Start(file, k) \in Nat /\ Size(file) \in Nat
      /\ RecordHeader \in Nat \ {0}
  BY FileType, LensAre, Starts, Widths DEF Present, RecordsOf
<1>2. len = IF file.magic = "flipped" THEN v % RADIX ELSE v
  BY <1>1, FileType, LengthIs
<1>3. /\ len \in Nat /\ packet \in Reads /\ packet # Null
      /\ DEFAULT_READ_BUFFER \in Nat /\ RADIX - 1 <= DEFAULT_READ_BUFFER
      /\ IF len > DEFAULT_READ_BUFFER
         THEN /\ pos' = DataAt + len /\ ~eof' /\ returned' = Append(returned, Null)
         ELSE /\ pos' = After(DataAt, len) /\ returned' = Append(returned, packet)
              /\ eof' = (Short(pos, RecordHeader) \/ Short(DataAt, len))
  BY ReadOne
<1>4. file.magic \in {"native", "flipped"}
  BY FileType
<1>5. DataAt = Start(file, k) + RecordHeader /\ ~Short(pos, RecordHeader)
  BY <1>1 DEF DataAt, After, Short
<1>6. packet.len = len
  OBVIOUS
<1>7. Record(file, k) = IF v > DEFAULT_READ_BUFFER THEN Null
                        ELSE [len |-> v, from |-> Start(file, k) + RecordHeader, got |-> v]
  BY DEF Record
<1>8. Fixable(file, k) <=> file.magic = "native" \/ v < RADIX
  BY DEF Fixable
<1> HIDE DEF v, len
<1>9. CASE Fixable(file, k)
  <2>1. len = v
    <3>1. v < RADIX => v \in 0..RADIX - 1
      BY <1>1, Widths
    <3>2. v < RADIX => v % RADIX = v
      BY <3>1, SmallRemainder
    <3> QED
      BY <1>2, <1>4, <1>8, <1>9, <3>2
  <2>2. CASE v > DEFAULT_READ_BUFFER
    <3>1. pos' = Start(file, k + 1) /\ ~eof' /\ returned' = Append(returned, Null)
          /\ Record(file, k) = Null
      BY <1>1, <1>3, <1>5, <1>7, <2>1, <2>2
    <3> QED
      BY <1>9, <3>1, NullRead
  <2>3. CASE ~(v > DEFAULT_READ_BUFFER)
    <3>1. After(DataAt, v) = Start(file, k) + RecordHeader + v /\ ~Short(DataAt, v)
      BY <1>1, <1>5 DEF After, Short
    <3>2. pos' = Start(file, k + 1) /\ ~eof' /\ returned' = Append(returned, packet)
      BY <1>1, <1>3, <1>5, <2>1, <2>3, <3>1
    <3>3. After(DataAt, v) - DataAt = v
      BY <1>1, <1>5, <3>1
    <3>4. packet = Record(file, k)
      BY <1>5, <1>7, <2>1, <2>3, <3>3
    <3> QED
      BY <1>3, <1>9, <3>2, <3>4
  <2> QED
    BY <2>2, <2>3
<1>10. CASE ~Fixable(file, k)
  <2>1. file.magic = "flipped" /\ v >= RADIX
    BY <1>1, <1>4, <1>8, <1>10, Widths
  <2>2. len \in 0..RADIX - 1
    <3>1. (v % RADIX) \in 0..RADIX - 1
      BY <1>1, Widths, Divided
    <3>2. len = v % RADIX
      BY <1>2, <2>1
    <3> QED
      BY <3>1, <3>2
  <2>3. ~(len > DEFAULT_READ_BUFFER) /\ len # v
    BY <1>1, <1>3, <2>1, <2>2, Widths
  <2>4. Record(file, k).len # len
    BY <1>3, <1>7, <2>3, NullRead
  <2>5. packet # Record(file, k) /\ returned' = Append(returned, packet)
    BY <1>3, <1>6, <2>3, <2>4
  <2> HIDE DEF packet
  <2> QED
    BY <1>3, <1>10, <2>5
<1> QED
  BY <1>9, <1>10

\* Beyond the end of the file there is one more packet, with no data.
LEMMA ReadBeyond ==
  ASSUME TypeInv, readNextPacket, pos >= Size(file)
  PROVE  /\ \E r \in Reads : returned' = Append(returned, r) /\ r # Null /\ r.len = 0
         /\ eof'
<1> DEFINE len == LengthIncluded(pos + 2 * FIELD)
           packet == [len |-> len, from |-> DataAt, got |-> After(DataAt, len) - DataAt]
<1>1. /\ len \in Nat /\ packet \in Reads /\ packet # Null
      /\ DEFAULT_READ_BUFFER \in Nat
      /\ IF len > DEFAULT_READ_BUFFER
         THEN /\ pos' = DataAt + len /\ ~eof' /\ returned' = Append(returned, Null)
         ELSE /\ pos' = After(DataAt, len) /\ returned' = Append(returned, packet)
              /\ eof' = (Short(pos, RecordHeader) \/ Short(DataAt, len))
  BY ReadOne
<1>2. pos \in Int /\ Size(file) \in Nat /\ pos + 2 * FIELD \in Int
      /\ pos + 2 * FIELD >= Size(file)
  BY FileType, Widths DEF TypeInv
<1>3. len = 0
  BY <1>2, FileType, LengthPastEnd
<1>4. Short(pos, RecordHeader)
  BY <1>2, Widths DEF Short
<1>5. packet.len = len
  OBVIOUS
<1> HIDE DEF len, packet
<1>6. ~(len > DEFAULT_READ_BUFFER)
  BY <1>1, <1>3
<1>7. returned' = Append(returned, packet) /\ eof'
  BY <1>1, <1>4, <1>6
<1> QED
  BY <1>1, <1>3, <1>5, <1>7

\* Of a record that the end of the file cuts off a packet is returned with what
\* is left, or nothing if its length is too big, and the next call is beyond.
LEMMA ReadCut ==
  ASSUME TypeInv, readNextPacket, NEW k \in DOMAIN file.lens, k \notin Present(file),
         pos = Start(file, k), Fixable(file, k),
         file.magic # "other", EndianFlip <=> file.magic = "flipped"
  PROVE  \/ returned' = Append(returned, Null) /\ pos' >= Size(file) /\ ~eof'
         \/ (\E r \in Reads : returned' = Append(returned, r) /\ r # Null) /\ eof'
<1> DEFINE v == file.lens[k]
           len == LengthIncluded(pos + 2 * FIELD)
           packet == [len |-> len, from |-> DataAt, got |-> After(DataAt, len) - DataAt]
<1>1. /\ Start(file, k + 1) > Size(file)
      /\ Start(file, k + 1) = Start(file, k) + RecordHeader + v
      /\ v \in Nat /\ Start(file, k) \in Nat /\ Size(file) \in Nat
      /\ RecordHeader \in Nat \ {0}
  <2>1. /\ Start(file, k + 1) = Start(file, k) + RecordHeader + v
        /\ v \in Nat /\ Start(file, k) \in Nat /\ Size(file) \in Nat
        /\ RecordHeader \in Nat \ {0}
    <3>1. k \in 1..Len(file.lens) /\ k \in RecordsOf(file) /\ Captured(file)
      BY FileType, LensAre DEF RecordsOf
    <3> QED
      BY <3>1, FileType, LensAre, Starts, Widths
  <2>2. ~(Start(file, k + 1) <= Size(file))
    BY DEF Present
  <2> HIDE DEF v
  <2> QED
    BY <2>1, <2>2
<1>2. /\ len \in Nat /\ packet \in Reads /\ packet # Null
      /\ DEFAULT_READ_BUFFER \in Nat
      /\ IF len > DEFAULT_READ_BUFFER
         THEN /\ pos' = DataAt + len /\ ~eof' /\ returned' = Append(returned, Null)
         ELSE /\ pos' = After(DataAt, len) /\ returned' = Append(returned, packet)
              /\ eof' = (Short(pos, RecordHeader) \/ Short(DataAt, len))
  BY ReadOne
<1>3. CASE Short(pos, RecordHeader)
  <2>1. DataAt >= Size(file) /\ DataAt \in Int
    BY <1>1, <1>3 DEF DataAt, After, Short
  <2> HIDE DEF len, packet
  <2>2. DataAt + len >= Size(file)
    BY <1>1, <1>2, <2>1
  <2> QED
    BY <1>2, <1>3, <2>2
<1>4. CASE ~Short(pos, RecordHeader)
  <2>1. Start(file, k) + RecordHeader <= Size(file)
    BY <1>1, <1>4 DEF Short
  <2>2. DataAt = Start(file, k) + RecordHeader
    BY <1>1, <2>1 DEF DataAt, After
  <2>3. len = v
    <3>1. len = IF file.magic = "flipped" THEN v % RADIX ELSE v
      BY <2>1, FileType, LengthIs
    <3>2. file.magic = "native" \/ v < RADIX
      BY DEF Fixable
    <3> HIDE DEF len, v
    <3>3. v < RADIX => v \in 0..RADIX - 1
      BY <1>1, Widths
    <3>4. v < RADIX => v % RADIX = v
      BY <3>3, SmallRemainder
    <3> QED
      BY <3>1, <3>2, <3>4
  <2>4. DataAt + v > Size(file) /\ DataAt + v >= Size(file)
    BY <1>1, <2>2
  <2>5. Short(DataAt, v)
    BY <2>4 DEF Short
  <2> HIDE DEF len, packet, v
  <2> QED
    BY <1>2, <2>3, <2>4, <2>5
<1> QED
  BY <1>3, <1>4

-----------------------------------------------------------------------------
(***************************************************************************)
(* The inductive invariant: as long as every record so far was in the file *)
(* and its length read right, the next call is at the next record.         *)
(***************************************************************************)
PlaceInv ==
  LET r == Len(returned)
  IN /\ Size(file) >= FileHeader
     /\ \A j \in 1..r : j \in Present(file) /\ Fixable(file, j)
     => pos = Start(file, r + 1) /\ ~eof

ReadInv ==
  /\ TypeInv
  /\ pc = "open" => returned = <<>>
  /\ pc \in {"reading", "done"} => OpenedInv /\ PlaceInv
  /\ FramedInOrder

LEMMA InitRead ==
  ASSUME Init
  PROVE  ReadInv
<1>1. TypeInv /\ pc = "open" /\ returned = <<>>
  <2>1. file \in Captures /\ pos = 0 /\ eof = FALSE /\ EndianFlip = FALSE
        /\ pc = "open" /\ returned = <<>>
    BY DEF Init
  <2>2. eof \in BOOLEAN /\ EndianFlip \in BOOLEAN
    BY <2>1
  <2>3. returned \in Seq(Reads) /\ pos \in Int
    BY <2>1
  <2> QED
    BY <2>1, <2>2, <2>3 DEF TypeInv
<1>2. FramedInOrder
  BY <1>1 DEF FramedInOrder
<1> QED
  BY <1>1, <1>2 DEF ReadInv

\* The header is read to its end, or the indicator is up.
LEMMA HeaderRead ==
  ASSUME Size(file) \in Nat
  PROVE  /\ After(AfterSkip, 2 * FIELD) \in Int
         /\ Short(AfterSkip, 2 * FIELD) \in BOOLEAN
         /\ Short(AfterSkip, 2 * FIELD) <=> Size(file) < FileHeader
         /\ Size(file) >= FileHeader => After(AfterSkip, 2 * FIELD) = FileHeader
         /\ Size(file) < FileHeader => After(AfterSkip, 2 * FIELD) >= Size(file)
<1>1. FIELD \in Nat \ {0} /\ FileHeader = 6 * FIELD
  BY PcapReadAssumption DEF FileHeader
<1>2. AfterSkip = IF 2 * FIELD > Size(file) THEN Size(file) + 2 * FIELD
                  ELSE 4 * FIELD
  <2>1. CASE Size(file) = 0
    BY <1>1, <2>1 DEF AfterSkip, After
  <2>2. CASE Size(file) # 0
    BY <1>1, <2>2 DEF AfterSkip, After
  <2> QED
    BY <2>1, <2>2
<1> QED
  BY <1>1, <1>2 DEF After, Short

LEMMA OpenRead ==
  ASSUME ReadInv, parsePcapFileStart
  PROVE  ReadInv'
<1>1. pc = "open" /\ returned' = <<>> /\ returned = <<>> /\ UNCHANGED <<file, returned>>
  BY DEF parsePcapFileStart, ReadInv
<1>2. FramedInOrder'
  BY <1>1 DEF FramedInOrder
<1>3. PICK magic \in MagicNumber(file) :
        IF magic = "other"
        THEN /\ pc' = "failed"
             /\ pos' = After(0, 2 * FIELD) /\ eof' = Short(0, 2 * FIELD)
             /\ UNCHANGED EndianFlip
        ELSE /\ pc' = "reading"
             /\ EndianFlip' = (magic = "flipped")
             /\ pos' = After(AfterSkip, 2 * FIELD)
             /\ eof' = Short(AfterSkip, 2 * FIELD)
  BY DEF parsePcapFileStart
<1>4. Size(file) \in Nat /\ FIELD \in Nat
  BY FileType, PcapReadAssumption DEF ReadInv
<1>5. CASE magic = "other"
  <2>1. pos' \in Int /\ eof' \in BOOLEAN
    BY <1>3, <1>4, <1>5 DEF After, Short
  <2> QED
    BY <1>1, <1>2, <1>3, <1>5, <2>1 DEF ReadInv, TypeInv
<1>6. CASE magic # "other"
  <2>1. /\ pc' = "reading" /\ EndianFlip' = (magic = "flipped")
        /\ pos' = After(AfterSkip, 2 * FIELD) /\ eof' = Short(AfterSkip, 2 * FIELD)
    BY <1>3, <1>6
  <2>2. FileHeader = 6 * FIELD /\ FIELD <= FileHeader
    BY Widths, <1>4
  <2>3. /\ pos' \in Int /\ (eof' <=> Size(file) < FileHeader) /\ eof' \in BOOLEAN
        /\ Size(file) >= FileHeader => pos' = FileHeader
    BY <1>4, <2>1, <2>2, HeaderRead
  <2>4. OpenedInv'
    <3>1. Size(file) >= FileHeader => magic = file.magic
      BY <1>4, <2>2 DEF MagicNumber
    <3>2. ~(Size(file) < FileHeader) => Size(file) >= FileHeader
      BY <1>4, <2>2
    <3> QED
      BY <1>1, <1>6, <2>1, <2>3, <3>1, <3>2 DEF OpenedInv
  <2>5. PlaceInv'
    <3>1. Len(returned') = 0 /\ 0 + 1 = 1
      BY <1>1
    <3>2. FileHeader = Start(file, 1)
      BY FileType, Starts DEF ReadInv
    <3>3. Size(file) >= FileHeader => ~eof'
      BY <1>4, <2>2, <2>3
    <3> QED
      BY <1>1, <2>3, <3>1, <3>2, <3>3 DEF PlaceInv
  <2>6. TypeInv'
    BY <1>1, <2>1, <2>3 DEF ReadInv, TypeInv
  <2> QED
    BY <1>2, <2>1, <2>4, <2>5, <2>6 DEF ReadInv
<1> QED
  BY <1>5, <1>6

LEMMA RecordRead ==
  ASSUME ReadInv, ReadRecord
  PROVE  ReadInv'
<1> DEFINE r == Len(returned)
           k == r + 1
<1>1. /\ TypeInv /\ OpenedInv /\ PlaceInv /\ FramedInOrder
      /\ readNextPacket /\ ~eof /\ UNCHANGED <<file, EndianFlip>>
      /\ pc' \in {"reading", "done"}
  BY DEF ReadInv, ReadRecord
<1>2. /\ Captured(file) /\ Size(file) \in Nat /\ r \in Nat /\ DOMAIN returned = 1..r
      /\ returned \in Seq(Reads) /\ FileHeader \in Nat
  BY <1>1, FileType, Widths DEF TypeInv
<1>3. /\ file.magic # "other" /\ (EndianFlip <=> file.magic = "flipped")
      /\ ~(Size(file) < FileHeader)
  BY <1>1 DEF OpenedInv
<1>4. PICK x \in Reads : returned' = Append(returned, x)
  <2>1. Null \in Reads
    BY NullRead
  <2> QED
    BY <1>1, <2>1, ReadOne
<1>5. pos' \in Int /\ eof' \in BOOLEAN
  BY <1>1, ReadOne
<1>6. /\ returned' \in Seq(Reads) /\ Len(returned') = k /\ DOMAIN returned' = 1..k
      /\ returned'[k] = x /\ \A j \in 1..r : returned'[j] = returned[j]
  BY <1>2, <1>4
<1>7. ASSUME k \in Present(file), \A j \in 1..r : Fixable(file, j)
      PROVE  Fixable(file, k) => /\ returned'[k] = Record(file, k)
                                 /\ pos' = Start(file, k + 1) /\ ~eof'
  <2>1. \A j \in 1..r : j \in Present(file)
    <3> SUFFICES ASSUME NEW j \in 1..r PROVE j \in Present(file)
      OBVIOUS
    <3>1. j \in 1..k
      BY <1>2
    <3> HIDE DEF k
    <3> QED
      BY <1>2, <1>7, <3>1, PresentFirst
  <2>2. pos = Start(file, k)
    BY <1>1, <1>2, <1>3, <1>7, <2>1 DEF PlaceInv
  <2> HIDE DEF k
  <2>3. /\ \E y \in Reads : /\ returned' = Append(returned, y)
                            /\ y = Record(file, k) <=> Fixable(file, k)
        /\ Fixable(file, k) => pos' = Start(file, k + 1) /\ ~eof'
    BY <1>1, <1>3, <1>7, <2>2, ReadPresent
  <2>4. PICK y \in Reads : /\ returned' = Append(returned, y)
                           /\ y = Record(file, k) <=> Fixable(file, k)
    BY <2>3
  <2>5. returned'[k] = y
    BY <1>2, <2>4 DEF k
  <2> QED
    BY <2>3, <2>4, <2>5
<1> HIDE DEF r, k
<1>8. FramedInOrder'
  <2> SUFFICES ASSUME NEW m \in Framed(file), m \in 1..k
               PROVE  returned'[m] = Record(file, m)
    BY <1>1, <1>6 DEF FramedInOrder
  <2>1. CASE m = k
    <3>1. k \in Present(file) /\ Fixable(file, k) /\ \A j \in 1..r : Fixable(file, j)
      BY <1>2, <2>1 DEF Framed, k
    <3> QED
      BY <1>7, <2>1, <3>1
  <2>2. CASE m # k
    <3>1. m \in 1..r
      BY <1>2, <2>2 DEF k
    <3>2. returned[m] = Record(file, m)
      BY <1>1, <1>2, <3>1 DEF FramedInOrder
    <3> QED
      BY <1>6, <3>1, <3>2
  <2> QED
    BY <2>1, <2>2
<1>9. PlaceInv'
  <2> SUFFICES ASSUME \A j \in 1..k : j \in Present(file) /\ Fixable(file, j)
               PROVE  pos' = Start(file, k + 1) /\ ~eof'
    BY <1>1, <1>6, Zenon DEF PlaceInv
  <2>1. k \in 1..k /\ \A j \in 1..r : j \in 1..k
    BY <1>2 DEF k
  <2> QED
    BY <1>7, <2>1
<1>10. OpenedInv'
  BY <1>1, <1>3 DEF OpenedInv
<1>11. TypeInv'
  BY <1>1, <1>5, <1>6 DEF TypeInv
<1> QED
  BY <1>1, <1>8, <1>9, <1>10, <1>11 DEF ReadInv

LEMMA ReadStep ==
  ASSUME ReadInv, [Next]_vars
  PROVE  ReadInv'
<1>1. CASE parsePcapFileStart
  BY <1>1, OpenRead
<1>2. CASE ReadRecord
  BY <1>2, RecordRead
<1>3. CASE Finish
  BY <1>3 DEF Finish, ReadInv, TypeInv, OpenedInv, PlaceInv, FramedInOrder
<1>4. CASE UNCHANGED vars
  BY <1>4 DEF vars, ReadInv, TypeInv, OpenedInv, PlaceInv, FramedInOrder
<1> QED
  BY <1>1, <1>2, <1>3, <1>4 DEF Next, Ended

\* The inductive invariant of the reader: its FILE is at the first byte of the record
\* that comes next, or past the end, and every call so far returned its record.
THEOREM ReadInvariance == Spec => []ReadInv
<1> QED
  BY InitRead, ReadStep, PTL DEF Spec

\* Of every file, whole or cut off anywhere, the k-th call returns the k-th record,
\* whole, from its own bytes, or NULL if it is too big: without exception if it is
\* of the machine's own byte order, else as long as every length fits in a byte.
THEOREM Framing == Spec => []FramedInOrder
<1>1. ReadInv => FramedInOrder
  BY DEF ReadInv
<1> QED
  BY <1>1, ReadInvariance, PTL

-----------------------------------------------------------------------------
(***************************************************************************)
(* The end of the file.  main asks for no limit on the packets, so that    *)
(* only feof ends the loop.                                                *)
(***************************************************************************)
EndInv == (eof => pos >= Size(file)) /\ (pc = "done" => eof)

\* The indicator is up only behind the last byte, and ends the loop.
LEMMA EndInvariance ==
  ASSUME MaxPackets = 0
  PROVE  Spec => [](ReadInv /\ EndInv)
<1>1. Init => EndInv
  BY DEF Init, EndInv
<1>2. ReadInv /\ EndInv /\ [Next]_vars => EndInv'
  <2> SUFFICES ASSUME ReadInv, EndInv, [Next]_vars PROVE EndInv'
    OBVIOUS
  <2>1. CASE parsePcapFileStart
    <3>1. UNCHANGED file /\ pc' \in {"failed", "reading"}
          /\ \/ pos' = After(0, 2 * FIELD) /\ eof' = Short(0, 2 * FIELD)
             \/ /\ pos' = After(AfterSkip, 2 * FIELD)
                /\ eof' = Short(AfterSkip, 2 * FIELD)
      BY <2>1 DEF parsePcapFileStart
    <3>2. Size(file) \in Nat /\ FIELD \in Nat
      BY FileType, PcapReadAssumption DEF ReadInv
    <3>3. Short(0, 2 * FIELD) => After(0, 2 * FIELD) >= Size(file)
      BY <3>2 DEF Short, After
    <3>4. Short(AfterSkip, 2 * FIELD) => After(AfterSkip, 2 * FIELD) >= Size(file)
      BY <3>2, HeaderRead
    <3> QED
      BY <3>1, <3>3, <3>4 DEF EndInv
  <2>2. CASE ReadRecord
    <3>1. TypeInv /\ readNextPacket /\ UNCHANGED file /\ pc' = "reading"
      BY <2>2 DEF ReadInv, ReadRecord, Enough
    <3>2. eof' => pos' >= Size(file)
      BY <3>1, ReadOne
    <3> QED
      BY <3>1, <3>2 DEF EndInv
  <2>3. CASE Finish
    BY <2>3 DEF Finish, EndInv
  <2>4. CASE UNCHANGED vars
    BY <2>4 DEF vars, EndInv
  <2> QED
    BY <2>1, <2>2, <2>3, <2>4 DEF Next, Ended
<1> QED
  BY <1>1, <1>2, ReadInvariance, PTL DEF Spec

\* Every byte of a file is behind the reader at the end, whatever the lengths in
\* it say.
THEOREM WholeFileRead == MaxPackets = 0 /\ Spec => []ReadsAll
<1> SUFFICES ASSUME MaxPackets = 0 PROVE Spec => []ReadsAll
  OBVIOUS
<1>1. EndInv => ReadsAll
  BY DEF EndInv, ReadsAll
<1> QED
  BY <1>1, EndInvariance, PTL

\* Without a limit on packets the loop does not end before every record of the file
\* was returned, or skipped as too big, up to a length that the byte order spoils.
THEOREM RecordsReturned == MaxPackets = 0 /\ Spec => []AllReturned
<1> SUFFICES ASSUME MaxPackets = 0 PROVE Spec => []AllReturned
  OBVIOUS
<1>1. ReadInv /\ EndInv => AllReturned
  <2> SUFFICES ASSUME ReadInv, EndInv, pc = "done",
                      NEW m \in Framed(file), m \notin DOMAIN returned
               PROVE  FALSE
    BY DEF AllReturned
  <2>1. PICK r : r = Len(returned)
    OBVIOUS
  <2>2. /\ Captured(file) /\ Size(file) \in Nat /\ r \in Nat
        /\ DOMAIN returned = 1..r
    BY <2>1, FileType DEF ReadInv
  <2>3. /\ m \in Present(file) /\ m \in Nat \ {0} /\ m > r
        /\ \A j \in 1..m : Fixable(file, j)
    <3>1. m \in 1..Len(file.lens) /\ Len(file.lens) \in Nat
      BY <2>2, LensAre DEF Framed, Present
    <3> QED
      BY <2>2, <3>1 DEF Framed
  <2>4. \A j \in 1..m : j \in Present(file)
    BY <2>2, <2>3, PresentFirst
  <2>5. r + 1 \in Present(file) /\ \A j \in 1..r : j \in Present(file) /\ Fixable(file, j)
    BY <2>2, <2>3, <2>4
  <2>6. \A j \in 1..m : /\ Start(file, j) \in Nat
                        /\ Start(file, j) + RecordHeader <= Start(file, j + 1)
                        /\ Start(file, j + 1) \in Nat /\ Start(file, j + 1) <= Size(file)
    <3> SUFFICES ASSUME NEW j \in 1..m
                 PROVE  /\ Start(file, j) \in Nat
                        /\ Start(file, j) + RecordHeader <= Start(file, j + 1)
                        /\ Start(file, j + 1) \in Nat /\ Start(file, j + 1) <= Size(file)
      OBVIOUS
    <3>1. /\ j \in 1..Len(file.lens) /\ Len(file.lens) \in Nat
          /\ file.lens[j] \in Nat /\ Start(file, j + 1) <= Size(file)
      BY <2>2, <2>4, LensAre DEF Present
    <3>2. j \in RecordsOf(file) /\ j + 1 \in RecordsOf(file) /\ j \in DOMAIN file.lens
      BY <2>2, <3>1, LensAre DEF RecordsOf
    <3>3. /\ Start(file, j) \in Nat /\ Start(file, j + 1) \in Nat
          /\ Start(file, j + 1) = Start(file, j) + RecordHeader + file.lens[j]
      BY <2>2, <3>1, <3>2, Starts
    <3> QED
      BY <3>1, <3>3, Widths
  <2>7. Size(file) >= FileHeader
    <3>1. 1 \in 1..m /\ Start(file, 1) = FileHeader
      BY <2>2, <2>3, Starts
    <3> QED
      BY <2>2, <2>6, <3>1, Widths
  <2>8. pos = Start(file, r + 1) /\ ~eof
    BY <2>1, <2>2, <2>5, <2>7 DEF ReadInv, PlaceInv
  <2>9. pos >= Size(file)
    BY DEF EndInv
  <2>10. r + 1 \in 1..m /\ RecordHeader \in Nat /\ RecordHeader > 0
    BY <2>2, <2>3, Widths
  <2>11. \E s, e \in Nat : s + RecordHeader <= e /\ e <= Size(file) /\ s >= Size(file)
    BY <2>6, <2>8, <2>9, <2>10
  <2> QED
    BY <2>2, <2>10, <2>11
<1> QED
  BY <1>1, EndInvariance, PTL

\* What was returned so far: records of the file only; or then one that is cut
\* off and too big; or then, last, the one that is none.
AllFixable == \A k \in DOMAIN file.lens : Fixable(file, k)
InRecords(r) == \A j \in 1..r : j \in Present(file)
LastSkipped(r) ==
  /\ r >= 1 /\ \A j \in 1..r - 1 : j \in Present(file)
  /\ r \notin Present(file) /\ returned[r] = Null
  /\ pos >= Size(file) /\ ~eof /\ file.cut # 0
OneRead(r) ==
  /\ eof /\ r >= 1 /\ r \notin Present(file) /\ returned[r] # Null
  /\ \A j \in 1..r - 1 : j \in Present(file) \/ returned[j] = Null
  /\ file.cut = 0 => returned[r].len = 0

MoreInv ==
  /\ pc = "done" => eof
  /\ pc \in {"reading", "done"} /\ Size(file) >= FileHeader /\ AllFixable =>
       \/ InRecords(Len(returned))
       \/ LastSkipped(Len(returned))
       \/ OneRead(Len(returned))

LEMMA RecordMore ==
  ASSUME MaxPackets = 0, ReadInv, MoreInv, ReadRecord
  PROVE  MoreInv'
<1>1. /\ TypeInv /\ OpenedInv /\ PlaceInv /\ pc = "reading"
      /\ readNextPacket /\ ~eof /\ UNCHANGED <<file, EndianFlip>>
      /\ pc' = "reading"
  BY DEF ReadInv, ReadRecord, Enough
<1>2. /\ Captured(file) /\ Size(file) \in Nat /\ Len(returned) \in Nat
      /\ returned \in Seq(Reads) /\ FileHeader \in Nat
      /\ DOMAIN file.lens = 1..Len(file.lens) /\ Len(file.lens) \in Nat
  BY <1>1, FileType, Widths, LensAre DEF TypeInv
<1>3. /\ file.magic # "other" /\ (EndianFlip <=> file.magic = "flipped")
      /\ Size(file) >= FileHeader
  BY <1>1, <1>2 DEF OpenedInv
<1>4. PICK r \in Nat, k \in Nat : r = Len(returned) /\ k = r + 1
  BY <1>2
<1>5. \A x \in Reads : returned' = Append(returned, x) =>
        /\ Len(returned') = k /\ returned'[k] = x
        /\ \A j \in 1..r : returned'[j] = returned[j]
  BY <1>2, <1>4
<1>6. k >= 1 /\ k - 1 = r /\ Null \in Reads
  BY <1>4, NullRead
<1>7. Len(returned') = k
  <2>1. \E x \in Reads : returned' = Append(returned, x)
    BY <1>1, <1>6, ReadOne
  <2> QED
    BY <1>5, <2>1
<1>8. ASSUME AllFixable
      PROVE  InRecords(k)' \/ LastSkipped(k)' \/ OneRead(k)'
  <2>1. CASE InRecords(r)
    <3>1. pos = Start(file, k) /\ \A j \in 1..k - 1 : j \in Present(file)
      <4>1. \A j \in 1..r : j \in Present(file) /\ Fixable(file, j)
        BY <1>8, <2>1 DEF InRecords, AllFixable, Present
      <4> QED
        BY <1>1, <1>3, <1>4, <1>6, <4>1 DEF PlaceInv
    <3>2. CASE k \in Present(file)
      <4>1. \A j \in 1..k : j \in Present(file)
        BY <1>4, <2>1, <3>2 DEF InRecords
      <4> QED
        BY <1>1, <4>1 DEF InRecords
    <3>3. CASE k \notin Present(file) /\ k \in DOMAIN file.lens
      <4>1. file.cut # 0
        <5> SUFFICES ASSUME file.cut = 0 PROVE FALSE
          OBVIOUS
        <5>1. Size(file) = Start(file, Len(file.lens) + 1)
          BY <1>2, Sizes
        <5>2. Start(file, k + 1) <= Size(file)
          <6>1. /\ Len(file.lens) + 1 \in RecordsOf(file)
                /\ k \in 1..(Len(file.lens) + 1) - 1
            BY <1>2, <3>3 DEF RecordsOf
          <6> QED
            BY <1>2, <5>1, <6>1, StartsInOrder
        <5> QED
          BY <3>3, <5>2 DEF Present
      <4>2. Fixable(file, k)
        BY <1>8, <3>3 DEF AllFixable
      <4>3. \/ returned' = Append(returned, Null) /\ pos' >= Size(file) /\ ~eof'
            \/ (\E x \in Reads : returned' = Append(returned, x) /\ x # Null) /\ eof'
        BY <1>1, <1>3, <3>1, <3>3, <4>2, ReadCut
      <4>4. CASE returned' = Append(returned, Null) /\ pos' >= Size(file) /\ ~eof'
        <5>1. returned'[k] = Null
          BY <1>5, <1>6, <4>4
        <5> QED
          BY <1>1, <1>6, <3>1, <3>3, <4>1, <4>4, <5>1 DEF LastSkipped
      <4>5. CASE (\E x \in Reads : returned' = Append(returned, x) /\ x # Null) /\ eof'
        <5>1. returned'[k] # Null
          BY <1>5, <4>5
        <5> QED
          BY <1>1, <1>6, <3>1, <3>3, <4>1, <4>5, <5>1 DEF OneRead
      <4> QED
        BY <4>3, <4>4, <4>5
    <3>4. CASE k \notin DOMAIN file.lens
      <4>1. k = Len(file.lens) + 1
        <5>1. r = 0 \/ r \in DOMAIN file.lens
          BY <1>4, <2>1 DEF InRecords, Present
        <5> QED
          BY <1>2, <1>4, <3>4, <5>1
      <4>2. pos >= Size(file)
        <5>1. Size(file) <= Start(file, k)
          BY <1>2, <4>1, Sizes
        <5>2. Start(file, k) \in Int
          BY <1>1, <3>1 DEF TypeInv
        <5> QED
          BY <1>2, <3>1, <5>1, <5>2
      <4>3. /\ \E x \in Reads : returned' = Append(returned, x) /\ x # Null /\ x.len = 0
            /\ eof'
        BY <1>1, <4>2, ReadBeyond
      <4>4. returned'[k] # Null /\ returned'[k].len = 0
        BY <1>5, <4>3
      <4>5. k \notin Present(file)
        BY <3>4 DEF Present
      <4> QED
        BY <1>1, <1>6, <3>1, <4>3, <4>4, <4>5 DEF OneRead
    <3> QED
      BY <3>2, <3>3, <3>4
  <2>2. CASE LastSkipped(r)
    <3>1. /\ \E x \in Reads : returned' = Append(returned, x) /\ x # Null /\ x.len = 0
          /\ eof'
      BY <1>1, <2>2, ReadBeyond DEF LastSkipped
    <3>2. returned'[k] # Null /\ returned'[k].len = 0
      BY <1>5, <3>1
    <3>3. k \notin Present(file)
      <4> SUFFICES ASSUME k \in Present(file) PROVE r \in Present(file)
        BY <2>2 DEF LastSkipped
      <4>1. r \in 1..k
        BY <1>4, <2>2 DEF LastSkipped
      <4> QED
        BY <1>2, <4>1, PresentFirst
    <3>4. \A j \in 1..k - 1 : j \in Present(file) \/ returned'[j] = Null
      <4> SUFFICES ASSUME NEW j \in 1..k - 1
                   PROVE  j \in Present(file) \/ returned'[j] = Null
        OBVIOUS
      <4>1. j \in 1..r /\ returned'[j] = returned[j]
        BY <1>5, <1>6, <3>1
      <4>2. CASE j = r
        BY <2>2, <4>1, <4>2 DEF LastSkipped
      <4>3. CASE j # r
        BY <1>4, <2>2, <4>1, <4>3 DEF LastSkipped
      <4> QED
        BY <4>2, <4>3
    <3> QED
      BY <1>1, <1>6, <3>1, <3>2, <3>3, <3>4 DEF OneRead
  <2>3. CASE OneRead(r)
    BY <1>1, <2>3 DEF OneRead
  <2>4. InRecords(r) \/ LastSkipped(r) \/ OneRead(r)
    BY <1>1, <1>3, <1>4, <1>8 DEF MoreInv
  <2> QED
    BY <2>1, <2>2, <2>3, <2>4
<1>9. AllFixable' = AllFixable
  BY <1>1 DEF AllFixable
<1>10. AllFixable' => InRecords(Len(returned))' \/ LastSkipped(Len(returned))'
                      \/ OneRead(Len(returned))'
  BY <1>7, <1>8, <1>9 DEF InRecords, LastSkipped, OneRead
<1> QED
  BY <1>1, <1>10 DEF MoreInv

LEMMA InitMore == Init => MoreInv
BY DEF Init, MoreInv

LEMMA MoreStep ==
  ASSUME MaxPackets = 0, ReadInv, MoreInv, [Next]_vars
  PROVE  MoreInv'
<1>1. CASE parsePcapFileStart
  <2>1. UNCHANGED <<file, returned>> /\ returned = <<>> /\ pc' \in {"failed", "reading"}
    BY <1>1 DEF parsePcapFileStart, ReadInv
  <2>2. Len(returned') = 0
    BY <2>1
  <2>3. InRecords(Len(returned))'
    BY <2>1, <2>2 DEF InRecords
  <2> QED
    BY <2>1, <2>3 DEF MoreInv
<1>2. CASE ReadRecord
  BY <1>2, RecordMore
<1>3. CASE Finish
  BY <1>3 DEF Finish, MoreInv, AllFixable, InRecords, LastSkipped, OneRead
<1>4. CASE UNCHANGED vars
  BY <1>4 DEF vars, MoreInv, AllFixable, InRecords, LastSkipped, OneRead
<1> QED
  BY <1>1, <1>2, <1>3, <1>4 DEF Next, Ended

\* What Redextract takes from here as the last packet of a file: after the records,
\* whole or cut off anywhere, exactly one packet is returned that is none, and
\* behind a whole file it is empty.  RecordsInOrder is what should hold instead.
OneMore ==
  pc = "done" /\ Size(file) >= FileHeader /\ AllFixable =>
    LET more == { k \in DOMAIN returned :
                    k \notin Present(file) /\ returned[k] # Null }
    IN /\ \E k \in more : more = {k} /\ k = Len(returned)
       /\ file.cut = 0 => returned[Len(returned)].len = 0

\* The end of a file as the code has it.
LEMMA OneMoreRead == MaxPackets = 0 /\ Spec => []OneMore
<1> SUFFICES ASSUME MaxPackets = 0 PROVE Spec => []OneMore
  OBVIOUS
<1>1. ReadInv /\ MoreInv => OneMore
  <2> SUFFICES ASSUME ReadInv, MoreInv, pc = "done", Size(file) >= FileHeader, AllFixable
               PROVE  LET more == { k \in DOMAIN returned :
                                      k \notin Present(file) /\ returned[k] # Null }
                      IN /\ \E k \in more : more = {k} /\ k = Len(returned)
                         /\ file.cut = 0 => returned[Len(returned)].len = 0
    BY DEF OneMore
  <2> DEFINE r == Len(returned)
             more == { k \in DOMAIN returned :
                         k \notin Present(file) /\ returned[k] # Null }
  <2>1. r \in Nat /\ DOMAIN returned = 1..r
    BY FileType DEF ReadInv
  <2>2. eof
    BY DEF MoreInv
  <2>3. ~InRecords(r)
    <3> SUFFICES ASSUME InRecords(r) PROVE FALSE
      OBVIOUS
    <3>1. \A j \in 1..r : j \in Present(file) /\ Fixable(file, j)
      BY DEF InRecords, AllFixable, Present
    <3> QED
      BY <2>2, <3>1 DEF ReadInv, PlaceInv
  <2>4. OneRead(r)
    BY <2>2, <2>3 DEF MoreInv, LastSkipped
  <2>5. r \in more /\ \A k \in more : k = r
    <3>1. r \in more
      BY <2>1, <2>4 DEF OneRead
    <3>2. ASSUME NEW k \in more, k # r PROVE FALSE
      <4>1. k \in 1..r - 1
        BY <2>1, <3>2
      <4> QED
        BY <2>4, <4>1 DEF OneRead
    <3> QED
      BY <3>1, <3>2
  <2>6. file.cut = 0 => returned[r].len = 0
    BY <2>4 DEF OneRead
  <2> HIDE DEF r, more
  <2>7. more = {r}
    BY <2>5
  <2> QED
    BY <2>5, <2>6, <2>7 DEF r, more
<1>2. ReadInv /\ MoreInv /\ [Next]_vars => MoreInv'
  BY MoreStep
<1> QED
  BY <1>1, <1>2, InitMore, ReadInvariance, PTL DEF Spec
=============================================================================
