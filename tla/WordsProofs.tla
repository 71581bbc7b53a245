---------------------------- MODULE WordsProofs ----------------------------
(***************************************************************************)
(* What Words claims, for registers and types of any width.  The powers of *)
(* two are a recursive function: what is needed of them is proved by       *)
(* induction, from the least element of a set of naturals.  The rest is    *)
(* arithmetic modulo a power of two, on both sides of the translation.     *)
(***************************************************************************)
EXTENDS Words, WellFoundedInduction, TLAPS

\* A set of naturals has a least element.
LessThan == {ss \in Nat \X Nat : ss[1] < ss[2]}

LEMMA BelowIsLess ==
    ASSUME NEW x \in Nat, NEW y \in Nat, y < x
    PROVE  <<y, x>> \in LessThan
  BY DEF LessThan

LEMMA LeastNatural ==
    ASSUME NEW T, T \subseteq Nat, T # {}
    PROVE  \E x \in T : \A y \in T : x <= y
<1>1. OpToRel(<, Nat) = LessThan
  BY DEF OpToRel, LessThan
<1>2. IsWellFoundedOn(LessThan, Nat)
  BY <1>1, NatLessThanWellFounded
<1>3. PICK x \in T : \A y \in T : ~ (<<y, x>> \in LessThan)
  BY <1>2, WFMin
<1>4. ASSUME NEW y \in T PROVE x <= y
  <2>1. x \in Nat /\ y \in Nat
    OBVIOUS
  <2>2. ~ (<<y, x>> \in LessThan)
    BY <1>3
  <2>3. ~ (y < x)
    BY <2>1, <2>2, BelowIsLess
  <2> QED
    BY <2>1, <2>3
<1> QED
  BY <1>4

\* Induction, for the set of the naturals that satisfy a property.
LEMMA Induction ==
    ASSUME NEW T, T \subseteq Nat, 0 \in T, \A n \in T : n + 1 \in T
    PROVE  T = Nat
<1> SUFFICES ASSUME T # Nat PROVE FALSE
  OBVIOUS
<1>1. PICK x \in Nat \ T : \A y \in Nat \ T : x <= y
  <2>1. Nat \ T \subseteq Nat /\ Nat \ T # {}
    OBVIOUS
  <2> QED
    BY <2>1, LeastNatural
<1>2. x - 1 \in T
  BY <1>1
<1> QED
  BY <1>1, <1>2

-----------------------------------------------------------------------------
\* pow2 satisfies its definition

UpTo(n) ==
    {f \in [0 .. n -> Nat] :
        /\ f[0] = 1
        /\ \A k \in 1 .. n : f[k] = 2 * f[k - 1]}

LEMMA PowersExist == \A n \in Nat : UpTo(n) # {}
<1> DEFINE T == {n \in Nat : UpTo(n) # {}}
<1>1. 0 \in T
  <2>1. [k \in 0 .. 0 |-> 1] \in UpTo(0)
    BY DEF UpTo
  <2> QED
    BY <2>1
<1>2. ASSUME NEW n \in T PROVE n + 1 \in T
  <2>1. PICK f : f \in UpTo(n)
    OBVIOUS
  <2> DEFINE g == [k \in 0 .. n + 1 |-> IF k = n + 1 THEN 2 * f[n] ELSE f[k]]
  <2>2. n \in Nat /\ f \in [0 .. n -> Nat] /\ f[0] = 1
    BY <2>1 DEF UpTo
  <2>3. g \in [0 .. n + 1 -> Nat] /\ g[0] = 1
    BY <2>2
  <2>4. ASSUME NEW k \in 1 .. n + 1 PROVE g[k] = 2 * g[k - 1]
    <3>1. k - 1 \in 0 .. n /\ g[k - 1] = f[k - 1]
      BY <2>2
    <3>2. CASE k = n + 1
      BY <2>2, <3>1, <3>2
    <3>3. CASE k \in 1 .. n
      <4>1. f[k] = 2 * f[k - 1]
        <5> HIDE DEF g
        <5> QED
          BY <2>1, <3>3 DEF UpTo
      <4>2. g[k] = f[k]
        BY <2>2, <3>3
      <4> QED
        BY <3>1, <4>1, <4>2
    <3> QED
      BY <2>2, <3>2, <3>3
  <2>5. g \in UpTo(n + 1)
    BY <2>3, <2>4 DEF UpTo
  <2> QED
    BY <2>2, <2>5
<1>3. T \subseteq Nat
  OBVIOUS
<1>4. T = Nat
  <2> HIDE DEF T
  <2> QED
    BY <1>1, <1>2, <1>3, Induction
<1> QED
  BY <1>4

LEMMA PowersUnique ==
    ASSUME NEW m \in Nat, NEW n \in Nat,
           NEW f \in UpTo(m), NEW g \in UpTo(n)
    PROVE  \A k \in Nat : k <= m /\ k <= n => f[k] = g[k]
<1> DEFINE T == {k \in Nat : k <= m /\ k <= n => f[k] = g[k]}
<1>1. 0 \in T
  BY DEF UpTo
<1>2. ASSUME NEW k \in T PROVE k + 1 \in T
  <2> SUFFICES ASSUME k + 1 <= m, k + 1 <= n PROVE f[k + 1] = g[k + 1]
    OBVIOUS
  <2>1. k \in Nat /\ f[k] = g[k]
    OBVIOUS
  <2>2. k + 1 \in 1 .. m /\ k + 1 \in 1 .. n /\ (k + 1) - 1 = k
    BY <2>1
  <2>3. f[k + 1] = 2 * f[k] /\ g[k + 1] = 2 * g[k]
    BY <2>2 DEF UpTo
  <2> QED
    BY <2>1, <2>3
<1>3. T \subseteq Nat
  OBVIOUS
<1>4. T = Nat
  <2> HIDE DEF T
  <2> QED
    BY <1>1, <1>2, <1>3, Induction
<1> QED
  BY <1>4

LEMMA PowersDefined == pow2 = [n \in Nat |-> IF n = 0 THEN 1 ELSE 2 * pow2[n - 1]]
<1> DEFINE upTo == [n \in Nat |-> CHOOSE f \in UpTo(n) : TRUE]
           p == [n \in Nat |-> upTo[n][n]]
<1>1. \A n \in Nat : upTo[n] \in UpTo(n)
  BY PowersExist
<1>2. p[0] = 1
  BY <1>1 DEF UpTo
<1>3. ASSUME NEW n \in Nat, n # 0 PROVE p[n] = 2 * p[n - 1]
  <2>1. n - 1 \in Nat /\ n \in 1 .. n /\ n - 1 <= n
    BY <1>3
  <2>2. upTo[n] \in UpTo(n) /\ upTo[n - 1] \in UpTo(n - 1)
    BY <1>1, <2>1
  <2>3. upTo[n][n] = 2 * upTo[n][n - 1]
    BY <2>1, <2>2 DEF UpTo
  <2>4. upTo[n][n - 1] = upTo[n - 1][n - 1]
    BY <2>1, <2>2, PowersUnique
  <2> QED
    BY <2>1, <2>3, <2>4
<1>4. p = [n \in Nat |-> p[n]]
  OBVIOUS
<1> HIDE DEF p
<1>5. ASSUME NEW n \in Nat PROVE p[n] = IF n = 0 THEN 1 ELSE 2 * p[n - 1]
  <2>1. CASE n = 0
    BY <1>2, <2>1
  <2>2. CASE n # 0
    BY <1>3, <2>2
  <2> QED
    BY <2>1, <2>2
<1>6. p = [n \in Nat |-> IF n = 0 THEN 1 ELSE 2 * p[n - 1]]
  BY <1>4, <1>5
<1>7. \E f : f = [n \in Nat |-> IF n = 0 THEN 1 ELSE 2 * f[n - 1]]
  BY <1>6
<1> QED
  BY <1>7 DEF pow2

-----------------------------------------------------------------------------
\* Powers of two

LEMMA PowerStep ==
    /\ pow2[0] = 1
    /\ \A n \in Nat : pow2[n + 1] = 2 * pow2[n]
<1> DEFINE Double(f, n) == IF n = 0 THEN 1 ELSE 2 * f[n - 1]
<1>1. \A n \in Nat : pow2[n] = Double(pow2, n)
  BY PowersDefined
<1>2. pow2[0] = 1
  BY <1>1
<1>3. ASSUME NEW n \in Nat PROVE pow2[n + 1] = 2 * pow2[n]
  <2>1. n + 1 \in Nat /\ n + 1 # 0 /\ (n + 1) - 1 = n
    OBVIOUS
  <2> QED
    BY <1>1, <2>1
<1> QED
  BY <1>2, <1>3

\* 2^n is more than n.
LEMMA PowerLarge == \A n \in Nat : pow2[n] \in Nat /\ pow2[n] > n
<1> DEFINE T == {n \in Nat : pow2[n] \in Nat /\ pow2[n] > n}
<1>1. 0 \in T
  BY PowerStep
<1>2. ASSUME NEW n \in T PROVE n + 1 \in T
  <2>1. n \in Nat /\ pow2[n] \in Nat /\ pow2[n] > n /\ pow2[n + 1] = 2 * pow2[n]
    BY PowerStep
  <2> QED
    BY <2>1
<1>3. T \subseteq Nat
  OBVIOUS
<1>4. T = Nat
  <2> HIDE DEF T
  <2> QED
    BY <1>1, <1>2, <1>3, Induction
<1> QED
  BY <1>4

LEMMA PowerType == \A n \in Nat : pow2[n] \in Nat \ {0}
  BY PowerLarge

LEMMA PowerSum == \A m, n \in Nat : pow2[m + n] = pow2[m] * pow2[n]
<1> SUFFICES ASSUME NEW m \in Nat PROVE \A n \in Nat : pow2[m + n] = pow2[m] * pow2[n]
  OBVIOUS
<1> DEFINE T == {n \in Nat : pow2[m + n] = pow2[m] * pow2[n]}
<1>1. 0 \in T
  BY PowerStep, PowerType
<1>2. ASSUME NEW n \in T PROVE n + 1 \in T
  <2>1. n \in Nat /\ m + n \in Nat /\ m + (n + 1) = (m + n) + 1
    OBVIOUS
  <2>2. pow2[m + n] = pow2[m] * pow2[n]
    OBVIOUS
  <2>3. pow2[m + (n + 1)] = 2 * (pow2[m] * pow2[n]) /\ pow2[n + 1] = 2 * pow2[n]
    BY <2>1, <2>2, PowerStep
  <2>4. pow2[m] \in Nat /\ pow2[n] \in Nat
    BY <2>1, PowerType
  <2>5. 2 * (pow2[m] * pow2[n]) = pow2[m] * (2 * pow2[n])
    BY <2>4
  <2> QED
    BY <2>1, <2>3, <2>5
<1>3. T \subseteq Nat
  OBVIOUS
<1>4. T = Nat
  <2> HIDE DEF T
  <2> QED
    BY <1>1, <1>2, <1>3, Induction
<1> QED
  BY <1>4

\* A smaller power divides a larger one.
LEMMA PowerDivides ==
    ASSUME NEW m \in Nat, NEW n \in Nat, m <= n
    PROVE  \E k \in Nat \ {0} : pow2[n] = k * pow2[m]
<1>1. n - m \in Nat /\ n = m + (n - m)
  OBVIOUS
<1>2. pow2[n] = pow2[m] * pow2[n - m]
  BY <1>1, PowerSum
<1>3. pow2[m] * pow2[n - m] = pow2[n - m] * pow2[m]
  BY <1>1, PowerType
<1> QED
  BY <1>1, <1>2, <1>3, PowerType

LEMMA PowerMonotone ==
    ASSUME NEW m \in Nat, NEW n \in Nat, m <= n
    PROVE  pow2[m] <= pow2[n]
<1>1. PICK k \in Nat \ {0} : pow2[n] = k * pow2[m]
  BY PowerDivides
<1>2. pow2[m] \in Nat
  BY PowerType
<1>3. \A a \in Nat : \A b \in Nat \ {0} : a <= b * a
  OBVIOUS
<1> QED
  BY <1>1, <1>2, <1>3

-----------------------------------------------------------------------------
\* Quotients and remainders

LEMMA Division ==
    ASSUME NEW a \in Int, NEW m \in Nat \ {0}
    PROVE  /\ a \div m \in Int
           /\ a % m \in 0 .. m - 1
           /\ a = (a \div m) * m + (a % m)
  OBVIOUS

LEMMA DivisionUnique ==
    \A m \in Nat \ {0}, q \in Int, a \in Int : \A r \in 0 .. m - 1 :
        a = q * m + r => a % m = r /\ a \div m = q
  OBVIOUS

LEMMA SmallRemainder ==
    ASSUME NEW m \in Nat \ {0}, NEW a \in 0 .. m - 1
    PROVE  a % m = a
  OBVIOUS

LEMMA RemainderByQuotient ==
    \A a \in Nat, b \in Nat \ {0} : a % b = a - b * (a \div b)
  OBVIOUS

LEMMA NaturalQuotient ==
    ASSUME NEW a \in Nat, NEW m \in Nat \ {0}
    PROVE  a \div m \in 0 .. a
<1>1. a \div m \in Int /\ a % m \in 0 .. m - 1 /\ a = (a \div m) * m + (a % m)
  BY Division
<1>2. a \div m >= 0
  <2> SUFFICES ASSUME a \div m < 0 PROVE FALSE
    BY <1>1
  <2>1. \A q \in Int : q <= -1 => q * m <= -m
    OBVIOUS
  <2> QED
    BY <1>1, <2>1
<1>3. \A q \in Nat : q <= q * m
  OBVIOUS
<1> QED
  BY <1>1, <1>2, <1>3

LEMMA AddMultiple ==
    \A m \in Nat \ {0}, a \in Int, b \in Int, k \in Int :
        a = b + k * m => a % m = b % m
<1> SUFFICES ASSUME NEW m \in Nat \ {0}, NEW a \in Int, NEW b \in Int,
                    NEW k \in Int, a = b + k * m
             PROVE  a % m = b % m
  OBVIOUS
<1>1. PICK q \in Int, r \in 0 .. m - 1 : b = q * m + r
  BY Division
<1>2. PICK p \in Int : p = q + k
  OBVIOUS
<1>3. a = p * m + r
  BY <1>1, <1>2
<1>4. b % m = r
  BY <1>1, DivisionUnique, Zenon
<1>5. a % m = r
  BY <1>3, DivisionUnique, Zenon
<1> QED
  BY <1>4, <1>5

\* What two numbers with the same remainder differ by.
LEMMA SameRemainder ==
    ASSUME NEW m \in Nat \ {0}, NEW a \in Int, NEW b \in Int, a % m = b % m
    PROVE  \E k \in Int : a = b + k * m
<1>1. PICK p \in Int : a = p * m + (a % m)
  BY Division
<1>2. PICK q \in Int : b = q * m + (b % m)
  BY Division
<1>3. a % m \in Int
  BY Division
<1>4. (p - q) * m = p * m - q * m
  OBVIOUS
<1>5. a = b + (p - q) * m
  BY <1>1, <1>2, <1>3, <1>4
<1> WITNESS p - q \in Int
<1> QED
  BY <1>5

\* A remainder by a multiple of m, taken by m.
LEMMA RemainderTwice ==
    ASSUME NEW a \in Int, NEW m \in Nat \ {0}, NEW k \in Nat \ {0}
    PROVE  (a % (k * m)) % m = a % m
<1> DEFINE r == a % (k * m)
<1>1. k * m \in Nat \ {0}
  OBVIOUS
<1>2. r \in Int
  BY <1>1, Division
<1>3. PICK q \in Int : a = q * (k * m) + r
  BY <1>1, Division
<1> HIDE DEF r
<1>4. q * (k * m) = (q * k) * m /\ q * k \in Int
  OBVIOUS
<1>5. a = r + (q * k) * m
  BY <1>2, <1>3, <1>4
<1>6. a % m = r % m
  BY <1>2, <1>4, <1>5, AddMultiple, Zenon
<1> QED
  BY <1>6 DEF r

LEMMA RemainderSum ==
    \A m \in Nat \ {0} : \A a \in Int, c \in Int :
        a % m = c % m =>
            \A b \in Int, d \in Int :
                b % m = d % m => (a + b) % m = (c + d) % m
<1> TAKE m \in Nat \ {0}
<1> TAKE a \in Int, c \in Int
<1>1. HAVE a % m = c % m
<1> TAKE b \in Int, d \in Int
<1>2. HAVE b % m = d % m
<1>3. PICK k \in Int : a = c + k * m
  BY <1>1, SameRemainder
<1>4. PICK l \in Int : b = d + l * m
  BY <1>2, SameRemainder
<1>5. PICK n \in Int : n = k + l
  OBVIOUS
<1>6. n * m = k * m + l * m
  BY <1>5
<1>7. a + b = (c + d) + n * m
  BY <1>3, <1>4, <1>6
<1>8. PICK x \in Int, y \in Int : x = a + b /\ y = c + d
  OBVIOUS
<1>9. x = y + n * m
  BY <1>7, <1>8
<1>10. x % m = y % m
  BY <1>9, AddMultiple, Zenon
<1> QED
  BY <1>8, <1>10

LEMMA RemainderDifference ==
    \A m \in Nat \ {0} : \A a \in Int, c \in Int :
        a % m = c % m =>
            \A b \in Int, d \in Int :
                b % m = d % m => (a - b) % m = (c - d) % m
<1> TAKE m \in Nat \ {0}
<1> TAKE a \in Int, c \in Int
<1>1. HAVE a % m = c % m
<1> TAKE b \in Int, d \in Int
<1>2. HAVE b % m = d % m
<1>3. PICK k \in Int : a = c + k * m
  BY <1>1, SameRemainder
<1>4. PICK l \in Int : b = d + l * m
  BY <1>2, SameRemainder
<1>5. PICK n \in Int : n = k - l
  OBVIOUS
<1>6. n * m = k * m - l * m
  BY <1>5
<1>7. a - b = (c - d) + n * m
  BY <1>3, <1>4, <1>6
<1>8. PICK x \in Int, y \in Int : x = a - b /\ y = c - d
  OBVIOUS
<1>9. x = y + n * m
  BY <1>7, <1>8
<1>10. x % m = y % m
  BY <1>9, AddMultiple, Zenon
<1> QED
  BY <1>8, <1>10

LEMMA RemainderProduct ==
    \A m \in Nat \ {0} : \A a \in Int, c \in Int :
        a % m = c % m =>
            \A b \in Int, d \in Int :
                b % m = d % m => (a * b) % m = (c * d) % m
<1> TAKE m \in Nat \ {0}
<1> TAKE a \in Int, c \in Int
<1>1. HAVE a % m = c % m
<1> TAKE b \in Int, d \in Int
<1>2. HAVE b % m = d % m
<1>3. PICK k \in Int : a = c + k * m
  BY <1>1, SameRemainder
<1>4. PICK l \in Int : b = d + l * m
  BY <1>2, SameRemainder
<1>5. PICK n \in Int : n = c * l + k * d + k * l * m
  OBVIOUS
<1>6. n * m = c * (l * m) + (k * m) * d + (k * m) * (l * m)
  BY <1>5
<1>7. (c + k * m) * (d + l * m) = c * d + (c * (l * m) + (k * m) * d + (k * m) * (l * m))
  OBVIOUS
<1>8. a * b = (c * d) + n * m
  BY <1>3, <1>4, <1>6, <1>7
<1>9. PICK x \in Int, y \in Int : x = a * b /\ y = c * d
  OBVIOUS
<1>10. x = y + n * m
  BY <1>8, <1>9
<1>11. x % m = y % m
  BY <1>10, AddMultiple, Zenon
<1> QED
  BY <1>9, <1>11

-----------------------------------------------------------------------------
\* Words

LEMMA BitsNested ==
    \A n \in Nat : \A m \in 0 .. n : Bits(m) \subseteq Bits(n)
<1> SUFFICES ASSUME NEW n \in Nat, NEW m \in 0 .. n
             PROVE  Bits(m) \subseteq Bits(n)
  OBVIOUS
<1>1. pow2[m] <= pow2[n] /\ pow2[m] \in Nat /\ pow2[n] \in Nat
  BY PowerMonotone, PowerType
<1> QED
  BY <1>1 DEF Bits

LEMMA WrapType == \A n \in Nat, v \in Int : Wrap(v, n) \in Bits(n)
<1> SUFFICES ASSUME NEW n \in Nat, NEW v \in Int PROVE Wrap(v, n) \in Bits(n)
  OBVIOUS
<1>1. pow2[n] \in Nat \ {0}
  BY PowerType
<1> QED
  BY <1>1, Division DEF Wrap, Bits

LEMMA WrapSmall == \A n \in Nat : \A v \in Bits(n) : Wrap(v, n) = v
<1> SUFFICES ASSUME NEW n \in Nat, NEW v \in Bits(n) PROVE Wrap(v, n) = v
  OBVIOUS
<1>1. pow2[n] \in Nat \ {0}
  BY PowerType
<1> QED
  BY <1>1, SmallRemainder DEF Wrap, Bits

LEMMA WrapTwice ==
    \A n \in Nat : \A m \in 0 .. n, v \in Int : Wrap(Wrap(v, n), m) = Wrap(v, m)
<1> SUFFICES ASSUME NEW n \in Nat, NEW m \in 0 .. n, NEW v \in Int
             PROVE  Wrap(Wrap(v, n), m) = Wrap(v, m)
  OBVIOUS
<1>1. PICK k \in Nat \ {0} : pow2[n] = k * pow2[m]
  BY PowerDivides
<1>2. pow2[m] \in Nat \ {0}
  BY PowerType
<1>3. (v % (k * pow2[m])) % pow2[m] = v % pow2[m]
  BY <1>2, RemainderTwice
<1> QED
  BY <1>1, <1>3, Zenon DEF Wrap

LEMMA WrapSum ==
    ASSUME NEW n \in Nat, NEW a \in Int, NEW c \in Int, Wrap(a, n) = Wrap(c, n)
    PROVE  \A b \in Int, d \in Int :
               Wrap(b, n) = Wrap(d, n) => Wrap(a + b, n) = Wrap(c + d, n)
<1>1. PICK m \in Nat \ {0} : m = pow2[n]
  BY PowerType
<1> TAKE b \in Int, d \in Int
<1>2. HAVE Wrap(b, n) = Wrap(d, n)
<1>3. a % m = c % m /\ b % m = d % m
  BY <1>1, <1>2 DEF Wrap
<1>4. \A x \in Int, y \in Int : x % m = y % m => (a + x) % m = (c + y) % m
  BY <1>3, RemainderSum, Zenon
<1>5. (a + b) % m = (c + d) % m
  BY <1>3, <1>4, Zenon
<1> QED
  BY <1>1, <1>5, Zenon DEF Wrap

LEMMA WrapDifference ==
    ASSUME NEW n \in Nat, NEW a \in Int, NEW c \in Int, Wrap(a, n) = Wrap(c, n)
    PROVE  \A b \in Int, d \in Int :
               Wrap(b, n) = Wrap(d, n) => Wrap(a - b, n) = Wrap(c - d, n)
<1>1. PICK m \in Nat \ {0} : m = pow2[n]
  BY PowerType
<1> TAKE b \in Int, d \in Int
<1>2. HAVE Wrap(b, n) = Wrap(d, n)
<1>3. a % m = c % m /\ b % m = d % m
  BY <1>1, <1>2 DEF Wrap
<1>4. \A x \in Int, y \in Int : x % m = y % m => (a - x) % m = (c - y) % m
  BY <1>3, RemainderDifference, Zenon
<1>5. (a - b) % m = (c - d) % m
  BY <1>3, <1>4, Zenon
<1> QED
  BY <1>1, <1>5, Zenon DEF Wrap

LEMMA WrapProduct ==
    ASSUME NEW n \in Nat, NEW a \in Int, NEW c \in Int, Wrap(a, n) = Wrap(c, n)
    PROVE  \A b \in Int, d \in Int :
               Wrap(b, n) = Wrap(d, n) => Wrap(a * b, n) = Wrap(c * d, n)
<1>1. PICK m \in Nat \ {0} : m = pow2[n]
  BY PowerType
<1> TAKE b \in Int, d \in Int
<1>2. HAVE Wrap(b, n) = Wrap(d, n)
<1>3. a % m = c % m /\ b % m = d % m
  BY <1>1, <1>2 DEF Wrap
<1>4. \A x \in Int, y \in Int : x % m = y % m => (a * x) % m = (c * y) % m
  BY <1>3, RemainderProduct, Zenon
<1>5. (a * b) % m = (c * d) % m
  BY <1>3, <1>4, Zenon
<1> QED
  BY <1>1, <1>5, Zenon DEF Wrap

\* The signed reading of a word of n bits.
LEMMA SignedWord ==
    \A n \in Nat \ {0} : \A v \in Bits(n) :
        /\ pow2[n] = 2 * pow2[n - 1] /\ pow2[n - 1] \in Nat \ {0} /\ v \in Nat
        /\ Signed(v, n) \in -pow2[n - 1] .. pow2[n - 1] - 1
        /\ Signed(v, n) \in {v, v - pow2[n]}
        /\ Signed(v, n) >= 0 => Signed(v, n) = v
        /\ Wrap(Signed(v, n), n) = v
<1> SUFFICES ASSUME NEW n \in Nat \ {0}, NEW v \in Bits(n)
             PROVE  /\ pow2[n] = 2 * pow2[n - 1] /\ pow2[n - 1] \in Nat \ {0} /\ v \in Nat
                    /\ Signed(v, n) \in -pow2[n - 1] .. pow2[n - 1] - 1
                    /\ Signed(v, n) \in {v, v - pow2[n]}
                    /\ Signed(v, n) >= 0 => Signed(v, n) = v
                    /\ Wrap(Signed(v, n), n) = v
  BY Zenon
<1>1. pow2[n] = 2 * pow2[n - 1] /\ pow2[n - 1] \in Nat \ {0} /\ pow2[n] \in Nat \ {0}
  <2>1. n - 1 \in Nat /\ n = (n - 1) + 1
    OBVIOUS
  <2> QED
    BY <2>1, PowerStep, PowerType
<1>2. v \in Nat /\ v < pow2[n]
  BY <1>1 DEF Bits
<1>3. Wrap(v, n) = v
  BY WrapSmall
<1>4. Wrap(v - pow2[n], n) = v
  <2>1. PICK m \in Nat \ {0} : m = pow2[n]
    BY <1>1
  <2>2. PICK u \in Int : u = v - m
    BY <1>2
  <2>3. v \in Int /\ -1 \in Int /\ u = v + (-1) * m
    BY <1>2, <2>2
  <2>4. u % m = v % m
    BY <2>3, AddMultiple, Zenon
  <2> QED
    BY <1>3, <2>1, <2>2, <2>4 DEF Wrap
<1>5. Signed(v, n) \in {v, v - pow2[n]}
  BY DEF Signed
<1>6. Wrap(Signed(v, n), n) = v
  BY <1>3, <1>4, <1>5
<1>7. /\ Signed(v, n) \in -pow2[n - 1] .. pow2[n - 1] - 1
      /\ Signed(v, n) >= 0 => Signed(v, n) = v
  BY <1>1, <1>2 DEF Signed
<1> QED
  BY <1>1, <1>2, <1>5, <1>6, <1>7

\* Below half of the words the signed reading of a word is the word itself.
LEMMA SignedSmall ==
    \A n \in Nat \ {0} : \A v \in Bits(n) : v < pow2[n - 1] => Signed(v, n) = v
  BY DEF Signed

\* writeCastTo takes the lower bits, for the whole register too.
LEMMA CastIsWrap ==
    \A n \in 1 .. FullWidth : \A r \in Bits(FullWidth) :
        /\ Cast(r, n) = Wrap(r, n)
        /\ Cast(r, n) \in Bits(n)
        /\ Cast(r, n) \in Bits(FullWidth)
<1> SUFFICES ASSUME NEW n \in 1 .. FullWidth, NEW r \in Bits(FullWidth)
             PROVE  /\ Cast(r, n) = Wrap(r, n)
                    /\ Cast(r, n) \in Bits(n)
                    /\ Cast(r, n) \in Bits(FullWidth)
  BY Zenon
<1>1. FullWidth \in Nat \ {0} /\ n \in Nat /\ n \in 0 .. FullWidth
  BY WidthAssumption
<1>2. r \in Int
  BY <1>1, PowerType DEF Bits
<1>3. Cast(r, n) = Wrap(r, n)
  BY <1>1, WrapSmall DEF Cast
<1>4. Wrap(r, n) \in Bits(n)
  BY <1>1, <1>2, WrapType
<1>5. Bits(n) \subseteq Bits(FullWidth)
  BY <1>1, BitsNested
<1> QED
  BY <1>3, <1>4, <1>5

-----------------------------------------------------------------------------
\* What opcodes and instructions give are words

Operations == Modular \cup Divisions \cup Shifts

LEMMA Widths ==
    /\ FullWidth \in Nat \ {0} /\ HalfWidth \in Nat \ {0} /\ HalfWidth \in 0 .. FullWidth
    /\ \A n \in Types : n \in 1 .. FullWidth /\ n \in Nat \ {0} /\ n \in 0 .. FullWidth
    /\ 1 \in Types
  BY WidthAssumption

LEMMA BitsAreNaturals == \A n \in Nat : Bits(n) \subseteq Nat /\ 0 \in Bits(n)
  BY PowerType DEF Bits

LEMMA AluType ==
    ASSUME NEW op \in Operations, NEW a \in Bits(FullWidth), NEW b \in Bits(FullWidth),
           op \in Divisions => b # 0
    PROVE  Alu(op, a, b) \in Bits(FullWidth)
<1> DEFINE F == FullWidth
<1>1. F \in Nat \ {0} /\ HalfWidth \in Nat \ {0} /\ Bits(HalfWidth) \subseteq Bits(F)
  BY Widths, BitsNested
<1>2. a \in Nat /\ b \in Nat
  BY <1>1, BitsAreNaturals
<1>3. \A x \in Bits(F) : 0 .. x \subseteq Bits(F)
  BY <1>1, PowerType DEF Bits
<1>4. CASE op = "iadd"
  BY <1>1, <1>2, <1>4, WrapType DEF Alu
<1>5. CASE op = "isub"
  BY <1>1, <1>2, <1>5, WrapType DEF Alu
<1>6. CASE op = "smul"
  <2>1. a * b \in Int
    BY <1>2
  <2> QED
    BY <1>1, <1>6, <2>1, WrapType DEF Alu
<1>7. CASE op \in {"and", "or", "xor"}
  BY <1>7, BitwiseAssumption DEF Alu
<1>8. CASE op \in {"udiv", "sdiv"}
  <2>1. a \div b \in 0 .. a
    BY <1>2, <1>8, NaturalQuotient DEF Divisions
  <2>2. Alu(op, a, b) = a \div b
    BY <1>8 DEF Alu
  <2> QED
    BY <1>3, <2>1, <2>2
<1>9. CASE op \in {"urem", "srem"}
  <2>1. b \in Nat \ {0}
    BY <1>2, <1>9 DEF Divisions
  <2>2. a % b \in 0 .. b - 1
    BY <1>2, <2>1, Division
  <2>3. a % b \in 0 .. b
    BY <2>1, <2>2
  <2>4. Alu(op, a, b) = a % b
    BY <1>9 DEF Alu
  <2> QED
    BY <1>3, <2>3, <2>4
<1>10. CASE op = "shl"
  <2>1. b % F \in Nat
    BY <1>1, <1>2, Division
  <2>2. pow2[b % F] \in Nat
    BY <2>1, PowerType
  <2>3. a * pow2[b % F] \in Int
    BY <1>2, <2>2
  <2> QED
    BY <1>1, <1>10, <2>3, WrapType DEF Alu
<1>11. CASE op = "ashr"
  <2>1. b % F \in Nat
    BY <1>1, <1>2, Division
  <2>2. a \div pow2[b % F] \in 0 .. a
    BY <1>2, <2>1, PowerType, NaturalQuotient
  <2>3. Alu(op, a, b) = a \div pow2[b % F]
    BY <1>11 DEF Alu
  <2> QED
    BY <1>3, <2>2, <2>3
<1>12. CASE op = "lshr"
  <2> DEFINE low == Wrap(a, HalfWidth)
  <2>1. b % HalfWidth \in Nat
    BY <1>1, <1>2, Division
  <2>2. low \in Bits(HalfWidth)
    BY <1>1, <1>2, WrapType
  <2> HIDE DEF low
  <2>3. low \in Bits(F) /\ low \in Nat
    BY <1>1, <2>2, BitsAreNaturals
  <2>4. low \div pow2[b % HalfWidth] \in 0 .. low
    BY <2>1, <2>3, PowerType, NaturalQuotient
  <2>5. Alu(op, a, b) = low \div pow2[b % HalfWidth]
    BY <1>12 DEF Alu, low
  <2> QED
    BY <1>3, <2>3, <2>4, <2>5
<1> QED
  BY <1>4, <1>5, <1>6, <1>7, <1>8, <1>9, <1>10, <1>11, <1>12
     DEF Operations, Modular, Divisions, Shifts

\* C's quotient of whole numbers.
LEMMA QuotientType ==
    ASSUME NEW s \in Int, NEW t \in Int \ {0}
    PROVE  Quotient(s, t) \in Int
<1>1. Abs(s) \in Nat /\ Abs(t) \in Nat \ {0}
  BY DEF Abs
<1>2. Abs(s) \div Abs(t) \in Int
  BY <1>1, Division
<1> QED
  BY <1>2 DEF Quotient

LEMMA MeaningType ==
    ASSUME NEW op \in Operations, NEW n \in 1 .. FullWidth,
           NEW a \in Bits(n), NEW b \in Bits(n), op \in Divisions => b # 0
    PROVE  Meaning(op, a, b, n) \in Bits(n)
<1>1. n \in Nat \ {0} /\ a \in Nat /\ b \in Nat
  BY Widths, BitsAreNaturals
<1> DEFINE s == Signed(a, n)
           t == Signed(b, n)
<1>2. s \in Int /\ t \in Int /\ (b # 0 => t # 0)
  <2>1. s \in -pow2[n - 1] .. pow2[n - 1] - 1 /\ t \in -pow2[n - 1] .. pow2[n - 1] - 1
    BY <1>1, SignedWord
  <2>2. pow2[n - 1] \in Nat /\ pow2[n] = 2 * pow2[n - 1] /\ t \in {b, b - pow2[n]}
    BY <1>1, SignedWord
  <2>3. b < pow2[n]
    BY <1>1, <2>2 DEF Bits
  <2> QED
    BY <1>1, <2>1, <2>2, <2>3
<1> HIDE DEF s, t
<1>3. \A v \in Int : Wrap(v, n) \in Bits(n)
  BY <1>1, WrapType
<1>4. pow2[b] \in Nat \ {0}
  BY <1>1, PowerType
<1>5. a + b \in Int /\ a - b \in Int /\ a * b \in Int /\ a * pow2[b] \in Int
  BY <1>1, <1>4
<1>6. a \div pow2[b] \in Int /\ s \div pow2[b] \in Int
  <2>1. \A x \in Int : x \div pow2[b] \in Int
    BY <1>4, Division
  <2> QED
    BY <1>1, <1>2, <2>1
<1>7. CASE op \in {"iadd", "isub", "smul", "shl", "lshr", "ashr"}
  BY <1>3, <1>5, <1>6, <1>7 DEF Meaning, s
<1>8. CASE op \in {"and", "or", "xor"}
  <2>1. Bits(n) \subseteq Bits(FullWidth) /\ Bits(FullWidth) \subseteq Int
    BY Widths, BitsNested, BitsAreNaturals
  <2>2. {BitAnd(a, b), BitOr(a, b), BitXor(a, b)} \subseteq Int
    BY <2>1, BitwiseAssumption
  <2> QED
    BY <1>3, <1>8, <2>2 DEF Meaning
<1>9. CASE op \in {"udiv", "urem"}
  <2>1. a \div b \in Int /\ a % b \in Int
    BY <1>1, <1>9, Division DEF Divisions
  <2> QED
    BY <1>3, <1>9, <2>1 DEF Meaning
<1>10. CASE op \in {"sdiv", "srem"}
  <2>1. Quotient(s, t) \in Int
    BY <1>2, <1>10, QuotientType DEF Divisions
  <2>2. t * Quotient(s, t) \in Int
    BY <1>2, <2>1
  <2>3. s - t * Quotient(s, t) \in Int
    BY <1>2, <2>2
  <2> QED
    BY <1>3, <1>10, <2>1, <2>3 DEF Meaning, s, t
<1> QED
  BY <1>7, <1>8, <1>9, <1>10 DEF Operations, Modular, Divisions, Shifts

-----------------------------------------------------------------------------
\* The type invariant, with what the second operand holds

Typed ==
    /\ width \in Types
    /\ {acc, arg} \subseteq [val : Bits(width), reg : Bits(FullWidth)]

Held(x) == ZeroExtended(x) \/ SignExtended(x)
ArgHeld == Held(arg)

LEMMA OperandTypes ==
    ASSUME Typed
    PROVE  /\ width \in 1 .. FullWidth /\ width \in Nat \ {0}
           /\ width \in 0 .. FullWidth
           /\ acc.val \in Bits(width) /\ arg.val \in Bits(width)
           /\ acc.val \in Nat /\ arg.val \in Nat
           /\ acc.reg \in Bits(FullWidth) /\ arg.reg \in Bits(FullWidth)
           /\ acc.reg \in Nat /\ arg.reg \in Nat
<1>1. width \in 1 .. FullWidth /\ width \in Nat \ {0} /\ width \in 0 .. FullWidth
  BY Widths DEF Typed
<1>2. /\ acc.val \in Bits(width) /\ arg.val \in Bits(width)
      /\ acc.reg \in Bits(FullWidth) /\ arg.reg \in Bits(FullWidth)
  BY DEF Typed
<1>3. Bits(width) \subseteq Nat /\ Bits(FullWidth) \subseteq Nat
  BY <1>1, Widths, BitsAreNaturals
<1> QED
  BY <1>1, <1>2, <1>3

LEMMA LoadedType ==
    ASSUME NEW n \in Types, NEW v \in Bits(n)
    PROVE  Loaded(v) \in [val : Bits(n), reg : Bits(FullWidth)]
  BY Widths, BitsNested DEF Loaded

\* One and zero are words of every width.
LEMMA BoolIsWord ==
    ASSUME NEW n \in Nat \ {0}, NEW p \in {0, 1}
    PROVE  p \in Bits(n)
  BY PowerLarge DEF Bits

LEMMA ConstantRegType ==
    ASSUME Typed, NEW v \in Bits(width)
    PROVE  ConstantReg(v) \in Bits(FullWidth)
<1>1. v \in Bits(FullWidth) /\ FullWidth \in Nat
  BY OperandTypes, Widths, BitsNested
<1>2. Signed(v, width) \in Int
  <2>1. pow2[width - 1] \in Nat /\ Signed(v, width) \in -pow2[width - 1] .. pow2[width - 1] - 1
    BY OperandTypes, SignedWord
  <2> QED
    BY <2>1
<1>3. Wrap(Signed(v, width), FullWidth) \in Bits(FullWidth)
  BY <1>1, <1>2, WrapType
<1> QED
  BY <1>1, <1>3 DEF ConstantReg

LEMMA LoadKeeps ==
    ASSUME Typed, NEW v \in Bits(width), Load(v)
    PROVE  Typed' /\ ArgHeld'
<1>1. arg' = Loaded(v) /\ width' = width /\ acc' = acc
  BY DEF Load
<1>2. Loaded(v) \in [val : Bits(width), reg : Bits(FullWidth)]
  BY LoadedType DEF Typed
<1>3. Typed'
  BY <1>1, <1>2 DEF Typed
<1>4. arg'.reg = arg'.val
  BY <1>1 DEF Loaded
<1> QED
  BY <1>3, <1>4 DEF ArgHeld, Held, ZeroExtended

LEMMA ConstantKeeps ==
    ASSUME Typed, NEW v \in Bits(width), Constant(v)
    PROVE  Typed' /\ ArgHeld'
<1>1. arg' = [val |-> v, reg |-> ConstantReg(v)] /\ width' = width /\ acc' = acc
  BY DEF Constant
<1>2. ConstantReg(v) \in Bits(FullWidth)
  BY ConstantRegType
<1>3. Typed'
  BY <1>1, <1>2 DEF Typed
<1>4. arg'.val = v /\ arg'.reg = ConstantReg(v)
  BY <1>1
<1>5. ConstantReg(v) = v \/ ConstantReg(v) = Wrap(Signed(v, width), FullWidth)
  BY DEF ConstantReg
<1> QED
  BY <1>1, <1>3, <1>4, <1>5 DEF ArgHeld, Held, ZeroExtended, SignExtended

LEMMA ArgStays ==
    ASSUME ArgHeld, arg' = arg, width' = width
    PROVE  ArgHeld'
  BY DEF ArgHeld, Held, ZeroExtended, SignExtended

LEMMA ResultType ==
    ASSUME Typed, NEW op \in Operations,
           op \in Divisions => arg.val # 0 /\ arg.reg # 0
    PROVE  Result(op) \in [val : Bits(width), reg : Bits(FullWidth)]
<1>1. Meaning(op, acc.val, arg.val, width) \in Bits(width)
  BY OperandTypes, MeaningType
<1>2. Alu(op, acc.reg, arg.reg) \in Bits(FullWidth)
  BY OperandTypes, AluType
<1>3. Cast(Alu(op, acc.reg, arg.reg), width) \in Bits(FullWidth)
  BY <1>2, OperandTypes, CastIsWrap
<1> QED
  BY <1>1, <1>3 DEF Result

LEMMA BinaryKeeps ==
    ASSUME Typed, ArgHeld, NEW op \in Operations, Binary(op)
    PROVE  Typed' /\ ArgHeld'
<1>1. acc' = Result(op) /\ width' = width /\ arg' = arg
  BY DEF Binary
<1>2. op \in Divisions => arg.val # 0 /\ arg.reg # 0
  BY DEF Binary, Defined
<1>3. Result(op) \in [val : Bits(width), reg : Bits(FullWidth)]
  BY <1>2, ResultType
<1>4. Typed'
  BY <1>1, <1>3 DEF Typed
<1> QED
  BY <1>1, <1>4, ArgStays

\* After a comparison or a cast the second operand is a new one.
LEMMA NewOperands ==
    ASSUME NEW n \in Types, NEW x \in [val : Bits(n), reg : Bits(FullWidth)],
           width' = n, acc' = x, arg' = Loaded(0)
    PROVE  Typed' /\ ArgHeld'
<1>1. 0 \in Bits(n)
  BY Widths, BitsAreNaturals
<1>2. Loaded(0) \in [val : Bits(n), reg : Bits(FullWidth)]
  BY <1>1, LoadedType
<1>3. Typed'
  BY <1>2 DEF Typed
<1>4. arg'.reg = arg'.val
  BY DEF Loaded
<1> QED
  BY <1>3, <1>4 DEF ArgHeld, Held, ZeroExtended

\* The mask of i1 keeps a truth value.
LEMMA TruthType ==
    /\ \A p \in {0, 1} : Cast(p, 1) = p
    /\ \A op : Truth(op) \in [val : Bits(1), reg : Bits(FullWidth)]
<1>1. \A p \in {0, 1} : p \in Bits(1) /\ p \in Bits(FullWidth)
  BY Widths, BoolIsWord
<1>2. ASSUME NEW p \in {0, 1} PROVE Cast(p, 1) = p
  <2>1. Cast(p, 1) = Wrap(p, 1)
    BY <1>1, Widths, CastIsWrap
  <2> QED
    BY <1>1, <2>1, WrapSmall
<1>3. \A p : Bool(p) \in {0, 1}
  BY DEF Bool
<1> QED
  BY <1>1, <1>2, <1>3 DEF Truth

LEMMA ConvertedType ==
    ASSUME Typed, NEW n \in Types, NEW kind
    PROVE  Converted(kind, n) \in [val : Bits(n), reg : Bits(FullWidth)]
<1>1. n \in 1 .. FullWidth /\ n \in Nat
  BY Widths
<1>2. Signed(acc.val, width) \in Int
  <2>1. /\ pow2[width - 1] \in Nat
        /\ Signed(acc.val, width) \in -pow2[width - 1] .. pow2[width - 1] - 1
    BY OperandTypes, SignedWord
  <2> QED
    BY <2>1
<1>3. \A v \in Int : Wrap(v, n) \in Bits(n)
  BY <1>1, WrapType
<1>4. Wrap(IF kind = "sext" THEN Signed(acc.val, width) ELSE acc.val, n) \in Bits(n)
  BY <1>2, <1>3, OperandTypes
<1>5. Cast(acc.reg, n) \in Bits(FullWidth)
  BY <1>1, OperandTypes, CastIsWrap
<1> QED
  BY <1>4, <1>5 DEF Converted, CastTo

LEMMA HeldInitially == Init => Typed /\ ArgHeld
<1> SUFFICES ASSUME Init PROVE Typed /\ ArgHeld
  OBVIOUS
<1>1. width \in Types /\ arg = Loaded(0)
  BY DEF Init
<1>2. PICK v \in Bits(width) : acc = Loaded(v)
  BY DEF Init
<1>3. 0 \in Bits(width)
  BY <1>1, Widths, BitsAreNaturals
<1>4. Typed
  BY <1>1, <1>2, <1>3, LoadedType DEF Typed
<1>5. arg.reg = arg.val
  BY <1>1 DEF Loaded
<1> QED
  BY <1>4, <1>5 DEF ArgHeld, Held, ZeroExtended

LEMMA HeldKept == Typed /\ ArgHeld /\ [Next]_vars => Typed' /\ ArgHeld'
<1> SUFFICES ASSUME Typed, ArgHeld, [Next]_vars PROVE Typed' /\ ArgHeld'
  OBVIOUS
<1>1. ASSUME NEW v \in Bits(width), Load(v) PROVE Typed' /\ ArgHeld'
  BY <1>1, LoadKeeps
<1>2. ASSUME NEW v \in Bits(width), Constant(v) PROVE Typed' /\ ArgHeld'
  BY <1>2, ConstantKeeps
<1>3. CASE Phi \/ First
  <2>1. Cast(arg.reg, width) \in Bits(FullWidth)
    BY OperandTypes, CastIsWrap
  <2> QED
    BY <1>3, <2>1, ArgStays DEF Phi, First, Typed
<1>4. ASSUME NEW op \in Operations, Binary(op) PROVE Typed' /\ ArgHeld'
  BY <1>4, BinaryKeeps
<1>5. ASSUME NEW op, Compare(op) PROVE Typed' /\ ArgHeld'
  BY <1>5, TruthType, Widths, NewOperands DEF Compare
<1>6. ASSUME NEW kind, NEW n \in Types, CastInst(kind, n) PROVE Typed' /\ ArgHeld'
  <2>1. Converted(kind, n) \in [val : Bits(n), reg : Bits(FullWidth)]
    BY ConvertedType
  <2> QED
    BY <1>6, <2>1, NewOperands DEF CastInst
<1>7. CASE UNCHANGED vars
  BY <1>7, ArgStays DEF vars, Typed
<1> QED
  BY <1>1, <1>2, <1>3, <1>4, <1>5, <1>6, <1>7 DEF Next, Operations

\* No bits beyond the type, but those of the sign of a constant.
Fits(x) == x.reg \in Bits(width) \/ SignExtended(x)

LEMMA HeldFits == Typed /\ ArgHeld => Fits(arg)
  BY DEF Typed, ArgHeld, Held, Fits, ZeroExtended

LEMMA MaskFits ==
    ASSUME NEW n \in Types, NEW reg \in Bits(FullWidth)
    PROVE  Cast(reg, n) \in Bits(n)
  BY Widths, CastIsWrap

LEMMA FitsKept ==
    ASSUME Typed, ArgHeld, Fits(acc), [Next]_vars
    PROVE  Fits(acc)'
<1>1. CASE \/ \E v \in Bits(width) : Load(v) \/ Constant(v)
           \/ UNCHANGED vars
  BY <1>1 DEF Load, Constant, vars, Fits, SignExtended
<1>2. CASE First
  BY <1>2, HeldFits DEF First, Fits, SignExtended
<1>3. CASE Phi
  BY <1>3, OperandTypes, MaskFits DEF Phi, Fits, Typed
<1>4. ASSUME NEW op \in Operations, Binary(op) PROVE Fits(acc)'
  <2>1. op \in Divisions => arg.val # 0 /\ arg.reg # 0
    BY <1>4 DEF Binary, Defined
  <2>2. Alu(op, acc.reg, arg.reg) \in Bits(FullWidth)
    BY <2>1, OperandTypes, AluType
  <2>3. acc'.reg \in Bits(width) /\ width' = width
    BY <1>4, <2>2, MaskFits DEF Binary, Result, Typed
  <2> QED
    BY <2>3 DEF Fits
<1>5. ASSUME NEW op, Compare(op) PROVE Fits(acc)'
  <2>1. Bool(Test(op, acc.reg, arg.reg)) \in Bits(FullWidth)
    BY Widths, BoolIsWord DEF Bool
  <2>2. acc'.reg \in Bits(1) /\ width' = 1
    BY <1>5, <2>1, Widths, MaskFits DEF Compare, Truth
  <2> QED
    BY <2>2 DEF Fits
<1>6. ASSUME NEW kind, NEW n \in Types, CastInst(kind, n) PROVE Fits(acc)'
  <2>1. acc'.reg \in Bits(n) /\ width' = n
    BY <1>6, OperandTypes, MaskFits DEF CastInst, Converted, CastTo
  <2> QED
    BY <2>1 DEF Fits
<1> QED
  BY <1>1, <1>2, <1>3, <1>4, <1>5, <1>6 DEF Next, Operations

\* The registers keep to the types of their values, whatever the widths of the
\* registers and of the types: every result is masked, and only constants and
\* the parameters given them have bits above their type, those of the sign.
THEOREM TypeCorrect == Spec => []TypeOK
<1>1. Typed /\ ArgHeld /\ Fits(acc) => TypeOK
  BY HeldFits DEF Typed, TypeOK, ArgHeld, Fits
<1>2. Init => Fits(acc)
  BY DEF Init, Fits, Loaded
<1>3. Typed /\ ArgHeld /\ Fits(acc) /\ [Next]_vars => Fits(acc)'
  BY FitsKept
<1> QED
  BY <1>1, <1>2, <1>3, HeldInitially, HeldKept, PTL DEF Spec

-----------------------------------------------------------------------------
\* Arithmetic

\* A result is exact when the lower bits of what the opcode gives are the value.
LEMMA ExactResult ==
    ASSUME Typed, NEW op \in Operations,
           Alu(op, acc.reg, arg.reg) \in Bits(FullWidth),
           Wrap(Alu(op, acc.reg, arg.reg), width)
               = Meaning(op, acc.val, arg.val, width)
    PROVE  ZeroExtended(Result(op))
<1>1. Cast(Alu(op, acc.reg, arg.reg), width) = Wrap(Alu(op, acc.reg, arg.reg), width)
  BY OperandTypes, CastIsWrap
<1> QED
  BY <1>1 DEF Result, ZeroExtended

\* Modulo the width of the type both sides are the same sum, difference,
\* product or combination of bits.
LEMMA ModularExact ==
    ASSUME Typed, NEW op \in Modular, Congruent(acc), Congruent(arg)
    PROVE  Wrap(Alu(op, acc.reg, arg.reg), width)
               = Meaning(op, acc.val, arg.val, width)
<1> DEFINE n == width
<1>1. /\ acc.reg \in Int /\ arg.reg \in Int /\ acc.val \in Int /\ arg.val \in Int
      /\ n \in Nat /\ n \in 0 .. FullWidth /\ FullWidth \in Nat
  BY OperandTypes, Widths
<1>2. Wrap(acc.reg, n) = acc.val /\ Wrap(arg.reg, n) = arg.val
  BY DEF Congruent
<1>3. Wrap(acc.val, n) = acc.val /\ Wrap(arg.val, n) = arg.val
  BY OperandTypes, WrapSmall
<1>4. PICK a \in Int, b \in Int, c \in Int, d \in Int :
            a = acc.reg /\ b = arg.reg /\ c = acc.val /\ d = arg.val
  BY <1>1
<1>5. Wrap(a, n) = Wrap(c, n) /\ Wrap(b, n) = Wrap(d, n) /\ n \in Nat
  BY <1>1, <1>2, <1>3, <1>4
<1>6. \A v \in Int : Wrap(Wrap(v, FullWidth), n) = Wrap(v, n)
  BY <1>1, WrapTwice
<1>7. /\ acc.reg + arg.reg \in Int /\ acc.reg - arg.reg \in Int
      /\ acc.reg * arg.reg \in Int
  BY <1>1
<1>8. CASE op = "iadd"
  <2>1. Wrap(a + b, n) = Wrap(c + d, n)
    <3>1. \A x \in Int, y \in Int :
            Wrap(x, n) = Wrap(y, n) => Wrap(a + x, n) = Wrap(c + y, n)
      BY <1>5, WrapSum, Zenon
    <3> QED
      BY <1>5, <3>1, Zenon
  <2> QED
    BY <1>4, <1>6, <1>7, <1>8, <2>1 DEF Alu, Meaning
<1>9. CASE op = "isub"
  <2>1. Wrap(a - b, n) = Wrap(c - d, n)
    <3>1. \A x \in Int, y \in Int :
            Wrap(x, n) = Wrap(y, n) => Wrap(a - x, n) = Wrap(c - y, n)
      BY <1>5, WrapDifference, Zenon
    <3> QED
      BY <1>5, <3>1, Zenon
  <2> QED
    BY <1>4, <1>6, <1>7, <1>9, <2>1 DEF Alu, Meaning
<1>10. CASE op = "smul"
  <2>1. Wrap(a * b, n) = Wrap(c * d, n)
    <3>1. \A x \in Int, y \in Int :
            Wrap(x, n) = Wrap(y, n) => Wrap(a * x, n) = Wrap(c * y, n)
      BY <1>5, WrapProduct, Zenon
    <3> QED
      BY <1>5, <3>1, Zenon
  <2> QED
    BY <1>4, <1>6, <1>7, <1>10, <2>1 DEF Alu, Meaning
<1>11. CASE op \in {"and", "or", "xor"}
  <2>1. acc.val \in Bits(FullWidth) /\ arg.val \in Bits(FullWidth)
    BY <1>1, OperandTypes, BitsNested
  <2>2. \A x \in {acc.reg, acc.val}, y \in {arg.reg, arg.val} :
          /\ Wrap(BitAnd(x, y), n) = BitAnd(acc.val, arg.val)
          /\ Wrap(BitOr(x, y), n) = BitOr(acc.val, arg.val)
          /\ Wrap(BitXor(x, y), n) = BitXor(acc.val, arg.val)
    BY <1>2, <1>3, <2>1, OperandTypes, BitwiseAssumption
  <2> QED
    BY <1>11, <2>2 DEF Alu, Meaning
<1> QED
  BY <1>8, <1>9, <1>10, <1>11 DEF Modular

\* The amount of a shift to the left is less than the width: it is not one of
\* the constants whose sign fills the register.
LEMMA AmountHeld ==
    ASSUME Typed, ArgHeld, arg.val < width
    PROVE  arg.reg = arg.val /\ arg.reg % FullWidth = arg.val
<1>1. width \in Nat \ {0} /\ arg.val \in Bits(width) /\ arg.val \in Nat
      /\ width \in 1 .. FullWidth /\ FullWidth \in Nat \ {0}
  BY OperandTypes, Widths
<1>2. width - 1 \in Nat /\ pow2[width - 1] > width - 1 /\ pow2[width - 1] \in Nat
  BY <1>1, PowerLarge
<1>3. arg.val < pow2[width - 1]
  BY <1>1, <1>2
<1>4. Signed(arg.val, width) = arg.val
  BY <1>1, <1>3, SignedSmall
<1>5. arg.val \in Bits(FullWidth)
  BY <1>1, BitsNested
<1>6. Wrap(arg.val, FullWidth) = arg.val
  BY <1>1, <1>5, WrapSmall
<1>7. arg.reg = arg.val
  BY <1>4, <1>6 DEF ArgHeld, Held, ZeroExtended, SignExtended
<1>8. arg.val \in 0 .. FullWidth - 1
  BY <1>1
<1> QED
  BY <1>1, <1>7, <1>8, SmallRemainder

LEMMA ShiftLeftExact ==
    ASSUME Typed, ArgHeld, Congruent(acc), arg.val < width
    PROVE  Wrap(Alu("shl", acc.reg, arg.reg), width)
               = Meaning("shl", acc.val, arg.val, width)
<1>1. PICK p \in Int : p = pow2[arg.val]
  BY OperandTypes, PowerType
<1>2. Alu("shl", acc.reg, arg.reg) = Wrap(acc.reg * p, FullWidth)
  BY <1>1, AmountHeld DEF Alu
<1>3. Meaning("shl", acc.val, arg.val, width) = Wrap(acc.val * p, width)
  BY <1>1 DEF Meaning
<1>4. /\ acc.reg \in Int /\ acc.val \in Int /\ width \in Nat
      /\ width \in 0 .. FullWidth /\ FullWidth \in Nat
  BY OperandTypes, Widths
<1>5. Wrap(acc.reg, width) = Wrap(acc.val, width)
  BY OperandTypes, WrapSmall DEF Congruent
<1>6. Wrap(acc.reg * p, width) = Wrap(acc.val * p, width)
  BY <1>4, <1>5, WrapProduct
<1>7. acc.reg * p \in Int
  BY <1>1, <1>4
<1>8. Wrap(Wrap(acc.reg * p, FullWidth), width) = Wrap(acc.reg * p, width)
  BY <1>4, <1>7, WrapTwice
<1> QED
  BY <1>2, <1>3, <1>6, <1>8

\* A quotient of words that are held as zeros would extend them.
LEMMA UnsignedDivisionExact ==
    ASSUME Typed, NEW op \in {"udiv", "urem"}, ZeroExtended(acc), ZeroExtended(arg)
    PROVE  Wrap(Alu(op, acc.reg, arg.reg), width)
               = Meaning(op, acc.val, arg.val, width)
  BY DEF Alu, Meaning, ZeroExtended

\* A value held with its sign is not negative: registers hold no sign.
LEMMA PositiveValue ==
    ASSUME Typed, NEW x \in {acc, arg}, Positive(x)
    PROVE  x.reg = x.val /\ Signed(x.val, width) = x.val
<1>1. x.reg \in Nat /\ x.val \in Bits(width) /\ width \in Nat \ {0}
  BY OperandTypes
<1>2. Signed(x.val, width) >= 0
  BY <1>1 DEF Positive
<1> QED
  BY <1>1, <1>2, SignedWord DEF Positive

LEMMA SignedDivisionExact ==
    ASSUME Typed, NEW op \in {"sdiv", "srem"}, Positive(acc), Positive(arg),
           arg.val # 0
    PROVE  Wrap(Alu(op, acc.reg, arg.reg), width)
               = Meaning(op, acc.val, arg.val, width)
<1>1. /\ acc.reg = acc.val /\ Signed(acc.val, width) = acc.val
      /\ arg.reg = arg.val /\ Signed(arg.val, width) = arg.val
  BY PositiveValue
<1>2. acc.val \in Nat /\ arg.val \in Nat \ {0}
  BY OperandTypes
<1>3. Quotient(acc.val, arg.val) = acc.val \div arg.val
  BY <1>2 DEF Quotient, Abs
<1>4. CASE op = "sdiv"
  BY <1>1, <1>3, <1>4 DEF Alu, Meaning
<1>5. CASE op = "srem"
  <2>1. acc.val % arg.val = acc.val - arg.val * (acc.val \div arg.val)
    BY <1>2, RemainderByQuotient
  <2> QED
    BY <1>1, <1>3, <1>5, <2>1 DEF Alu, Meaning
<1> QED
  BY <1>4, <1>5

LEMMA ArithmeticShiftExact ==
    ASSUME Typed, ArgHeld, Positive(acc), arg.val < width
    PROVE  Wrap(Alu("ashr", acc.reg, arg.reg), width)
               = Meaning("ashr", acc.val, arg.val, width)
<1>1. acc.reg = acc.val /\ Signed(acc.val, width) = acc.val
  BY PositiveValue
<1>2. arg.reg % FullWidth = arg.val
  BY AmountHeld
<1> QED
  BY <1>1, <1>2 DEF Alu, Meaning

LEMMA LogicalShiftExact ==
    ASSUME Typed, ZeroExtended(acc), ZeroExtended(arg),
           acc.val < pow2[HalfWidth], arg.val < HalfWidth
    PROVE  Wrap(Alu("lshr", acc.reg, arg.reg), width)
               = Meaning("lshr", acc.val, arg.val, width)
<1>1. acc.val \in Bits(HalfWidth) /\ HalfWidth \in Nat \ {0}
  BY OperandTypes, Widths, PowerType DEF Bits
<1>2. Wrap(acc.val, HalfWidth) = acc.val
  BY <1>1, WrapSmall
<1>3. arg.val \in 0 .. HalfWidth - 1
  BY <1>1, OperandTypes
<1>4. arg.val % HalfWidth = arg.val
  BY <1>1, <1>3, SmallRemainder
<1> QED
  BY <1>2, <1>4 DEF Alu, Meaning, ZeroExtended

LEMMA OperationExact ==
    ASSUME Typed, ArgHeld, NEW op \in Operations, Defined(op), Within(op)
    PROVE  ZeroExtended(Result(op))
<1>1. op \in Shifts => arg.val < width
  BY DEF Defined
<1>2. op \in Divisions => arg.val # 0 /\ arg.reg # 0
  <2>1. CASE op \in {"udiv", "urem"}
    BY <2>1 DEF Defined, Within, Modular, Divisions, ZeroExtended
  <2>2. CASE op \in {"sdiv", "srem"}
    BY <2>2, PositiveValue DEF Defined, Within, Modular, Divisions
  <2> QED
    BY <2>1, <2>2 DEF Divisions
<1>3. Alu(op, acc.reg, arg.reg) \in Bits(FullWidth)
  BY <1>2, OperandTypes, AluType
<1>4. Wrap(Alu(op, acc.reg, arg.reg), width) = Meaning(op, acc.val, arg.val, width)
  <2>1. CASE op \in Modular
    BY <2>1, ModularExact DEF Within, Modular
  <2>2. CASE op = "shl"
    BY <1>1, <2>2, ShiftLeftExact DEF Within, Shifts
  <2>3. CASE op \in {"udiv", "urem"}
    BY <2>3, UnsignedDivisionExact DEF Within, Modular
  <2>4. CASE op \in {"sdiv", "srem"}
    BY <1>2, <2>4, SignedDivisionExact DEF Within, Modular, Divisions
  <2>5. CASE op = "ashr"
    BY <1>1, <2>5, ArithmeticShiftExact DEF Within, Modular, Shifts
  <2>6. CASE op = "lshr"
    BY <2>6, LogicalShiftExact DEF Within, Modular
  <2> QED
    BY <2>1, <2>2, <2>3, <2>4, <2>5, <2>6 DEF Operations, Divisions, Shifts
<1> QED
  BY <1>3, <1>4, ExactResult

\* On registers and types of any width, and for every reachable pair of
\* operands, the opcodes do the arithmetic of LLVM wherever Within says so.
THEOREM Arithmetic == Spec => []ArithmeticExact
<1>1. Typed /\ ArgHeld => ArithmeticExact
  BY OperationExact DEF ArithmeticExact, Operations
<1>2. Spec => [](Typed /\ ArgHeld)
  BY HeldInitially, HeldKept, PTL DEF Spec
<1> QED
  BY <1>1, <1>2, PTL

-----------------------------------------------------------------------------
\* Comparisons

\* A register that extends the sign of its value: the words of the type in
\* their signed order, the negative ones at the end of the register's.
LEMMA SignExtendedWord ==
    ASSUME Typed, NEW x \in {acc, arg}, SignExtended(x)
    PROVE  /\ x.reg = IF x.val < pow2[width - 1] THEN x.val
                      ELSE x.val - pow2[width] + pow2[FullWidth]
           /\ Signed(x.reg, FullWidth) = Signed(x.val, width)
<1> DEFINE n == width
           F == FullWidth
<1>1. /\ n \in Nat \ {0} /\ F \in Nat \ {0} /\ n - 1 \in Nat /\ F - 1 \in Nat
      /\ n - 1 <= F - 1 /\ n <= F
      /\ x.val \in Bits(n) /\ x.val \in Nat
  BY OperandTypes, Widths
<1>2. /\ pow2[n - 1] \in Nat \ {0} /\ pow2[F - 1] \in Nat \ {0}
      /\ pow2[n] = 2 * pow2[n - 1] /\ pow2[F] = 2 * pow2[F - 1]
      /\ pow2[n - 1] <= pow2[F - 1]
  <2>1. 0 \in Bits(F) /\ x.val \in Bits(n)
    BY <1>1, BitsAreNaturals
  <2> QED
    BY <1>1, <2>1, SignedWord, PowerMonotone
<1>3. x.val < pow2[n]
  BY <1>1, <1>2 DEF Bits
<1>4. x.reg = Wrap(Signed(x.val, n), F)
  BY DEF SignExtended
<1>5. CASE x.val < pow2[n - 1]
  <2>1. Signed(x.val, n) = x.val /\ x.val \in Bits(F)
    BY <1>1, <1>2, <1>5 DEF Signed, Bits
  <2>2. x.reg = x.val
    BY <1>1, <1>4, <2>1, WrapSmall
  <2>3. Signed(x.val, F) = x.val
    BY <1>1, <1>2, <1>5 DEF Signed
  <2> QED
    BY <1>5, <2>1, <2>2, <2>3
<1>6. CASE ~(x.val < pow2[n - 1])
  <2>1. PICK r \in Int : r = x.val - pow2[n] + pow2[F]
    BY <1>1, <1>2
  <2>2. r \in Bits(F) /\ r >= pow2[F - 1]
    BY <1>1, <1>2, <1>3, <1>6, <2>1 DEF Bits
  <2>3. Signed(x.val, n) = x.val - pow2[n]
    BY <1>1, <1>2, <1>6 DEF Signed
  <2>4. Signed(r, F) = Signed(x.val, n)
    BY <1>1, <1>2, <2>1, <2>2, <2>3 DEF Signed
  <2>5. Wrap(Signed(r, F), F) = r
    BY <1>1, <2>2, SignedWord
  <2>6. x.reg = r
    BY <1>4, <2>4, <2>5
  <2> QED
    BY <1>6, <2>1, <2>4, <2>6
<1> QED
  BY <1>5, <1>6

LEMMA TestIsHolds ==
    ASSUME Typed, NEW op \in Comparisons, Comparable(op)
    PROVE  Test(op, acc.reg, arg.reg) <=> Holds(op, acc.val, arg.val, width)
<1>1. CASE /\ op \notin {"slt", "sle", "sgt", "sge"}
           /\ ZeroExtended(acc) /\ ZeroExtended(arg)
  <2>1. acc.reg = acc.val /\ arg.reg = arg.val
    BY <1>1 DEF ZeroExtended
  <2> QED
    BY <1>1, <2>1 DEF Comparisons, Test, Holds
<1>2. CASE SignExtended(acc) /\ SignExtended(arg)
  <2> DEFINE s == Signed(acc.val, width)
             t == Signed(arg.val, width)
  <2>1. Signed(acc.reg, FullWidth) = s /\ Signed(arg.reg, FullWidth) = t
    BY <1>2, SignExtendedWord
  <2>2. s \in Int /\ t \in Int
    <3>1. /\ s \in -pow2[width - 1] .. pow2[width - 1] - 1
          /\ t \in -pow2[width - 1] .. pow2[width - 1] - 1
          /\ pow2[width - 1] \in Nat
      BY OperandTypes, SignedWord
    <3> QED
      BY <3>1
  <2> HIDE DEF s, t
  <2>3. CASE op \in {"slt", "sle", "sgt", "sge"}
    <3>1. /\ Less(acc.reg, arg.reg) <=> s < t
          /\ Less(arg.reg, acc.reg) <=> t < s
      BY <2>1 DEF Less
    <3>2. ~(t < s) <=> s <= t
      BY <2>2
    <3>3. ~(s < t) <=> s >= t
      BY <2>2
    <3>4. t < s <=> s > t
      BY <2>2
    <3> QED
      BY <2>3, <3>1, <3>2, <3>3, <3>4 DEF Test, Holds, s, t
  <2>4. CASE op \in {"eq", "ne", "ult", "ule", "ugt", "uge"}
    <3>1. /\ pow2[width] \in Nat /\ pow2[FullWidth] \in Nat /\ pow2[width - 1] \in Nat
          /\ pow2[width] <= pow2[FullWidth]
      BY OperandTypes, Widths, PowerType, PowerMonotone
    <3>2. /\ acc.val \in Nat /\ acc.val < pow2[width]
          /\ arg.val \in Nat /\ arg.val < pow2[width]
      BY <3>1, OperandTypes DEF Bits
    <3>3. /\ acc.reg = IF acc.val < pow2[width - 1] THEN acc.val
                       ELSE acc.val - pow2[width] + pow2[FullWidth]
          /\ arg.reg = IF arg.val < pow2[width - 1] THEN arg.val
                       ELSE arg.val - pow2[width] + pow2[FullWidth]
      BY <1>2, SignExtendedWord
    <3>4. /\ acc.reg < arg.reg <=> acc.val < arg.val
          /\ acc.reg = arg.reg <=> acc.val = arg.val
          /\ acc.reg \in Nat /\ arg.reg \in Nat
      BY <3>1, <3>2, <3>3
    <3>5. /\ acc.reg <= arg.reg <=> acc.val <= arg.val
          /\ acc.reg > arg.reg <=> acc.val > arg.val
          /\ acc.reg >= arg.reg <=> acc.val >= arg.val
      BY <3>2, <3>4
    <3> QED
      BY <2>4, <3>4, <3>5 DEF Test, Holds
  <2> QED
    BY <2>3, <2>4 DEF Comparisons
<1> QED
  BY <1>1, <1>2 DEF Comparable

\* On registers and types of any width a comparison of two values held in the
\* same form, the signed one for signed orders, has the answer LLVM asks for.
THEOREM ComparesRight == Spec => []ComparisonsExact
<1>1. ASSUME Typed, NEW op \in Comparisons, Comparable(op)
      PROVE  ZeroExtended(Truth(op))
  <2>1. Bool(Test(op, acc.reg, arg.reg)) = Bool(Holds(op, acc.val, arg.val, width))
    BY <1>1, TestIsHolds DEF Bool
  <2>2. Bool(Test(op, acc.reg, arg.reg)) \in {0, 1}
    BY DEF Bool
  <2>3. Cast(Bool(Test(op, acc.reg, arg.reg)), 1) = Bool(Test(op, acc.reg, arg.reg))
    BY <2>2, TruthType
  <2> QED
    BY <2>1, <2>3 DEF Truth, ZeroExtended
<1>2. Typed => ComparisonsExact
  BY <1>1 DEF ComparisonsExact
<1> QED
  BY <1>2, HeldInitially, HeldKept, PTL DEF Spec

-----------------------------------------------------------------------------
\* Casts

LEMMA ConversionExact ==
    ASSUME Typed, NEW n \in Types \ {width}, NEW kind \in Casts(n), Castable(kind)
    PROVE  ZeroExtended(Converted(kind, n))
<1>1. /\ n \in 1 .. FullWidth /\ n \in Nat \ {0} /\ n \in 0 .. FullWidth
      /\ FullWidth \in Nat
  BY Widths
<1>2. /\ width \in Nat \ {0} /\ acc.val \in Bits(width) /\ acc.val \in Int
      /\ acc.reg \in Bits(FullWidth) /\ acc.reg \in Int
  BY OperandTypes
<1>3. Cast(acc.reg, n) = Wrap(acc.reg, n)
  BY <1>1, <1>2, CastIsWrap
<1>4. CASE kind = "trunc"
  <2>1. n \in 0 .. width
    BY <1>1, <1>2, <1>4 DEF Casts
  <2>2. Wrap(Wrap(acc.reg, width), n) = Wrap(acc.reg, n)
    BY <1>2, <2>1, WrapTwice
  <2>3. Wrap(acc.reg, width) = acc.val
    BY <1>4 DEF Castable, Congruent
  <2> QED
    BY <1>3, <1>4, <2>2, <2>3 DEF Converted, CastTo, ZeroExtended
<1>5. CASE kind = "zext"
  <2>1. acc.reg = acc.val
    BY <1>5 DEF Castable, ZeroExtended
  <2> QED
    BY <1>3, <1>5, <2>1 DEF Converted, CastTo, ZeroExtended
<1>6. CASE kind = "sext"
  <2>1. acc.reg = Wrap(Signed(acc.val, width), FullWidth)
    BY <1>6 DEF Castable, SignExtended
  <2>2. Signed(acc.val, width) \in Int
    <3>1. /\ pow2[width - 1] \in Nat
          /\ Signed(acc.val, width) \in -pow2[width - 1] .. pow2[width - 1] - 1
      BY <1>2, SignedWord
    <3> QED
      BY <3>1
  <2>3. Wrap(acc.reg, n) = Wrap(Signed(acc.val, width), n)
    BY <1>1, <2>1, <2>2, WrapTwice
  <2> QED
    BY <1>3, <1>6, <2>3 DEF Converted, CastTo, ZeroExtended
<1> QED
  BY <1>4, <1>5, <1>6 DEF Casts

\* On registers and types of any width a truncation is right, and so are a
\* zext of zeros and a sext of a sign that the register holds.
THEOREM Conversions == Spec => []CastsExact
<1>1. ASSUME Typed PROVE CastsExact
  <2>1. ASSUME NEW n \in Types \ {width}, NEW kind \in Casts(n), Castable(kind)
        PROVE  ZeroExtended(Converted(kind, n))
    BY <1>1, <2>1, ConversionExact
  <2> QED
    BY <2>1 DEF CastsExact
<1> QED
  BY <1>1, HeldInitially, HeldKept, PTL DEF Spec
=============================================================================
