----------------------------- MODULE Arithmetic -----------------------------
(***************************************************************************)
(* Facts about numbers that the proofs share.                              *)
(***************************************************************************)
EXTENDS Integers, FiniteSetTheorems, WellFoundedInduction, TLAPS

\* A product grows by its other factor.
LEMMA Times ==
    ASSUME NEW p \in Nat \ {0}, NEW x \in Int, NEW y \in Int, x > y
    PROVE  p * x >= p * y + p /\ p * x \in Int /\ p * y \in Int
  BY SMT

\* Quotient and remainder.
LEMMA Division ==
    ASSUME NEW p \in Nat \ {0}, NEW x \in Nat
    PROVE  x \div p \in Nat /\ x % p \in 0..(p - 1) /\ x = p * (x \div p) + (x % p)
<1> DEFINE q == x \div p
           r == x % p
<1>1. q \in Int /\ r \in 0..(p - 1) /\ x = p * q + r
  <2>1. p \in Nat /\ p > 0
    OBVIOUS
  <2>2. QED
    BY <2>1, SMT
<1> HIDE DEF q, r
<1>2. ~(0 > q)
  <2>1. 0 > q => p * 0 >= p * q + p
    BY <1>1, Times
  <2>2. p * q \in Int /\ p * 0 = 0
    BY <1>1, SMT
  <2>3. QED
    BY <1>1, <2>1, <2>2
<1>3. q \in Nat
  BY <1>1, <1>2
<1>4. QED
  BY <1>1, <1>3 DEF q, r

\* A number has one remainder.
LEMMA Remainder ==
    ASSUME NEW p \in Nat \ {0}, NEW x \in Int, NEW q \in Int, NEW r \in 0..(p - 1),
           x = p * q + r
    PROVE  x % p = r
<1>1. PICK k \in Int, m \in 0..(p - 1) : x = p * k + m /\ m = x % p
    <2>1. p \in Nat /\ p > 0
        OBVIOUS
    <2>2. x \div p \in Int /\ x % p \in 0..(p - 1) /\ x = p * (x \div p) + (x % p)
        BY <2>1, SMT
    <2> QED
        BY <2>2
<1>2. ~(k > q)
    <2>1. k > q => p * k >= p * q + p /\ p * k \in Int /\ p * q \in Int
        BY Times
    <2> QED
        BY <1>1, <2>1
<1>3. ~(q > k)
    <2>1. q > k => p * q >= p * k + p /\ p * k \in Int /\ p * q \in Int
        BY Times
    <2> QED
        BY <1>1, <2>1
<1>4. k = q
    BY <1>2, <1>3
<1>5. PICK z \in Int : z = p * q
    <2>1. p * q \in Int
        BY SMT
    <2> QED
        BY <2>1
<1>6. x = z + m /\ x = z + r
    BY <1>1, <1>4, <1>5
<1>7. m = r
    BY <1>6
<1> QED
    BY <1>1, <1>7

\* An offset leads to its destination, though it wraps.
LEMMA OffsetLeads ==
    ASSUME NEW span \in Nat \ {0}, NEW from \in Int, NEW to \in Int
    PROVE  /\ to % span \in 0..(span - 1)
           /\ (to - from) % span \in 0..(span - 1)
           /\ (from + ((to - from) % span)) % span = to % span
<1>1. ASSUME NEW x \in Int
      PROVE  \E k \in Int, m \in 0..(span - 1) : x = span * k + m /\ m = x % span
    <2>1. span \in Nat /\ span > 0
        OBVIOUS
    <2>2. /\ x \div span \in Int /\ x % span \in 0..(span - 1)
          /\ x = span * (x \div span) + (x % span)
        BY <2>1, SMT
    <2> QED
        BY <2>2
<1>2. PICK k \in Int, m \in 0..(span - 1) : to = span * k + m /\ m = to % span
    BY <1>1
<1>3. PICK d \in Int : d = to - from
    OBVIOUS
<1>4. PICK j \in Int, n \in 0..(span - 1) : d = span * j + n /\ n = d % span
    BY <1>1
<1>5. PICK x \in Int : x = from + n
    OBVIOUS
<1>6. PICK u \in Int, v \in Int, w \in Int :
            u = span * j /\ v = span * k /\ w = span * (k - j) /\ w = v - u
    <2>1. span * j \in Int /\ span * k \in Int /\ span * (k - j) \in Int
        BY SMT
    <2>2. span * (k - j) = span * k - span * j
        BY SMT
    <2> QED
        BY <2>1, <2>2
<1>7. x = w + m
    <2>1. to = v + m /\ d = u + n
        BY <1>2, <1>4, <1>6
    <2> QED
        BY <1>3, <1>5, <1>6, <2>1
<1>8. k - j \in Int /\ x = span * (k - j) + m
    BY <1>6, <1>7
<1>9. x % span = m
    BY <1>8, Remainder
<1>10. n = (to - from) % span
    BY <1>3, <1>4
<1>11. x = from + ((to - from) % span)
    BY <1>5, <1>10
<1> QED
    BY <1>2, <1>9, <1>10, <1>11

\* A multiple is divided without a rest.
LEMMA Multiple ==
    ASSUME NEW p \in Nat \ {0}, NEW n \in Nat
    PROVE  /\ p * n \in Nat /\ p * n = n * p
           /\ (n * p) % p = 0 /\ (n * p) \div p = n
<1>1. p * n \in Nat /\ p * n = n * p
    BY SMT
<1>2. PICK x \in Nat : x = n * p
    BY <1>1
<1>3. x \div p \in Nat /\ x % p \in 0..(p - 1) /\ x = p * (x \div p) + (x % p)
    BY Division
<1>4. PICK q \in Nat : q = x \div p
    BY <1>3
<1>5. PICK r \in 0..(p - 1) : r = x % p
    BY <1>3
<1>6. p * n = p * q + r
    BY <1>1, <1>2, <1>3, <1>4, <1>5
<1>7. ~(n > q)
    <2>1. n > q => p * n >= p * q + p /\ p * q \in Int
        BY Times
    <2> QED
        BY <1>6, <1>1, <2>1
<1>8. ~(q > n)
    <2>1. q > n => p * q >= p * n + p /\ p * q \in Int
        BY Times
    <2> QED
        BY <1>6, <1>1, <2>1
<1>9. q = n
    BY <1>7, <1>8
<1>10. r = 0
    BY <1>1, <1>6, <1>9
<1> QED
    BY <1>1, <1>2, <1>4, <1>5, <1>9, <1>10

\* A set of natural numbers has a lowest one: the intervals that end at its
\* numbers have a smallest, since the inclusion of finite sets is well founded.
LEMMA LowestNumber ==
    ASSUME NEW S \in SUBSET Nat, S # {}
    PROVE  \E x \in S : \A y \in S : x <= y
<1> DEFINE T == {1..x : x \in S}
           R == StrictSubsetOrdering(Nat)
<1>1. T \subseteq FiniteSubsetsOf(Nat) /\ T # {}
    <2>1. \A x \in S : IsFiniteSet(1..x) /\ 1..x \in SUBSET Nat
        BY FS_Interval
    <2> QED BY <2>1 DEF FiniteSubsetsOf
<1>2. IsWellFoundedOn(R, FiniteSubsetsOf(Nat))
    BY FS_StrictSubsetOrderingWellFounded
<1> HIDE DEF R
<1>3. PICK I \in T : \A J \in T : ~(<<J, I>> \in R)
    BY <1>1, <1>2, WFMin, Zenon
<1>4. PICK x \in S : I = 1..x
    BY <1>3
<1>5. ASSUME NEW y \in S PROVE x <= y
    <2>1. SUFFICES ASSUME y < x PROVE FALSE
        OBVIOUS
    <2>2. 1..y \subseteq 1..x /\ x \in 1..x /\ x \notin 1..y
        BY <2>1
    <2>3. 1..y \in SUBSET Nat /\ 1..x \in SUBSET Nat
        OBVIOUS
    <2>4. <<1..y, I>> \in R
        BY <2>2, <2>3, <1>4 DEF R, StrictSubsetOrdering
    <2> QED BY <2>4, <1>3
<1> QED BY <1>5

\* What holds of 0, and of the next number with a number, holds of all.
LEMMA Induction ==
    ASSUME NEW S, 0 \in S, \A n \in Nat : n \in S => n + 1 \in S
    PROVE  Nat \subseteq S
<1> SUFFICES ASSUME Nat \ S # {} PROVE FALSE
    OBVIOUS
<1>1. PICK x \in Nat \ S : \A y \in Nat \ S : x <= y
    BY LowestNumber
<1>2. x # 0 /\ x - 1 \in Nat
    BY <1>1
<1>3. x - 1 \in S
    BY <1>1, <1>2
<1>4. (x - 1) + 1 = x
    BY <1>1
<1> QED
    BY <1>2, <1>3, <1>4

\* What is made of a number of steps, each from the last.
LEMMA Iterated ==
    ASSUME NEW S, NEW base \in S, NEW l \in Nat, NEW step \in [1..l -> [S -> S]]
    PROVE  \E h \in [0..l -> S] : h[0] = base /\ \A n \in 1..l : h[n] = step[n][h[n - 1]]
<1> DEFINE Steps(h, k) == h[0] = base /\ \A n \in 1..k : h[n] = step[n][h[n - 1]]
           All == {k \in Nat : k <= l => \E h \in [0..k -> S] : Steps(h, k)}
<1>1. 0 \in All
    <2>1. PICK h : h = [n \in 0..0 |-> base]
        OBVIOUS
    <2>2. h \in [0..0 -> S] /\ h[0] = base /\ \A n : ~(n \in 1..0)
        BY <2>1
    <2> QED
        BY <2>2
<1>2. ASSUME NEW k \in Nat, k \in All PROVE k + 1 \in All
    <2>1. SUFFICES ASSUME k + 1 <= l PROVE \E h \in [0..(k + 1) -> S] : Steps(h, k + 1)
        OBVIOUS
    <2>2. PICK h \in [0..k -> S] : Steps(h, k)
        BY <1>2, <2>1
    <2>3. k \in 0..k /\ k + 1 \in 1..l
        BY <2>1
    <2>4. PICK next \in S : next = step[k + 1][h[k]]
        BY <2>3
    <2>5. PICK g : g = [n \in 0..(k + 1) |-> IF n = k + 1 THEN next ELSE h[n]]
        OBVIOUS
    <2>6. \A n \in 0..(k + 1) : n = k + 1 \/ n \in 0..k
        OBVIOUS
    <2>7. g \in [0..(k + 1) -> S] /\ (\A n \in 0..k : g[n] = h[n]) /\ g[k + 1] = next
        BY <2>5, <2>6
    <2>8. ASSUME NEW n \in 1..(k + 1) PROVE g[n] = step[n][g[n - 1]]
        <3>1. CASE n = k + 1
            <4>1. n - 1 = k
                BY <3>1
            <4> QED
                BY <2>3, <2>4, <2>7, <3>1, <4>1
        <3>2. CASE n # k + 1
            <4>1. n \in 1..k /\ n \in 0..k /\ n - 1 \in 0..k
                BY <3>2
            <4> QED
                BY <2>2, <2>7, <4>1
        <3> QED
            BY <3>1, <3>2
    <2>9. g[0] = base
        BY <2>2, <2>7
    <2> QED
        BY <2>7, <2>8, <2>9
<1> HIDE DEF All
<1>3. l \in All
    BY <1>1, <1>2, Induction
<1> QED
    BY <1>3 DEF All
=============================================================================
