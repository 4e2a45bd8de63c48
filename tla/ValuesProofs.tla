---------------------------- MODULE ValuesProofs ----------------------------
(***************************************************************************)
(* The values of the SNMP library and a reading made of them: objects hold *)
(* what was meant and print it, identifiers are compared in the order of   *)
(* the management tree, for any numbers and lengths, and a reading tells   *)
(* what the device said.                                                   *)
(***************************************************************************)
EXTENDS ReadValue, TLAPS, SequenceTheorems, WellFoundedInduction

\* A set of numbers that is not empty has a least one.
LEMMA LeastNumber ==
    ASSUME NEW T, T \subseteq Nat, T # {}
    PROVE  \E x \in T : \A y \in T : x <= y
<1> DEFINE R == OpToRel(<, Nat)
<1>1. R = {ss \in Nat \X Nat : ss[1] < ss[2]}
  BY DEF OpToRel
<1>2. IsWellFoundedOn(R, Nat)
  BY NatLessThanWellFounded
<1> HIDE DEF R
<1>3. PICK x \in T : \A y \in T : ~(<<y, x>> \in R)
  BY <1>2, WFMin
<1>4. ASSUME NEW y \in T PROVE x <= y
  <2>1. <<y, x>> \in Nat \X Nat /\ ~(<<y, x>> \in R)
    BY <1>3
  <2>2. ~(y < x)
    BY <1>1, <2>1
  <2>3. QED
    BY <2>1, <2>2
<1>5. QED
  BY <1>4

\* What holds of 0 and of the next number holds of all of them.
LEMMA Reached ==
    ASSUME NEW K \in Nat, NEW T, 0 \in T, \A n \in 1..K : n - 1 \in T => n \in T
    PROVE  \A n \in 0..K : n \in T
<1> DEFINE missing == {n \in 0..K : n \notin T}
<1>1. SUFFICES ASSUME missing # {} PROVE FALSE
  OBVIOUS
<1>2. missing \subseteq Nat
  OBVIOUS
<1>3. PICK x \in missing : \A y \in missing : x <= y
  BY <1>1, <1>2, LeastNumber
<1>4. x \in 1..K /\ x - 1 \in 0..K /\ x - 1 \notin missing
  BY <1>3
<1>5. QED
  BY <1>3, <1>4

\* A loop whose step leads from a state of S[n - 1] to one of S[n] runs to its end.
Runs(f, K, base, step) ==
    f = [n \in 0..K |-> IF n = 0 THEN base ELSE step[<<n, f[n - 1]>>]]

LEMMA LoopRuns ==
    ASSUME NEW K \in Nat, NEW S, NEW base \in S[0], NEW step,
           \A n \in 1..K : \A x \in S[n - 1] : step[<<n, x>>] \in S[n]
    PROVE  \E f : Runs(f, K, base, step) /\ \A n \in 0..K : f[n] \in S[n]
<1> DEFINE Good2(f, k) == Runs(f, k, base, step) /\ \A n \in 0..k : f[n] \in S[n]
           T == {k \in 0..K : \E f : Good2(f, k)}
<1>1. 0 \in T
  <2> DEFINE f == [n \in 0..0 |-> base]
  <2>1. Good2(f, 0)
    BY DEF Runs
  <2>2. QED
    BY <2>1
<1>2. ASSUME NEW k \in 1..K, k - 1 \in T PROVE k \in T
  <2>1. PICK f : Good2(f, k - 1)
    BY <1>2
  <2> DEFINE new == step[<<k, f[k - 1]>>]
             g == [n \in 0..k |-> IF n = k THEN new ELSE f[n]]
  <2>2. DOMAIN f = 0..(k - 1) /\ \A n \in 0..(k - 1) : f[n] \in S[n]
    BY <2>1 DEF Runs
  <2>3. \A n \in 0..(k - 1) : f[n] = IF n = 0 THEN base ELSE step[<<n, f[n - 1]>>]
    BY <2>1 DEF Runs
  <2>4. new \in S[k]
    BY <2>2
  <2> HIDE DEF new
  <2>5. \A n \in 0..k : g[n] \in S[n]
    BY <2>2, <2>4
  <2>6. \A n \in 0..k : g[n] = IF n = 0 THEN base ELSE step[<<n, g[n - 1]>>]
    <3> SUFFICES ASSUME NEW n \in 0..k
                 PROVE  g[n] = IF n = 0 THEN base ELSE step[<<n, g[n - 1]>>]
      OBVIOUS
    <3>1. CASE n = k
      BY <3>1 DEF new
    <3>2. CASE n # k
      <4>1. n \in 0..(k - 1) /\ g[n] = f[n]
        BY <3>2
      <4>2. CASE n = 0
        BY <2>3, <4>1, <4>2
      <4>3. CASE n # 0
        <5>1. n - 1 \in 0..k /\ n - 1 # k
          BY <4>1, <4>3
        <5>2. g[n - 1] = f[n - 1]
          BY <5>1
        <5>3. f[n] = step[<<n, f[n - 1]>>]
          BY <2>3, <4>1, <4>3
        <5> HIDE DEF g
        <5>4. QED
          BY <4>1, <4>3, <5>2, <5>3
      <4>4. QED
        BY <4>2, <4>3
    <3>3. QED
      BY <3>1, <3>2
  <2>7. g = [n \in 0..k |-> g[n]]
    OBVIOUS
  <2> HIDE DEF g
  <2>8. Runs(g, k, base, step)
    BY <2>6, <2>7 DEF Runs
  <2>9. QED
    BY <2>5, <2>8
<1>3. K \in T
  <2> HIDE DEF T
  <2>1. QED
    BY <1>1, <1>2, Reached
<1>4. QED
  BY <1>3

LEMMA DivMod ==
    ASSUME NEW m \in Nat \ {0}, NEW n \in Nat
    PROVE  n \div m \in Nat /\ n % m \in 0..(m - 1) /\ n = m * (n \div m) + (n % m)
OBVIOUS

LEMMA DivIs ==
    ASSUME NEW m \in Nat \ {0}, NEW q \in Nat, NEW r \in 0..(m - 1)
    PROVE  (m * q + r) \div m = q /\ (m * q + r) % m = r
<1> DEFINE n == m * q + r
<1>1. n \in Nat
  BY DEF n
<1>2. PICK a \in Nat, b \in 0..(m - 1) : a = n \div m /\ b = n % m /\ n = m * a + b
  BY <1>1, DivMod
<1>3. ASSUME NEW x \in Nat, NEW y \in Nat, x < y PROVE m * x + m <= m * y
  <2>1. PICK d \in Nat : y = x + 1 + d
    <3>1. y - x - 1 \in Nat /\ y = x + 1 + (y - x - 1)
      BY <1>3
    <3>2. QED
      BY <3>1
  <2>2. m * y = m * x + m + m * d /\ m * d >= 0
    BY <2>1
  <2>3. QED
    BY <2>2
<1>4. ~(a < q)
  <2>1. SUFFICES ASSUME a < q PROVE FALSE
    OBVIOUS
  <2>2. m * a + m <= m * q
    BY <1>3, <2>1
  <2>3. QED
    BY <1>2, <2>2
<1>5. ~(q < a)
  <2>1. SUFFICES ASSUME q < a PROVE FALSE
    OBVIOUS
  <2>2. m * q + m <= m * a
    BY <1>3, <2>1
  <2>3. QED
    BY <1>2, <2>2
<1>6. a = q
  BY <1>4, <1>5
<1>7. QED
  BY <1>2, <1>6

-----------------------------------------------------------------------------
\* The order of the identifiers, number by number.
SameUpTo(s, t, n) == \A y \in 1..n : s[y] = t[y]
Before(s, t) ==
    \/ Len(s) < Len(t) /\ SameUpTo(s, t, Len(s))
    \/ \E z \in 1..Len(s) : z <= Len(t) /\ SameUpTo(s, t, z - 1) /\ s[z] < t[z]

LEMMA HeadsEqual ==
    ASSUME NEW s \in Seq(Int), NEW t \in Seq(Int), NEW n \in Nat, n <= Len(s), n <= Len(t)
    PROVE  SubSeq(s, 1, n) = SubSeq(t, 1, n) <=> SameUpTo(s, t, n)
<1>1. Len(s) \in Nat /\ Len(t) \in Nat
  BY LenProperties
<1>2. \A i \in 1..n : s[i] \in Int /\ t[i] \in Int
  BY <1>1, ElementOfSeq
<1>3. /\ SubSeq(s, 1, n) \in Seq(Int) /\ Len(SubSeq(s, 1, n)) = n
      /\ \A i \in 1..n : SubSeq(s, 1, n)[i] = s[i]
  BY <1>2, SubSeqProperties
<1>4. /\ SubSeq(t, 1, n) \in Seq(Int) /\ Len(SubSeq(t, 1, n)) = n
      /\ \A i \in 1..n : SubSeq(t, 1, n)[i] = t[i]
  BY <1>2, SubSeqProperties
<1>5. CASE SameUpTo(s, t, n)
  BY <1>3, <1>4, <1>5, SeqEqual DEF SameUpTo
<1>6. CASE SubSeq(s, 1, n) = SubSeq(t, 1, n)
  BY <1>3, <1>4, <1>6 DEF SameUpTo
<1>7. QED
  BY <1>5, <1>6

LEMMA PrecedesIsBefore ==
    ASSUME NEW s \in Seq(Int), NEW t \in Seq(Int)
    PROVE  Precedes(s, t) <=> Before(s, t)
<1>1. Len(s) \in Nat /\ Len(t) \in Nat
  BY LenProperties
<1>2. Len(s) <= Len(t) => (s = SubSeq(t, 1, Len(s)) <=> SameUpTo(s, t, Len(s)))
  BY <1>1, HeadsEqual, SubSeqFull
<1>3. ASSUME NEW z \in 1..Len(s), z <= Len(t)
      PROVE  SubSeq(s, 1, z - 1) = SubSeq(t, 1, z - 1) <=> SameUpTo(s, t, z - 1)
  <2>1. z - 1 \in Nat /\ z - 1 <= Len(s) /\ z - 1 <= Len(t)
    BY <1>1, <1>3
  <2>2. QED
    BY <2>1, HeadsEqual
<1>4. \A z : z \in 1..MinOf(Len(s), Len(t)) <=> z \in 1..Len(s) /\ z <= Len(t)
  BY <1>1 DEF MinOf
<1> DEFINE P(z) == SubSeq(s, 1, z - 1) = SubSeq(t, 1, z - 1) /\ s[z] < t[z]
           Q(z) == SameUpTo(s, t, z - 1) /\ s[z] < t[z]
<1>5. \A z : z \in 1..Len(s) /\ z <= Len(t) => (P(z) <=> Q(z))
  BY <1>3
<1>6. /\ Precedes(s, t) <=> \/ Len(s) < Len(t) /\ s = SubSeq(t, 1, Len(s))
                           \/ \E z \in 1..MinOf(Len(s), Len(t)) : P(z)
      /\ Before(s, t) <=> \/ Len(s) < Len(t) /\ SameUpTo(s, t, Len(s))
                         \/ \E z \in 1..Len(s) : z <= Len(t) /\ Q(z)
  BY DEF Precedes, Before
<1> HIDE DEF P, Q
<1>7. (\E z \in 1..MinOf(Len(s), Len(t)) : P(z)) <=> (\E z \in 1..Len(s) : z <= Len(t) /\ Q(z))
  BY <1>4, <1>5
<1>8. QED
  BY <1>1, <1>2, <1>6, <1>7

\* Of two identifiers they are the same, or there is a first number in which they
\* differ, or one begins the other; and only one of these.
LEMMA FirstDifference ==
    ASSUME NEW s \in Seq(Int), NEW t \in Seq(Int), NEW n \in Nat, n <= Len(s), n <= Len(t),
           ~SameUpTo(s, t, n)
    PROVE  \E z \in 1..n : s[z] # t[z] /\ SameUpTo(s, t, z - 1)
                          /\ \A y \in 1..n : s[y] # t[y] => z <= y
<1> DEFINE differ == {z \in 1..n : s[z] # t[z]}
<1>1. differ \subseteq Nat
  OBVIOUS
<1>2. PICK x \in 1..n : s[x] # t[x]
  BY DEF SameUpTo
<1>3. differ # {}
  BY <1>2
<1>4. PICK z \in differ : \A y \in differ : z <= y
  <2> HIDE DEF differ
  <2>1. QED
    BY <1>1, <1>3, LeastNumber
<1>5. z \in Nat /\ 1 <= z /\ z <= n
  BY <1>4
<1>6. ASSUME NEW y \in 1..z - 1 PROVE s[y] = t[y]
  <2>1. y \in Nat /\ y \in 1..n /\ ~(z <= y)
    BY <1>5
  <2>2. ~(y \in differ)
    <3> HIDE DEF differ
    <3>1. QED
      BY <1>4, <2>1
  <2>3. QED
    BY <2>1, <2>2
<1>7. QED
  BY <1>4, <1>5, <1>6 DEF SameUpTo

LEMMA SameIsEqual ==
    ASSUME NEW s \in Seq(Int), NEW t \in Seq(Int)
    PROVE  s = t <=> Len(s) = Len(t) /\ SameUpTo(s, t, Len(s))
BY SeqEqual DEF SameUpTo

\* At the first difference the order is decided.
LEMMA DecidedAt ==
    ASSUME NEW s \in Seq(Int), NEW t \in Seq(Int), NEW z \in 1..Len(s), z <= Len(t),
           SameUpTo(s, t, z - 1), s[z] # t[z]
    PROVE  s # t /\ (Before(s, t) <=> s[z] < t[z]) /\ (Before(t, s) <=> t[z] < s[z])
<1>1. Len(s) \in Nat /\ Len(t) \in Nat /\ z \in 1..Len(t) /\ s[z] \in Int /\ t[z] \in Int
  BY LenProperties, ElementOfSeq
<1>2. ASSUME NEW y \in 1..Len(s), y <= Len(t), SameUpTo(s, t, y - 1), s[y] < t[y]
      PROVE  s[z] < t[z]
  <2>1. ~(z < y)
    BY <1>1, <1>2 DEF SameUpTo
  <2>2. ~(y < z)
    <3>1. t[y] \in Int /\ s[y] \in Int
      BY <1>1, <1>2, ElementOfSeq
    <3>2. QED
      BY <1>1, <1>2, <3>1 DEF SameUpTo
  <2>3. QED
    BY <1>1, <1>2, <2>1, <2>2
<1>3. ASSUME NEW y \in 1..Len(t), y <= Len(s), SameUpTo(t, s, y - 1), t[y] < s[y]
      PROVE  t[z] < s[z]
  <2>1. ~(z < y)
    BY <1>1, <1>3 DEF SameUpTo
  <2>2. ~(y < z)
    <3>1. t[y] \in Int /\ s[y] \in Int
      BY <1>1, <1>3, ElementOfSeq
    <3>2. QED
      BY <1>1, <1>3, <3>1 DEF SameUpTo
  <2>3. QED
    BY <1>1, <1>3, <2>1, <2>2
<1>4. ~SameUpTo(s, t, Len(s)) /\ ~SameUpTo(t, s, Len(t))
  BY <1>1 DEF SameUpTo
<1>5. Before(s, t) <=> s[z] < t[z]
  BY <1>2, <1>4 DEF Before
<1>6. Before(t, s) <=> t[z] < s[z]
  <2>1. SameUpTo(t, s, z - 1)
    BY DEF SameUpTo
  <2>2. QED
    BY <1>1, <1>3, <1>4, <2>1 DEF Before
<1>7. QED
  BY <1>5, <1>6

\* Where there is none the lengths decide.
LEMMA DecidedByLength ==
    ASSUME NEW s \in Seq(Int), NEW t \in Seq(Int), Len(s) <= Len(t),
           SameUpTo(s, t, Len(s))
    PROVE  /\ s = t <=> Len(s) = Len(t)
           /\ Before(s, t) <=> Len(s) < Len(t)
           /\ ~Before(t, s)
<1>1. Len(s) \in Nat /\ Len(t) \in Nat
  BY LenProperties
<1>2. \A y \in 1..Len(s) : s[y] = t[y] /\ s[y] \in Int
  BY <1>1, ElementOfSeq DEF SameUpTo
<1>3. s = t <=> Len(s) = Len(t)
  BY SameIsEqual
<1>4. ~\E z \in 1..Len(s) : z <= Len(t) /\ SameUpTo(s, t, z - 1) /\ s[z] < t[z]
  BY <1>2
<1>5. ~\E z \in 1..Len(t) : z <= Len(s) /\ SameUpTo(t, s, z - 1) /\ t[z] < s[z]
  BY <1>1, <1>2
<1>6. QED
  BY <1>1, <1>3, <1>4, <1>5 DEF Before

\* The first numbers of an identifier, and what a comparison should return.
Leading(s, n) == SubSeq(s, 1, MinOf(n, Len(s)))
Order(s, t, r) ==
    /\ r \in {-1, 0, 1}
    /\ r = 0 <=> s = t
    /\ r = -1 <=> Before(s, t)
    /\ r = 1 <=> Before(t, s)

LEMMA Fronts ==
    ASSUME NEW s \in Seq(Int), NEW n \in Nat
    PROVE  /\ Leading(s, n) \in Seq(Int) /\ Len(Leading(s, n)) = MinOf(n, Len(s))
           /\ MinOf(n, Len(s)) \in Nat
           /\ \A i \in 1..MinOf(n, Len(s)) : Leading(s, n)[i] = s[i]
<1>1. Len(s) \in Nat /\ MinOf(n, Len(s)) \in 0..Len(s)
  BY LenProperties DEF MinOf
<1>2. \A i \in 1..MinOf(n, Len(s)) : s[i] \in Int
  BY <1>1, ElementOfSeq
<1>3. QED
  BY <1>1, <1>2, SubSeqProperties DEF Leading

\* nCompare over the first numbers puts them in that order.
LEMMA Compares ==
    ASSUME NEW s \in Seq(Int), NEW t \in Seq(Int), NEW n \in Nat
    PROVE  Order(Leading(s, n), Leading(t, n), CompareUpTo(n, s, t))
<1> DEFINE a == Leading(s, n)
           b == Leading(t, n)
           shared == MinOf(n, MinOf(Len(s), Len(t)))
           differ == {z \in 1..shared : s[z] # t[z]}
           first == CHOOSE z \in differ : \A y \in differ : z <= y
           r == CompareUpTo(n, s, t)
<1>1. /\ a \in Seq(Int) /\ Len(a) = MinOf(n, Len(s)) /\ \A i \in 1..Len(a) : a[i] = s[i]
      /\ b \in Seq(Int) /\ Len(b) = MinOf(n, Len(t)) /\ \A i \in 1..Len(b) : b[i] = t[i]
      /\ Len(s) \in Nat /\ Len(t) \in Nat
  BY Fronts, LenProperties
<1>2. /\ shared \in Nat /\ shared <= Len(s) /\ shared <= Len(t) /\ shared <= n
      /\ shared <= Len(a) /\ shared <= Len(b) /\ shared = MinOf(Len(a), Len(b))
      /\ shared < n => (shared = Len(s) \/ shared = Len(t))
      /\ shared = n => Len(a) = n /\ Len(b) = n
      /\ Len(a) <= Len(s) /\ Len(b) <= Len(t) /\ Len(a) \in Nat /\ Len(b) \in Nat
  BY <1>1 DEF MinOf
<1>3. r = IF differ # {} THEN Sign(s[first], t[first])
          ELSE IF shared < n THEN Sign(Len(s), Len(t)) ELSE 0
  BY DEF CompareUpTo
<1> HIDE DEF a, b, r
<1>4. CASE differ # {}
  <2>1. ~SameUpTo(s, t, shared)
    BY <1>4 DEF SameUpTo
  <2>2. PICK z \in 1..shared : /\ s[z] # t[z] /\ SameUpTo(s, t, z - 1)
                              /\ \A y \in 1..shared : s[y] # t[y] => z <= y
    BY <1>2, <2>1, FirstDifference
  <2>3. z \in differ /\ \A y \in differ : z <= y
    BY <2>2
  <2>4. first \in differ /\ \A y \in differ : first <= y
    BY <2>3
  <2>5. differ \subseteq Nat
    BY <1>2
  <2> HIDE DEF differ, first
  <2>6. z <= first /\ first <= z /\ z \in Nat /\ first \in Nat
    BY <2>3, <2>4, <2>5
  <2>7. first = z
    BY <2>6
  <2>8. r = Sign(s[z], t[z])
    BY <1>3, <1>4, <2>7
  <2>9. /\ z \in 1..Len(a) /\ z <= Len(b) /\ z \in 1..Len(s) /\ z \in 1..Len(t)
        /\ z \in 1..Len(b)
    <3> HIDE DEF shared
    <3>1. ASSUME NEW k \in Nat, shared <= k PROVE z \in 1..k /\ z <= k
      BY <1>2, <3>1
    <3>2. QED
      BY <1>1, <1>2, <3>1
  <2>10. a[z] = s[z] /\ b[z] = t[z] /\ s[z] \in Int /\ t[z] \in Int
    BY <1>1, <2>9, ElementOfSeq
  <2>11. SameUpTo(a, b, z - 1)
    <3> SUFFICES ASSUME NEW y \in 1..z - 1 PROVE a[y] = b[y]
      BY DEF SameUpTo
    <3>1. y \in 1..Len(a) /\ y \in 1..Len(b)
      BY <1>2, <2>9
    <3>2. QED
      BY <1>1, <2>2, <3>1 DEF SameUpTo
  <2>12. a # b /\ (Before(a, b) <=> a[z] < b[z]) /\ (Before(b, a) <=> b[z] < a[z])
    BY <1>1, <2>2, <2>9, <2>10, <2>11, DecidedAt
  <2>13. Order(a, b, r)
    BY <2>2, <2>8, <2>10, <2>12 DEF Order, Sign
  <2>14. QED
    BY <2>13 DEF a, b, r
<1>5. CASE differ = {}
  <2>1. SameUpTo(a, b, shared) /\ SameUpTo(b, a, shared)
    <3>1. \A y \in 1..shared : s[y] = t[y]
      BY <1>5
    <3> HIDE DEF shared, differ
    <3>2. \A y \in 1..shared : y \in 1..Len(a) /\ y \in 1..Len(b)
      BY <1>2
    <3>3. QED
      BY <1>1, <3>1, <3>2 DEF SameUpTo
  <2>2. r = IF shared < n THEN Sign(Len(s), Len(t)) ELSE 0
    BY <1>3, <1>5
  <2> HIDE DEF shared, differ
  <2>3. CASE Len(a) <= Len(b)
    <3>1. shared = Len(a)
      BY <1>2, <2>3 DEF MinOf
    <3>2. /\ a = b <=> Len(a) = Len(b)
          /\ Before(a, b) <=> Len(a) < Len(b)
          /\ ~Before(b, a)
      BY <1>1, <2>1, <2>3, <3>1, DecidedByLength
    <3>3. r = Sign(Len(a), Len(b))
      BY <1>1, <1>2, <2>2, <2>3, <3>1 DEF Sign, MinOf
    <3>4. Order(a, b, r)
      BY <1>2, <2>3, <3>2, <3>3 DEF Order, Sign
    <3>5. QED
      BY <3>4 DEF a, b, r
  <2>4. CASE Len(b) < Len(a)
    <3>1. shared = Len(b)
      BY <1>2, <2>4 DEF MinOf
    <3>2. /\ b = a <=> Len(b) = Len(a)
          /\ Before(b, a) <=> Len(b) < Len(a)
          /\ ~Before(a, b)
      BY <1>1, <1>2, <2>1, <2>4, <3>1, DecidedByLength
    <3>3. r = Sign(Len(a), Len(b))
      BY <1>1, <1>2, <2>2, <2>4, <3>1 DEF Sign, MinOf
    <3>4. Order(a, b, r)
      BY <1>2, <2>4, <3>2, <3>3 DEF Order, Sign
    <3>5. QED
      BY <3>4 DEF a, b, r
  <2>5. QED
    BY <1>2, <2>3, <2>4
<1>6. QED
  BY <1>4, <1>5

\* An identifier is its own first numbers, as many as it has or more.
LEMMA WholeFront ==
    ASSUME NEW s \in Seq(Int), NEW n \in Nat, Len(s) <= n
    PROVE  Leading(s, n) = s
<1>1. Len(s) \in Nat /\ MinOf(n, Len(s)) = Len(s)
  BY LenProperties DEF MinOf
<1>2. QED
  BY <1>1, SubSeqFull DEF Leading

LEMMA ComparesWhole ==
    ASSUME NEW o, NEW c, o.value \in Seq(Int), c.value \in Seq(Int)
    PROVE  Order(o.value, c.value, NCompare(o, c))
<1> DEFINE s == o.value
           t == c.value
           n == MaxOf(Len(s), Len(t))
<1>1. Len(s) \in Nat /\ Len(t) \in Nat /\ n \in Nat /\ Len(s) <= n /\ Len(t) <= n
  BY LenProperties DEF MaxOf
<1>2. Leading(s, n) = s /\ Leading(t, n) = t
  BY <1>1, WholeFront
<1>3. Order(Leading(s, n), Leading(t, n), CompareUpTo(n, s, t))
  BY <1>1, Compares
<1>4. QED
  BY <1>2, <1>3 DEF NCompare

LEMMA ComparesFronts ==
    ASSUME NEW o, NEW c, o.value \in Seq(Int), c.value \in Seq(Int), NEW n \in Nat
    PROVE  Order(Leading(o.value, n), Leading(c.value, n), NComparePrefix(n, o, c))
<1> DEFINE s == o.value
           t == c.value
           m == MinOf(n, MaxOf(Len(s), Len(t)))
<1>1. /\ Len(s) \in Nat /\ Len(t) \in Nat /\ m \in Nat
      /\ MinOf(m, Len(s)) = MinOf(n, Len(s)) /\ MinOf(m, Len(t)) = MinOf(n, Len(t))
  BY LenProperties DEF MaxOf, MinOf
<1>2. Leading(s, m) = Leading(s, n) /\ Leading(t, m) = Leading(t, n)
  BY <1>1 DEF Leading
<1>3. Order(Leading(s, m), Leading(t, m), CompareUpTo(m, s, t))
  BY <1>1, Compares
<1>4. QED
  BY <1>2, <1>3 DEF NComparePrefix

\* What the comparison operators and the parts of identifiers say, for any two.
LEMMA OidOperators ==
    ASSUME NEW o, NEW c, o.value \in Seq(Int), c.value \in Seq(Int)
    PROVE  /\ OidEq(o, c) <=> o.value = c.value
           /\ OidLt(o, c) <=> Before(o.value, c.value)
           /\ OidGt(o, c) <=> Before(c.value, o.value)
           /\ OidLe(o, c) <=> ~OidGt(o, c)
           /\ OidGe(o, c) <=> ~OidLt(o, c)
           /\ OidNe(o, c) <=> OidLt(o, c) \/ OidGt(o, c)
<1> DEFINE r == NCompare(o, c)
<1>1. Order(o.value, c.value, r)
  BY ComparesWhole
<1>2. o.value = c.value => Len(o.value) = Len(c.value)
  OBVIOUS
<1>3. /\ OidEq(o, c) <=> Len(o.value) = Len(c.value) /\ r = 0
      /\ OidLt(o, c) <=> r < 0 \/ (r = 0 /\ Len(o.value) < Len(c.value))
      /\ OidNe(o, c) <=> ~OidEq(o, c)
      /\ OidLe(o, c) <=> OidLt(o, c) \/ OidEq(o, c)
      /\ OidGt(o, c) <=> ~OidLe(o, c)
      /\ OidGe(o, c) <=> ~OidLt(o, c)
  BY DEF OidEq, OidLt, OidNe, OidLe, OidGt, OidGe
<1> HIDE DEF r
<1>4. Len(o.value) \in Nat /\ Len(c.value) \in Nat
  BY LenProperties
<1>5. OidEq(o, c) <=> r = 0
  BY <1>1, <1>2, <1>3 DEF Order
<1>6. OidLt(o, c) <=> r = -1
  BY <1>1, <1>2, <1>3, <1>4 DEF Order
<1>7. OidGt(o, c) <=> r = 1
  BY <1>1, <1>3, <1>5, <1>6 DEF Order
<1>8. QED
  BY <1>1, <1>3, <1>5, <1>6, <1>7 DEF Order

-----------------------------------------------------------------------------
\* An object of a caller: labelled as its class, with a value of the form that its
\* class has, which is what it stands for, and no text of another value.
Classes == Numbers \cup Strings \cup {"Counter64", "Oid", "IpAddress", "UdpAddress", "msec"}
Objects == [class : Classes, syntax : Int, value : Seq(Int), meant : Seq(Int),
            valid : BOOLEAN, changed : BOOLEAN, text : Seq(Int)]
Fits(class, v, valid) ==
    /\ class \in Numbers => Len(v) = 1
    /\ class = "Counter64" => Len(v) = 2 /\ v[1] \in Nat /\ v[2] \in ULongs
    /\ class = "Oid" => Len(v) <= MaxOid /\ (valid <=> v # <<>>)
    /\ class \in {"IpAddress", "UdpAddress"} => Len(v) = ADDRBUF + 1 /\ v[1] \in Families
    /\ class = "msec" =>
          Len(v) = 2 /\ \/ v[1] \in Nat /\ v[2] \in Nat
                        \/ v[1] = -1 /\ v[2] = 0
Good(o) ==
    /\ o \in Objects
    /\ o.syntax = sNMP_SYNTAX[o.class]
    /\ Fits(o.class, o.value, o.valid)
    /\ o.meant = IF o.class = "Counter64" THEN <<ToUInt64(o)>> ELSE o.value
    /\ o.changed \/ o.text = o.value
ValuesInv == objs \in [{"a", "b"} -> Objects] /\ \A h \in {"a", "b"} : Good(objs[h])

LEMMA Syntaxes ==
    /\ \A class \in Classes : sNMP_SYNTAX[class] \in Int
    /\ \A o : o.class \in Classes => Syntax(o) = sNMP_SYNTAX[o.class]
<1>1. \A class \in Classes : sNMP_SYNTAX[class] \in Int
  BY DEF sNMP_SYNTAX, Classes, Numbers, Derived, Strings
<1>2. ASSUME NEW o, o.class \in Classes PROVE Syntax(o) = sNMP_SYNTAX[o.class]
  <2> DEFINE C(c) == o.class = c
  <2>1. o.class \in {"SnmpUInt32", "SnmpInt32", "Counter32", "Gauge32", "TimeTicks", "Counter64",
                     "Oid", "OctetStr", "OpaqueStr", "IpAddress", "UdpAddress", "msec"}
    BY <1>2 DEF Classes, Numbers, Derived, Strings
  <2>2. QED
    BY <2>1 DEF Syntax, sNMP_SYNTAX, SnmpUInt32Syntax, SnmpInt32Syntax, Counter32Syntax,
       Gauge32Syntax, TimeTicksSyntax, Counter64Syntax, OidSyntax, OctetStrSyntax,
       OpaqueStrSyntax, IpSyntax, UdpSyntax
<1>3. QED
  BY <1>1, <1>2

LEMMA ShortSequences ==
    /\ <<>> \in Seq(Int) /\ Len(<<>>) = 0
    /\ \A i \in Int : <<i>> \in Seq(Int) /\ Len(<<i>>) = 1 /\ <<i>>[1] = i /\ <<i>> # <<>>
    /\ \A i, j \in Int : /\ <<i, j>> \in Seq(Int) /\ Len(<<i, j>>) = 2
                         /\ <<i, j>>[1] = i /\ <<i, j>>[2] = j
    /\ \A s \in Seq(Int) : Len(s) = 1 => s = <<s[1]>> /\ s[1] \in Int
    /\ \A s \in Seq(Int) : Len(s) = 2 => s = <<s[1], s[2]>> /\ s[1] \in Int /\ s[2] \in Int
<1>1. <<>> \in Seq(Int) /\ Len(<<>>) = 0
  BY EmptySeq
<1>2. \A i \in Int : <<i>> \in Seq(Int) /\ Len(<<i>>) = 1 /\ <<i>>[1] = i /\ <<i>> # <<>>
  OBVIOUS
<1>3. \A i, j \in Int : /\ <<i, j>> \in Seq(Int) /\ Len(<<i, j>>) = 2
                        /\ <<i, j>>[1] = i /\ <<i, j>>[2] = j
  OBVIOUS
<1>4. ASSUME NEW s \in Seq(Int), Len(s) = 1 PROVE s = <<s[1]>> /\ s[1] \in Int
  <2>1. s[1] \in Int
    BY <1>4, ElementOfSeq
  <2>2. \A i \in 1..Len(s) : s[i] = <<s[1]>>[i]
    BY <1>4
  <2>3. QED
    BY <1>2, <1>4, <2>1, <2>2, SeqEqual
<1>5. ASSUME NEW s \in Seq(Int), Len(s) = 2 PROVE s = <<s[1], s[2]>> /\ s[1] \in Int /\ s[2] \in Int
  <2>1. s[1] \in Int /\ s[2] \in Int
    BY <1>5, ElementOfSeq
  <2>2. \A i \in 1..Len(s) : s[i] = <<s[1], s[2]>>[i]
    BY <1>5
  <2>3. QED
    BY <1>3, <1>5, <2>1, <2>2, SeqEqual
<1>6. QED
  BY <1>1, <1>2, <1>3, <1>4, <1>5

\* The two parts of a number of 64 bits.
LEMMA Parts64 ==
    /\ Radix \in Nat \ {0}
    /\ \A n \in Nat : /\ n \div Radix \in Nat /\ n % Radix \in ULongs
                      /\ (n \div Radix) * Radix + (n % Radix) = n
    /\ \A hi \in Nat, lo \in ULongs :
          /\ hi * Radix + lo \in Nat /\ hi * Radix + lo \in Int
          /\ (hi * Radix + lo) \div Radix = hi /\ (hi * Radix + lo) % Radix = lo
<1>1. Radix \in Nat \ {0}
  BY ValuesAssumption
<1>2. ASSUME NEW n \in Nat
      PROVE  /\ n \div Radix \in Nat /\ n % Radix \in ULongs
             /\ (n \div Radix) * Radix + (n % Radix) = n
  BY <1>1 DEF ULongs
<1>3. ASSUME NEW hi \in Nat, NEW lo \in ULongs
      PROVE  /\ hi * Radix + lo \in Nat /\ hi * Radix + lo \in Int
             /\ (hi * Radix + lo) \div Radix = hi /\ (hi * Radix + lo) % Radix = lo
  BY <1>1 DEF ULongs
<1>4. QED
  BY <1>1, <1>2, <1>3

LEMMA OidParts ==
    ASSUME NEW o, Good(o), NEW n \in 1..Len(o.value)
    PROVE  OidTrim(o, n).value \o OidTail(o, n) = o.value
<1> DEFINE s == o.value
           k == Len(s) - n
<1>0. o \in Objects /\ s \in Seq(Int)
  BY DEF Good, Objects
<1>1. /\ Len(s) \in Nat /\ k \in 0..Len(s) /\ 1 \in 1..Len(s) + 1 /\ k \in 1 - 1..Len(s)
      /\ Len(s) \in k..Len(s) /\ Len(s) - n + 1 = k + 1 /\ k + 1 + n - 1 = Len(s)
  BY <1>0, LenProperties
<1>2. SubSeq(s, 1, k) \o SubSeq(s, k + 1, Len(s)) = SubSeq(s, 1, Len(s))
  BY <1>0, <1>1, ConcatAdjacentSubSeq
<1>3. SubSeq(s, 1, Len(s)) = s
  BY <1>0, SubSeqFull
<1>4. OidTail(o, n) = SubSeq(s, k + 1, Len(s))
  BY <1>1 DEF OidTail, OidPart
<1>5. OidTrim(o, n).value = SubSeq(s, 1, k)
  BY <1>0 DEF Objects, OidTrim, DeleteOidPtr, Touched
<1>6. QED
  BY <1>2, <1>3, <1>4, <1>5

-----------------------------------------------------------------------------
\* A new object, and one that was written.
LEMMA NewIsGood ==
    ASSUME NEW class \in Classes, NEW v \in Seq(Int), class # "Counter64", Fits(class, v, TRUE)
    PROVE  Good(Object(class, v, v)) /\ Object(class, v, v).class = class
<1>1. sNMP_SYNTAX[class] \in Int /\ <<>> \in Seq(Int)
  BY Syntaxes, ShortSequences
<1>2. QED
  BY <1>1 DEF Good, Objects, Object, Unset

\* What a derived class puts on top of an object of its base.
LEMMA RelabelledIsGood ==
    ASSUME NEW o, Good(o), NEW class \in Classes, class # "Counter64", o.class # "Counter64",
           Fits(class, o.value, o.valid)
    PROVE  Good(Relabelled(class, o))
BY Syntaxes DEF Good, Objects, Relabelled

LEMMA NewNumbers ==
    \A i \in Int : /\ Good(SnmpUInt32(i)) /\ Good(SnmpInt32(i)) /\ Good(Counter32New(i))
                  /\ Good(Gauge32New(i)) /\ Good(TimeTicksNew(i))
<1> SUFFICES ASSUME NEW i \in Int
             PROVE  /\ Good(SnmpUInt32(i)) /\ Good(SnmpInt32(i)) /\ Good(Counter32New(i))
                    /\ Good(Gauge32New(i)) /\ Good(TimeTicksNew(i))
  OBVIOUS
<1>1. <<i>> \in Seq(Int) /\ Len(<<i>>) = 1
  BY ShortSequences
<1>2. ASSUME NEW class \in Numbers PROVE Good(Object(class, <<i>>, <<i>>))
  BY <1>1, NewIsGood DEF Fits, Classes, Numbers, Derived
<1>3. ASSUME NEW class \in Derived PROVE Good(Relabelled(class, SnmpUInt32(i)))
  <2>1. Good(SnmpUInt32(i)) /\ SnmpUInt32(i).class = "SnmpUInt32" /\ SnmpUInt32(i).value = <<i>>
    BY <1>2 DEF SnmpUInt32, Object, Numbers
  <2>2. QED
    BY <1>1, <2>1, RelabelledIsGood DEF Fits, Classes, Numbers, Derived
<1>4. QED
  BY <1>2, <1>3 DEF Numbers, Derived, SnmpUInt32, SnmpInt32, Counter32New, Gauge32New,
     TimeTicksNew

LEMMA NewCounter64 ==
    ASSUME NEW hi \in Nat, NEW lo \in ULongs
    PROVE  Good(Counter64Parts(hi, lo)) /\ Good(Counter64(hi * Radix + lo))
<1>1. /\ hi * Radix + lo \in Nat /\ lo \in Int /\ hi \in Int /\ Radix \in Nat
      /\ (hi * Radix + lo) \div Radix = hi /\ (hi * Radix + lo) % Radix = lo
  BY Parts64 DEF ULongs
<1> DEFINE n == hi * Radix + lo
<1>2. /\ <<hi, lo>> \in Seq(Int) /\ Len(<<hi, lo>>) = 2 /\ <<n>> \in Seq(Int) /\ <<>> \in Seq(Int)
      /\ <<hi, lo>>[1] = hi /\ <<hi, lo>>[2] = lo
  BY <1>1, ShortSequences
<1>3. sNMP_SYNTAX["Counter64"] \in Int
  BY Syntaxes DEF Classes
<1>4. Good(Counter64Parts(hi, lo))
  BY <1>1, <1>2, <1>3 DEF Good, Objects, Counter64Parts, Object, Unset, Fits, Classes, Numbers,
     Derived, ToUInt64, High, Low
<1>5. Counter64(n) = Counter64Parts(hi, lo)
  BY <1>1 DEF Counter64, Counter64Parts
<1>6. QED
  BY <1>4, <1>5

LEMMA NewOid ==
    ASSUME NEW v \in Seq(Int), Len(v) <= MaxOid
    PROVE  Good(Oid(v)) /\ Oid(v).class = "Oid" /\ Oid(v).value = v
<1> DEFINE b == v # <<>>
<1>1. b \in BOOLEAN /\ (b <=> v # <<>>)
  OBVIOUS
<1>2. Oid(v) = [Object("Oid", v, v) EXCEPT !.valid = b]
  BY DEF Oid
<1> HIDE DEF b
<1>3. sNMP_SYNTAX["Oid"] \in Int /\ <<>> \in Seq(Int)
  BY Syntaxes, ShortSequences DEF Classes
<1>4. /\ Oid(v) \in Objects /\ Oid(v).syntax = sNMP_SYNTAX["Oid"] /\ Oid(v).class = "Oid"
      /\ Oid(v).value = v /\ Oid(v).meant = v /\ Oid(v).valid = b /\ Oid(v).changed = TRUE
  BY <1>1, <1>2, <1>3 DEF Objects, Object, Unset, Classes
<1>5. Fits("Oid", v, b)
  BY <1>1 DEF Fits, Numbers, Derived
<1>6. QED
  BY <1>4, <1>5 DEF Good

LEMMA ShortOids ==
    Good(Oid(<<>>)) /\ \A i \in Int : Good(Oid(<<i>>))
<1>1. MaxOid \in Nat \ {0}
  BY ValuesAssumption
<1>2. <<>> \in Seq(Int) /\ Len(<<>>) <= MaxOid
  BY <1>1, ShortSequences
<1>3. ASSUME NEW i \in Int PROVE <<i>> \in Seq(Int) /\ Len(<<i>>) <= MaxOid
  BY <1>1, ShortSequences
<1>4. QED
  BY <1>2, <1>3, NewOid

LEMMA NewString ==
    ASSUME NEW v \in Seq(Int)
    PROVE  Good(OctetStr(v)) /\ Good(OpaqueStr(v))
<1>1. Good(OctetStr(v))
  BY NewIsGood DEF OctetStr, Fits, Classes, Numbers, Derived, Strings
<1>2. OctetStr(v).class = "OctetStr"
  BY DEF OctetStr, Object
<1>3. Good(OpaqueStr(v))
  BY <1>1, <1>2, RelabelledIsGood DEF OpaqueStr, Fits, Classes, Numbers, Derived, Strings
<1>4. QED
  BY <1>1, <1>3

LEMMA NewMsec ==
    ASSUME NEW sec \in Nat, NEW milsec \in Nat
    PROVE  Good(Msec(sec, milsec))
<1>1. /\ <<sec, milsec>> \in Seq(Int) /\ Len(<<sec, milsec>>) = 2
      /\ <<sec, milsec>>[1] = sec /\ <<sec, milsec>>[2] = milsec
  BY ShortSequences
<1>2. QED
  BY <1>1, NewIsGood DEF Msec, Fits, Classes, Numbers, Derived

\* The family and the bytes of an address.
LEMMA AddressValue ==
    ASSUME NEW f \in Families, NEW bytes \in [1..ADDRBUF -> Int]
    PROVE  /\ <<f>> \o bytes \in Seq(Int) /\ Len(<<f>> \o bytes) = ADDRBUF + 1
           /\ (<<f>> \o bytes)[1] = f
<1>1. /\ f \in Int /\ ADDRBUF \in Nat
  BY ValuesAssumption DEF Families
<1>2. bytes \in Seq(Int) /\ Len(bytes) = ADDRBUF
  BY <1>1, SeqDef, LenProperties
<1>3. <<f>> \in Seq(Int) /\ Len(<<f>>) = 1 /\ <<f>>[1] = f
  BY <1>1, ShortSequences
<1>4. QED
  BY <1>1, <1>2, <1>3, ConcatProperties

LEMMA NewAddress ==
    ASSUME NEW class \in {"IpAddress", "UdpAddress"}, NEW f \in Families,
           NEW bytes \in [1..ADDRBUF -> Int]
    PROVE  Good(AddressNew(class, f, bytes))
<1>1. Fits(class, <<f>> \o bytes, TRUE)
  BY AddressValue DEF Fits, Numbers, Derived
<1>2. QED
  BY <1>1, AddressValue, NewIsGood DEF AddressNew, Classes

-----------------------------------------------------------------------------
\* What the members of the classes do to a good object.
LEMMA SetNumber ==
    ASSUME NEW o, Good(o), o.class \in Numbers, NEW i \in Int
    PROVE  /\ Good(SnmpUInt32Set(o, i)) /\ Good(SnmpUInt32Clear(o))
           /\ Good(SnmpInt32Set(o, i)) /\ Good(SnmpInt32Clear(o))
<1> DEFINE Holding(j) == [Touched(o) EXCEPT !.value = <<j>>, !.valid = TRUE, !.meant = <<j>>]
<1>1. ASSUME NEW j \in Int PROVE Good(Holding(j))
  <2>1. <<j>> \in Seq(Int) /\ Len(<<j>>) = 1 /\ <<>> \in Seq(Int)
    BY ShortSequences
  <2>2. QED
    BY <2>1 DEF Good, Objects, Fits, Touched, Unset, Numbers, Derived
<1>2. /\ SnmpUInt32Set(o, i) = Holding(i) /\ SnmpUInt32Clear(o) = Holding(0)
      /\ SnmpInt32Set(o, i) = Holding(i) /\ SnmpInt32Clear(o) = Holding(0)
  BY DEF SnmpUInt32Set, SnmpUInt32Clear, SnmpInt32Set, SnmpInt32Clear
<1> HIDE DEF Holding
<1>3. QED
  BY <1>1, <1>2

LEMMA CopyNumber ==
    ASSUME NEW c, Good(c), c.class \in Numbers
    PROVE  /\ Good(SnmpUInt32Copy(c)) /\ Good(SnmpInt32Copy(c)) /\ Good(Counter32Copy(c))
           /\ Good(Gauge32Copy(c)) /\ Good(TimeTicksCopy(c))
<1>1. /\ c.value \in Seq(Int) /\ Len(c.value) = 1 /\ c.valid \in BOOLEAN /\ c.meant = c.value
      /\ c.value = <<c.value[1]>> /\ c.value[1] \in Int
  BY ShortSequences DEF Good, Objects, Fits, Numbers, Derived
<1>2. ASSUME NEW p, Good(p), p.class \in Numbers, p.value = <<c.value[1]>>
      PROVE  Good([p EXCEPT !.valid = c.valid, !.meant = c.meant])
  BY <1>1, <1>2 DEF Good, Objects, Fits, Numbers, Derived
<1>3. /\ Good(SnmpUInt32(c.value[1])) /\ SnmpUInt32(c.value[1]).class = "SnmpUInt32"
      /\ SnmpUInt32(c.value[1]).value = <<c.value[1]>>
      /\ Good(SnmpInt32(c.value[1])) /\ SnmpInt32(c.value[1]).class = "SnmpInt32"
      /\ SnmpInt32(c.value[1]).value = <<c.value[1]>>
  BY <1>1, NewNumbers DEF SnmpUInt32, SnmpInt32, Object
<1>4. Good(SnmpUInt32Copy(c)) /\ Good(SnmpInt32Copy(c))
  <2> DEFINE u == SnmpUInt32(c.value[1])
             i == SnmpInt32(c.value[1])
  <2>1. /\ SnmpUInt32Copy(c) = [u EXCEPT !.valid = c.valid, !.meant = c.meant]
        /\ SnmpInt32Copy(c) = [i EXCEPT !.valid = c.valid, !.meant = c.meant]
    BY DEF SnmpUInt32Copy, SnmpInt32Copy
  <2>2. /\ Good(u) /\ u.class \in Numbers /\ u.value = <<c.value[1]>>
        /\ Good(i) /\ i.class \in Numbers /\ i.value = <<c.value[1]>>
    BY <1>3 DEF Numbers, Derived
  <2> HIDE DEF u, i
  <2>3. QED
    BY <1>2, <2>1, <2>2
<1>5. SnmpUInt32Copy(c).class = "SnmpUInt32" /\ SnmpUInt32Copy(c).value = <<c.value[1]>>
  BY DEF SnmpUInt32Copy, SnmpUInt32, Object
<1>6. ASSUME NEW class \in Derived PROVE Good(Relabelled(class, SnmpUInt32Copy(c)))
  <2>1. Fits(class, SnmpUInt32Copy(c).value, SnmpUInt32Copy(c).valid)
    BY <1>1, <1>5 DEF Fits, Derived
  <2>2. QED
    BY <1>4, <1>5, <2>1, RelabelledIsGood DEF Classes, Numbers, Derived
<1>7. QED
  BY <1>4, <1>6 DEF Counter32Copy, Gauge32Copy, TimeTicksCopy, Derived

\* The operator = of two objects of a class: value, what it stands for and whether
\* it is valid are those of the other one.
LEMMA AssignKeeps ==
    ASSUME NEW o, NEW c, Good(o), Good(c), o.class # "Counter64", c.class # "Counter64",
           Fits(o.class, c.value, c.valid)
    PROVE  Good([Touched(o) EXCEPT !.value = c.value, !.valid = c.valid, !.meant = c.meant])
<1>1. <<>> \in Seq(Int)
  BY ShortSequences
<1>2. QED
  BY <1>1 DEF Good, Objects, Touched, Unset

LEMMA AssignValue ==
    ASSUME NEW o, NEW c, Good(o), Good(c), o.class # "Counter64", c.class # "Counter64",
           Fits(o.class, c.value, o.valid)
    PROVE  Good([Touched(o) EXCEPT !.value = c.value, !.meant = c.meant])
<1>1. <<>> \in Seq(Int)
  BY ShortSequences
<1>2. QED
  BY <1>1 DEF Good, Objects, Touched, Unset

LEMMA Counter64Kept ==
    ASSUME NEW o, Good(o), o.class = "Counter64"
    PROVE  /\ \A hi \in ULongs : Good(SetHigh(o, hi)) /\ Good(SetLow(o, hi))
           /\ \A n \in Nat : Good(Counter64Set(o, n))
           /\ Good(Counter64Clear(o)) /\ Good(Counter64Copy(o))
           /\ \A c : Good(c) /\ c.class = "Counter64" => Good(Counter64Assign(o, c))
<1>1. /\ o \in Objects /\ o.value \in Seq(Int) /\ Len(o.value) = 2 /\ o.value[1] \in Nat
      /\ o.value[2] \in ULongs /\ o.meant = <<o.value[1] * Radix + o.value[2]>>
      /\ o.value = <<o.value[1], o.value[2]>> /\ o.syntax = sNMP_SYNTAX["Counter64"]
  BY ShortSequences DEF Good, Objects, Fits, ToUInt64, High, Low
<1>2. /\ Radix \in Nat \ {0} /\ ULongs \subseteq Nat /\ 0 \in ULongs
  BY Parts64 DEF ULongs
<1>20. /\ o.value[1] * Radix + o.value[2] \in Nat
      /\ (o.value[1] * Radix + o.value[2]) \div Radix = o.value[1]
      /\ (o.value[1] * Radix + o.value[2]) % Radix = o.value[2]
  BY <1>1, Parts64
\* What makes it good again.
<1>3. ASSUME NEW hi \in Nat, NEW lo \in ULongs, NEW p, p \in Objects, p.class = "Counter64",
             p.syntax = o.syntax, p.changed, p.value = <<hi, lo>>,
             p.meant = <<hi * Radix + lo>>
      PROVE  Good(p)
  <2>1. /\ Len(<<hi, lo>>) = 2 /\ <<hi, lo>>[1] = hi /\ <<hi, lo>>[2] = lo
    BY <1>2, ShortSequences
  <2>2. QED
    BY <1>1, <1>3, <2>1 DEF Good, Fits, ToUInt64, High, Low, Numbers, Derived
<1>4. ASSUME NEW hi \in ULongs PROVE Good(SetHigh(o, hi)) /\ Good(SetLow(o, hi))
  <2> DEFINE v == o.value[1]
             w == o.value[2]
  <2>1. /\ [o.value EXCEPT ![1] = hi] = <<hi, w>> /\ [o.value EXCEPT ![2] = hi] = <<v, hi>>
        /\ o.meant[1] = v * Radix + w
    <3>1. /\ [o.value EXCEPT ![1] = hi] \in Seq(Int) /\ Len([o.value EXCEPT ![1] = hi]) = 2
          /\ [o.value EXCEPT ![1] = hi][1] = hi /\ [o.value EXCEPT ![1] = hi][2] = w
      BY <1>1, <1>2, ExceptSeq
    <3>2. /\ [o.value EXCEPT ![2] = hi] \in Seq(Int) /\ Len([o.value EXCEPT ![2] = hi]) = 2
          /\ [o.value EXCEPT ![2] = hi][1] = v /\ [o.value EXCEPT ![2] = hi][2] = hi
      BY <1>1, <1>2, ExceptSeq
    <3>3. QED
      BY <1>1, <3>1, <3>2, ShortSequences
  <2>2. /\ [o.meant EXCEPT ![1] = hi * Radix + (@ % Radix)] = <<hi * Radix + w>>
        /\ [o.meant EXCEPT ![1] = (@ \div Radix) * Radix + hi] = <<v * Radix + hi>>
    <3> DEFINE n == v * Radix + w
    <3>1. n \in Nat /\ n % Radix = w /\ n \div Radix = v /\ o.meant = <<n>>
      BY <1>1, <1>20
    <3> HIDE DEF n
    <3>2. \A k \in Int : [<<n>> EXCEPT ![1] = k] = <<k>>
      <4> TAKE k \in Int
      <4>1. /\ <<n>> \in Seq(Int) /\ Len(<<n>>) = 1
        BY <3>1, ShortSequences
      <4>2. /\ [<<n>> EXCEPT ![1] = k] \in Seq(Int) /\ Len([<<n>> EXCEPT ![1] = k]) = 1
            /\ [<<n>> EXCEPT ![1] = k][1] = k
        BY <4>1, ExceptSeq
      <4>3. QED
        BY <4>2, ShortSequences
    <3>3. hi * Radix + w \in Int /\ v * Radix + hi \in Int
      <4>1. hi \in Nat /\ w \in ULongs /\ v \in Nat
        BY <1>1, <1>2
      <4> HIDE DEF v, w
      <4>2. QED
        BY <4>1, Parts64
    <3>4. /\ [o.meant EXCEPT ![1] = hi * Radix + (@ % Radix)]
              = [<<n>> EXCEPT ![1] = hi * Radix + w]
          /\ [o.meant EXCEPT ![1] = (@ \div Radix) * Radix + hi]
              = [<<n>> EXCEPT ![1] = v * Radix + hi]
      <4>1. o.meant[1] = n /\ o.meant = <<n>>
        BY <3>1
      <4>2. o.meant[1] % Radix = w /\ o.meant[1] \div Radix = v
        BY <3>1, <4>1
      <4>3. QED
        BY <4>1, <4>2
    <3>5. QED
      BY <3>2, <3>3, <3>4
  <2>3. /\ hi \in Nat /\ hi * Radix + w \in Int /\ v * Radix + hi \in Int
        /\ v \in Int /\ w \in Int
    <3>1. hi \in Nat /\ w \in ULongs /\ v \in Nat /\ v \in Int /\ w \in Int
      BY <1>1, <1>2
    <3> HIDE DEF v, w
    <3>2. QED
      BY <3>1, Parts64
  <2>4. /\ <<hi, w>> \in Seq(Int) /\ <<v, hi>> \in Seq(Int) /\ <<>> \in Seq(Int)
        /\ <<hi * Radix + w>> \in Seq(Int) /\ <<v * Radix + hi>> \in Seq(Int)
    BY <2>3, ShortSequences
  <2>5. /\ SetHigh(o, hi) \in Objects /\ SetHigh(o, hi).class = "Counter64"
        /\ SetHigh(o, hi).syntax = o.syntax /\ SetHigh(o, hi).changed
        /\ SetHigh(o, hi).value = <<hi, w>> /\ SetHigh(o, hi).meant = <<hi * Radix + w>>
    BY <1>1, <2>1, <2>2, <2>4 DEF SetHigh, Touched, Objects, Unset
  <2>6. /\ SetLow(o, hi) \in Objects /\ SetLow(o, hi).class = "Counter64"
        /\ SetLow(o, hi).syntax = o.syntax /\ SetLow(o, hi).changed
        /\ SetLow(o, hi).value = <<v, hi>> /\ SetLow(o, hi).meant = <<v * Radix + hi>>
    BY <1>1, <2>1, <2>2, <2>4 DEF SetLow, Touched, Objects, Unset
  <2>7. QED
    BY <1>1, <1>3, <2>3, <2>5, <2>6
<1>5. ASSUME NEW n \in Nat PROVE Good(Counter64Set(o, n))
  <2> DEFINE v == n \div Radix
             w == n % Radix
  <2>1. v \in Nat /\ w \in ULongs /\ v * Radix + w = n
    BY Parts64
  <2> HIDE DEF v, w
  <2>2. <<v, w>> \in Seq(Int) /\ <<n>> \in Seq(Int) /\ <<>> \in Seq(Int)
    BY <1>2, <2>1, ShortSequences
  <2>3. Counter64Set(o, n) = [Touched(o) EXCEPT !.value = <<v, w>>, !.meant = <<n>>]
    BY DEF Counter64Set, v, w
  <2>4. /\ Counter64Set(o, n) \in Objects /\ Counter64Set(o, n).class = "Counter64"
        /\ Counter64Set(o, n).syntax = o.syntax /\ Counter64Set(o, n).changed
        /\ Counter64Set(o, n).value = <<v, w>> /\ Counter64Set(o, n).meant = <<n>>
    BY <1>1, <2>2, <2>3 DEF Touched, Objects, Unset
  <2>5. QED
    BY <1>3, <2>1, <2>4
<1>6. Good(Counter64Clear(o))
  <2>1. /\ <<0, 0>> \in Seq(Int) /\ <<0>> \in Seq(Int) /\ <<>> \in Seq(Int)
        /\ 0 * Radix + 0 = 0
    BY <1>2, ShortSequences
  <2>2. /\ Counter64Clear(o) \in Objects /\ Counter64Clear(o).class = "Counter64"
        /\ Counter64Clear(o).syntax = o.syntax /\ Counter64Clear(o).changed
        /\ Counter64Clear(o).value = <<0, 0>> /\ Counter64Clear(o).meant = <<0>>
    BY <1>1, <2>1 DEF Counter64Clear, Touched, Objects, Unset
  <2>3. QED
    BY <1>2, <1>3, <2>1, <2>2
<1>7. Good(Counter64Copy(o))
  <2> DEFINE z == Counter64(0)
  <2>1. Good(Counter64(0 * Radix + 0)) /\ 0 * Radix + 0 = 0
    BY <1>2, NewCounter64
  <2>2. Good(z) /\ z.class = "Counter64" /\ z.changed = TRUE
    BY <2>1 DEF Counter64, Object
  <2>3. Counter64Copy(o) = [z EXCEPT !.value = o.value, !.meant = o.meant]
    BY DEF Counter64Copy
  <2> HIDE DEF z
  <2>4. /\ Counter64Copy(o) \in Objects /\ Counter64Copy(o).class = "Counter64"
        /\ Counter64Copy(o).syntax = o.syntax /\ Counter64Copy(o).changed
        /\ Counter64Copy(o).value = o.value /\ Counter64Copy(o).meant = o.meant
    BY <1>1, <2>2, <2>3 DEF Good, Objects
  <2>5. QED
    BY <1>1, <1>3, <2>4
<1>8. ASSUME NEW c, Good(c), c.class = "Counter64" PROVE Good(Counter64Assign(o, c))
  <2>1. /\ c \in Objects /\ c.value \in Seq(Int) /\ Len(c.value) = 2 /\ c.value[1] \in Nat
        /\ c.value[2] \in ULongs /\ c.meant = <<c.value[1] * Radix + c.value[2]>>
        /\ c.value = <<c.value[1], c.value[2]>> /\ <<>> \in Seq(Int)
    BY <1>8, ShortSequences DEF Good, Objects, Fits, ToUInt64, High, Low
  <2>2. /\ Counter64Assign(o, c) \in Objects /\ Counter64Assign(o, c).class = "Counter64"
        /\ Counter64Assign(o, c).syntax = o.syntax /\ Counter64Assign(o, c).changed
        /\ Counter64Assign(o, c).value = c.value /\ Counter64Assign(o, c).meant = c.meant
    BY <1>1, <2>1 DEF Counter64Assign, Touched, Objects, Unset
  <2>3. QED
    BY <1>3, <2>1, <2>2
<1>9. QED
  BY <1>4, <1>5, <1>6, <1>7, <1>8

\* Identifiers.
IsOid(o) == Good(o) /\ o.class = "Oid"

LEMMA OidFacts ==
    ASSUME NEW o, IsOid(o)
    PROVE  /\ o \in Objects /\ o.class = "Oid" /\ o.syntax = sNMP_SYNTAX["Oid"]
           /\ o.value \in Seq(Int) /\ o.meant = o.value /\ Len(o.value) \in Nat
           /\ Len(o.value) <= MaxOid /\ o.valid \in BOOLEAN /\ (o.valid <=> o.value # <<>>)
<1>1. o \in Objects /\ o.value \in Seq(Int)
  BY DEF IsOid, Good, Objects
<1>2. Len(o.value) \in Nat
  BY <1>1, LenProperties
<1>3. QED
  BY <1>1, <1>2 DEF IsOid, Good, Objects, Fits

LEMMA OidMade ==
    ASSUME NEW p, p \in Objects, p.class = "Oid", p.syntax = sNMP_SYNTAX["Oid"],
           Len(p.value) <= MaxOid, p.valid <=> p.value # <<>>, p.meant = p.value,
           p.changed \/ p.text = p.value
    PROVE  IsOid(p)
BY DEF IsOid, Good, Fits, Numbers, Derived

\* An identifier without numbers, whatever it stood for, takes those of another one.
Emptied(q) ==
    /\ q \in Objects /\ q.class = "Oid" /\ q.syntax = sNMP_SYNTAX["Oid"]
    /\ q.value = <<>> /\ q.changed = TRUE /\ q.valid = FALSE

LEMMA OidTaken ==
    ASSUME NEW q, Emptied(q), NEW c, IsOid(c)
    PROVE  LET p == [OidCopy(c, q) EXCEPT !.meant = c.meant] IN IsOid(p) /\ p.value = c.value
<1> DEFINE p == [OidCopy(c, q) EXCEPT !.meant = c.meant]
<1>1. /\ c.value \in Seq(Int) /\ c.meant = c.value /\ Len(c.value) <= MaxOid
  BY OidFacts
<1>2. CASE c.value = <<>>
  <2>1. /\ p \in Objects /\ p.class = "Oid" /\ p.syntax = sNMP_SYNTAX["Oid"]
        /\ p.meant = c.value /\ p.value = c.value /\ p.changed = TRUE /\ p.valid = FALSE
    BY <1>1, <1>2 DEF Objects, OidCopy, Emptied
  <2> HIDE DEF p
  <2>2. IsOid(p)
    BY <1>1, <1>2, <2>1, OidMade
  <2>3. QED
    BY <2>1, <2>2 DEF p
<1>3. CASE c.value # <<>>
  <2>1. /\ p \in Objects /\ p.class = "Oid" /\ p.syntax = sNMP_SYNTAX["Oid"]
        /\ p.meant = c.value /\ p.value = c.value /\ p.changed = TRUE /\ p.valid = TRUE
    BY <1>1, <1>3 DEF Objects, OidCopy, Emptied
  <2> HIDE DEF p
  <2>2. IsOid(p)
    BY <1>1, <1>3, <2>1, OidMade
  <2>3. QED
    BY <2>1, <2>2 DEF p
<1>4. QED
  BY <1>2, <1>3

LEMMA OidEmptied ==
    /\ Emptied(Oid(<<>>))
    /\ \A o : IsOid(o) => Emptied(DeleteOidPtr(o)) /\ IsOid(OidClear(o))
<1>1. <<>> \in Seq(Int) /\ Len(<<>>) = 0 /\ MaxOid \in Nat
  BY ShortSequences, ValuesAssumption
<1>2. Emptied(Oid(<<>>))
  <2>1. IsOid(Oid(<<>>)) /\ Oid(<<>>).value = <<>>
    <3>1. <<>> \in Seq(Int) /\ Len(<<>>) <= MaxOid
      BY <1>1
    <3>2. QED
      BY <3>1, NewOid DEF IsOid
  <2>2. Oid(<<>>).changed = TRUE
    BY DEF Oid, Object
  <2>3. /\ Oid(<<>>) \in Objects /\ Oid(<<>>).class = "Oid" /\ Oid(<<>>).valid \in BOOLEAN
        /\ Oid(<<>>).syntax = sNMP_SYNTAX["Oid"] /\ ~Oid(<<>>).valid
    BY <2>1, OidFacts
  <2>4. QED
    BY <2>1, <2>2, <2>3 DEF Emptied
<1>3. ASSUME NEW o, IsOid(o) PROVE Emptied(DeleteOidPtr(o)) /\ IsOid(OidClear(o))
  <2>1. o \in Objects /\ o.class = "Oid" /\ o.syntax = sNMP_SYNTAX["Oid"]
    BY <1>3, OidFacts
  <2>2. Emptied(DeleteOidPtr(o))
    BY <1>1, <2>1 DEF Objects, DeleteOidPtr, Touched, Unset, Emptied
  <2>3. /\ OidClear(o) \in Objects /\ OidClear(o).class = "Oid"
        /\ OidClear(o).syntax = sNMP_SYNTAX["Oid"] /\ OidClear(o).value = <<>>
        /\ OidClear(o).meant = <<>> /\ OidClear(o).changed = TRUE /\ OidClear(o).valid = FALSE
    BY <1>1, <2>2 DEF Emptied, Objects, OidClear
  <2>4. IsOid(OidClear(o))
    BY <1>1, <2>3, OidMade
  <2>5. QED
    BY <2>2, <2>4
<1>4. QED
  BY <1>2, <1>3

LEMMA OidAssigned ==
    ASSUME NEW o, IsOid(o), NEW c, IsOid(c)
    PROVE  /\ IsOid(OidAssign(o, c)) /\ OidAssign(o, c).value = c.value
           /\ IsOid(OidCopied(c)) /\ OidCopied(c).value = c.value
BY OidEmptied, OidTaken DEF OidAssign, OidCopied

\* A member that leaves this object changed, with some numbers that it stands for.
LEMMA OidRewritten ==
    ASSUME NEW o, IsOid(o), NEW v \in Seq(Int), Len(v) <= MaxOid, NEW b \in BOOLEAN,
           b <=> v # <<>>
    PROVE  LET p == [Touched(o) EXCEPT !.value = v, !.valid = b, !.meant = v]
           IN  IsOid(p) /\ p.value = v
<1> DEFINE p == [Touched(o) EXCEPT !.value = v, !.valid = b, !.meant = v]
<1>1. o \in Objects /\ o.class = "Oid" /\ o.syntax = sNMP_SYNTAX["Oid"] /\ <<>> \in Seq(Int)
  BY OidFacts, ShortSequences
<1>2. /\ p \in Objects /\ p.class = "Oid" /\ p.syntax = sNMP_SYNTAX["Oid"]
      /\ p.meant = v /\ p.value = v /\ p.changed = TRUE /\ p.valid = b
  BY <1>1 DEF Objects, Touched, Unset
<1> HIDE DEF p
<1>3. IsOid(p)
  BY <1>2, OidMade
<1>4. QED
  BY <1>2, <1>3 DEF p

\* The operators that append, index and cut identifiers.
LEMMA OidAppended ==
    ASSUME NEW o, IsOid(o), NEW c, IsOid(c), NEW same \in BOOLEAN, same => c = o,
           Len(o.value) + Len(c.value) <= MaxOid
    PROVE  IsOid(OidAppend(o, c, same))
<1> DEFINE n == Len(o.value)
           begun == o.value \o c.value
           v == SubSeq(begun, 1, n) \o (IF same THEN SubSeq(begun, 1, n) ELSE c.value)
           p == [Touched(o) EXCEPT !.value = v, !.valid = TRUE, !.meant = @ \o c.meant]
<1>1. /\ o.value \in Seq(Int) /\ c.value \in Seq(Int) /\ n \in Nat /\ Len(c.value) \in Nat
      /\ o.meant = o.value /\ c.meant = c.value
      /\ o \in Objects /\ o.class = "Oid" /\ o.syntax = sNMP_SYNTAX["Oid"]
  BY OidFacts
<1>2. /\ begun \in Seq(Int) /\ Len(begun) = n + Len(c.value)
      /\ \A i \in 1..n + Len(c.value) : begun[i] = IF i <= n THEN o.value[i] ELSE c.value[i - n]
  BY <1>1, ConcatProperties
<1>3. SubSeq(begun, 1, n) = o.value
  <2>0. ASSUME NEW i \in 1..n PROVE begun[i] = o.value[i] /\ o.value[i] \in Int
    <3>1. o.value[i] \in Int
      BY <1>1, ElementOfSeq
    <3>2. ASSUME NEW a \in Nat, NEW b \in Nat, i \in 1..a PROVE i \in 1..a + b /\ i <= a
      BY <3>2
    <3>3. i \in 1..n + Len(c.value) /\ i <= n
      BY <1>1, <3>2
    <3> HIDE DEF begun
    <3>4. QED
      BY <1>2, <3>1, <3>3
  <2>1. \A i \in 1..n : begun[i] = o.value[i] /\ o.value[i] \in Int
    BY <2>0
  <2> HIDE DEF begun
  <2>2. /\ SubSeq(begun, 1, n) \in Seq(Int) /\ Len(SubSeq(begun, 1, n)) = n
        /\ \A i \in 1..n : SubSeq(begun, 1, n)[i] = begun[i]
    BY <1>1, <2>1, SubSeqProperties
  <2>3. QED
    BY <1>1, <2>1, <2>2, SeqEqual
<1>4. v = begun
  BY <1>3
<1>5. OidAppend(o, c, same) = IF c.value = <<>> THEN o ELSE p
  BY DEF OidAppend
<1>6. begun # <<>> \/ c.value = <<>>
  BY <1>1, <1>2, EmptySeq
<1>7. CASE c.value # <<>>
  <2>1. <<>> \in Seq(Int)
    BY ShortSequences
  <2>2. p = [Touched(o) EXCEPT !.value = begun, !.valid = TRUE, !.meant = o.meant \o c.meant]
    BY <1>4 DEF Touched
  <2> HIDE DEF v, p
  <2>3. o.meant \o c.meant = begun
    BY <1>1
  <2>4. /\ p \in Objects /\ p.class = "Oid" /\ p.syntax = sNMP_SYNTAX["Oid"]
        /\ p.meant = begun /\ p.value = begun /\ p.changed = TRUE /\ p.valid = TRUE
    <3> HIDE DEF begun
    <3>1. QED
      BY <1>1, <1>2, <2>1, <2>2, <2>3 DEF Objects, Touched, Unset
  <2>5. IsOid(p)
    <3> HIDE DEF begun
    <3>1. QED
      BY <1>2, <1>6, <1>7, <2>4, OidMade
  <2>6. QED
    BY <1>5, <1>7, <2>5
<1>8. QED
  BY <1>5, <1>7

LEMMA OidIndexed ==
    ASSUME NEW o, IsOid(o), NEW k \in 1..Len(o.value), NEW i \in Int
    PROVE  IsOid(OidIndex(o, k, i))
<1> DEFINE p == OidIndex(o, k, i)
           v == [o.value EXCEPT ![k] = i]
<1>1. /\ o \in Objects /\ o.class = "Oid" /\ o.syntax = sNMP_SYNTAX["Oid"] /\ <<>> \in Seq(Int)
      /\ o.value \in Seq(Int) /\ o.meant = o.value /\ Len(o.value) <= MaxOid
      /\ (o.valid <=> o.value # <<>>) /\ o.valid \in BOOLEAN
  BY OidFacts, ShortSequences
<1>2. v \in Seq(Int) /\ Len(v) = Len(o.value)
  BY <1>1, ExceptSeq
<1>3. v # <<>> /\ o.value # <<>>
  BY <1>1, <1>2, ShortSequences
<1>4. /\ p \in Objects /\ p.class = "Oid" /\ p.syntax = sNMP_SYNTAX["Oid"]
      /\ p.meant = v /\ p.value = v /\ p.changed = TRUE /\ p.valid = o.valid
  BY <1>1, <1>2 DEF OidIndex, Objects, Touched, Unset
<1> HIDE DEF p, v
<1>5. IsOid(p)
  BY <1>1, <1>2, <1>3, <1>4, OidMade
<1>6. QED
  BY <1>5 DEF p

LEMMA OidTrimmed ==
    ASSUME NEW o, IsOid(o), NEW n \in Int
    PROVE  IsOid(OidTrim(o, n))
<1> DEFINE rest == SubSeq(o.value, 1, Len(o.value) - n)
           cut == [Touched(o) EXCEPT !.value = rest, !.meant = rest]
           none == [DeleteOidPtr(o) EXCEPT !.meant = rest]
<1>1. /\ o \in Objects /\ o.class = "Oid" /\ o.syntax = sNMP_SYNTAX["Oid"] /\ <<>> \in Seq(Int)
      /\ o.value \in Seq(Int) /\ o.meant = o.value /\ Len(o.value) \in Nat
      /\ Len(o.value) <= MaxOid /\ (o.valid <=> o.value # <<>>) /\ o.valid \in BOOLEAN
  BY OidFacts, ShortSequences
<1>2. OidTrim(o, n) = IF n \notin 1..Len(o.value) THEN o
                      ELSE IF rest = <<>> THEN none ELSE cut
  BY <1>1 DEF OidTrim
<1>3. CASE n \in 1..Len(o.value)
  <2>1. /\ Len(o.value) - n \in Int /\ \A i \in 1..Len(o.value) - n : o.value[i] \in Int
        /\ Len(o.value) - n \in 0..Len(o.value)
    BY <1>1, <1>3, ElementOfSeq
  <2>2. rest \in Seq(Int) /\ Len(rest) = Len(o.value) - n
    BY <2>1, SubSeqProperties
  <2>3. Len(rest) <= MaxOid /\ o.value # <<>> /\ MaxOid \in Nat
    BY <1>1, <1>3, <2>2, ShortSequences, ValuesAssumption
  <2> HIDE DEF rest
  <2>4. CASE rest = <<>>
    <3>1. Emptied(DeleteOidPtr(o))
      BY OidEmptied
    <3>2. /\ none \in Objects /\ none.class = "Oid" /\ none.syntax = sNMP_SYNTAX["Oid"]
          /\ none.meant = <<>> /\ none.value = <<>> /\ none.changed = TRUE
          /\ none.valid = FALSE
      BY <1>1, <2>4, <3>1 DEF Emptied, Objects
    <3> HIDE DEF none
    <3>3. IsOid(none)
      BY <2>3, <2>4, <3>2, OidMade
    <3>4. QED
      BY <1>2, <1>3, <2>4, <3>3
  <2>5. CASE rest # <<>>
    <3>1. /\ cut \in Objects /\ cut.class = "Oid" /\ cut.syntax = sNMP_SYNTAX["Oid"]
          /\ cut.meant = rest /\ cut.value = rest /\ cut.changed = TRUE
          /\ cut.valid = o.valid
      BY <1>1, <2>2 DEF Objects, Touched, Unset
    <3> HIDE DEF cut
    <3>2. IsOid(cut)
      BY <1>1, <2>3, <2>5, <3>1, OidMade
    <3>3. QED
      BY <1>2, <1>3, <2>5, <3>2
  <2>6. QED
    BY <2>4, <2>5
<1>4. QED
  BY <1>2, <1>3

-----------------------------------------------------------------------------
\* Strings, addresses and times.
LEMMA StringMade ==
    ASSUME NEW o, Good(o), o.class \in Strings
    PROVE  /\ Good(OctetCopy(o)) /\ Good(OpaqueOf(o))
           /\ \A k \in 1..Len(o.value), byte \in Int : Good(OctetIndex(o, k, byte))
           /\ \A c : Good(c) /\ c.class \in Strings => Good(OctetAssign(o, c))
<1>1. /\ o \in Objects /\ o.value \in Seq(Int) /\ o.meant = o.value /\ <<>> \in Seq(Int)
      /\ o.syntax = sNMP_SYNTAX[o.class]
  BY ShortSequences DEF Good, Objects, Strings
<1>2. Good(OctetCopy(o)) /\ OctetCopy(o).class = "OctetStr"
  <2>1. OctetCopy(o) = [OctetStr(o.value) EXCEPT !.meant = o.value]
    BY <1>1 DEF OctetCopy
  <2>2. Good(OctetStr(o.value)) /\ OctetStr(o.value).class = "OctetStr"
        /\ OctetStr(o.value).value = o.value
    BY <1>1, NewString DEF OctetStr, Object
  <2>3. QED
    BY <1>1, <2>1, <2>2 DEF Good, Objects
<1>3. Good(OpaqueOf(o))
  BY <1>2, RelabelledIsGood DEF OpaqueOf, Fits, Classes, Numbers, Derived, Strings
<1>4. ASSUME NEW k \in 1..Len(o.value), NEW byte \in Int PROVE Good(OctetIndex(o, k, byte))
  <2> DEFINE v == [o.value EXCEPT ![k] = byte]
             p == OctetIndex(o, k, byte)
  <2>1. v \in Seq(Int)
    BY <1>1, ExceptSeq
  <2>2. /\ p \in Objects /\ p.class = o.class /\ p.syntax = o.syntax
        /\ p.meant = v /\ p.value = v /\ p.changed = TRUE
    BY <1>1, <2>1 DEF OctetIndex, Objects, Touched, Unset
  <2> HIDE DEF p, v
  <2>3. Good(p)
    BY <1>1, <2>2 DEF Good, Fits, Numbers, Derived, Strings
  <2>4. QED
    BY <2>3 DEF p
<1>5. ASSUME NEW c, Good(c), c.class \in Strings PROVE Good(OctetAssign(o, c))
  <2> DEFINE p == OctetAssign(o, c)
  <2>1. c \in Objects /\ c.value \in Seq(Int) /\ c.meant = c.value
    BY <1>5 DEF Good, Objects, Strings
  <2>2. /\ p \in Objects /\ p.class = o.class /\ p.syntax = o.syntax
        /\ p.meant = c.value /\ p.value = c.value /\ p.changed = TRUE
    BY <1>1, <2>1 DEF OctetAssign, Objects, Touched, Unset
  <2> HIDE DEF p
  <2>3. Good(p)
    BY <1>1, <2>2 DEF Good, Fits, Numbers, Derived, Strings
  <2>4. QED
    BY <2>3 DEF p
<1>6. QED
  BY <1>2, <1>3, <1>4, <1>5

\* An address: the family and ADDRBUF bytes.
IsAddress(o) == Good(o) /\ o.class \in {"IpAddress", "UdpAddress"}

LEMMA AddressFacts ==
    ASSUME NEW o, IsAddress(o)
    PROVE  /\ o \in Objects /\ o.class \in {"IpAddress", "UdpAddress"}
           /\ o.syntax = sNMP_SYNTAX[o.class] /\ o.value \in Seq(Int) /\ o.meant = o.value
           /\ Len(o.value) = ADDRBUF + 1 /\ o.value[1] \in Families /\ o.valid \in BOOLEAN
           /\ ADDRBUF \in Nat \ {0} /\ o.value[1] \in Int
<1>1. ADDRBUF \in Nat \ {0}
  BY ValuesAssumption
<1>2. QED
  BY <1>1 DEF IsAddress, Good, Objects, Fits, Families

LEMMA AddressMade ==
    ASSUME NEW p, p \in Objects, p.class \in {"IpAddress", "UdpAddress"},
           p.syntax = sNMP_SYNTAX[p.class], Len(p.value) = ADDRBUF + 1,
           p.value[1] \in Families, p.meant = p.value, p.changed
    PROVE  IsAddress(p)
BY DEF IsAddress, Good, Fits, Numbers, Derived

LEMMA AddressChanged ==
    ASSUME NEW o, IsAddress(o)
    PROVE  /\ IsAddress(AddressCopied(o)) /\ IsAddress(AddressClear(o))
           /\ \A position \in Nat, byte \in Int : IsAddress(AddressIndex(o, position, byte))
           /\ \A success \in BOOLEAN, f \in Families, bytes \in [1..ADDRBUF -> Int] :
                 IsAddress(AddressParse(o, success, f, bytes))
           /\ \A c : IsAddress(c) => IsAddress([Touched(o) EXCEPT !.value = c.value,
                                           !.meant = c.meant, !.valid = c.valid])
<1>1. /\ o \in Objects /\ o.class \in {"IpAddress", "UdpAddress"}
      /\ o.syntax = sNMP_SYNTAX[o.class] /\ o.value \in Seq(Int) /\ o.meant = o.value
      /\ Len(o.value) = ADDRBUF + 1 /\ o.value[1] \in Families /\ o.valid \in BOOLEAN
      /\ ADDRBUF \in Nat \ {0} /\ o.value[1] \in Int
  BY AddressFacts
<1>2. <<>> \in Seq(Int)
  BY ShortSequences
<1>3. IsAddress(AddressCopied(o))
  <2> DEFINE p == AddressCopied(o)
  <2>1. /\ p \in Objects /\ p.class = o.class /\ p.syntax = o.syntax
        /\ p.meant = o.value /\ p.value = o.value /\ p.changed = TRUE
    BY <1>1, <1>2 DEF AddressCopied, Objects, Touched, Unset
  <2> HIDE DEF p
  <2>2. IsAddress(p)
    BY <1>1, <2>1, AddressMade
  <2>3. QED
    BY <2>2 DEF p
<1>4. IsAddress(AddressClear(o))
  <2> DEFINE v == [n \in 1..Len(o.value) |-> IF n = 1 THEN o.value[1] ELSE 0]
             p == AddressClear(o)
  <2>1. v \in Seq(Int) /\ Len(v) = ADDRBUF + 1 /\ v[1] = o.value[1]
    <3>1. Len(o.value) \in Nat /\ v \in [1..Len(o.value) -> Int] /\ 1 \in 1..Len(o.value)
      BY <1>1
    <3>2. v \in Seq(Int)
      BY <3>1, SeqDef
    <3>3. DOMAIN v = 1..Len(v) /\ Len(v) \in Nat
      BY <3>2, LenProperties
    <3>4. Len(v) = Len(o.value)
      BY <3>1, <3>3
    <3>5. QED
      BY <1>1, <3>1, <3>2, <3>4
  <2>2. p = [Touched(o) EXCEPT !.valid = FALSE, !.value = v, !.meant = v]
    BY DEF AddressClear
  <2> HIDE DEF v, p
  <2>3. /\ p \in Objects /\ p.class = o.class /\ p.syntax = o.syntax
        /\ p.meant = v /\ p.value = v /\ p.changed = TRUE
    BY <1>1, <1>2, <2>1, <2>2 DEF Objects, Touched, Unset
  <2>4. IsAddress(p)
    BY <1>1, <2>1, <2>3, AddressMade
  <2>5. QED
    BY <2>4 DEF p
<1>5. ASSUME NEW position \in Nat, NEW byte \in Int
      PROVE  IsAddress(AddressIndex(o, position, byte))
  <2> DEFINE k == AddressCell(position) + 2
             v == [o.value EXCEPT ![k] = byte]
             p == AddressIndex(o, position, byte)
  <2>1. k \in 1..Len(o.value) /\ k # 1 /\ 1 \in 1..Len(o.value)
    BY <1>1 DEF AddressCell
  <2>2. p = [Touched(o) EXCEPT !.valid = TRUE, !.value[k] = byte, !.meant[k] = byte]
    BY DEF AddressIndex
  <2> HIDE DEF k, p
  <2>3. v \in Seq(Int) /\ Len(v) = ADDRBUF + 1 /\ v[1] = o.value[1]
    BY <1>1, <2>1, ExceptSeq
  <2>4. /\ p \in Objects /\ p.class = o.class /\ p.syntax = o.syntax
        /\ p.meant = v /\ p.value = v /\ p.changed = TRUE
    BY <1>1, <1>2, <2>2, <2>3 DEF Objects, Touched, Unset
  <2> HIDE DEF v
  <2>5. IsAddress(p)
    BY <1>1, <2>3, <2>4, AddressMade
  <2>6. QED
    BY <2>5 DEF p
<1>6. ASSUME NEW success \in BOOLEAN, NEW f \in Families, NEW bytes \in [1..ADDRBUF -> Int]
      PROVE  IsAddress(AddressParse(o, success, f, bytes))
  <2> DEFINE v == <<f>> \o bytes
             p == AddressParse(o, success, f, bytes)
  <2>1. v \in Seq(Int) /\ Len(v) = ADDRBUF + 1 /\ v[1] = f
    BY AddressValue
  <2>2. p = [Touched(o) EXCEPT !.valid = success, !.value = v, !.meant = v]
    BY DEF AddressParse
  <2> HIDE DEF v, p
  <2>3. /\ p \in Objects /\ p.class = o.class /\ p.syntax = o.syntax
        /\ p.meant = v /\ p.value = v /\ p.changed = TRUE
    BY <1>1, <1>2, <2>1, <2>2 DEF Objects, Touched, Unset
  <2>4. IsAddress(p)
    BY <1>1, <2>1, <2>3, AddressMade
  <2>5. QED
    BY <2>4 DEF p
<1>7. ASSUME NEW c, IsAddress(c)
      PROVE  IsAddress([Touched(o) EXCEPT !.value = c.value, !.meant = c.meant,
                                          !.valid = c.valid])
  <2> DEFINE p == [Touched(o) EXCEPT !.value = c.value, !.meant = c.meant, !.valid = c.valid]
  <2>1. /\ c.value \in Seq(Int) /\ c.meant = c.value /\ Len(c.value) = ADDRBUF + 1
        /\ c.value[1] \in Families /\ c.valid \in BOOLEAN
    BY <1>7, AddressFacts
  <2>2. /\ p \in Objects /\ p.class = o.class /\ p.syntax = o.syntax
        /\ p.meant = c.value /\ p.value = c.value /\ p.changed = TRUE
    BY <1>1, <1>2, <2>1 DEF Objects, Touched, Unset
  <2> HIDE DEF p
  <2>3. IsAddress(p)
    BY <1>1, <2>1, <2>2, AddressMade
  <2>4. QED
    BY <2>3 DEF p
<1>8. QED
  BY <1>3, <1>4, <1>5, <1>6, <1>7

LEMMA MsecFacts ==
    ASSUME NEW o, Good(o), o.class = "msec"
    PROVE  /\ Good(MsecCopy(o)) /\ Good(SetInfinite(o))
           /\ \A c : Good(c) /\ c.class = "msec" => Good(MsecAssign(o, c))
<1>1. /\ o \in Objects /\ o.value \in Seq(Int) /\ o.meant = o.value /\ Fits("msec", o.value, TRUE)
      /\ o.syntax = sNMP_SYNTAX["msec"] /\ <<>> \in Seq(Int)
  BY ShortSequences DEF Good, Objects, Fits, Numbers, Derived
<1>2. ASSUME NEW p, p \in Objects, p.class = "msec", p.syntax = sNMP_SYNTAX["msec"],
             Fits("msec", p.value, TRUE), p.meant = p.value, p.changed
      PROVE  Good(p)
  BY <1>2 DEF Good, Fits, Numbers, Derived
<1>3. Good(MsecCopy(o))
  <2> DEFINE p == MsecCopy(o)
  <2>1. Msec(0, 0) \in Objects /\ Msec(0, 0).class = "msec"
        /\ Msec(0, 0).syntax = sNMP_SYNTAX["msec"] /\ Msec(0, 0).changed = TRUE
    BY NewMsec DEF Good, Msec, Object
  <2>2. /\ p \in Objects /\ p.class = "msec" /\ p.syntax = sNMP_SYNTAX["msec"]
        /\ p.meant = o.value /\ p.value = o.value /\ p.changed = TRUE
    BY <1>1, <2>1 DEF MsecCopy, Objects
  <2> HIDE DEF p
  <2>3. Good(p)
    BY <1>1, <1>2, <2>2
  <2>4. QED
    BY <2>3 DEF p
<1>4. Good(SetInfinite(o))
  <2> DEFINE p == SetInfinite(o)
  <2>1. /\ <<-1, 0>> \in Seq(Int) /\ Len(<<-1, 0>>) = 2 /\ <<-1, 0>>[1] = -1
        /\ <<-1, 0>>[2] = 0
    <3>1. -1 \in Int /\ 0 \in Int
      OBVIOUS
    <3>2. QED
      BY <3>1, ShortSequences
  <2>2. Fits("msec", <<-1, 0>>, TRUE)
    BY <2>1 DEF Fits, Numbers, Derived
  <2>3. /\ p \in Objects /\ p.class = "msec" /\ p.syntax = sNMP_SYNTAX["msec"]
        /\ p.meant = <<-1, 0>> /\ p.value = <<-1, 0>> /\ p.changed = TRUE
    BY <1>1, <2>1 DEF SetInfinite, Touched, Objects, Unset
  <2> HIDE DEF p
  <2>4. Good(p)
    BY <1>2, <2>2, <2>3
  <2>5. QED
    BY <2>4 DEF p
<1>5. ASSUME NEW c, Good(c), c.class = "msec" PROVE Good(MsecAssign(o, c))
  <2> DEFINE p == MsecAssign(o, c)
  <2>1. c.value \in Seq(Int) /\ c.meant = c.value /\ Fits("msec", c.value, TRUE)
    BY <1>5 DEF Good, Objects, Fits, Numbers, Derived
  <2>2. /\ p \in Objects /\ p.class = "msec" /\ p.syntax = sNMP_SYNTAX["msec"]
        /\ p.meant = c.value /\ p.value = c.value /\ p.changed = TRUE
    BY <1>1, <2>1 DEF MsecAssign, Touched, Objects, Unset
  <2> HIDE DEF p
  <2>3. Good(p)
    BY <1>2, <2>1, <2>2
  <2>4. QED
    BY <2>3 DEF p
<1>6. QED
  BY <1>3, <1>4, <1>5

-----------------------------------------------------------------------------
\* What the callers do to any object: its text, a copy of it, an assignment.
LEMMA PrintedIsGood ==
    ASSUME NEW o, Good(o)
    PROVE  Good(Printed(o))
<1>1. Good(FormatOutput(o))
  <2> DEFINE p == FormatOutput(o)
  <2>1. /\ p \in Objects /\ p.class = o.class /\ p.syntax = o.syntax /\ p.value = o.value
        /\ p.meant = o.meant /\ p.valid = o.valid /\ p.text = o.value
    BY DEF Good, Objects, FormatOutput
  <2> HIDE DEF p
  <2>2. Good(p)
    BY <2>1 DEF Good, ToUInt64, High, Low
  <2>3. QED
    BY <2>2 DEF p
<1>2. Printed(o) = IF o.changed THEN FormatOutput(o) ELSE o
  BY DEF Printed, IpPrintable, UdpPrintable
<1>3. QED
  BY <1>1, <1>2

LEMMA ClonedIsGood ==
    ASSUME NEW c, Good(c)
    PROVE  Good(Cloned(c))
<1>1. c.class \in Classes
  BY DEF Good, Objects
<1>2. CASE c.class \in Numbers
  BY <1>2, CopyNumber DEF Cloned, SnmpUInt32Clone, SnmpInt32Clone, Counter32Clone, Gauge32Clone,
     TimeTicksClone, Numbers, Derived
<1>3. CASE c.class = "Counter64"
  BY <1>3, Counter64Kept DEF Cloned, Counter64Clone
<1>4. CASE c.class = "Oid"
  BY <1>4, OidAssigned DEF Cloned, OidClone, IsOid
<1>5. CASE c.class \in Strings
  BY <1>5, StringMade DEF Cloned, Strings
<1>6. CASE c.class \in {"IpAddress", "UdpAddress"}
  <2>1. Good(AddressCopied(c))
    BY <1>6, AddressChanged DEF IsAddress
  <2>2. QED
    BY <1>6, <2>1 DEF Cloned, IpClone, UdpClone
<1>7. CASE c.class = "msec"
  BY <1>7, MsecFacts DEF Cloned
<1>8. QED
  BY <1>1, <1>2, <1>3, <1>4, <1>5, <1>6, <1>7 DEF Classes

\* The operator = between numbers of any two classes.
LEMMA NumberAssigned ==
    ASSUME NEW o, NEW c, Good(o), Good(c), o.class \in Numbers, c.class \in Numbers
    PROVE  Good(Assigned(o, c))
<1> DEFINE taken == [Touched(o) EXCEPT !.value = c.value, !.valid = c.valid, !.meant = c.meant]
<1>1. /\ c.value[1] \in Int /\ Radix \in Nat \ {0, 1}
  BY ShortSequences, ValuesAssumption DEF Good, Objects, Fits
<1>2. Good(taken)
  <2>1. Fits(o.class, c.value, c.valid)
    BY DEF Good, Fits, Numbers, Derived
  <2>2. QED
    BY <2>1, AssignKeeps DEF Numbers, Derived
<1>3. ToULong(c.value[1]) \in Int /\ ToLong(c.value[1]) \in Int
  <2>1. c.value[1] % Radix \in Int
    BY <1>1
  <2>2. QED
    BY <1>1, <2>1 DEF ToULong, ToLong
<1>4. \A i \in Int : Good(SnmpUInt32Set(o, i)) /\ Good(SnmpInt32Set(o, i))
  BY SetNumber
<1> HIDE DEF taken
<1>5. CASE o.class = c.class
  <2>1. CASE o.class = "SnmpUInt32"
    BY <1>2, <1>5, <2>1 DEF Assigned, taken, SnmpUInt32Assign
  <2>2. CASE o.class = "SnmpInt32"
    BY <1>2, <1>5, <2>2 DEF Assigned, taken, SnmpInt32Assign
  <2>3. CASE o.class = "Counter32"
    BY <1>2, <1>5, <2>3 DEF Assigned, taken, Counter32Assign
  <2>4. CASE o.class = "Gauge32"
    BY <1>2, <1>5, <2>4 DEF Assigned, taken, Gauge32Assign
  <2>5. CASE o.class = "TimeTicks"
    BY <1>2, <1>5, <2>5 DEF Assigned, taken, TimeTicksAssign
  <2>6. QED
    BY <2>1, <2>2, <2>3, <2>4, <2>5 DEF Numbers, Derived
<1>6. CASE o.class # c.class /\ o.class = "SnmpInt32"
  <2>1. Assigned(o, c) = SnmpInt32Set(o, ToLong(c.value[1]))
    BY <1>6 DEF Assigned, UnsignedLong, Numbers, Derived
  <2>2. QED
    BY <1>3, <1>4, <2>1
<1>7. CASE o.class # c.class /\ c.class = "SnmpInt32"
  <2>1. Assigned(o, c) = SnmpUInt32Set(o, ToULong(c.value[1]))
    BY <1>7 DEF Assigned, SignedLong, Numbers, Derived, Counter32Set, Gauge32Set, TimeTicksSet
  <2>2. QED
    BY <1>3, <1>4, <2>1
<1>8. CASE o.class # c.class /\ o.class # "SnmpInt32" /\ c.class # "SnmpInt32"
  <2>1. Assigned(o, c) = taken
    BY <1>8 DEF Assigned, taken, SnmpUInt32Assign, Numbers, Derived
  <2>2. QED
    BY <1>2, <2>1
<1>9. QED
  BY <1>5, <1>6, <1>7, <1>8

LEMMA AssignedIsGood ==
    ASSUME NEW o, NEW c, Good(o), Good(c),
           o.class = c.class \/ \E kind \in {Numbers, Strings} : {o.class, c.class} \subseteq kind
    PROVE  Good(Assigned(o, c))
<1>1. o.class \in Classes
  BY DEF Good, Objects
<1>2. \/ o.class \in Numbers /\ c.class \in Numbers
      \/ o.class \in Strings /\ c.class \in Strings
      \/ o.class = c.class /\ o.class \notin Numbers /\ o.class \notin Strings
  BY DEF Numbers, Derived, Strings
<1>3. CASE o.class \in Strings /\ c.class \in Strings
  <2>1. Good(OctetAssign(o, c))
    BY <1>3, StringMade
  <2>2. Assigned(o, c) = OctetAssign(o, c)
    BY <1>3 DEF Assigned, OpaqueAssign, Strings
  <2>3. QED
    BY <2>1, <2>2
<1>4. CASE o.class = c.class /\ o.class \notin Numbers /\ o.class \notin Strings
  <2>1. CASE o.class = "Counter64"
    BY <1>4, <2>1, Counter64Kept DEF Assigned
  <2>2. CASE o.class = "Oid"
    BY <1>4, <2>2, OidAssigned DEF Assigned, IsOid
  <2>3. CASE o.class = "msec"
    BY <1>4, <2>3, MsecFacts DEF Assigned
  <2>4. CASE o.class \in {"IpAddress", "UdpAddress"}
    <3> DEFINE taken == [Touched(o) EXCEPT !.value = c.value, !.meant = c.meant,
                                           !.valid = c.valid]
    <3>1. Good(taken)
      BY <1>4, <2>4, AddressChanged DEF IsAddress
    <3> HIDE DEF taken
    <3>2. Assigned(o, c) = taken
      BY <1>4, <2>4 DEF Assigned, taken
    <3>3. QED
      BY <3>1, <3>2
  <2>5. QED
    BY <1>1, <1>4, <2>1, <2>2, <2>3, <2>4 DEF Classes
<1>5. QED
  BY <1>2, <1>3, <1>4, NumberAssigned

-----------------------------------------------------------------------------
\* The two objects of the callers, step by step.
LEMMA BecomesGood ==
    ASSUME ValuesInv, NEW h \in {"a", "b"}, NEW o, Good(o), Becomes(h, o)
    PROVE  ValuesInv'
<1>1. o \in Objects
  BY DEF Good
<1>2. QED
  BY <1>1 DEF ValuesInv, Becomes

LEMMA BuildKeeps ==
    ASSUME ValuesInv, NEW h \in {"a", "b"}, Build(h)
    PROVE  ValuesInv'
<1>1. /\ ULongs \subseteq Int /\ ULongs \subseteq Nat /\ SubIds \subseteq Int /\ Longs \subseteq Int
      /\ MaxOid \in Nat /\ ADDRBUF \in Nat /\ Radix \in Nat \ {0}
  BY ValuesAssumption DEF ULongs, Longs
<1>2. ASSUME NEW i \in ULongs, NEW o \in {SnmpUInt32(i), Counter32New(i), Gauge32New(i),
                                         TimeTicksNew(i)}
      PROVE  Good(o)
  <2>1. i \in Int
    BY <1>1
  <2>2. QED
    BY <2>1, NewNumbers
<1>3. \A i \in Longs : Good(SnmpInt32(i))
  BY <1>1, NewNumbers
<1>4. ASSUME NEW n \in 0..(Radix * Radix - 1) PROVE Good(Counter64(n))
  <2>1. n \in Nat
    <3>1. ASSUME NEW m \in Int, n \in 0..m PROVE n \in Nat
      BY <3>1
    <3>2. Radix * Radix - 1 \in Int
      BY <1>1
    <3>3. QED
      BY <3>1, <3>2
  <2>2. /\ n \div Radix \in Nat /\ n % Radix \in ULongs
        /\ (n \div Radix) * Radix + (n % Radix) = n
    BY <2>1, Parts64
  <2>3. QED
    BY <2>2, NewCounter64
<1>5. \A hi, lo \in ULongs : Good(Counter64Parts(hi, lo))
  BY <1>1, NewCounter64
<1>6. Good(Oid(<<>>)) /\ \A i \in SubIds : Good(Oid(<<i>>))
  BY <1>1, ShortOids
<1>7. ASSUME NEW n \in 0..MaxOid, NEW bytes \in [1..n -> Bytes]
      PROVE  Good(OctetStr(bytes)) /\ Good(OpaqueStr(bytes))
  <2>1. n \in Nat /\ bytes \in [1..n -> Int]
    BY <1>1 DEF Bytes
  <2>2. bytes \in Seq(Int)
    BY <2>1, SeqDef
  <2>3. QED
    BY <2>2, NewString
<1>8. \A sec \in {0, 1}, milsec \in {0, 1} : Good(Msec(sec, milsec))
  BY NewMsec
<1>9. ASSUME NEW class \in {"IpAddress", "UdpAddress"}, NEW fam \in Families
      PROVE  Good(AddressNew(class, fam, [n \in 1..ADDRBUF |-> 0]))
  <2>1. [n \in 1..ADDRBUF |-> 0] \in [1..ADDRBUF -> Int]
    OBVIOUS
  <2>2. QED
    BY <2>1, NewAddress
<1>10. \E o : Good(o) /\ Becomes(h, o)
  BY <1>2, <1>3, <1>4, <1>5, <1>6, <1>7, <1>8, <1>9 DEF Build
<1>11. QED
  BY <1>10, BecomesGood

LEMMA ChangeKeeps ==
    ASSUME ValuesInv, NEW h \in {"a", "b"}, Change(h)
    PROVE  ValuesInv'
<1> DEFINE o == objs[h]
<1>1. Good(o)
  BY DEF ValuesInv
<1>2. /\ ULongs \subseteq Int /\ SubIds \subseteq Int /\ Longs \subseteq Int
      /\ MaxOid \in Nat /\ ADDRBUF \in Nat /\ Radix \in Nat \ {0} /\ 0 \in Int
  BY ValuesAssumption DEF ULongs, Longs
<1>3. o.class \in Numbers =>
        /\ \A i \in ULongs : Good(SnmpUInt32Set(o, i))
        /\ \A i \in Longs : Good(SnmpInt32Set(o, i))
        /\ Good(SnmpUInt32Clear(o)) /\ Good(SnmpInt32Clear(o))
  BY <1>1, <1>2, SetNumber
<1>4. o.class = "Counter64" =>
        /\ \A n \in 0..(Radix * Radix - 1) : Good(Counter64Set(o, n))
        /\ \A i \in ULongs : Good(SetHigh(o, i)) /\ Good(SetLow(o, i))
        /\ Good(Counter64Clear(o))
  <2>1. \A n \in 0..(Radix * Radix - 1) : n \in Nat
    BY <1>2
  <2>2. QED
    BY <1>1, <2>1, Counter64Kept
<1>5. ASSUME o.class = "Oid"
      PROVE  /\ \A k \in 1..Len(o.value), i \in SubIds : Good(OidIndex(o, k, i))
             /\ \A n \in 0..(MaxOid + 1) : Good(OidTrim(o, n))
             /\ Good(OidClear(o))
             /\ Len(o.value) < MaxOid => \A i \in SubIds : Good(OidAppendId(o, i))
  <2>1. IsOid(o) /\ Len(o.value) \in Nat
    BY <1>1, <1>5, OidFacts DEF IsOid
  <2> HIDE DEF o
  <2>2. \A k \in 1..Len(o.value), i \in SubIds : Good(OidIndex(o, k, i))
    BY <1>2, <2>1, OidIndexed DEF IsOid
  <2>3. \A n \in 0..(MaxOid + 1) : Good(OidTrim(o, n))
    BY <1>2, <2>1, OidTrimmed DEF IsOid
  <2>4. Good(OidClear(o))
    BY <2>1, OidEmptied DEF IsOid
  <2>5. ASSUME Len(o.value) < MaxOid, NEW i \in SubIds PROVE Good(OidAppendId(o, i))
    <3>1. <<i>> \in Seq(Int) /\ Len(<<i>>) = 1 /\ 1 <= MaxOid
      BY <1>2, <2>1, <2>5, ShortSequences
    <3>2. IsOid(Oid(<<i>>)) /\ Oid(<<i>>).value = <<i>>
      BY <3>1, NewOid DEF IsOid
    <3>3. Len(o.value) + Len(Oid(<<i>>).value) <= MaxOid
      <4>1. Len(Oid(<<i>>).value) = 1
        BY <3>1, <3>2
      <4>2. ASSUME NEW a \in Nat, NEW m \in Nat, NEW b, b = 1, a < m PROVE a + b <= m
        BY <4>2
      <4>3. QED
        BY <1>2, <2>1, <2>5, <4>1, <4>2
    <3>4. IsOid(OidAppend(o, Oid(<<i>>), FALSE))
      BY <2>1, <3>2, <3>3, OidAppended
    <3>5. QED
      BY <3>4 DEF OidAppendId, IsOid
  <2>6. QED
    BY <2>2, <2>3, <2>4, <2>5
<1>6. o.class \in Strings =>
        \A k \in 1..Len(o.value), byte \in Bytes : Good(OctetIndex(o, k, byte))
  BY <1>1, StringMade DEF Bytes
<1>7. o.class = "msec" => Good(SetInfinite(o))
  BY <1>1, MsecFacts
<1>8. ASSUME o.class \in {"IpAddress", "UdpAddress"}
      PROVE  /\ Good(AddressClear(o))
             /\ \A position \in 0..ADDRBUF, byte \in Bytes :
                   Good(AddressIndex(o, position, byte))
             /\ \A success \in BOOLEAN, fam \in Families :
                   Good(AddressParse(o, success, fam, [n \in 1..ADDRBUF |-> 1]))
  <2>1. IsAddress(o) /\ [n \in 1..ADDRBUF |-> 1] \in [1..ADDRBUF -> Int]
    BY <1>1, <1>8 DEF IsAddress
  <2>2. \A position \in 0..ADDRBUF : position \in Nat
    BY <1>2
  <2>3. \A byte \in Bytes : byte \in Int
    BY DEF Bytes
  <2> HIDE DEF o
  <2>4. QED
    BY <2>1, <2>2, <2>3, AddressChanged DEF IsAddress
<1>9. \E p : Good(p) /\ Becomes(h, p)
  <2>1. CASE o.class \in Numbers \ {"SnmpInt32"} /\
             (\/ \E i \in ULongs : Becomes(h, SnmpUInt32Set(o, i))
              \/ Becomes(h, SnmpUInt32Clear(o)))
    BY <1>3, <2>1
  <2>2. CASE o.class = "SnmpInt32" /\
             (\/ \E i \in Longs : Becomes(h, SnmpInt32Set(o, i))
              \/ Becomes(h, SnmpInt32Clear(o)))
    BY <1>3, <2>2 DEF Numbers
  <2>3. CASE o.class = "Counter64" /\
             (\/ \E n \in 0..(Radix * Radix - 1) : Becomes(h, Counter64Set(o, n))
              \/ \E i \in ULongs : Becomes(h, SetHigh(o, i)) \/ Becomes(h, SetLow(o, i))
              \/ Becomes(h, Counter64Clear(o)))
    BY <1>4, <2>3
  <2>4. CASE o.class = "Oid" /\
             (\/ \E k \in 1..Len(o.value), i \in SubIds : Becomes(h, OidIndex(o, k, i))
              \/ \E n \in 0..(MaxOid + 1) : Becomes(h, OidTrim(o, n))
              \/ Becomes(h, OidClear(o))
              \/ /\ Len(o.value) < MaxOid
                 /\ \E i \in SubIds : Becomes(h, OidAppendId(o, i)))
    BY <1>5, <2>4
  <2>5. CASE o.class \in Strings /\
             \E k \in 1..Len(o.value), byte \in Bytes : Becomes(h, OctetIndex(o, k, byte))
    BY <1>6, <2>5
  <2>6. CASE o.class = "msec" /\ Becomes(h, SetInfinite(o))
    BY <1>7, <2>6
  <2>7. CASE o.class \in {"IpAddress", "UdpAddress"} /\
             (\/ Becomes(h, AddressClear(o))
              \/ \E position \in 0..ADDRBUF, byte \in Bytes :
                    Becomes(h, AddressIndex(o, position, byte))
              \/ \E success \in BOOLEAN, fam \in Families :
                    Becomes(h, AddressParse(o, success, fam, [n \in 1..ADDRBUF |-> 1])))
    BY <1>8, <2>7
  <2>8. QED
    BY <2>1, <2>2, <2>3, <2>4, <2>5, <2>6, <2>7 DEF Change
<1>10. QED
  BY <1>9, BecomesGood

LEMMA ValuesStep ==
    ASSUME ValuesInv, [ValuesNext]_objs
    PROVE  ValuesInv'
<1> DEFINE Whole == {"a", "b"}
<1>1. \A h \in Whole : Good(objs[h])
  BY DEF ValuesInv
<1>2. ASSUME NEW h \in Whole, Spoil(h) PROVE ValuesInv'
  <2> DEFINE o == objs[h]
             p == [Touched(o) EXCEPT !.valid = FALSE]
  <2>1. Good(o) /\ o.class \in Numbers /\ Becomes(h, p) /\ <<>> \in Seq(Int)
    BY <1>1, <1>2, ShortSequences DEF Spoil
  <2>2. /\ p \in Objects /\ p.class = o.class /\ p.syntax = o.syntax
        /\ p.value = o.value /\ p.meant = o.meant /\ p.changed = TRUE
    BY <2>1 DEF Good, Objects, Touched, Unset
  <2> HIDE DEF o, p
  <2>3. Good(p)
    BY <2>1, <2>2 DEF Good, Fits, Numbers, Derived
  <2>4. QED
    BY <2>1, <2>3, BecomesGood
<1>3. ASSUME NEW h \in Whole, Show(h) PROVE ValuesInv'
  BY <1>1, <1>3, PrintedIsGood, BecomesGood DEF Show
<1>4. ASSUME NEW h \in Whole, NEW g \in Whole, Copy(h, g) PROVE ValuesInv'
  BY <1>1, <1>4, ClonedIsGood, BecomesGood DEF Copy
<1>5. ASSUME NEW h \in Whole, NEW g \in Whole, Slice(h, g) PROVE ValuesInv'
  <2>1. objs[g].class \in Numbers /\ Good(objs[g])
    BY <1>1, <1>5 DEF Slice, Numbers
  <2>2. Good(SnmpUInt32Copy(objs[g]))
    BY <2>1, CopyNumber
  <2>3. QED
    BY <1>5, <2>2, BecomesGood DEF Slice
<1>6. ASSUME NEW h \in Whole, NEW g \in Whole, Restring(h, g) PROVE ValuesInv'
  BY <1>1, <1>6, StringMade, BecomesGood DEF Restring
<1>7. ASSUME NEW h \in Whole, NEW g \in Whole, AssignTo(h, g) PROVE ValuesInv'
  <2>1. Good(Assigned(objs[h], objs[g]))
    BY <1>1, <1>7, AssignedIsGood DEF AssignTo
  <2>2. QED
    BY <1>7, <2>1, BecomesGood DEF AssignTo
<1>8. ASSUME NEW h \in Whole, NEW g \in Whole, AppendTo(h, g) PROVE ValuesInv'
  <2> DEFINE o == objs[h]
             c == objs[g]
             same == h = g
  <2>1. IsOid(o) /\ IsOid(c) /\ Len(o.value) + Len(c.value) <= MaxOid /\ (same => c = o)
    BY <1>1, <1>8 DEF AppendTo, IsOid
  <2>2. same \in BOOLEAN
    OBVIOUS
  <2>3. Becomes(h, OidAppend(o, c, same)) \/ Becomes(h, OidPlus(o, c))
    BY <1>8 DEF AppendTo
  <2> HIDE DEF o, c, same
  <2>4. Good(OidAppend(o, c, same))
    BY <2>1, <2>2, OidAppended DEF IsOid
  <2>5. Good(OidPlus(o, c))
    <3>1. IsOid(OidCopied(o)) /\ OidCopied(o).value = o.value
      BY <2>1, OidAssigned
    <3>2. IsOid(OidAppend(OidCopied(o), c, FALSE))
      BY <2>1, <3>1, OidAppended
    <3>3. QED
      BY <3>2 DEF OidPlus, IsOid
  <2>6. QED
    BY <2>3, <2>4, <2>5, BecomesGood
<1>9. ASSUME NEW h \in Whole, Build(h) PROVE ValuesInv'
  BY <1>9, BuildKeeps
<1>10. ASSUME NEW h \in Whole, Change(h) PROVE ValuesInv'
  BY <1>10, ChangeKeeps
<1>11. CASE UNCHANGED objs
  BY <1>11 DEF ValuesInv
<1>12. QED
  BY <1>2, <1>3, <1>4, <1>5, <1>6, <1>7, <1>8, <1>9, <1>10, <1>11 DEF ValuesNext

LEMMA ValuesStart ==
    ASSUME ValuesInit
    PROVE  ValuesInv
<1>1. Good(SnmpUInt32(0)) /\ SnmpUInt32(0) \in Objects
  <2>1. 0 \in Int
    OBVIOUS
  <2>2. Good(SnmpUInt32(0))
    BY <2>1, NewNumbers
  <2>3. QED
    BY <2>2 DEF Good
<1>2. QED
  BY <1>1 DEF ValuesInit, ValuesInv

\* Every member of the value classes leaves an object that is labelled as its class,
\* holds a value of the form of its class, which is what it stands for, and keeps no
\* text of another value, for every Radix, MaxOid and ADDRBUF.
THEOREM ValuesSafety == ValuesSpec => []ValuesInv
<1>1. ValuesInit => ValuesInv
  BY ValuesStart
<1>2. ValuesInv /\ [ValuesNext]_objs => ValuesInv'
  BY ValuesStep
<1>3. QED
  BY <1>1, <1>2, PTL DEF ValuesSpec

\* Writing a byte of an address, for any place in the buffer and the one behind it.
LEMMA AddressWritten ==
    ASSUME NEW o, IsAddress(o), NEW position \in 0..ADDRBUF
    PROVE  LET written == AddressIndex(o, position, 1)
           IN  /\ position < ADDRBUF => AddressAt(written, position) = 1
               /\ \A other \in 1..ADDRBUF \ {position} :
                     AddressAt(written, other) = AddressAt(o, other)
<1> DEFINE k == AddressCell(position) + 2
           v == [o.value EXCEPT ![k] = 1]
           written == AddressIndex(o, position, 1)
<1>1. o \in Objects /\ o.value \in Seq(Int) /\ Len(o.value) = ADDRBUF + 1 /\ ADDRBUF \in Nat \ {0}
  BY AddressFacts
<1>2. k \in 1..Len(o.value) /\ k = (IF position < ADDRBUF THEN position ELSE 0) + 2
  BY <1>1 DEF AddressCell
<1>3. \A j \in 1..Len(o.value) : v[j] = IF j = k THEN 1 ELSE o.value[j]
  BY <1>1, <1>2, ExceptSeq
<1>4. written.value = v
  BY <1>1 DEF AddressIndex, Touched, Objects
<1> HIDE DEF k, v, written
<1>5. position < ADDRBUF => AddressAt(written, position) = 1
  BY <1>1, <1>2, <1>3, <1>4 DEF AddressAt
<1>6. ASSUME NEW other \in 1..ADDRBUF \ {position}
      PROVE  AddressAt(written, other) = AddressAt(o, other)
  <2>1. other < ADDRBUF => other + 2 \in 1..Len(o.value) /\ other + 2 # k
    BY <1>1, <1>2
  <2>2. QED
    BY <1>3, <1>4, <2>1 DEF AddressAt
<1>7. QED
  BY <1>5, <1>6 DEF written

\* Whatever the callers do with numbers, identifiers, strings, addresses and times:
\* the value is the one that was meant, the syntax is that of the class, a cached text
\* is current and the family of an address can be told from its length.
THEOREM ValuesCurrent == ValuesSpec => []ValuesAreCurrent
<1>1. ASSUME ValuesInv PROVE ValuesAreCurrent
  <2> SUFFICES ASSUME NEW h \in {"a", "b"}
               PROVE  LET o == objs[h]
                      IN  /\ o.meant = IF o.class = "Counter64" THEN <<ToUInt64(o)>> ELSE o.value
                          /\ o.syntax = Syntax(o)
                          /\ o.changed \/ o.text = o.value
                          /\ o.class = "Oid" => (o.valid <=> o.value # <<>>)
                          /\ o.class = "msec" /\ ~IsInfinite(o) => MsecULong(o) \in Nat
                          /\ o.class \in {"IpAddress", "UdpAddress"} =>
                                \A position \in 0..ADDRBUF :
                                    LET written == AddressIndex(o, position, 1)
                                    IN  /\ position < ADDRBUF => AddressAt(written, position) = 1
                                        /\ \A other \in 1..ADDRBUF \ {position} :
                                              AddressAt(written, other) = AddressAt(o, other)
                          /\ o.class = "IpAddress" =>
                                /\ IpVersion(o) = "version_ipv4" <=> IpInetType(o) = 1
                                /\ IS_IP6LEN(IpLength(o)) <=> o.value[1] # 4
                                /\ HasIpv6Scope(o) <=> IpInetType(o) = 4
                          /\ o.class = "UdpAddress" =>
                                /\ IS_UDPIP6LEN(UdpLength(o)) <=> o.value[1] # 4
                                /\ Asn1Length(o) = IpLength(o) + 4
    BY DEF ValuesAreCurrent
  <2> DEFINE o == objs[h]
  <2>1. Good(o) /\ o.class \in Classes
    BY <1>1 DEF ValuesInv, Good, Objects
  <2> HIDE DEF o
  <2>2. o.syntax = Syntax(o)
    BY <2>1, Syntaxes DEF Good
  <2>3. o.class = "Oid" => (o.valid <=> o.value # <<>>)
    BY <2>1 DEF Good, Fits
  <2>4. o.class = "msec" /\ ~IsInfinite(o) => MsecULong(o) \in Nat
    BY <2>1 DEF Good, Fits, IsInfinite, MsecULong
  <2>5. ASSUME o.class \in {"IpAddress", "UdpAddress"}
        PROVE  /\ \A position \in 0..ADDRBUF :
                     LET written == AddressIndex(o, position, 1)
                     IN  /\ position < ADDRBUF => AddressAt(written, position) = 1
                         /\ \A other \in 1..ADDRBUF \ {position} :
                               AddressAt(written, other) = AddressAt(o, other)
               /\ o.value[1] \in {4, 6, 7}
    <3>1. IsAddress(o)
      BY <2>1, <2>5 DEF IsAddress
    <3>2. QED
      BY <3>1, AddressWritten, AddressFacts DEF Families
  <2>6. o.class = "IpAddress" =>
          /\ IpVersion(o) = "version_ipv4" <=> IpInetType(o) = 1
          /\ IS_IP6LEN(IpLength(o)) <=> o.value[1] # 4
          /\ HasIpv6Scope(o) <=> IpInetType(o) = 4
    BY <2>5 DEF IpVersion, IpInetType, IS_IP6LEN, IpLength, HasIpv6Scope
  <2>7. o.class = "UdpAddress" =>
          /\ IS_UDPIP6LEN(UdpLength(o)) <=> o.value[1] # 4
          /\ Asn1Length(o) = IpLength(o) + 4
    BY <2>5 DEF IS_UDPIP6LEN, UdpLength, Asn1Length, IpLength
  <2>8. o.meant = IF o.class = "Counter64" THEN <<ToUInt64(o)>> ELSE o.value
    BY <2>1 DEF Good
  <2>9. o.changed \/ o.text = o.value
    BY <2>1 DEF Good
  <2>10. QED
    BY <2>2, <2>3, <2>4, <2>5, <2>6, <2>7, <2>8, <2>9 DEF o
<1>2. QED
  BY <1>1, ValuesSafety, PTL

\* Any two identifiers that the callers hold are ordered as the management tree
\* orders them, whole and up to any number of them; trim and the printed tail are
\* the two parts of an identifier.
THEOREM OidsOrdered == ValuesSpec => []OidsAreOrdered
<1>1. ASSUME ValuesInv PROVE OidsAreOrdered
  <2> DEFINE head(s, n) == SubSeq(s, 1, MinOf(n, Len(s)))
             order(s, t) == IF s = t THEN 0 ELSE IF Precedes(s, t) THEN -1 ELSE 1
             Ordered(o, c) ==
                /\ OidEq(o, c) <=> o.value = c.value
                /\ OidLt(o, c) <=> Precedes(o.value, c.value)
                /\ OidGt(o, c) <=> Precedes(c.value, o.value)
                /\ OidLe(o, c) <=> ~OidGt(o, c)
                /\ OidGe(o, c) <=> ~OidLt(o, c)
                /\ NCompare(o, c) = order(o.value, c.value)
                /\ OidNe(o, c) <=> OidLt(o, c) \/ OidGt(o, c)
                /\ (\A n \in 1..MaxOid : OidAt(o, n) = OidAt(c, n)) =>
                      o.value = c.value \/ Len(o.value) # Len(c.value)
                /\ \A n \in 1..Len(o.value) :
                      OidTrim(o, n).value \o OidTail(o, n) = o.value
                /\ \A n \in 0..(MaxOid + 1) :
                      NComparePrefix(n, o, c) = order(head(o.value, n), head(c.value, n))
  <2>1. ASSUME NEW s \in Seq(Int), NEW t \in Seq(Int), NEW r, Order(s, t, r)
        PROVE  r = order(s, t)
    <3>1. Precedes(s, t) <=> Before(s, t)
      BY PrecedesIsBefore
    <3>2. QED
      BY <2>1, <3>1 DEF Order
  <2>2. ASSUME NEW o, IsOid(o), NEW c, IsOid(c) PROVE Ordered(o, c)
    <3>1. /\ o.value \in Seq(Int) /\ Len(o.value) \in Nat /\ Len(o.value) <= MaxOid
          /\ c.value \in Seq(Int) /\ Len(c.value) \in Nat /\ MaxOid \in Nat
      BY <2>2, OidFacts, ValuesAssumption
    <3>2. /\ Precedes(o.value, c.value) <=> Before(o.value, c.value)
          /\ Precedes(c.value, o.value) <=> Before(c.value, o.value)
      BY <3>1, PrecedesIsBefore
    <3>3. /\ OidEq(o, c) <=> o.value = c.value
          /\ OidLt(o, c) <=> Precedes(o.value, c.value)
          /\ OidGt(o, c) <=> Precedes(c.value, o.value)
          /\ OidLe(o, c) <=> ~OidGt(o, c)
          /\ OidGe(o, c) <=> ~OidLt(o, c)
          /\ OidNe(o, c) <=> OidLt(o, c) \/ OidGt(o, c)
      BY <3>1, <3>2, OidOperators
    <3>4. NCompare(o, c) = order(o.value, c.value)
      BY <2>1, <3>1, ComparesWhole
    <3>5. ASSUME \A n \in 1..MaxOid : OidAt(o, n) = OidAt(c, n), Len(o.value) = Len(c.value)
          PROVE  o.value = c.value
      <4>1. ASSUME NEW n \in 1..Len(o.value) PROVE o.value[n] = c.value[n]
        <5>1. n \in 1..MaxOid /\ ~(n > Len(o.value)) /\ ~(n > Len(c.value))
          BY <3>1, <3>5
        <5>2. QED
          BY <3>5, <5>1 DEF OidAt
      <4>2. QED
        BY <3>1, <3>5, <4>1, SeqEqual
    <3>6. \A n \in 1..Len(o.value) : OidTrim(o, n).value \o OidTail(o, n) = o.value
      BY <2>2, OidParts DEF IsOid
    <3>7. ASSUME NEW n \in 0..(MaxOid + 1)
          PROVE  NComparePrefix(n, o, c) = order(head(o.value, n), head(c.value, n))
      <4>1. n \in Nat
        BY <3>1
      <4>2. Order(Leading(o.value, n), Leading(c.value, n), NComparePrefix(n, o, c))
        BY <3>1, <4>1, ComparesFronts
      <4>3. Leading(o.value, n) \in Seq(Int) /\ Leading(c.value, n) \in Seq(Int)
        BY <3>1, <4>1, Fronts
      <4>4. NComparePrefix(n, o, c) = order(Leading(o.value, n), Leading(c.value, n))
        BY <2>1, <4>2, <4>3
      <4>5. QED
        BY <4>4 DEF Leading
    <3>8. QED
      BY <3>3, <3>4, <3>5, <3>6, <3>7
  <2>3. ASSUME NEW h \in {"a", "b"}, NEW g \in {"a", "b"},
               objs[h].class = "Oid" /\ objs[g].class = "Oid"
        PROVE  Ordered(objs[h], objs[g])
    <3>1. IsOid(objs[h]) /\ IsOid(objs[g])
      BY <1>1, <2>3 DEF ValuesInv, IsOid
    <3> HIDE DEF Ordered
    <3>2. QED
      BY <2>2, <3>1
  <2>4. QED
    BY <2>3 DEF OidsAreOrdered
<1>2. QED
  BY <1>1, ValuesSafety, PTL

-----------------------------------------------------------------------------
\* A reading of the worker.  The comparison of the answer's identifier with the one
\* that was asked for is that of a prefix.
LEMMA AnswerIsRecognised ==
    ASSUME NEW o, IsOid(o), NEW vb, IsOid(vb.iv_vb_oid)
    PROVE  NComparePrefix(Len(o.value), o, GetVbOid(vb, Oid(<<>>))) = 0
              <=> IsPrefix(o.value, vb.iv_vb_oid.value)
<1> DEFINE c == GetVbOid(vb, Oid(<<>>))
           s == o.value
           t == vb.iv_vb_oid.value
           n == Len(s)
           r == NComparePrefix(n, o, c)
<1>1. IsOid(Oid(<<>>))
  BY ShortOids DEF IsOid, Oid, Object
<1>2. IsOid(c) /\ c.value = t
  BY <1>1, OidAssigned DEF GetVbOid
<1>3. s \in Seq(Int) /\ t \in Seq(Int) /\ n \in Nat /\ Len(t) \in Nat
  BY OidFacts
<1>4. Order(Leading(s, n), Leading(t, n), r)
  BY <1>2, <1>3, ComparesFronts
<1>5. Leading(s, n) = s
  BY <1>3, WholeFront
<1>6. Leading(t, n) \in Seq(Int) /\ Len(Leading(t, n)) = MinOf(n, Len(t))
  BY <1>3, Fronts
<1>7. r = 0 <=> s = Leading(t, n)
  BY <1>4, <1>5 DEF Order
<1> HIDE DEF c, r
<1>8. SubSeq(s, 1, n) = s
  BY <1>3, SubSeqFull
<1>9. CASE n <= Len(t)
  <2>1. Leading(t, n) = SubSeq(t, 1, n)
    BY <1>3, <1>9 DEF Leading, MinOf
  <2>2. QED
    BY <1>7, <1>8, <1>9, <2>1 DEF IsPrefix, r, c
<1>10. CASE ~(n <= Len(t))
  <2>1. MinOf(n, Len(t)) # n
    BY <1>3, <1>10 DEF MinOf
  <2>2. QED
    BY <1>6, <1>7, <1>10, <2>1 DEF IsPrefix, r, c
<1>11. QED
  BY <1>9, <1>10

\* A number that an answer holds is a copy of it.
LEMMA Counter64Cloned ==
    \A n \in Nat : /\ Cloned(Counter64(n)) = Counter64(n) /\ ToUInt64(Counter64(n)) = n
                   /\ Counter64(n) \in Objects /\ Counter64(n).class = "Counter64"
<1> SUFFICES ASSUME NEW n \in Nat
             PROVE  /\ Cloned(Counter64(n)) = Counter64(n) /\ ToUInt64(Counter64(n)) = n
                    /\ Counter64(n) \in Objects /\ Counter64(n).class = "Counter64"
  OBVIOUS
<1> DEFINE hi == n \div Radix
           lo == n % Radix
           c == Counter64(n)
           p == Counter64Copy(c)
<1>1. hi \in Nat /\ lo \in ULongs /\ hi * Radix + lo = n
  BY Parts64
<1>2. Good(c) /\ c.class = "Counter64"
  <2>1. Good(Counter64(hi * Radix + lo))
    BY <1>1, NewCounter64
  <2>2. QED
    BY <1>1, <2>1 DEF Counter64, Object
<1>3. Good(p)
  BY <1>2, Counter64Kept
<1>4. /\ c.syntax = sNMP_SYNTAX["Counter64"] /\ c.valid = TRUE /\ c.changed = TRUE
      /\ c.text = Unset /\ c.value = <<hi, lo>>
  BY DEF Counter64, Object
<1>5. /\ Counter64(0).class = "Counter64" /\ Counter64(0).syntax = sNMP_SYNTAX["Counter64"]
      /\ Counter64(0).valid = TRUE /\ Counter64(0).changed = TRUE /\ Counter64(0).text = Unset
      /\ DOMAIN Counter64(0) = {"class", "syntax", "value", "meant", "valid", "changed", "text"}
  BY DEF Counter64, Object
<1>6. /\ p.class = c.class /\ p.syntax = c.syntax /\ p.valid = c.valid /\ p.changed = c.changed
      /\ p.text = c.text /\ p.value = c.value /\ p.meant = c.meant
  <2> HIDE DEF c
  <2>1. p = [Counter64(0) EXCEPT !.value = c.value, !.meant = c.meant]
    BY DEF Counter64Copy
  <2> HIDE DEF p
  <2>2. QED
    BY <1>2, <1>4, <1>5, <2>1
<1>7. c \in Objects /\ p \in Objects
  BY <1>2, <1>3 DEF Good
<1>8. p = c
  <2> HIDE DEF p, c
  <2>1. QED
    BY <1>6, <1>7 DEF Objects
<1>9. Cloned(c) = p
  BY <1>2 DEF Cloned, Counter64Clone
<1>10. ToUInt64(c) = n
  <2>1. <<hi, lo>>[1] = hi /\ <<hi, lo>>[2] = lo
    OBVIOUS
  <2>2. QED
    BY <1>1, <1>4, <2>1 DEF ToUInt64, High, Low
<1>11. QED
  BY <1>2, <1>7, <1>8, <1>9, <1>10

\* The variables of answers: only one that the agent knows has a number.
Statuses == {SNMP_CLASS_SUCCESS, noSuchObject, endOfMibView}
AnswerVbs ==
    {vb \in [iv_vb_oid : Objects, iv_vb_value : Objects \cup {NoValue},
             exception_status : Statuses] :
        /\ IsOid(vb.iv_vb_oid)
        /\ vb.iv_vb_value.class = "Counter64" =>
              /\ vb.exception_status = SNMP_CLASS_SUCCESS
              /\ \E n \in Nat : vb.iv_vb_value = Counter64(n)}

LEMMA AnsweredVbs ==
    ASSUME NEW s \in AnsweredOids, NEW content \in Contents, NEW status \in Statuses
    PROVE  Answered(s, content, status) \in AnswerVbs
<1> DEFINE id == Oid(s)
<1>1. IsOid(id) /\ id \in Objects
  <2>1. s \in Seq(SubIds) /\ Len(s) <= MaxOid /\ SubIds \subseteq Int
    BY ReadAssumption, ValuesAssumption
  <2>2. s \in Seq(Int)
    BY <2>1, SeqMonotonic
  <2>3. QED
    BY <2>1, <2>2, NewOid DEF IsOid, Good
<1> HIDE DEF id
<1>2. /\ FreeVb(Vb(id)).iv_vb_oid = id /\ FreeVb(Vb(id)).iv_vb_value = NoValue
      /\ FreeVb(Vb(id)).exception_status = SNMP_CLASS_SUCCESS
      /\ FreeVb(Vb(id)) \in [iv_vb_oid : Objects, iv_vb_value : Objects \cup {NoValue},
                             exception_status : Statuses]
  BY <1>1 DEF FreeVb, Vb, Statuses
<1>3. CASE status # SNMP_CLASS_SUCCESS
  <2>1. Answered(s, content, status) = SetVbException(Vb(id), status)
    BY <1>3 DEF Answered, id
  <2>2. NoValue.class # "Counter64"
    BY DEF NoValue
  <2>3. QED
    BY <1>1, <1>2, <2>1, <2>2 DEF SetVbException, AnswerVbs
<1>4. CASE status = SNMP_CLASS_SUCCESS /\ content < 0
  <2>1. Answered(s, content, status) = SetVbText(Vb(id), <<>>)
    BY <1>4 DEF Answered, id
  <2>2. <<>> \in Seq(Int)
    BY ShortSequences
  <2>3. OctetStr(<<>>) \in Objects /\ OctetStr(<<>>).class = "OctetStr"
    BY <2>2, NewString DEF Good, OctetStr, Object
  <2>4. QED
    BY <1>1, <1>2, <2>1, <2>3 DEF SetVbText, AnswerVbs
<1>5. CASE status = SNMP_CLASS_SUCCESS /\ ~(content < 0)
  <2>1. Answered(s, content, status) = SetVbValue(Vb(id), Counter64(content))
    BY <1>5 DEF Answered, id
  <2>2. content \in Nat
    BY <1>5, ReadAssumption
  <2>3. Cloned(Counter64(content)) = Counter64(content) /\ Counter64(content) \in Objects
    BY <2>2, Counter64Cloned
  <2>4. QED
    BY <1>1, <1>2, <2>1, <2>2, <2>3 DEF SetVbValue, AnswerVbs
<1>6. QED
  BY <1>3, <1>4, <1>5

\* The target that a request is sent to, from the address that was parsed.
IsDevice(a) == IsAddress(a) /\ a.class = "UdpAddress" /\ a.value[1] = 4
Asks(ctarget) ==
    /\ ctarget.validity
    /\ GenType(ctarget.my_address) = "type_udp"
    /\ GenSyntax(ctarget.my_address) = sNMP_SYNTAX["UdpAddress"]
    /\ GenAsn1Length(ctarget.my_address) = 8
Target(address) ==
    LET ctarget == SetVersion(CTarget(GenAddress(address)), 1)
    IN  SetReadCommunity(SetTimeout(SetRetry(ctarget, 1), 1000), "public")

LEMMA TargetAsks ==
    ASSUME NEW a, IsDevice(a), a.valid
    PROVE  Asks(Target(a))
<1> DEFINE gen == GenAddress(a)
<1>1. /\ gen.address.class = "UdpAddress" /\ gen.address.value = a.value
      /\ gen.valid_flag = a.valid /\ a.value[1] = 4
  <2>1. a \in Objects /\ a.class = "UdpAddress" /\ a.value[1] = 4
    BY AddressFacts DEF IsDevice
  <2>2. AddressCopied(a).class = "UdpAddress" /\ AddressCopied(a).value = a.value
    BY <2>1 DEF AddressCopied, Touched, Objects
  <2>3. Cloned(a) = AddressCopied(a)
    BY <2>1 DEF Cloned, UdpClone
  <2>4. QED
    BY <2>1, <2>2, <2>3 DEF GenAddress
<1>2. gen.address # NoValue
  BY <1>1 DEF NoValue
<1>3. /\ GenType(gen) = "type_udp" /\ GenSyntax(gen) = sNMP_SYNTAX["UdpAddress"]
      /\ GenAsn1Length(gen) = 8
  <2> HIDE DEF gen
  <2>1. GenType(gen) = "type_udp"
    BY <1>1 DEF GenType, UdpType
  <2>2. GenSyntax(gen) = sNMP_SYNTAX["UdpAddress"]
    BY <1>1, <1>2 DEF GenSyntax, Syntax, UdpSyntax, sNMP_SYNTAX
  <2>3. GenAsn1Length(gen) = 8
    BY <1>1, <1>2 DEF GenAsn1Length, Asn1Length, UdpLength
  <2>4. QED
    BY <2>1, <2>2, <2>3
<1> HIDE DEF gen
<1>4. /\ SnmpTarget(gen).validity = a.valid /\ SnmpTarget(gen).my_address = gen
      /\ {"validity", "my_address"} \subseteq DOMAIN SnmpTarget(gen)
  BY <1>1 DEF SnmpTarget
<1>5. /\ CTarget(gen).validity = a.valid /\ CTarget(gen).my_address = gen
      /\ {"validity", "my_address"} \subseteq DOMAIN CTarget(gen)
  <2> DEFINE base == [SnmpTarget(gen) EXCEPT !.ttype = "type_ctarget"]
             communities == [read_community |-> "public", write_community |-> "public"]
  <2>1. /\ base.validity = a.valid /\ base.my_address = gen
        /\ {"validity", "my_address"} \subseteq DOMAIN base
    BY <1>4
  <2>2. CTarget(gen) = base ++ communities
    BY DEF CTarget
  <2> HIDE DEF base, communities
  <2>3. QED
    BY <2>1, <2>2 DEF ++
<1>6. LET t1 == SetVersion(CTarget(gen), 1)
          t2 == SetRetry(t1, 1)
          t3 == SetTimeout(t2, 1000)
          t4 == SetReadCommunity(t3, "public")
      IN  t4.validity = a.valid /\ t4.my_address = gen
  <2> DEFINE t0 == CTarget(gen)
             t1 == [t0 EXCEPT !["version"] = 1]
             t2 == [t1 EXCEPT !["retries"] = 1]
             t3 == [t2 EXCEPT !["timeout"] = 1000]
             t4 == [t3 EXCEPT !["read_community"] = "public"]
  <2> HIDE DEF t0
  <2>1. /\ t1.validity = a.valid /\ t1.my_address = gen
        /\ {"validity", "my_address"} \subseteq DOMAIN t1
    BY <1>5 DEF t0
  <2> HIDE DEF t1
  <2>2. /\ t2.validity = a.valid /\ t2.my_address = gen
        /\ {"validity", "my_address"} \subseteq DOMAIN t2
    BY <2>1
  <2> HIDE DEF t2
  <2>3. /\ t3.validity = a.valid /\ t3.my_address = gen
        /\ {"validity", "my_address"} \subseteq DOMAIN t3
    BY <2>2
  <2> HIDE DEF t3
  <2>4. t4.validity = a.valid /\ t4.my_address = gen
    BY <2>3
  <2>5. QED
    BY <2>4 DEF t0, t1, t2, t3, SetVersion, SetRetry, SetTimeout, SetReadCommunity
<1> DEFINE t == Target(a)
<1>7. t.validity = a.valid /\ t.my_address = gen
  BY <1>6 DEF Target, gen
<1>8. a.valid = TRUE
  BY AddressFacts DEF IsDevice
<1> HIDE DEF t
<1>9. Asks(t)
  BY <1>3, <1>7, <1>8 DEF Asks
<1>10. QED
  BY <1>9 DEF t

\* The invariant of a reading: the value is that of the last variable that was read.
Readers == {"pc", "oid", "address", "ctarget", "pdu", "vb", "z", "sockets", "value", "ret"}
Open == {"parsed", "asked", "reading"}
Waiting == {"idle", "parsed", "asked"}
ReaderOK ==
    /\ DOMAIN reader = Readers /\ "vbs" \in DOMAIN reader.pdu
    /\ reader.pc \in Open \cup {"idle", "done"}
    /\ IsOid(reader.oid) /\ IsDevice(reader.address) /\ IsOid(reader.vb.iv_vb_oid)
    /\ DOMAIN reader.vb = {"iv_vb_oid", "iv_vb_value", "exception_status"}
    /\ reader.z \in Nat /\ reader.value \in Nat /\ reader.ret \in BOOLEAN
    /\ answer \in Seq(AnswerVbs)
ReaderInv ==
    /\ reader.sockets = IF reader.pc \in Open THEN 1 ELSE 0
    /\ reader.pc \in Waiting => answer = <<>> /\ reader.z = 0 /\ ~reader.ret
    /\ ~reader.ret => reader.value = 0
    /\ reader.value # 0 => \E n \in 1..Len(answer) : Supports(answer[n], reader.value)
    /\ reader.pc \in {"asked", "reading"} =>
          /\ Asks(reader.ctarget)
          /\ reader.z = 0 => reader.vb.iv_vb_oid.value = reader.oid.value
    /\ reader.pc = "reading" =>
          /\ reader.pdu.vbs = answer /\ reader.z <= Len(answer)
          /\ reader.z # 0 => reader.ret /\ reader.value = ToUInt(answer[reader.z])
    /\ reader.pc = "done" =>
          \A v \in Contents : v >= 0 /\ Len(answer) = 1 /\ Supports(answer[1], v) =>
              reader.ret /\ reader.value = v
ReadInv == ReaderOK /\ ReaderInv

LEMMA NoAddrIsDevice == IsDevice(NoAddr)
<1> DEFINE none == [n \in 1..ADDRBUF |-> 0]
           a == AddressNew("UdpAddress", 4, none)
<1>1. none \in [1..ADDRBUF -> Int] /\ 4 \in Families
  BY DEF Families
<1>2. Good(a) /\ a.class = "UdpAddress" /\ a.value = <<4>> \o none
  BY <1>1, NewAddress DEF AddressNew, Object
<1>3. a.value[1] = 4
  BY <1>1, <1>2, AddressValue
<1>4. NoAddr = [a EXCEPT !.valid = FALSE]
  BY DEF NoAddr
<1> HIDE DEF a, none
<1>5. a \in Objects
  BY <1>2 DEF Good
<1>6. /\ NoAddr \in Objects /\ NoAddr.class = "UdpAddress" /\ NoAddr.syntax = a.syntax
      /\ NoAddr.value = a.value /\ NoAddr.meant = a.meant /\ NoAddr.changed = a.changed
      /\ NoAddr.text = a.text
  BY <1>2, <1>4, <1>5 DEF Objects
<1>7. Good(NoAddr)
  BY <1>2, <1>6 DEF Good, Fits, Numbers, Derived
<1>8. QED
  BY <1>2, <1>3, <1>6, <1>7 DEF IsDevice, IsAddress

LEMMA IdleIsOK ==
    /\ DOMAIN Idle = Readers /\ "vbs" \in DOMAIN Idle.pdu
    /\ IsOid(Idle.oid) /\ IsDevice(Idle.address) /\ IsOid(Idle.vb.iv_vb_oid)
    /\ DOMAIN Idle.vb = {"iv_vb_oid", "iv_vb_value", "exception_status"}
    /\ Idle.pc = "idle" /\ Idle.z = 0 /\ Idle.value = 0 /\ Idle.sockets = 0
    /\ Idle.ret \in BOOLEAN /\ ~Idle.ret
<1>1. IsOid(Oid(<<>>))
  BY ShortOids DEF IsOid, Oid, Object
<1>2. "vbs" \in DOMAIN Pdu
  BY DEF Pdu, ++
<1>3. /\ Idle.oid = Oid(<<>>) /\ Idle.address = NoAddr /\ Idle.pdu = Pdu
      /\ Idle.vb = Vb(Oid(<<>>)) /\ DOMAIN Idle = Readers
      /\ Idle.pc = "idle" /\ Idle.z = 0 /\ Idle.value = 0 /\ Idle.sockets = 0
      /\ Idle.ret \in BOOLEAN /\ ~Idle.ret
  BY DEF Idle, Readers
<1>4. /\ Vb(Oid(<<>>)).iv_vb_oid = Oid(<<>>)
      /\ DOMAIN Vb(Oid(<<>>)) = {"iv_vb_oid", "iv_vb_value", "exception_status"}
  BY DEF Vb
<1>5. QED
  BY <1>1, <1>2, <1>3, <1>4, NoAddrIsDevice

LEMMA NothingAnswered ==
    <<>> \in Seq(AnswerVbs) /\ Len(<<>>) = 0
BY EmptySeq

\* An agent that knows what was asked, and answers that alone, is believed.
Believed == \A v \in Contents : v >= 0 /\ Len(answer) = 1 /\ Supports(answer[1], v) =>
                                    reader.ret /\ reader.value = v

\* Whatever ends a reading.
LEMMA ReturnKeeps ==
    ASSUME ReadInv, reader.pc \in Open, Return, Believed
    PROVE  ReadInv'
<1>1. /\ DOMAIN reader' = Readers /\ reader'.pc = "done" /\ reader'.sockets = reader.sockets - 1
      /\ reader'.oid = reader.oid /\ reader'.address = reader.address
      /\ reader'.pdu = reader.pdu /\ reader'.vb = reader.vb /\ reader'.z = reader.z
      /\ reader'.value = reader.value /\ reader'.ret = reader.ret /\ answer' = answer
  BY DEF ReadInv, ReaderOK, Return, Readers
<1>2. reader'.sockets = 0
  BY <1>1 DEF ReadInv, ReaderInv
<1>3. ReaderOK'
  BY <1>1 DEF ReadInv, ReaderOK
<1>4. \A n, v : Supports(answer[n], v)' <=> Supports(answer[n], v)
  BY <1>1 DEF Supports
<1>5. ReaderInv'
  BY <1>1, <1>2, <1>4 DEF ReadInv, ReaderInv, Believed, Open, Waiting
<1>6. QED
  BY <1>3, <1>5 DEF ReadInv

LEMMA ReadBeginKeeps ==
    ASSUME ReadInv, NEW asked \in AskedOids, NEW reachable \in BOOLEAN,
           ReadBegin(asked, reachable)
    PROVE  ReadInv'
<1> DEFINE a == AddressParse(NoAddr, reachable, 4, Tail(NoAddr.value))
<1>1. IsDevice(a)
  <2>1. /\ NoAddr.value \in Seq(Int) /\ Len(NoAddr.value) = ADDRBUF + 1
        /\ ADDRBUF \in Nat \ {0} /\ IsAddress(NoAddr) /\ NoAddr.class = "UdpAddress"
    BY NoAddrIsDevice, AddressFacts DEF IsDevice
  <2>2. NoAddr.value # <<>>
    BY <2>1, ShortSequences
  <2> DEFINE bytes == Tail(NoAddr.value)
  <2>3. bytes \in Seq(Int) /\ Len(bytes) = ADDRBUF
    BY <2>1, <2>2, HeadTailProperties
  <2> HIDE DEF bytes
  <2>4. bytes \in [1..ADDRBUF -> Int]
    BY <2>3, LenProperties
  <2>5. 4 \in Families
    BY DEF Families
  <2>6. IsAddress(AddressParse(NoAddr, reachable, 4, bytes))
    BY <2>1, <2>4, <2>5, AddressChanged
  <2>7. NoAddr \in Objects
    BY <2>1, AddressFacts
  <2>8. /\ AddressParse(NoAddr, reachable, 4, bytes).class = "UdpAddress"
        /\ AddressParse(NoAddr, reachable, 4, bytes).value = <<4>> \o bytes
    BY <2>1, <2>7 DEF AddressParse, Touched, Objects
  <2>9. (<<4>> \o bytes)[1] = 4
    BY <2>4, <2>5, AddressValue
  <2>10. QED
    BY <2>6, <2>8, <2>9 DEF IsDevice, bytes
<1>2. IsOid(Oid(asked))
  <2>1. asked \in Seq(SubIds) /\ Len(asked) <= MaxOid /\ SubIds \subseteq Int
    BY ReadAssumption, ValuesAssumption
  <2>2. asked \in Seq(Int)
    BY <2>1, SeqMonotonic
  <2>3. QED
    BY <2>1, <2>2, NewOid DEF IsOid
<1>3. Idle.address = NoAddr
  BY DEF Idle
<1> HIDE DEF a
<1>4. reader' = [Idle EXCEPT !.pc = "parsed", !.sockets = 1, !.oid = Oid(asked), !.address = a]
  BY <1>3 DEF ReadBegin, a
<1>5. /\ DOMAIN Idle = Readers /\ "vbs" \in DOMAIN Idle.pdu /\ IsOid(Idle.vb.iv_vb_oid)
      /\ DOMAIN Idle.vb = {"iv_vb_oid", "iv_vb_value", "exception_status"}
      /\ Idle.z = 0 /\ Idle.value = 0 /\ Idle.ret \in BOOLEAN /\ ~Idle.ret
  BY IdleIsOK
<1>6. /\ DOMAIN reader' = Readers /\ reader'.pc = "parsed" /\ reader'.sockets = 1
      /\ reader'.oid = Oid(asked) /\ reader'.address = a /\ reader'.pdu = Idle.pdu
      /\ reader'.vb = Idle.vb /\ reader'.z = 0 /\ reader'.value = 0 /\ reader'.ret = Idle.ret
      /\ answer' = <<>>
  BY <1>4, <1>5 DEF ReadBegin, Readers
<1>7. <<>> \in Seq(AnswerVbs)
  BY NothingAnswered
<1>8. ReaderOK'
  BY <1>1, <1>2, <1>5, <1>6, <1>7 DEF ReaderOK, Open
<1>9. ReaderInv'
  BY <1>5, <1>6 DEF ReaderInv, Open, Waiting
<1>10. QED
  BY <1>8, <1>9 DEF ReadInv

LEMMA ReadPrepareKeeps ==
    ASSUME ReadInv, ReadPrepare
    PROVE  ReadInv'
<1> DEFINE vb == SetVbOid(reader.vb, reader.oid)
           pdu == AddVb(reader.pdu, vb)
<1>1. /\ IsOid(vb.iv_vb_oid) /\ vb.iv_vb_oid.value = reader.oid.value
      /\ DOMAIN vb = {"iv_vb_oid", "iv_vb_value", "exception_status"}
  <2>1. /\ IsOid(reader.vb.iv_vb_oid) /\ IsOid(reader.oid)
        /\ DOMAIN reader.vb = {"iv_vb_oid", "iv_vb_value", "exception_status"}
    BY DEF ReadInv, ReaderOK
  <2> DEFINE id == OidAssign(reader.vb.iv_vb_oid, reader.oid)
  <2>2. IsOid(id) /\ id.value = reader.oid.value
    BY <2>1, OidAssigned
  <2>3. vb = [reader.vb EXCEPT !.iv_vb_oid = id]
    BY DEF SetVbOid
  <2> HIDE DEF id, vb
  <2>4. vb.iv_vb_oid = id /\ DOMAIN vb = {"iv_vb_oid", "iv_vb_value", "exception_status"}
    BY <2>1, <2>3
  <2>5. QED
    BY <2>2, <2>4
<1>2. "vbs" \in DOMAIN pdu
  BY DEF ReadInv, ReaderOK, AddVb
<1>3. Asks(Target(reader.address))
  BY TargetAsks DEF ReadInv, ReaderOK, ReadPrepare
<1>4. /\ reader.pc = "parsed" /\ answer' = answer
      /\ reader' = [reader EXCEPT !.pc = "asked", !.vb = vb, !.pdu = pdu,
                                  !.ctarget = Target(reader.address)]
  BY DEF ReadPrepare, Target
<1> HIDE DEF vb, pdu
<1>5. /\ DOMAIN reader' = Readers /\ reader'.pc = "asked" /\ reader'.sockets = reader.sockets
      /\ reader'.oid = reader.oid /\ reader'.address = reader.address
      /\ reader'.pdu = pdu /\ reader'.vb = vb /\ reader'.z = reader.z
      /\ reader'.value = reader.value /\ reader'.ret = reader.ret
      /\ reader'.ctarget = Target(reader.address)
  BY <1>4 DEF ReadInv, ReaderOK, Readers
<1>6. ReaderOK'
  BY <1>1, <1>2, <1>4, <1>5 DEF ReadInv, ReaderOK, Open
<1>7. answer = <<>> /\ reader.z = 0 /\ ~reader.ret /\ reader.value = 0 /\ reader.sockets = 1
  BY <1>4 DEF ReadInv, ReaderInv, Waiting, Open
<1>8. ReaderInv'
  BY <1>1, <1>3, <1>4, <1>5, <1>7 DEF ReaderInv, Open, Waiting
<1>9. QED
  BY <1>6, <1>8 DEF ReadInv

LEMMA GetAnswersKeeps ==
    ASSUME ReadInv, NEW vbs \in Seq(AnswerVbs), GetAnswers(vbs)
    PROVE  ReadInv'
<1> DEFINE pdu == [reader.pdu EXCEPT !.vbs = vbs]
<1>1. "vbs" \in DOMAIN pdu /\ pdu.vbs = vbs
  BY DEF ReadInv, ReaderOK
<1>2. /\ reader.pc = "asked" /\ answer' = vbs
      /\ reader' = [reader EXCEPT !.pc = "reading", !.pdu = pdu, !.z = 0]
  BY DEF GetAnswers
<1> HIDE DEF pdu
<1>3. /\ DOMAIN reader' = Readers /\ reader'.pc = "reading" /\ reader'.sockets = reader.sockets
      /\ reader'.oid = reader.oid /\ reader'.address = reader.address
      /\ reader'.pdu = pdu /\ reader'.vb = reader.vb /\ reader'.z = 0
      /\ reader'.value = reader.value /\ reader'.ret = reader.ret
      /\ reader'.ctarget = reader.ctarget
  BY <1>2 DEF ReadInv, ReaderOK, Readers
<1>4. ReaderOK'
  BY <1>1, <1>2, <1>3 DEF ReadInv, ReaderOK, Open
<1>5. Len(vbs) \in Nat
  BY LenProperties
<1>6. /\ reader.z = 0 /\ ~reader.ret /\ reader.value = 0 /\ reader.sockets = 1
      /\ Asks(reader.ctarget) /\ reader.vb.iv_vb_oid.value = reader.oid.value
  BY <1>2 DEF ReadInv, ReaderInv, Waiting, Open
<1>7. ReaderInv'
  BY <1>1, <1>2, <1>3, <1>5, <1>6 DEF ReaderInv, Open, Waiting
<1>8. QED
  BY <1>4, <1>7 DEF ReadInv

\* The variable that is looked at, and what it tells.
LEMMA VariableFacts ==
    ASSUME ReadInv, NEW n \in 1..Len(answer)
    PROVE  LET vb == answer[n]
           IN  /\ IsOid(vb.iv_vb_oid) /\ ToUInt(vb) \in Nat
               /\ DOMAIN vb = {"iv_vb_oid", "iv_vb_value", "exception_status"}
               /\ OtherOid(vb) <=> ~IsPrefix(reader.oid.value, vb.iv_vb_oid.value)
               /\ ToUInt(vb) # 0 /\ ~OtherOid(vb) => Supports(vb, ToUInt(vb))
               /\ \A v \in Nat : Supports(vb, v) =>
                     ~OtherOid(vb) /\ vb.exception_status # endOfMibView /\ ToUInt(vb) = v
<1> DEFINE vb == answer[n]
<1>1. vb \in AnswerVbs
  BY ElementOfSeq DEF ReadInv, ReaderOK
<1> HIDE DEF vb
<1>2. /\ IsOid(vb.iv_vb_oid) /\ IsOid(reader.oid)
      /\ DOMAIN vb = {"iv_vb_oid", "iv_vb_value", "exception_status"}
  BY <1>1 DEF AnswerVbs, ReadInv, ReaderOK
<1>3. OtherOid(vb) <=> ~IsPrefix(reader.oid.value, vb.iv_vb_oid.value)
  BY <1>2, AnswerIsRecognised DEF OtherOid
<1>4. CASE vb.iv_vb_value.class # "Counter64"
  <2>1. ToUInt(vb) = 0
    BY <1>4 DEF ToUInt
  <2>2. ASSUME NEW v \in Nat PROVE ~Supports(vb, v)
    <3>1. Counter64(v).class = "Counter64"
      BY DEF Counter64, Object
    <3>2. QED
      BY <1>4, <3>1 DEF Supports
  <2>3. QED
    BY <1>2, <1>3, <2>1, <2>2 DEF vb
<1>5. CASE vb.iv_vb_value.class = "Counter64"
  <2>1. PICK m \in Nat : vb.iv_vb_value = Counter64(m)
    BY <1>1, <1>5 DEF AnswerVbs
  <2>2. vb.exception_status = SNMP_CLASS_SUCCESS /\ SNMP_CLASS_SUCCESS # endOfMibView
    BY <1>1, <1>5 DEF AnswerVbs, SNMP_CLASS_SUCCESS, endOfMibView
  <2>3. \A v \in Nat : ToUInt64(Counter64(v)) = v
    BY Counter64Cloned
  <2>4. ToUInt(vb) = m
    BY <1>5, <2>1, <2>3 DEF ToUInt
  <2>5. ~OtherOid(vb) => Supports(vb, m)
    BY <1>3, <2>1, <2>2 DEF Supports
  <2>6. ASSUME NEW v \in Nat, Supports(vb, v)
        PROVE  ~OtherOid(vb) /\ vb.exception_status # endOfMibView /\ ToUInt(vb) = v
    <3>1. vb.iv_vb_value = Counter64(v) /\ ~OtherOid(vb)
      BY <1>3, <2>6 DEF Supports
    <3>2. ToUInt64(vb.iv_vb_value) = v /\ ToUInt64(vb.iv_vb_value) = m
      BY <2>1, <2>3, <3>1
    <3>3. QED
      BY <2>2, <2>4, <3>1, <3>2
  <2>7. QED
    BY <1>2, <1>3, <2>4, <2>5, <2>6 DEF vb
<1>6. QED
  BY <1>4, <1>5

LEMMA ReadCutKeeps ==
    ASSUME ReadInv, ReadCut
    PROVE  ReadInv'
<1> DEFINE n == reader.z + 1
<1>1. /\ reader.pc = "reading" /\ reader.z \in Nat /\ reader.z < Len(answer)
      /\ Len(answer) \in Nat /\ GetVb(reader.pdu, reader.z) = answer[n]
  BY LenProperties DEF ReadCut, ReadInv, ReaderOK, ReaderInv, GetVbCount, GetVb
<1>2. OtherOid(answer[n]) \/ answer[n].exception_status = endOfMibView
  BY <1>1 DEF ReadCut
<1>3. ASSUME NEW v \in Contents, v >= 0, Len(answer) = 1, Supports(answer[1], v)
      PROVE  FALSE
  <2>1. v \in Nat /\ n = 1 /\ 1 \in 1..Len(answer)
    BY <1>1, <1>3, ReadAssumption
  <2>2. ~OtherOid(answer[1]) /\ answer[1].exception_status # endOfMibView
    BY <1>3, <2>1, VariableFacts
  <2>3. QED
    BY <1>2, <2>1, <2>2
<1>4. Return /\ Believed
  BY <1>3 DEF ReadCut, Believed
<1>5. QED
  BY <1>1, <1>4, ReturnKeeps DEF Open

LEMMA ReadVariableKeeps ==
    ASSUME ReadInv, ReadVariable
    PROVE  ReadInv'
<1> DEFINE n == reader.z + 1
           vb == answer[n]
           true == TRUE
<1>1. /\ reader.pc = "reading" /\ reader.z \in Nat /\ reader.z < Len(answer)
      /\ Len(answer) \in Nat /\ GetVb(reader.pdu, reader.z) = vb /\ answer \in Seq(AnswerVbs)
  BY LenProperties DEF ReadVariable, ReadInv, ReaderOK, ReaderInv, GetVbCount, GetVb
<1>2. n \in 1..Len(answer) /\ n \in Nat /\ n <= Len(answer) /\ n # 0
  BY <1>1
<1>3. ~OtherOid(vb)
  BY <1>1 DEF ReadVariable
<1>4. /\ IsOid(vb.iv_vb_oid) /\ ToUInt(vb) \in Nat
      /\ DOMAIN vb = {"iv_vb_oid", "iv_vb_value", "exception_status"}
      /\ ToUInt(vb) # 0 /\ ~OtherOid(vb) => Supports(vb, ToUInt(vb))
  BY <1>2, VariableFacts
<1>5. true \in BOOLEAN /\ true
  OBVIOUS
<1>6. reader' = [reader EXCEPT !.vb = vb, !.value = ToUInt(vb), !.ret = true, !.z = n]
  BY <1>1 DEF ReadVariable
<1>7. answer' = answer
  BY DEF ReadVariable
<1> HIDE DEF true, vb
<1>8. /\ DOMAIN reader' = Readers /\ reader'.pc = "reading" /\ reader'.sockets = reader.sockets
      /\ reader'.oid = reader.oid /\ reader'.address = reader.address
      /\ reader'.pdu = reader.pdu /\ reader'.vb = vb /\ reader'.z = n
      /\ reader'.value = ToUInt(vb) /\ reader'.ret = true
      /\ reader'.ctarget = reader.ctarget
  BY <1>1, <1>6 DEF ReadInv, ReaderOK, Readers
<1> HIDE DEF n
<1>9. ReaderOK'
  BY <1>1, <1>2, <1>4, <1>5, <1>7, <1>8 DEF ReadInv, ReaderOK, Open
<1>10. vb = answer[n]
  BY DEF vb
<1>11. \A k, w : Supports(answer[k], w)' <=> Supports(answer[k], w)
  BY <1>7, <1>8 DEF Supports
<1>12. (reader.value # 0 => \E k \in 1..Len(answer) : Supports(answer[k], reader.value))'
  <2>1. PICK k \in 1..Len(answer), w \in Nat :
            w = reader'.value /\ (w # 0 => Supports(answer[k], w))
    BY <1>2, <1>3, <1>4, <1>8, <1>10
  <2>2. k \in 1..Len(answer') /\ (w # 0 => Supports(answer[k], w)')
    BY <1>7, <1>11, <2>1
  <2>3. QED
    BY <2>1, <2>2 DEF Supports
<1>13. /\ reader.sockets = 1 /\ Asks(reader.ctarget) /\ reader.pdu.vbs = answer
  BY <1>1 DEF ReadInv, ReaderInv, Open
<1>14. ReaderInv'
  BY <1>2, <1>5, <1>7, <1>8, <1>10, <1>12, <1>13 DEF ReaderInv, Open, Waiting, ToUInt
<1>15. QED
  BY <1>9, <1>14 DEF ReadInv

LEMMA ReadEndKeeps ==
    ASSUME ReadInv, ReadEnd
    PROVE  ReadInv'
<1> DEFINE pdu == [reader.pdu EXCEPT !.vbs = <<reader.vb>>]
<1>1. /\ reader.pc = "reading" /\ reader.z = Len(answer) /\ answer' = answer
      /\ reader.z # 0 => reader.ret /\ reader.value = ToUInt(answer[reader.z])
  BY DEF ReadEnd, ReadInv, ReaderInv, GetVbCount
<1>2. reader' = [reader EXCEPT !.pc = "done", !.pdu = pdu, !.sockets = @ - 1]
  BY DEF ReadEnd
<1>3. "vbs" \in DOMAIN pdu
  BY DEF ReadInv, ReaderOK
<1> HIDE DEF pdu
<1>4. /\ DOMAIN reader' = Readers /\ reader'.pc = "done" /\ reader'.sockets = reader.sockets - 1
      /\ reader'.oid = reader.oid /\ reader'.address = reader.address
      /\ reader'.pdu = pdu /\ reader'.vb = reader.vb /\ reader'.z = reader.z
      /\ reader'.value = reader.value /\ reader'.ret = reader.ret
  BY <1>2 DEF ReadInv, ReaderOK, Readers
<1>5. reader'.sockets = 0
  BY <1>1, <1>4 DEF ReadInv, ReaderInv, Open
<1>6. ReaderOK'
  BY <1>1, <1>3, <1>4 DEF ReadInv, ReaderOK, Open
<1>7. ASSUME NEW v \in Contents, v >= 0, Len(answer) = 1, Supports(answer[1], v)
      PROVE  reader.ret /\ reader.value = v
  <2>1. v \in Nat /\ reader.z = 1 /\ 1 \in 1..Len(answer)
    BY <1>1, <1>7, ReadAssumption
  <2>2. ToUInt(answer[1]) = v
    BY <1>7, <2>1, VariableFacts
  <2>3. QED
    BY <1>1, <2>1, <2>2
<1>8. \A n, v : Supports(answer[n], v)' <=> Supports(answer[n], v)
  BY <1>1, <1>4 DEF Supports
<1>9. ReaderInv'
  BY <1>1, <1>4, <1>5, <1>7, <1>8 DEF ReadInv, ReaderInv, Open, Waiting
<1>10. QED
  BY <1>6, <1>9 DEF ReadInv

LEMMA ReadStart ==
    /\ ReadInit => ReadInv
    /\ reader' = Idle /\ answer' = <<>> => ReadInv'
<1>1. /\ DOMAIN Idle = Readers /\ "vbs" \in DOMAIN Idle.pdu
      /\ IsOid(Idle.oid) /\ IsDevice(Idle.address) /\ IsOid(Idle.vb.iv_vb_oid)
      /\ DOMAIN Idle.vb = {"iv_vb_oid", "iv_vb_value", "exception_status"}
      /\ Idle.pc = "idle" /\ Idle.z = 0 /\ Idle.value = 0 /\ Idle.sockets = 0
      /\ Idle.ret \in BOOLEAN /\ ~Idle.ret /\ <<>> \in Seq(AnswerVbs)
  BY IdleIsOK, NothingAnswered
<1>2. ReadInit => ReadInv
  BY <1>1 DEF ReadInit, ReadInv, ReaderOK, ReaderInv, Open, Waiting
<1>3. reader' = Idle /\ answer' = <<>> => ReadInv'
  BY <1>1 DEF ReadInv, ReaderOK, ReaderInv, Open, Waiting
<1>4. QED
  BY <1>2, <1>3

LEMMA ReadStep ==
    ASSUME ReadInv, [ReadNext]_readVars
    PROVE  ReadInv'
<1>1. ASSUME NEW asked \in AskedOids, NEW reachable \in BOOLEAN, ReadBegin(asked, reachable)
      PROVE  ReadInv'
  BY <1>1, ReadBeginKeeps
<1>2. CASE ReadRefused \/ ReadSessionFails \/ GetFails
  <2>1. reader.pc \in Open /\ Return /\ answer = <<>>
    BY <1>2 DEF ReadRefused, ReadSessionFails, GetFails, Return, Open, Waiting, ReadInv, ReaderInv
  <2>2. Believed
    BY <2>1, NothingAnswered DEF Believed
  <2>3. QED
    BY <2>1, <2>2, ReturnKeeps
<1>3. CASE ReadPrepare
  BY <1>3, ReadPrepareKeeps
<1>4. ASSUME NEW count \in 0..MaxVbs, NEW oids \in [1..count -> AnsweredOids],
             NEW contents \in [1..count -> Contents],
             NEW statuses \in [1..count -> {SNMP_CLASS_SUCCESS, noSuchObject, endOfMibView}],
             GetAnswers([n \in 1..count |-> Answered(oids[n], contents[n], statuses[n])])
      PROVE  ReadInv'
  <2> DEFINE vbs == [n \in 1..count |-> Answered(oids[n], contents[n], statuses[n])]
  <2>1. \A n \in 1..count : Answered(oids[n], contents[n], statuses[n]) \in AnswerVbs
    BY AnsweredVbs DEF Statuses
  <2>2. vbs \in [1..count -> AnswerVbs]
    BY <2>1
  <2>3. count \in Nat
    BY ReadAssumption
  <2>4. vbs \in Seq(AnswerVbs)
    BY <2>2, <2>3, SeqDef
  <2> HIDE DEF vbs
  <2>5. QED
    BY <1>4, <2>4, GetAnswersKeeps DEF vbs
<1>5. CASE ReadCut
  BY <1>5, ReadCutKeeps
<1>6. CASE ReadVariable
  BY <1>6, ReadVariableKeeps
<1>7. CASE ReadEnd
  BY <1>7, ReadEndKeeps
<1>8. CASE ReadAgain
  BY <1>8, ReadStart DEF ReadAgain
<1>9. CASE UNCHANGED readVars
  BY <1>9 DEF readVars, ReadInv, ReaderOK, ReaderInv, Supports
<1>10. QED
  BY <1>1, <1>2, <1>3, <1>4, <1>5, <1>6, <1>7, <1>8, <1>9 DEF ReadNext

\* A reading that is not 0 comes from an answer that supports it; the answer of an
\* agent that knows what was asked is read; a call that failed leaves 0 and keeps no
\* socket; only a valid address is asked: for any identifiers, contents and numbers
\* of variables in an answer.
THEOREM ReadTruth == ReadSpec => []ReadTellsTruth
<1>1. ReadInit => ReadInv
  BY ReadStart
<1>2. ReadInv /\ [ReadNext]_readVars => ReadInv'
  BY ReadStep
<1>3. ReadInv => ReadTellsTruth
  BY DEF ReadInv, ReaderInv, ReadTellsTruth, Asks, Open
<1>4. QED
  BY <1>1, <1>2, <1>3, PTL DEF ReadSpec
=============================================================================
