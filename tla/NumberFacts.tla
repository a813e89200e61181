------------------------------ MODULE NumberFacts -----------------------------
(***************************************************************************)
(* Facts about % and \div that rings and hash tables rest on, and the two  *)
(* about the natural numbers that induction over data needs: a set of them *)
(* has a least one, and a function defined by recursion exists.            *)
(***************************************************************************)
EXTENDS Integers, WellFoundedInduction, TLAPS

\* Division leaves a remainder below the divisor.
LEMMA DivMod ==
  ASSUME NEW M \in Nat \ {0}, NEW a \in Int
  PROVE  \E q \in Int, r \in 0..M - 1 :
           a = q * M + r /\ a % M = r /\ a \div M = q
  OBVIOUS

\* Quotient and remainder are the only ones there are.
LEMMA DivModUnique ==
  ASSUME NEW M \in Nat \ {0}, NEW x \in Int,
         NEW q \in Int, NEW r \in 0..M - 1, x = q * M + r
  PROVE  x % M = r /\ x \div M = q
  OBVIOUS

LEMMA Distribute ==
  ASSUME NEW M \in Nat \ {0}, NEW q \in Int, NEW p \in Int
  PROVE  /\ (q + p) * M = q * M + p * M
         /\ (q - p) * M = q * M - p * M
         /\ (q + 1) * M = q * M + M
         /\ (q - 1) * M = q * M - M
         /\ q * M \in Int
  OBVIOUS

\* No multiple of M but 0 lies strictly between -M and M.
LEMMA SmallMultiple ==
  ASSUME NEW M \in Nat \ {0}, NEW k \in Int, -M < k * M, k * M < M
  PROVE  k = 0
  OBVIOUS

LEMMA ModType ==
  ASSUME NEW M \in Nat \ {0}, NEW a \in Int
  PROVE  a % M \in 0..M - 1 /\ a % M \in Int
  OBVIOUS

\* A number below M is its own remainder.
LEMMA ModSmall ==
  ASSUME NEW M \in Nat \ {0}, NEW a \in 0..M - 1
  PROVE  a % M = a
<1>1. a \in Int /\ 0 \in Int /\ a = 0 * M + a
  OBVIOUS
<1> QED BY <1>1, DivModUnique

\* Two numbers less than M apart share a slot only when they are equal.
LEMMA SameSlot ==
  ASSUME NEW M \in Nat \ {0}, NEW a \in Int, NEW b \in Int,
         a % M = b % M, a - b < M, b - a < M
  PROVE  a = b
<1>1. PICK q \in Int, r \in 0..M - 1 : a = q * M + r /\ a % M = r
  BY DivMod
<1>2. PICK p \in Int, s \in 0..M - 1 : b = p * M + s /\ b % M = s
  BY DivMod
<1>3. a - b = (q - p) * M
  <2>1. r = s
    BY <1>1, <1>2
  <2> QED BY <2>1, <1>1, <1>2, Distribute
<1>4. q - p = 0
  <2>1. q - p \in Int /\ -M < (q - p) * M /\ (q - p) * M < M
    BY <1>3
  <2> QED BY <2>1, SmallMultiple
<1> QED BY <1>3, <1>4

\* A remainder may be taken early in a sum.
LEMMA ModAdd ==
  ASSUME NEW M \in Nat \ {0}, NEW a \in Int, NEW b \in Int
  PROVE  ((a % M) + b) % M = (a + b) % M
<1>1. PICK q \in Int, r \in 0..M - 1 : a = q * M + r /\ a % M = r
  BY DivMod
<1>2. PICK p \in Int, s \in 0..M - 1 : r + b = p * M + s /\ (r + b) % M = s
  <2>1. r + b \in Int
    OBVIOUS
  <2> QED BY <2>1, DivMod
<1>3. a + b = (q + p) * M + s
  BY <1>1, <1>2, Distribute
<1>4. (a + b) % M = s
  <2>1. a + b \in Int /\ q + p \in Int
    OBVIOUS
  <2> QED BY <2>1, <1>3, DivModUnique
<1> QED BY <1>1, <1>2, <1>4

\* A remainder may be taken early in a difference.
LEMMA ModSub ==
  ASSUME NEW M \in Nat \ {0}, NEW a \in Int, NEW b \in Int
  PROVE  (a - (b % M)) % M = (a - b) % M
<1>1. PICK q \in Int, r \in 0..M - 1 : b = q * M + r /\ b % M = r
  BY DivMod
<1>2. PICK p \in Int, s \in 0..M - 1 : a - r = p * M + s /\ (a - r) % M = s
  <2>1. a - r \in Int
    OBVIOUS
  <2> QED BY <2>1, DivMod
<1>3. a - b = (p - q) * M + s
  BY <1>1, <1>2, Distribute
<1>4. (a - b) % M = s
  <2>1. a - b \in Int /\ p - q \in Int
    OBVIOUS
  <2> QED BY <2>1, <1>3, DivModUnique
<1> QED BY <1>1, <1>2, <1>4

\* Going once around a ring changes nothing.
LEMMA ModWrap ==
  ASSUME NEW M \in Nat \ {0}, NEW a \in Int
  PROVE  (a - M) % M = a % M
<1>1. PICK q \in Int, r \in 0..M - 1 : a = q * M + r /\ a % M = r
  BY DivMod
<1>2. a - M = (q - 1) * M + r
  BY <1>1, Distribute
<1>3. (a - M) % M = r
  <2>1. a - M \in Int /\ q - 1 \in Int
    OBVIOUS
  <2> QED BY <2>1, <1>2, DivModUnique
<1> QED BY <1>1, <1>3
-----------------------------------------------------------------------------

\* Every set of natural numbers has a least one.
LEMMA LeastOf ==
  ASSUME NEW S, S \subseteq Nat, S # {}
  PROVE  \E m \in S : \A k \in S : m <= k
<1> DEFINE R == OpToRel(<, Nat)
<1>1. \A x, y \in Nat : <<x, y>> \in R <=> x < y
  BY DEF OpToRel
<1>2. IsWellFoundedOn(R, Nat)
  BY NatLessThanWellFounded
<1> HIDE DEF R
<1>3. PICK m \in S : \A k \in S : ~ (<<k, m>> \in R)
  BY <1>2, WFMin
<1>4. ASSUME NEW k \in S PROVE m <= k
  <2>1. m \in Nat /\ k \in Nat
    OBVIOUS
  <2>2. ~ (k < m)
    BY <1>1, <1>3, <2>1, Zenon
  <2> QED BY <2>1, <2>2
<1> QED BY <1>4

\* What holds of 0, and of each number up to n if of the one before it,
\* holds of all of them: S is the set of those it holds of.
LEMMA UpTo ==
  ASSUME NEW n \in Nat, NEW S, 0 \in S,
         \A i \in 1..n : i - 1 \in S => i \in S
  PROVE  \A i \in 0..n : i \in S
<1> SUFFICES ASSUME {i \in 0..n : i \notin S} # {} PROVE FALSE
  OBVIOUS
<1> DEFINE Bad == {i \in 0..n : i \notin S}
<1>1. Bad \subseteq Nat /\ Bad # {}
  OBVIOUS
<1> HIDE DEF Bad
<1>2. PICK m \in Bad : \A k \in Bad : m <= k
  BY <1>1, LeastOf
<1>3. m \in 0..n /\ m \notin S
  BY DEF Bad
<1>4. m \in 1..n /\ m - 1 \in 0..n
  BY <1>3
<1>5. m - 1 \in Bad
  BY <1>3, <1>4 DEF Bad
<1>6. ~(m <= m - 1)
  BY <1>3
<1> QED BY <1>2, <1>5, <1>6

\* Some f is v at 0, and F[i] of what it is at i - 1 at each further i.
IsDefined(n, V, v, F) ==
  \E f \in [0..n -> V] : f[0] = v /\ \A i \in 1..n : f[i] = F[i][f[i - 1]]

\* A function on 0..n is defined by its value at 0 and, at each further
\* number, by what it is at the one before.
LEMMA Recursion ==
  ASSUME NEW n \in Nat, NEW V, NEW v \in V, NEW F \in [1..n -> [V -> V]]
  PROVE  IsDefined(n, V, v, F)
<1> DEFINE Upto(m, f) == /\ f \in [0..m -> V]
                         /\ f[0] = v
                         /\ \A i \in 1..m : f[i] = F[i][f[i - 1]]
           S == {m \in 0..n : \E f \in [0..m -> V] : Upto(m, f)}
<1>1. 0 \in S
  <2> DEFINE f == [i \in 0..0 |-> v]
  <2>1. f \in [0..0 -> V] /\ Upto(0, f) /\ 0 \in 0..n
    OBVIOUS
  <2> HIDE DEF f, Upto
  <2> QED BY <2>1
<1>2. ASSUME NEW i \in 1..n, i - 1 \in S PROVE i \in S
  <2>1. PICK f \in [0..i - 1 -> V] : Upto(i - 1, f)
    BY <1>2
  <2> DEFINE g == [j \in 0..i |-> IF j = i THEN F[i][f[i - 1]] ELSE f[j]]
  <2>2. f[i - 1] \in V /\ F[i] \in [V -> V] /\ F[i][f[i - 1]] \in V
    BY <2>1
  <2>3. g \in [0..i -> V]
    BY <2>1, <2>2
  <2>4. \A j \in 1..i : g[j] = F[j][g[j - 1]]
    <3> SUFFICES ASSUME NEW j \in 1..i PROVE g[j] = F[j][g[j - 1]]
      OBVIOUS
    <3>1. CASE j = i
      BY <3>1
    <3>2. CASE j # i
      <4>1. j \in 1..i - 1 /\ j \in 0..i /\ j - 1 \in 0..i /\ j - 1 # i
        BY <3>2
      <4>2. g[j] = f[j] /\ g[j - 1] = f[j - 1]
        BY <4>1, <3>2
      <4> QED BY <2>1, <4>1, <4>2
    <3> QED BY <3>1, <3>2
  <2>5. g[0] = v /\ i \in 0..n
    BY <2>1
  <2> QED BY <2>3, <2>4, <2>5
<1> HIDE DEF S
<1>3. n \in S
  <2>1. \A i \in 0..n : i \in S
    BY <1>1, <1>2, UpTo
  <2> QED BY <2>1
<1> QED BY <1>3 DEF S, IsDefined
=============================================================================
