----------------------------- MODULE SumsProofs -----------------------------
(***************************************************************************)
(* What the sums of Sums.tla satisfy.  The library's induction theorems    *)
(* take the predicate as an operator parameter, so every induction here is *)
(* a least counterexample: LeastNatural picks the first index at which the *)
(* statement fails, and the index before it refutes the failure.           *)
(***************************************************************************)
EXTENDS Sums, TLAPS, NaturalsInduction, WellFoundedInduction

(* Every non-empty set of naturals has a least element. *)
LEMMA LeastNatural ==
    ASSUME NEW T, T \subseteq Nat, T # {}
    PROVE  \E x \in T : \A y \in T : x <= y
<1>1. PICK x \in T : \A y \in T : ~(<<y, x>> \in OpToRel(<, Nat))
  BY NatLessThanWellFounded, WFMin
<1>2. \A y \in T : ~(y < x)
  BY <1>1 DEF OpToRel
<1> QED
  BY <1>2

IsRunningSum(r, f, n) ==
    r = [i \in 0..n |-> IF i = 0 THEN 0 ELSE r[i - 1] + f[i]]

(* A running sum exists for every length: the recursion defines something. *)
LEMMA RunningSumExists ==
    ASSUME NEW n \in Nat, NEW f
    PROVE  \E r : IsRunningSum(r, f, n)
<1> DEFINE Bad == {i \in Nat : ~ \E r : IsRunningSum(r, f, i)}
<1> SUFFICES ASSUME Bad # {} PROVE FALSE
  OBVIOUS
<1>1. PICK k \in Bad : \A y \in Bad : k <= y
  BY LeastNatural
<1>2. k # 0
  <2>1. IsRunningSum([i \in 0..0 |-> 0], f, 0)
    BY DEF IsRunningSum
  <2> QED BY <2>1
<1>3. k - 1 \in Nat /\ k - 1 \notin Bad
  BY <1>1, <1>2
<1>4. PICK r : IsRunningSum(r, f, k - 1)
  BY <1>3
<1> DEFINE q == [i \in 0..k |-> IF i = k THEN r[k - 1] + f[k] ELSE r[i]]
<1>5. \A i \in 0..k : q[i] = IF i = 0 THEN 0 ELSE q[i - 1] + f[i]
  <2> TAKE i \in 0..k
  <2>1. CASE i = k
    BY <2>1, <1>2, <1>3
  <2>2. CASE i # k
    <3>1. i \in 0..(k - 1)
      BY <2>2, <1>3
    <3>2. r[i] = IF i = 0 THEN 0 ELSE r[i - 1] + f[i]
      BY <3>1, <1>4 DEF IsRunningSum
    <3>3. i # 0 => i - 1 \in 0..k /\ i - 1 # k
      BY <3>1, <1>3
    <3> QED BY <2>2, <3>2, <3>3
  <2> QED BY <2>1, <2>2
<1>6. IsRunningSum(q, f, k)
  BY <1>5 DEF IsRunningSum
<1> QED
  BY <1>6

(* The operator of Sums.tla is a running sum. *)
LEMMA RunningSumIs ==
    ASSUME NEW n \in Nat, NEW f
    PROVE  IsRunningSum(RunningSum(f, n), f, n)
<1>1. PICK s : IsRunningSum(s, f, n)
  BY RunningSumExists
<1>2. s = [i \in 0..n |-> IF i = 0 THEN 0 ELSE s[i - 1] + f[i]]
  BY <1>1 DEF IsRunningSum
<1> QED
  BY <1>2 DEF RunningSum, IsRunningSum

(* A step of the sum.  The running sums of two lengths agree below both. *)
LEMMA RunningSumAgree ==
    ASSUME NEW n \in Nat, NEW f, NEW r, NEW s,
           IsRunningSum(r, f, n + 1), IsRunningSum(s, f, n)
    PROVE  \A i \in 0..n : r[i] = s[i]
<1> DEFINE Bad == {i \in 0..n : r[i] # s[i]}
<1> SUFFICES ASSUME Bad # {} PROVE FALSE
  OBVIOUS
<1>1. PICK k \in Bad : \A y \in Bad : k <= y
  <2>1. Bad \subseteq Nat
    OBVIOUS
  <2> QED BY <2>1, LeastNatural
<1>2. /\ k \in 0..n /\ k \in 0..(n + 1)
      /\ r[k] = IF k = 0 THEN 0 ELSE r[k - 1] + f[k]
      /\ s[k] = IF k = 0 THEN 0 ELSE s[k - 1] + f[k]
  BY <1>1 DEF IsRunningSum
<1>3. CASE k = 0
  BY <1>1, <1>2, <1>3
<1>4. CASE k # 0
  <2>1. k - 1 \in 0..n /\ k - 1 \notin Bad
    BY <1>1, <1>2, <1>4
  <2> QED BY <2>1, <1>1, <1>2, <1>4
<1> QED BY <1>3, <1>4

LEMMA SumZero ==
    ASSUME NEW f
    PROVE  SumTo(f, 0) = 0
<1>1. IsRunningSum(RunningSum(f, 0), f, 0)
  BY RunningSumIs
<1> QED BY <1>1 DEF IsRunningSum, SumTo

LEMMA SumStep ==
    ASSUME NEW n \in Nat, NEW f
    PROVE  SumTo(f, n + 1) = SumTo(f, n) + f[n + 1]
<1> DEFINE r == RunningSum(f, n + 1)
           s == RunningSum(f, n)
<1>1. IsRunningSum(r, f, n + 1) /\ IsRunningSum(s, f, n)
  BY RunningSumIs
<1> HIDE DEF r, s
<1>2. r[n] = s[n]
  BY <1>1, RunningSumAgree
<1>3. r[n + 1] = r[n] + f[n + 1]
  BY <1>1 DEF IsRunningSum
<1> QED BY <1>2, <1>3 DEF SumTo, r, s

(* A sum of naturals is a natural, one of integers an integer. *)
LEMMA SumNat ==
    ASSUME NEW n \in Nat, NEW f, \A i \in 1..n : f[i] \in Nat
    PROVE  SumTo(f, n) \in Nat
<1> DEFINE Bad == {m \in 0..n : ~(SumTo(f, m) \in Nat)}
<1> SUFFICES ASSUME Bad # {} PROVE FALSE
  <2>1. n \in 0..n
    OBVIOUS
  <2> QED BY <2>1
<1>1. PICK k \in Bad : \A y \in Bad : k <= y
  <2>1. Bad \subseteq Nat
    OBVIOUS
  <2> QED BY <2>1, LeastNatural
<1>2. CASE k = 0
  BY <1>1, <1>2, SumZero
<1>3. CASE k # 0
  <2> DEFINE m == k - 1
  <2>1. m \in Nat /\ m \in 0..n /\ m \notin Bad /\ k = m + 1 /\ k \in 1..n
    BY <1>1, <1>3
  <2> HIDE DEF m
  <2>2. SumTo(f, k) = SumTo(f, m) + f[k]
    BY <2>1, SumStep
  <2>3. SumTo(f, m) \in Nat /\ f[k] \in Nat
    BY <2>1
  <2> QED BY <2>2, <2>3, <1>1
<1> QED BY <1>2, <1>3

LEMMA SumInt ==
    ASSUME NEW n \in Nat, NEW f, \A i \in 1..n : f[i] \in Int
    PROVE  SumTo(f, n) \in Int
<1> DEFINE Bad == {m \in 0..n : ~(SumTo(f, m) \in Int)}
<1> SUFFICES ASSUME Bad # {} PROVE FALSE
  <2>1. n \in 0..n
    OBVIOUS
  <2> QED BY <2>1
<1>1. PICK k \in Bad : \A y \in Bad : k <= y
  <2>1. Bad \subseteq Nat
    OBVIOUS
  <2> QED BY <2>1, LeastNatural
<1>2. CASE k = 0
  BY <1>1, <1>2, SumZero
<1>3. CASE k # 0
  <2> DEFINE m == k - 1
  <2>1. m \in Nat /\ m \in 0..n /\ m \notin Bad /\ k = m + 1 /\ k \in 1..n
    BY <1>1, <1>3
  <2> HIDE DEF m
  <2>2. SumTo(f, k) = SumTo(f, m) + f[k]
    BY <2>1, SumStep
  <2>3. SumTo(f, m) \in Int /\ f[k] \in Int
    BY <2>1
  <2> QED BY <2>2, <2>3, <1>1
<1> QED BY <1>2, <1>3

(* Functions that agree on 1..n have the same sum. *)
LEMMA SumEqual ==
    ASSUME NEW n \in Nat, NEW f, NEW g, \A i \in 1..n : f[i] = g[i]
    PROVE  SumTo(f, n) = SumTo(g, n)
<1> DEFINE Bad == {m \in 0..n : ~(SumTo(f, m) = SumTo(g, m))}
<1> SUFFICES ASSUME Bad # {} PROVE FALSE
  <2>1. n \in 0..n
    OBVIOUS
  <2> QED BY <2>1
<1>1. PICK k \in Bad : \A y \in Bad : k <= y
  <2>1. Bad \subseteq Nat
    OBVIOUS
  <2> QED BY <2>1, LeastNatural
<1>2. CASE k = 0
  BY <1>1, <1>2, SumZero
<1>3. CASE k # 0
  <2> DEFINE m == k - 1
  <2>1. m \in Nat /\ m \in 0..n /\ m \notin Bad /\ k = m + 1 /\ k \in 1..n
    BY <1>1, <1>3
  <2> HIDE DEF m
  <2>2. SumTo(f, k) = SumTo(f, m) + f[k] /\ SumTo(g, k) = SumTo(g, m) + g[k]
    BY <2>1, SumStep
  <2>3. SumTo(f, m) = SumTo(g, m) /\ f[k] = g[k]
    BY <2>1
  <2> QED BY <2>2, <2>3, <1>1
<1> QED BY <1>2, <1>3

(* A sum grows with its terms. *)
LEMMA SumMonotone ==
    ASSUME NEW n \in Nat, NEW f, NEW g,
           \A i \in 1..n : f[i] \in Int /\ g[i] \in Int /\ f[i] <= g[i]
    PROVE  SumTo(f, n) <= SumTo(g, n)
<1> DEFINE Bad == {m \in 0..n : ~(SumTo(f, m) \in Int /\ SumTo(g, m) \in Int /\ SumTo(f, m) <= SumTo(g, m))}
<1> SUFFICES ASSUME Bad # {} PROVE FALSE
  <2>1. n \in 0..n
    OBVIOUS
  <2> QED BY <2>1
<1>1. PICK k \in Bad : \A y \in Bad : k <= y
  <2>1. Bad \subseteq Nat
    OBVIOUS
  <2> QED BY <2>1, LeastNatural
<1>2. CASE k = 0
  BY <1>1, <1>2, SumZero
<1>3. CASE k # 0
  <2> DEFINE m == k - 1
  <2>1. m \in Nat /\ m \in 0..n /\ m \notin Bad /\ k = m + 1 /\ k \in 1..n
    BY <1>1, <1>3
  <2> HIDE DEF m
  <2>2. SumTo(f, k) = SumTo(f, m) + f[k] /\ SumTo(g, k) = SumTo(g, m) + g[k]
    BY <2>1, SumStep
  <2>3. /\ SumTo(f, m) \in Int /\ SumTo(g, m) \in Int /\ SumTo(f, m) <= SumTo(g, m)
        /\ f[k] \in Int /\ g[k] \in Int /\ f[k] <= g[k]
    BY <2>1
  <2> QED BY <2>2, <2>3, <1>1
<1> QED BY <1>2, <1>3

(* Changing one term changes the sum by as much. *)
LEMMA SumUpdate ==
    ASSUME NEW n \in Nat, NEW f, NEW g, NEW j \in 1..n,
           \A i \in 1..n : f[i] \in Int /\ g[i] \in Int,
           \A i \in 1..n : i # j => f[i] = g[i]
    PROVE  SumTo(g, n) = SumTo(f, n) + (g[j] - f[j])
<1> DEFINE Stmt(m) == /\ SumTo(f, m) \in Int /\ SumTo(g, m) \in Int
                      /\ m < j => SumTo(g, m) = SumTo(f, m)
                      /\ m >= j => SumTo(g, m) = SumTo(f, m) + (g[j] - f[j])
           Bad == {m \in 0..n : ~Stmt(m)}
<1> SUFFICES ASSUME Bad # {} PROVE FALSE
  <2>1. n \in 0..n
    OBVIOUS
  <2> QED BY <2>1
<1>1. PICK k \in Bad : \A y \in Bad : k <= y
  <2>1. Bad \subseteq Nat
    OBVIOUS
  <2> QED BY <2>1, LeastNatural
<1>2. CASE k = 0
  BY <1>1, <1>2, SumZero
<1>3. CASE k # 0
  <2> DEFINE m == k - 1
  <2>1. m \in Nat /\ m \in 0..n /\ m \notin Bad /\ k = m + 1 /\ k \in 1..n
    BY <1>1, <1>3
  <2> HIDE DEF m
  <2>2. SumTo(f, k) = SumTo(f, m) + f[k] /\ SumTo(g, k) = SumTo(g, m) + g[k]
    BY <2>1, SumStep
  <2>3. /\ SumTo(f, m) \in Int /\ SumTo(g, m) \in Int
        /\ m < j => SumTo(g, m) = SumTo(f, m)
        /\ m >= j => SumTo(g, m) = SumTo(f, m) + (g[j] - f[j])
    BY <2>1
  <2>4. f[k] \in Int /\ g[k] \in Int /\ f[j] \in Int /\ g[j] \in Int
    BY <2>1
  <2>5. CASE k = j
    BY <2>1, <2>2, <2>3, <2>4, <2>5, <1>1
  <2>6. CASE k # j
    <3>1. f[k] = g[k]
      BY <2>1, <2>6
    <3> QED BY <3>1, <2>1, <2>2, <2>3, <2>4, <2>6, <1>1
  <2> QED BY <2>5, <2>6
<1> QED BY <1>2, <1>3

(* A term is at most the sum of non-negative terms. *)
LEMMA SumTerm ==
    ASSUME NEW n \in Nat, NEW f, NEW j \in 1..n, \A i \in 1..n : f[i] \in Nat
    PROVE  f[j] <= SumTo(f, n)
<1> DEFINE g == [i \in 1..n |-> IF i = j THEN 0 ELSE f[i]]
<1>1. \A i \in 1..n : g[i] \in Nat /\ f[i] \in Int /\ g[i] \in Int /\ (i # j => f[i] = g[i])
  OBVIOUS
<1>2. g[j] = 0
  OBVIOUS
<1> HIDE DEF g
<1>3. SumTo(g, n) = SumTo(f, n) + (g[j] - f[j])
  BY <1>1, SumUpdate
<1>4. SumTo(g, n) \in Nat /\ SumTo(f, n) \in Nat
  BY <1>1, SumNat
<1> QED BY <1>2, <1>3, <1>4

(* A sum of zeros is zero. *)
LEMMA SumZeros ==
    ASSUME NEW n \in Nat, NEW f, \A i \in 1..n : f[i] = 0
    PROVE  SumTo(f, n) = 0
<1> DEFINE Bad == {m \in 0..n : SumTo(f, m) # 0}
<1> SUFFICES ASSUME Bad # {} PROVE FALSE
  <2>1. n \in 0..n
    OBVIOUS
  <2> QED BY <2>1
<1>1. PICK k \in Bad : \A y \in Bad : k <= y
  <2>1. Bad \subseteq Nat
    OBVIOUS
  <2> QED BY <2>1, LeastNatural
<1>2. CASE k = 0
  BY <1>1, <1>2, SumZero
<1>3. CASE k # 0
  <2> DEFINE m == k - 1
  <2>1. m \in Nat /\ m \in 0..n /\ m \notin Bad /\ k = m + 1 /\ k \in 1..n
    BY <1>1, <1>3
  <2> HIDE DEF m
  <2>2. SumTo(f, k) = SumTo(f, m) + f[k]
    BY <2>1, SumStep
  <2> QED BY <2>1, <2>2, <1>1
<1> QED BY <1>2, <1>3

-----------------------------------------------------------------------------
(* Products and quotients, and sums of shares of an amount. *)

LEMMA QuotientNat ==
    ASSUME NEW a \in Nat, NEW d \in Nat \ {0}
    PROVE  a \div d \in Nat
OBVIOUS

LEMMA ProductNat ==
    ASSUME NEW a \in Nat, NEW b \in Nat
    PROVE  a * b \in Nat
OBVIOUS

LEMMA QuotientBound ==
    ASSUME NEW a \in Nat, NEW d \in Nat \ {0}
    PROVE  (a \div d) * d <= a
OBVIOUS

LEMMA ProductMonotone ==
    ASSUME NEW a \in Nat, NEW b \in Nat, NEW c \in Nat, a <= b
    PROVE  a * c <= b * c
OBVIOUS

LEMMA ProductOfSum ==
    ASSUME NEW a \in Int, NEW b \in Int, NEW c \in Int
    PROVE  (a + b) * c = a * c + b * c
OBVIOUS

LEMMA ProductCancel ==
    ASSUME NEW a \in Nat, NEW b \in Nat, NEW c \in Nat \ {0}, a * c <= b * c
    PROVE  a <= b
<1> SUFFICES ASSUME a > b PROVE FALSE
  OBVIOUS
<1>1. a = b + (a - b) /\ a - b \in Nat /\ a - b >= 1
  OBVIOUS
<1>2. a * c = b * c + (a - b) * c
  BY <1>1, ProductOfSum
<1>3. 1 * c <= (a - b) * c
  BY <1>1, ProductMonotone
<1>4. b * c \in Nat /\ a * c \in Nat /\ (a - b) * c \in Nat
  BY <1>1, ProductNat
<1> QED BY <1>2, <1>3, <1>4

(* Termwise f * b <= g * a carries over to the sums. *)
LEMMA SumShares ==
    ASSUME NEW n \in Nat, NEW f, NEW g, NEW a \in Nat, NEW b \in Nat,
           \A i \in 1..n : f[i] \in Nat /\ g[i] \in Nat /\ f[i] * b <= g[i] * a
    PROVE  SumTo(f, n) * b <= SumTo(g, n) * a
<1> DEFINE Holds(m) == /\ SumTo(f, m) \in Nat /\ SumTo(g, m) \in Nat
                       /\ SumTo(f, m) * b <= SumTo(g, m) * a
           Bad == {m \in 0..n : ~Holds(m)}
<1> SUFFICES ASSUME Bad # {} PROVE FALSE
  <2>1. n \in 0..n
    OBVIOUS
  <2> QED BY <2>1
<1>1. PICK k \in Bad : \A y \in Bad : k <= y
  <2>1. Bad \subseteq Nat
    OBVIOUS
  <2> QED BY <2>1, LeastNatural
<1>2. CASE k = 0
  <2>1. SumTo(f, 0) = 0 /\ SumTo(g, 0) = 0
    BY SumZero
  <2>2. 0 * b = 0 /\ 0 * a = 0
    OBVIOUS
  <2> QED BY <1>1, <1>2, <2>1, <2>2
<1>3. CASE k # 0
  <2> DEFINE m == k - 1
  <2>1. m \in Nat /\ m \in 0..n /\ m \notin Bad /\ k = m + 1 /\ k \in 1..n
    BY <1>1, <1>3
  <2> HIDE DEF m
  <2>2. SumTo(f, k) = SumTo(f, m) + f[k] /\ SumTo(g, k) = SumTo(g, m) + g[k]
    BY <2>1, SumStep
  <2>3. /\ SumTo(f, m) \in Nat /\ SumTo(g, m) \in Nat
        /\ SumTo(f, m) * b <= SumTo(g, m) * a
        /\ f[k] \in Nat /\ g[k] \in Nat /\ f[k] * b <= g[k] * a
    BY <2>1
  <2>4. /\ SumTo(f, k) * b = SumTo(f, m) * b + f[k] * b
        /\ SumTo(g, k) * a = SumTo(g, m) * a + g[k] * a
    <3>1. (SumTo(f, m) + f[k]) * b = SumTo(f, m) * b + f[k] * b
      BY <2>3, ProductOfSum
    <3>2. (SumTo(g, m) + g[k]) * a = SumTo(g, m) * a + g[k] * a
      BY <2>3, ProductOfSum
    <3> QED BY <3>1, <3>2, <2>2
  <2>5. /\ SumTo(f, m) * b \in Nat /\ f[k] * b \in Nat
        /\ SumTo(g, m) * a \in Nat /\ g[k] * a \in Nat
    BY <2>3, ProductNat
  <2>6. SumTo(f, k) * b <= SumTo(g, k) * a
    BY <2>3, <2>4, <2>5
  <2>7. SumTo(f, k) \in Nat /\ SumTo(g, k) \in Nat
    BY <2>2, <2>3
  <2> QED BY <2>6, <2>7, <1>1
<1> QED BY <1>2, <1>3

(* The sum of a termwise sum. *)
LEMMA SumOfSums ==
    ASSUME NEW n \in Nat, NEW f, NEW g, NEW h,
           \A i \in 1..n : f[i] \in Int /\ g[i] \in Int /\ h[i] = f[i] + g[i]
    PROVE  SumTo(h, n) = SumTo(f, n) + SumTo(g, n)
<1> DEFINE Holds(m) == /\ SumTo(f, m) \in Int /\ SumTo(g, m) \in Int
                       /\ SumTo(h, m) = SumTo(f, m) + SumTo(g, m)
           Bad == {m \in 0..n : ~Holds(m)}
<1> SUFFICES ASSUME Bad # {} PROVE FALSE
  <2>1. n \in 0..n
    OBVIOUS
  <2> QED BY <2>1
<1>1. PICK k \in Bad : \A y \in Bad : k <= y
  <2>1. Bad \subseteq Nat
    OBVIOUS
  <2> QED BY <2>1, LeastNatural
<1>2. CASE k = 0
  BY <1>1, <1>2, SumZero
<1>3. CASE k # 0
  <2> DEFINE m == k - 1
  <2>1. m \in Nat /\ m \in 0..n /\ m \notin Bad /\ k = m + 1 /\ k \in 1..n
    BY <1>1, <1>3
  <2> HIDE DEF m
  <2>2. /\ SumTo(f, k) = SumTo(f, m) + f[k] /\ SumTo(g, k) = SumTo(g, m) + g[k]
        /\ SumTo(h, k) = SumTo(h, m) + h[k]
    BY <2>1, SumStep
  <2>3. /\ SumTo(f, m) \in Int /\ SumTo(g, m) \in Int
        /\ SumTo(h, m) = SumTo(f, m) + SumTo(g, m)
        /\ f[k] \in Int /\ g[k] \in Int /\ h[k] = f[k] + g[k]
    BY <2>1
  <2> QED BY <2>2, <2>3, <1>1
<1> QED BY <1>2, <1>3
=============================================================================
