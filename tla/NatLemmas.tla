----------------------------- MODULE NatLemmas -----------------------------
(***************************************************************************)
(* Facts about natural numbers that several proofs use: the least element  *)
(* of a set, functions defined by recursion up to n, and one defined by    *)
(* doubling.  Induction over the naturals is done with the least           *)
(* counterexample.                                                         *)
(***************************************************************************)
EXTENDS Integers, WellFoundedInduction, TLAPS

\* A nonempty set of naturals has a least element.
LEMMA LeastElement ==
  ASSUME NEW S \in SUBSET Nat, S # {}
  PROVE  \E m \in S : \A k \in S : m <= k
<1>1. PICK m \in S : \A k \in S : <<k, m>> \notin OpToRel(<, Nat)
  BY NatLessThanWellFounded, WFMin
<1>2. ASSUME NEW k \in S PROVE m <= k
  <2>1. ~ (k < m)
    BY <1>1, <1>2 DEF OpToRel
  <2>2. QED
    BY <2>1, <1>2
<1>3. QED
  BY <1>2

\* f starts at a and goes on, up to n, by the functions in step.
Iterates(f, W, a, step, n) ==
  f \in [0..n -> W] /\ f[0] = a /\ \A i \in 1..n : f[i] = step[i][f[i - 1]]

\* There is such an f, as far as the steps go.
LEMMA IteratesExist ==
  ASSUME NEW W, NEW a \in W, NEW n \in Nat, NEW step \in [1..n -> [W -> W]]
  PROVE  \E f : Iterates(f, W, a, step, n)
<1> DEFINE S == {m \in Nat : m <= n /\ ~ \E f : Iterates(f, W, a, step, m)}
<1> SUFFICES ASSUME S # {} PROVE FALSE
  OBVIOUS
<1>1. PICK m \in S : \A k \in S : m <= k
  BY LeastElement
<1>2. m # 0
  <2>1. Iterates([i \in 0..0 |-> a], W, a, step, 0)
    BY DEF Iterates
  <2>2. QED
    BY <2>1
<1>3. m \in 1..n /\ m - 1 \in Nat /\ m - 1 \notin S
  BY <1>1, <1>2
<1>4. PICK f : Iterates(f, W, a, step, m - 1)
  BY <1>3
<1>5. Iterates([i \in 0..m |-> IF i = m THEN step[m][f[m - 1]] ELSE f[i]], W, a, step, m)
  <2> DEFINE g == [i \in 0..m |-> IF i = m THEN step[m][f[m - 1]] ELSE f[i]]
  <2>1. f \in [0..(m - 1) -> W] /\ f[0] = a /\ \A i \in 1..(m - 1) : f[i] = step[i][f[i - 1]]
    BY <1>4 DEF Iterates
  <2>2. f[m - 1] \in W /\ step[m][f[m - 1]] \in W
    BY <1>3, <2>1
  <2>3. g \in [0..m -> W] /\ g[0] = a
    BY <1>3, <2>1, <2>2
  <2>4. ASSUME NEW i \in 1..m PROVE g[i] = step[i][g[i - 1]]
    <3>1. i - 1 \in 0..m /\ i - 1 # m /\ g[i - 1] = f[i - 1]
      BY <1>3
    <3>2. CASE i = m
      BY <3>1, <3>2
    <3>3. CASE i # m
      <4>1. i \in 1..(m - 1) /\ g[i] = f[i]
        BY <1>3, <3>3
      <4> HIDE DEF g
      <4>2. QED
        BY <2>1, <3>1, <4>1
    <3>4. QED
      BY <3>2, <3>3
  <2>5. QED
    BY <2>3, <2>4 DEF Iterates
<1>6. QED
  BY <1>5

\* Two functions that start alike and go on alike are alike.
LEMMA IteratesAgree ==
  ASSUME NEW n \in Nat, NEW f, NEW g, f[0] = g[0],
         \A i \in 1..n : f[i - 1] = g[i - 1] => f[i] = g[i]
  PROVE  \A i \in 0..n : f[i] = g[i]
<1> DEFINE S == {i \in Nat : i <= n /\ f[i] # g[i]}
<1> SUFFICES ASSUME S # {} PROVE FALSE
  OBVIOUS
<1>1. PICK k \in S : \A i \in S : k <= i
  BY LeastElement
<1>2. k \in 1..n /\ k - 1 \in Nat /\ k - 1 \notin S
  BY <1>1
<1>3. QED
  BY <1>2

\* The values that a, doubled again and again, takes up to the n-th.
DoublesTo(f, a, n) ==
  f \in [0..n -> Nat] /\ f[0] = a /\ \A i \in 1..n : f[i] = 2 * f[i - 1]

\* There are such values up to every n.
LEMMA DoublesExist ==
  ASSUME NEW a \in Nat
  PROVE  \A n \in Nat : \E f : DoublesTo(f, a, n)
<1> DEFINE S == {n \in Nat : ~ \E f : DoublesTo(f, a, n)}
<1> SUFFICES ASSUME S # {} PROVE FALSE
  OBVIOUS
<1>1. PICK m \in S : \A k \in S : m <= k
  BY LeastElement
<1>2. m # 0
  <2>1. DoublesTo([i \in 0..0 |-> a], a, 0)
    BY DEF DoublesTo
  <2>2. QED
    BY <2>1
<1>3. m - 1 \in Nat /\ m - 1 \notin S
  BY <1>1, <1>2
<1>4. PICK f : DoublesTo(f, a, m - 1)
  BY <1>3
<1>5. DoublesTo([i \in 0..m |-> IF i = m THEN 2 * f[m - 1] ELSE f[i]], a, m)
  BY <1>2, <1>3, <1>4 DEF DoublesTo
<1>6. QED
  BY <1>5

\* They do not depend on how far they go.
LEMMA DoublesAgree ==
  ASSUME NEW a \in Nat, NEW n \in Nat, NEW m \in Nat, NEW f, NEW g,
         DoublesTo(f, a, n), DoublesTo(g, a, m)
  PROVE  \A i \in Nat : i <= n /\ i <= m => f[i] = g[i]
<1> DEFINE S == {i \in Nat : i <= n /\ i <= m /\ f[i] # g[i]}
<1> SUFFICES ASSUME S # {} PROVE FALSE
  OBVIOUS
<1>1. PICK k \in S : \A i \in S : k <= i
  BY LeastElement
<1>2. k # 0
  BY DEF DoublesTo
<1>3. k - 1 \in Nat /\ k - 1 \notin S
  BY <1>1, <1>2
<1>4. f[k - 1] = g[k - 1]
  BY <1>3
<1>5. f[k] = 2 * f[k - 1] /\ g[k] = 2 * g[k - 1]
  BY <1>2 DEF DoublesTo
<1>6. QED
  BY <1>4, <1>5

\* So there is a function that a recursive definition by doubling names.
LEMMA DoublingExists ==
  ASSUME NEW a \in Nat
  PROVE  \E f : f = [n \in Nat |-> IF n = 0 THEN a ELSE 2 * f[n - 1]]
<1> DEFINE F(n) == CHOOSE f : DoublesTo(f, a, n)
           G == [n \in Nat |-> F(n)[n]]
<1>1. ASSUME NEW n \in Nat PROVE DoublesTo(F(n), a, n)
  BY DoublesExist
<1>2. ASSUME NEW n \in Nat, n # 0 PROVE G[n] = 2 * G[n - 1]
  <2>1. F(n)[n] = 2 * F(n)[n - 1]
    <3>1. DoublesTo(F(n), a, n) /\ n \in 1..n
      BY <1>1, <1>2
    <3> HIDE DEF F
    <3>2. QED
      BY <3>1 DEF DoublesTo
  <2>2. n - 1 \in Nat /\ F(n)[n - 1] = F(n - 1)[n - 1]
    <3>1. n - 1 \in Nat /\ n - 1 <= n /\ n - 1 <= n - 1
      BY <1>2
    <3>2. DoublesTo(F(n), a, n) /\ DoublesTo(F(n - 1), a, n - 1)
      BY <1>1, <3>1
    <3> HIDE DEF F
    <3>3. QED
      BY <3>1, <3>2, DoublesAgree
  <2>3. QED
    BY <2>1, <2>2
<1>3. G[0] = a
  BY <1>1 DEF DoublesTo
<1>4. G = [n \in Nat |-> IF n = 0 THEN a ELSE 2 * G[n - 1]]
  <2>1. G = [n \in Nat |-> G[n]]
    OBVIOUS
  <2> HIDE DEF G
  <2>2. \A n \in Nat : G[n] = IF n = 0 THEN a ELSE 2 * G[n - 1]
    BY <1>2, <1>3
  <2>3. QED
    BY <2>1, <2>2
<1> HIDE DEF G
<1>5. QED
  BY <1>4

\* What doubles each time is a natural number and outgrows the number of times.
LEMMA DoublingGrows ==
  ASSUME NEW a \in Nat \ {0}, NEW f, f = [n \in Nat |-> IF n = 0 THEN a ELSE 2 * f[n - 1]]
  PROVE  \A n \in Nat : f[n] \in Nat /\ f[n] > n
<1> DEFINE S == {n \in Nat : ~ (f[n] \in Nat /\ f[n] > n)}
<1> SUFFICES ASSUME S # {} PROVE FALSE
  OBVIOUS
<1>1. PICK m \in S : \A k \in S : m <= k
  BY LeastElement
<1>2. f[0] = a
  OBVIOUS
<1>3. m # 0 /\ m - 1 \in Nat /\ m - 1 \notin S
  BY <1>1, <1>2
<1>4. f[m] = 2 * f[m - 1]
  BY <1>3
<1>5. QED
  BY <1>3, <1>4
=============================================================================
