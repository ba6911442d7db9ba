----------------------------- MODULE PageProofs -----------------------------
(***************************************************************************)
(* What the planner of the page guarantees for any program, prover and     *)
(* journal; and that a frame shows what was published, for any level and   *)
(* whatever the core publishes.                                            *)
(***************************************************************************)
EXTENDS Planner, Scene, FiniteSetTheorems, WellFoundedInduction, TLAPS

-----------------------------------------------------------------------------
(* Least and greatest.                                                     *)

LEMMA LeastOf ==
    ASSUME NEW T, T \subseteq Nat, T # {}
    PROVE  \E x \in T : \A y \in T : x <= y
<1>1. PICK x \in T : \A y \in T : ~(<<y, x>> \in OpToRel(<, Nat))
  BY NatLessThanWellFounded, WFMin
<1>2. \A y \in T : ~(y < x)
  BY <1>1 DEF OpToRel
<1> QED
  BY <1>2

LEMMA MinOfNats ==
    ASSUME NEW T, T \subseteq Nat, T # {}
    PROVE  Min(T) \in T /\ \A y \in T : Min(T) <= y
  BY LeastOf DEF Min

LEMMA MinOfTwo ==
    ASSUME NEW a \in Int, NEW b \in Int
    PROVE  Min({a, b}) \in Int /\ Min({a, b}) <= a /\ Min({a, b}) <= b /\ Min({a, b}) \in {a, b}
<1>1. \E x \in {a, b} : \A y \in {a, b} : x <= y
  <2>1. CASE a <= b
    BY <2>1
  <2>2. CASE ~(a <= b)
    BY <2>2
  <2> QED
    BY <2>1, <2>2
<1>2. Min({a, b}) \in {a, b} /\ \A y \in {a, b} : Min({a, b}) <= y
  BY <1>1 DEF Min
<1> QED
  BY <1>2

LEMMA MaxOfTwo ==
    ASSUME NEW a \in Int, NEW b \in Int
    PROVE  Max({a, b}) = IF a >= b THEN a ELSE b
<1>1. CASE a >= b
  <2>1. a \in {a, b} /\ \A y \in {a, b} : a >= y
    BY <1>1
  <2>2. \A x \in {a, b} : (\A y \in {a, b} : x >= y) => x = a
    BY <1>1
  <2> QED
    BY <1>1, <2>1, <2>2 DEF Max
<1>2. CASE ~(a >= b)
  <2>1. b \in {a, b} /\ \A y \in {a, b} : b >= y
    BY <1>2
  <2>2. \A x \in {a, b} : (\A y \in {a, b} : x >= y) => x = b
    BY <1>2
  <2> QED
    BY <1>2, <2>1, <2>2 DEF Max
<1> QED
  BY <1>1, <1>2

LEMMA LastIsMax ==
    ASSUME NEW m \in Nat, NEW s \in SUBSET (1..m), m \in s
    PROVE  Max(s) = m
<1>1. \A y \in s : m >= y
  OBVIOUS
<1>2. \A x \in s : (\A y \in s : x >= y) => x = m
  BY <1>1
<1> QED
  BY <1>1, <1>2 DEF Max

\* A finite set has an element whose value is the greatest.
LEMMA FiniteMax ==
    ASSUME NEW D, IsFiniteSet(D), D # {}, NEW f \in [D -> Nat]
    PROVE  \E x \in D : \A y \in D : f[x] >= f[y]
<1> DEFINE Peak(S) == \E x \in S : \A y \in S : f[x] >= f[y]
           Bad == {S \in SUBSET D : S # {} /\ ~Peak(S)}
           T == {Cardinality(S) : S \in Bad}
<1>1. SUFFICES ASSUME Bad # {} PROVE FALSE
  OBVIOUS
<1>2. \A S \in SUBSET D : IsFiniteSet(S) /\ Cardinality(S) \in Nat
  BY FS_Subset, FS_CardinalityType
<1>3. T \subseteq Nat /\ T # {}
  BY <1>1, <1>2
<1>4. PICK n \in T : \A y \in T : n <= y
  <2> HIDE DEF T
  <2> QED
    BY <1>3, LeastOf
<1>5. PICK S \in Bad : n = Cardinality(S)
  BY <1>4
<1>6. PICK a \in S : TRUE
  BY <1>5
<1>7. Cardinality(S \ {a}) = Cardinality(S) - 1 /\ IsFiniteSet(S) /\ Cardinality(S) \in Nat
  BY <1>2, <1>5, <1>6, FS_RemoveElement
<1>8. S \ {a} \notin Bad
  <2>1. SUFFICES ASSUME S \ {a} \in Bad PROVE FALSE
    OBVIOUS
  <2>2. Cardinality(S \ {a}) \in T
    BY <2>1
  <2>3. n <= Cardinality(S \ {a})
    BY <1>4, <2>2
  <2> HIDE DEF T, Bad
  <2> QED
    BY <1>5, <1>7, <2>3
<1>9. CASE S \ {a} = {}
  <2>1. S = {a} /\ f[a] \in Nat
    BY <1>5, <1>6, <1>9
  <2>2. Peak(S)
    BY <2>1
  <2> QED
    BY <1>5, <2>2
<1>10. CASE S \ {a} # {}
  <2>1. Peak(S \ {a})
    BY <1>5, <1>8, <1>10
  <2>2. PICK x \in S \ {a} : \A y \in S \ {a} : f[x] >= f[y]
    BY <2>1
  <2>3. \A y \in S : f[y] \in Nat
    BY <1>5
  <2>4. CASE f[x] >= f[a]
    <3>1. \A y \in S : f[x] >= f[y]
      BY <2>2, <2>4
    <3>2. Peak(S)
      BY <2>2, <3>1
    <3> QED
      BY <1>5, <3>2
  <2>5. CASE ~(f[x] >= f[a])
    <3>1. \A y \in S : f[a] >= f[y]
      BY <1>6, <2>2, <2>3, <2>5
    <3>2. Peak(S)
      BY <1>6, <3>1
    <3> QED
      BY <1>5, <3>2
  <2> QED
    BY <2>4, <2>5
<1> QED
  BY <1>9, <1>10

-----------------------------------------------------------------------------
(* Folds and sums.                                                         *)

\* The table of a fold over n places, by sets of places: it exists.
FoldsOver(f, n, V, zero, step) ==
    /\ f \in [SUBSET (1..n) -> V]
    /\ \A s \in SUBSET (1..n) :
          f[s] = IF s = {} THEN zero ELSE step[<<f[s \ {Max(s)}], Max(s)>>]

LEMMA FoldTable ==
    ASSUME NEW n \in Nat, NEW V, NEW zero \in V, NEW step \in [V \X (1..n) -> V]
    PROVE  \E f : FoldsOver(f, n, V, zero, step)
<1> DEFINE Table(m) == \E f \in [SUBSET (1..m) -> V] :
              \A s \in SUBSET (1..m) :
                 f[s] = IF s = {} THEN zero ELSE step[<<f[s \ {Max(s)}], Max(s)>>]
<1>1. Table(0)
  <2> DEFINE f == [s \in SUBSET (1..0) |-> zero]
  <2>1. f \in [SUBSET (1..0) -> V]
    OBVIOUS
  <2>2. \A s \in SUBSET (1..0) : s = {}
    OBVIOUS
  <2> QED
    BY <2>1, <2>2
<1>2. ASSUME NEW m \in 0..(n - 1), Table(m) PROVE Table(m + 1)
  <2>1. PICK f \in [SUBSET (1..m) -> V] :
            \A s \in SUBSET (1..m) :
                 f[s] = IF s = {} THEN zero ELSE step[<<f[s \ {Max(s)}], Max(s)>>]
    BY <1>2
  <2> DEFINE g == [s \in SUBSET (1..(m + 1)) |->
                      IF m + 1 \in s THEN step[<<f[s \ {m + 1}], m + 1>>] ELSE f[s]]
  <2>2. ASSUME NEW s \in SUBSET (1..(m + 1))
        PROVE  /\ g[s] \in V
               /\ g[s] = IF s = {} THEN zero ELSE step[<<g[s \ {Max(s)}], Max(s)>>]
    <3>1. CASE m + 1 \in s
      <4>1. Max(s) = m + 1 /\ s # {}
        BY <3>1, LastIsMax
      <4>2. s \ {m + 1} \in SUBSET (1..m) /\ m + 1 \in 1..n /\ m + 1 \notin s \ {m + 1}
        BY <3>1
      <4>3. g[s] = step[<<f[s \ {m + 1}], m + 1>>]
        BY <3>1
      <4>4. g[s \ {m + 1}] = f[s \ {m + 1}] /\ f[s \ {m + 1}] \in V
        BY <4>2
      <4> QED
        BY <4>1, <4>2, <4>3, <4>4
    <3>2. CASE m + 1 \notin s
      <4>1. s \in SUBSET (1..m)
        BY <3>2
      <4>2. s \ {Max(s)} \in SUBSET (1..m)
        BY <4>1
      <4>3. \A u \in SUBSET (1..m) : m + 1 \notin u /\ u \in SUBSET (1..(m + 1))
        OBVIOUS
      <4>4. g[s] = f[s] /\ g[s \ {Max(s)}] = f[s \ {Max(s)}] /\ f[s] \in V
        BY <4>1, <4>2, <4>3
      <4>5. f[s] = IF s = {} THEN zero ELSE step[<<f[s \ {Max(s)}], Max(s)>>]
        BY <2>1, <4>1
      <4> QED
        BY <4>4, <4>5
    <3> QED
      BY <3>1, <3>2
  <2>3. g \in [SUBSET (1..(m + 1)) -> V]
    BY <2>2
  <2> HIDE DEF g
  <2> QED
    BY <2>2, <2>3
<1> HIDE DEF Table
<1>3. Table(n)
  <2> DEFINE T == {m \in 0..n : ~Table(m)}
  <2>1. SUFFICES ASSUME T # {} PROVE FALSE
    OBVIOUS
  <2>2. PICK x \in T : \A y \in T : x <= y
    <3>1. T \subseteq Nat
      OBVIOUS
    <3> HIDE DEF T
    <3> QED
      BY <2>1, <3>1, LeastOf
  <2>3. x # 0 /\ x - 1 \in 0..(n - 1) /\ x - 1 \notin T
    BY <1>1, <2>2
  <2> QED
    BY <1>2, <2>2, <2>3
<1> QED
  BY <1>3 DEF Table, FoldsOver

LEMMA PrefixStep ==
    ASSUME NEW n \in Nat, NEW i \in 1..n
    PROVE  /\ 1..i \in SUBSET (1..n) /\ 1..i # {} /\ Max(1..i) = i
           /\ (1..i) \ {Max(1..i)} = 1..(i - 1)
<1>1. 1..i \in SUBSET (1..i) /\ i \in 1..i
  OBVIOUS
<1>2. Max(1..i) = i
  BY <1>1, LastIsMax
<1>3. (1..i) \ {i} = 1..(i - 1)
  OBVIOUS
<1> QED
  BY <1>2, <1>3

\* g holds the sums of the prefixes of v.
SumsUp(g, n, v) == /\ g \in [0..n -> Int] /\ g[0] = 0
                   /\ \A i \in 1..n : g[i] = g[i - 1] + v[i]

LEMMA TotalIsSum ==
    ASSUME NEW n \in Nat, NEW v \in [1..n -> Int]
    PROVE  \E g : SumsUp(g, n, v) /\ Total(v) = g[n]
<1> DEFINE Over(h) == [s \in SUBSET (1..n) |-> IF s = {} THEN 0 ELSE h[s \ {Max(s)}] + v[Max(s)]]
           F == CHOOSE h : h = Over(h)
<1>1. Total(v) = F[1..n]
  BY DEF Total, FoldLeft, MapThenFoldSet
<1>2. F = Over(F)
  <2> DEFINE step == [a \in Int \X (1..n) |-> a[1] + v[a[2]]]
  <2>1. step \in [Int \X (1..n) -> Int]
    OBVIOUS
  <2> HIDE DEF step
  <2>2. PICK f : FoldsOver(f, n, Int, 0, step)
    <3>1. 0 \in Int
      OBVIOUS
    <3> QED
      BY <2>1, <3>1, FoldTable
  <2>3. ASSUME NEW s \in SUBSET (1..n), s # {} PROVE f[s] = f[s \ {Max(s)}] + v[Max(s)]
    <3>1. Max(s) \in 1..n
      <4>1. \E x \in s : \A y \in s : x >= y
        <5> DEFINE U == {n - x : x \in s}
        <5>1. U \subseteq Nat /\ U # {}
          <6>1. \A x \in s : x \in 1..n /\ n - x \in Nat
            OBVIOUS
          <6> QED
            BY <2>3, <6>1
        <5>2. PICK u \in U : \A y \in U : u <= y
          <6> HIDE DEF U
          <6> QED
            BY <5>1, LeastOf
        <5>3. PICK x \in s : u = n - x
          BY <5>2
        <5>4. \A y \in s : n - x <= n - y /\ y \in 1..n
          BY <5>2, <5>3
        <5> QED
          BY <5>3, <5>4
      <4> QED
        BY <4>1 DEF Max
    <3>2. f[s \ {Max(s)}] \in Int
      BY <2>2 DEF FoldsOver
    <3>3. step[<<f[s \ {Max(s)}], Max(s)>>] = f[s \ {Max(s)}] + v[Max(s)]
      BY <3>1, <3>2 DEF step
    <3> QED
      BY <2>2, <2>3, <3>3 DEF FoldsOver
  <2>4. f = Over(f)
    <3>1. ASSUME NEW s \in SUBSET (1..n)
          PROVE  f[s] = IF s = {} THEN 0 ELSE f[s \ {Max(s)}] + v[Max(s)]
      BY <2>2, <2>3 DEF FoldsOver
    <3> QED
      BY <2>2, <3>1 DEF FoldsOver
  <2> HIDE DEF Over
  <2> QED
    BY <2>4
<1> HIDE DEF F
<1>3. F[1..0] = 0
  <2>1. 1..0 = {} /\ {} \in SUBSET (1..n)
    OBVIOUS
  <2> QED
    BY <1>2, <2>1
<1>4. ASSUME NEW i \in 1..n PROVE F[1..i] = F[1..(i - 1)] + v[i]
  BY <1>2, PrefixStep
<1> HIDE DEF Over
<1>5. \A i \in 0..n : F[1..i] \in Int
  <2> DEFINE T == {i \in 0..n : F[1..i] \notin Int}
  <2>1. SUFFICES ASSUME T # {} PROVE FALSE
    OBVIOUS
  <2>2. PICK x \in T : \A y \in T : x <= y
    <3>1. T \subseteq Nat
      OBVIOUS
    <3> HIDE DEF T
    <3> QED
      BY <2>1, <3>1, LeastOf
  <2>3. x # 0
    BY <1>3, <2>2
  <2>4. x \in 1..n /\ x - 1 \in 0..n /\ x - 1 \notin T
    BY <2>2, <2>3
  <2>5. F[1..(x - 1)] \in Int /\ v[x] \in Int
    BY <2>4
  <2> QED
    BY <1>4, <2>2, <2>4, <2>5
<1> DEFINE g == [i \in 0..n |-> F[1..i]]
<1>6. SumsUp(g, n, v)
  <2>1. g \in [0..n -> Int] /\ g[0] = 0
    BY <1>3, <1>5
  <2>2. ASSUME NEW i \in 1..n PROVE g[i] = g[i - 1] + v[i]
    BY <1>4
  <2> QED
    BY <2>1, <2>2 DEF SumsUp
<1> QED
  BY <1>1, <1>6

-----------------------------------------------------------------------------
(* The padded height of a component.                                       *)

LEMMA HalfIsLess ==
    ASSUME NEW n \in Nat
    PROVE  /\ (n + 1) \div 2 \in Nat
           /\ n > 1 => (n + 1) \div 2 \in 0..(n - 1) /\ n <= 2 * ((n + 1) \div 2)
           /\ \A m \in Nat : m <= n => (m + 1) \div 2 <= (n + 1) \div 2
  OBVIOUS

\* The padded heights of the counts up to n.
PadsTo(g, n) == /\ g \in [0..n -> Nat]
                /\ \A k \in 0..n : g[k] = IF k <= 1 THEN 1 ELSE 2 * g[(k + 1) \div 2]

LEMMA PadsExist ==
    ASSUME NEW n \in Nat
    PROVE  \E g : PadsTo(g, n)
<1>1. \E g : PadsTo(g, 0)
  <2> DEFINE g == [k \in 0..0 |-> 1]
  <2>1. PadsTo(g, 0)
    BY DEF PadsTo
  <2> QED
    BY <2>1
<1>2. ASSUME NEW m \in Nat, NEW f, PadsTo(f, m) PROVE \E g : PadsTo(g, m + 1)
  <2> DEFINE g == [k \in 0..(m + 1) |-> IF k <= m THEN f[k]
                                        ELSE IF k <= 1 THEN 1 ELSE 2 * f[(k + 1) \div 2]]
  <2>1. f \in [0..m -> Nat] /\ \A k \in 0..m : f[k] = IF k <= 1 THEN 1 ELSE 2 * f[(k + 1) \div 2]
    BY <1>2 DEF PadsTo
  <2>2. ASSUME NEW k \in 0..(m + 1)
        PROVE  g[k] \in Nat /\ g[k] = IF k <= 1 THEN 1 ELSE 2 * g[(k + 1) \div 2]
    <3>1. k > 1 => (k + 1) \div 2 \in 0..m /\ (k + 1) \div 2 \in 0..(m + 1)
      BY HalfIsLess
    <3>2. k > 1 => g[(k + 1) \div 2] = f[(k + 1) \div 2] /\ f[(k + 1) \div 2] \in Nat
      BY <2>1, <3>1
    <3>3. CASE k <= m
      <4>1. g[k] = f[k] /\ k \in 0..m
        BY <3>3
      <4> QED
        BY <2>1, <3>2, <4>1
    <3>4. CASE ~(k <= m)
      <4>1. g[k] = IF k <= 1 THEN 1 ELSE 2 * f[(k + 1) \div 2]
        BY <3>4
      <4> QED
        BY <3>2, <4>1
    <3> QED
      BY <3>3, <3>4
  <2>3. g \in [0..(m + 1) -> Nat]
    BY <2>2
  <2> HIDE DEF g
  <2>4. PadsTo(g, m + 1)
    BY <2>2, <2>3 DEF PadsTo
  <2> QED
    BY <2>4
<1> DEFINE T == {m \in Nat : ~\E g : PadsTo(g, m)}
<1>3. SUFFICES ASSUME T # {} PROVE FALSE
  OBVIOUS
<1>4. PICK x \in T : \A y \in T : x <= y
  <2>1. T \subseteq Nat
    OBVIOUS
  <2> HIDE DEF T
  <2> QED
    BY <1>3, <2>1, LeastOf
<1>5. x # 0 /\ x - 1 \in Nat /\ x - 1 \notin T
  BY <1>1, <1>4
<1>6. PICK f : PadsTo(f, x - 1)
  BY <1>5
<1>7. (x - 1) + 1 = x
  BY <1>4
<1>8. \E g : PadsTo(g, x)
  BY <1>2, <1>5, <1>6, <1>7
<1> QED
  BY <1>4, <1>8

LEMMA PadsAgree ==
    ASSUME NEW m \in Nat, NEW n \in Nat, NEW f, NEW g, PadsTo(f, m), PadsTo(g, n),
           NEW k \in Nat, k <= m, k <= n
    PROVE  f[k] = g[k]
<1> DEFINE T == {j \in Nat : j <= m /\ j <= n /\ f[j] # g[j]}
<1>1. SUFFICES ASSUME T # {} PROVE FALSE
  OBVIOUS
<1>2. PICK x \in T : \A y \in T : x <= y
  <2>1. T \subseteq Nat
    OBVIOUS
  <2> HIDE DEF T
  <2> QED
    BY <1>1, <2>1, LeastOf
<1>3. /\ f[x] = IF x <= 1 THEN 1 ELSE 2 * f[(x + 1) \div 2]
      /\ g[x] = IF x <= 1 THEN 1 ELSE 2 * g[(x + 1) \div 2]
  BY <1>2 DEF PadsTo
<1>4. x > 1
  BY <1>2, <1>3
<1>5. (x + 1) \div 2 \in 0..(x - 1)
  BY <1>2, <1>4, HalfIsLess
<1>6. (x + 1) \div 2 \notin T
  BY <1>2, <1>5
<1>7. f[(x + 1) \div 2] = g[(x + 1) \div 2]
  BY <1>2, <1>5, <1>6
<1> QED
  BY <1>2, <1>3, <1>7

LEMMA PaddedHeight ==
    \A n \in Nat : nextPow2[n] = IF n <= 1 THEN 1 ELSE 2 * nextPow2[(n + 1) \div 2]
<1> DEFINE Of(h) == [n \in Nat |-> IF n <= 1 THEN 1 ELSE 2 * h[(n + 1) \div 2]]
           T(n) == CHOOSE g : PadsTo(g, n)
           F == [n \in Nat |-> T(n)[n]]
<1>1. \A n \in Nat : PadsTo(T(n), n)
  BY PadsExist
<1> HIDE DEF T
<1>2. ASSUME NEW n \in Nat PROVE F[n] = IF n <= 1 THEN 1 ELSE 2 * F[(n + 1) \div 2]
  <2>1. F[n] = IF n <= 1 THEN 1 ELSE 2 * T(n)[(n + 1) \div 2]
    BY <1>1 DEF PadsTo
  <2>2. CASE n <= 1
    BY <2>1, <2>2
  <2>3. CASE ~(n <= 1)
    <3>1. (n + 1) \div 2 \in Nat /\ (n + 1) \div 2 <= n
      BY <2>3, HalfIsLess
    <3>2. T(n)[(n + 1) \div 2] = T((n + 1) \div 2)[(n + 1) \div 2]
      BY <1>1, <3>1, PadsAgree
    <3>3. F[(n + 1) \div 2] = T((n + 1) \div 2)[(n + 1) \div 2]
      BY <3>1
    <3> QED
      BY <2>1, <3>2, <3>3
  <2> QED
    BY <2>2, <2>3
<1> HIDE DEF F
<1>3. F = Of(F)
  <2>1. F = [n \in Nat |-> F[n]]
    BY DEF F
  <2> QED
    BY <1>2, <2>1
<1>4. nextPow2 = Of(nextPow2)
  <2>1. nextPow2 = CHOOSE h : h = Of(h)
    BY DEF nextPow2
  <2> HIDE DEF Of
  <2> QED
    BY <1>3, <2>1
<1> QED
  BY <1>4

\* A padded height is at least what it pads, and grows with it.
LEMMA PadsUp ==
    ASSUME NEW n \in Nat
    PROVE  /\ Pow2(n) \in Nat /\ Pow2(n) >= n /\ Pow2(n) >= 1
           /\ \A m \in Nat : m <= n => Pow2(m) <= Pow2(n)
<1> DEFINE Good(k) == /\ nextPow2[k] \in Nat /\ nextPow2[k] >= k /\ nextPow2[k] >= 1
                      /\ \A m \in Nat : m <= k => nextPow2[m] <= nextPow2[k]
           T == {k \in Nat : ~Good(k)}
<1>1. SUFFICES ASSUME T # {} PROVE FALSE
  BY DEF Pow2
<1>2. PICK x \in T : \A y \in T : x <= y
  <2>1. T \subseteq Nat
    OBVIOUS
  <2> HIDE DEF T
  <2> QED
    BY <1>1, <2>1, LeastOf
<1>3. \A k \in 0..(x - 1) : Good(k)
  BY <1>2
<1>4. \A m \in Nat : m <= 1 => nextPow2[m] = 1
  BY PaddedHeight
<1>5. CASE x <= 1
  <2>1. x \in Nat
    BY <1>2
  <2>2. Good(x)
    BY <1>4, <1>5, <2>1
  <2> QED
    BY <1>2, <2>2
<1>6. CASE ~(x <= 1)
  <2> DEFINE h == (x + 1) \div 2
  <2>1. h \in 0..(x - 1) /\ x <= 2 * h /\ \A m \in Nat : m <= x => (m + 1) \div 2 <= h
    BY <1>2, <1>6, HalfIsLess
  <2>2. nextPow2[x] = 2 * nextPow2[h]
    BY <1>2, <1>6, PaddedHeight
  <2>3. nextPow2[h] \in Nat /\ nextPow2[h] >= h /\ nextPow2[h] >= 1
    BY <1>3, <2>1
  <2> HIDE DEF h
  <2>4. ASSUME NEW m \in Nat, m <= x PROVE nextPow2[m] <= nextPow2[x]
    <3>1. CASE m <= 1
      BY <1>4, <2>2, <2>3, <3>1
    <3>2. CASE ~(m <= 1)
      <4>1. nextPow2[m] = 2 * nextPow2[(m + 1) \div 2]
        BY <3>2, PaddedHeight
      <4>2. (m + 1) \div 2 \in Nat /\ (m + 1) \div 2 <= h
        BY <2>1, <2>4, HalfIsLess
      <4>3. nextPow2[(m + 1) \div 2] <= nextPow2[h] /\ nextPow2[(m + 1) \div 2] \in Nat
        BY <1>3, <2>1, <4>2
      <4> QED
        BY <2>2, <2>3, <4>1, <4>3
    <3> QED
      BY <3>1, <3>2
  <2>5. Good(x)
    BY <1>2, <2>1, <2>2, <2>3, <2>4
  <2> QED
    BY <1>2, <2>5
<1> QED
  BY <1>5, <1>6

-----------------------------------------------------------------------------
(* Least squares.                                                          *)

\* The squares lie around their mean: n * sum of squares is at least the square of the sum.
LEMMA SquaresSpread ==
    ASSUME NEW n \in Nat, NEW x \in [1..n -> Int], NEW q \in [1..n -> Int],
           \A i \in 1..n : q[i] = x[i] * x[i],
           NEW X, NEW Q, SumsUp(X, n, x), SumsUp(Q, n, q)
    PROVE  n * Q[n] - X[n] * X[n] >= 0
<1>0. /\ X \in [0..n -> Int] /\ X[0] = 0 /\ \A i \in 1..n : X[i] = X[i - 1] + x[i]
      /\ Q \in [0..n -> Int] /\ Q[0] = 0 /\ \A i \in 1..n : Q[i] = Q[i - 1] + x[i] * x[i]
  BY DEF SumsUp
<1> DEFINE Away(i, u) == Q[i] - 2 * (u * X[i]) + i * (u * u)
           Spread(i) == i * Q[i] - X[i] * X[i]
<1>1. ASSUME NEW u \in Int, NEW m \in 0..n PROVE Away(m, u) >= 0
  <2> DEFINE T == {i \in 0..n : ~(Away(i, u) >= 0)}
  <2>1. SUFFICES ASSUME T # {} PROVE FALSE
    OBVIOUS
  <2>2. PICK j \in T : \A y \in T : j <= y
    <3>1. T \subseteq Nat
      OBVIOUS
    <3> HIDE DEF T
    <3> QED
      BY <2>1, <3>1, LeastOf
  <2>3. j # 0
    <3>1. Away(0, u) = 0
      <4>1. u * 0 = 0 /\ 0 * (u * u) = 0
        OBVIOUS
      <4> QED
        BY <1>0, <4>1
    <3> QED
      BY <2>2, <3>1
  <2>4. j \in 1..n /\ j - 1 \in 0..n /\ j - 1 \notin T
    BY <2>2, <2>3
  <2>5. Away(j - 1, u) >= 0
    BY <2>4
  <2> DEFINE a == Q[j - 1]
             b == X[j - 1]
             c == x[j]
  <2>6. a \in Int /\ b \in Int /\ c \in Int /\ Q[j] = a + c * c /\ X[j] = b + c
    BY <1>0, <2>4
  <2>7. /\ Away(j - 1, u) = a - 2 * (u * b) + (j - 1) * (u * u)
        /\ Away(j, u) = (a + c * c) - 2 * (u * (b + c)) + j * (u * u)
    BY <2>6
  <2> HIDE DEF a, b, c, Away
  <2>8. Away(j, u) = Away(j - 1, u) + (c - u) * (c - u)
    BY <2>4, <2>6, <2>7
  <2>9. (c - u) * (c - u) >= 0 /\ (c - u) * (c - u) \in Int
    BY <2>6
  <2>10. Away(j - 1, u) \in Int
    BY <2>4, <2>6, <2>7
  <2>11. Away(j, u) >= 0
    BY <2>5, <2>8, <2>9, <2>10
  <2> QED
    BY <2>2, <2>11
<1> DEFINE T == {i \in 0..n : ~(Spread(i) >= 0)}
<1>2. SUFFICES ASSUME T # {} PROVE FALSE
  <2>1. Spread(n) >= 0 => n * Q[n] - X[n] * X[n] >= 0
    OBVIOUS
  <2>2. n \in 0..n
    OBVIOUS
  <2> HIDE DEF Spread
  <2> QED
    BY <2>1, <2>2
<1>3. PICK j \in T : \A y \in T : j <= y
  <2>1. T \subseteq Nat
    OBVIOUS
  <2> HIDE DEF T
  <2> QED
    BY <1>2, <2>1, LeastOf
<1>4. j # 0
  <2>1. Spread(0) = 0
    BY <1>0
  <2> QED
    BY <1>3, <2>1
<1>5. j \in 1..n /\ j - 1 \in 0..n /\ j - 1 \notin T
  BY <1>3, <1>4
<1>6. Spread(j - 1) >= 0
  BY <1>5
<1> DEFINE a == Q[j - 1]
           b == X[j - 1]
           c == x[j]
<1>7. a \in Int /\ b \in Int /\ c \in Int /\ Q[j] = a + c * c /\ X[j] = b + c
  BY <1>0, <1>5
<1>8. /\ Spread(j - 1) = (j - 1) * a - b * b
      /\ Spread(j) = j * (a + c * c) - (b + c) * (b + c)
      /\ Away(j - 1, c) = a - 2 * (c * b) + (j - 1) * (c * c)
  BY <1>7
<1>9. Away(j - 1, c) >= 0
  BY <1>1, <1>5, <1>7
<1> HIDE DEF a, b, c, Away, Spread
<1>10. Spread(j) = Spread(j - 1) + Away(j - 1, c)
  BY <1>5, <1>7, <1>8
<1>11. Spread(j - 1) \in Int /\ Away(j - 1, c) \in Int
  BY <1>5, <1>7, <1>8
<1>12. Spread(j) >= 0
  BY <1>6, <1>9, <1>10, <1>11
<1> QED
  BY <1>3, <1>12

\* What a regression is made of: the values y at the places x, and their sums.
Data(n, x, q, y, p) ==
    /\ n \in Nat /\ {x, q, y, p} \subseteq [1..n -> Int]
    /\ \A i \in 1..n : q[i] = x[i] * x[i] /\ p[i] = x[i] * y[i]
Totals(n, x, q, y, p, X, Q, Y, P) ==
    /\ Data(n, x, q, y, p)
    /\ SumsUp(X, n, x) /\ SumsUp(Q, n, q) /\ SumsUp(Y, n, y) /\ SumsUp(P, n, p)

\* The sums of affine data: of the values, and of the values times their places.
LEMMA AffineSums ==
    ASSUME NEW n, NEW x, NEW q, NEW y, NEW p, NEW X, NEW Q, NEW Y, NEW P,
           Totals(n, x, q, y, p, X, Q, Y, P),
           NEW b \in Int, NEW s \in Int, \A i \in 1..n : y[i] = b + s * x[i]
    PROVE  Y[n] = b * n + s * X[n] /\ P[n] = b * X[n] + s * Q[n]
<1>0. /\ X \in [0..n -> Int] /\ X[0] = 0 /\ \A i \in 1..n : X[i] = X[i - 1] + x[i]
      /\ Q \in [0..n -> Int] /\ Q[0] = 0 /\ \A i \in 1..n : Q[i] = Q[i - 1] + q[i]
      /\ Y \in [0..n -> Int] /\ Y[0] = 0 /\ \A i \in 1..n : Y[i] = Y[i - 1] + y[i]
      /\ P \in [0..n -> Int] /\ P[0] = 0 /\ \A i \in 1..n : P[i] = P[i - 1] + p[i]
      /\ n \in Nat /\ x \in [1..n -> Int]
      /\ \A i \in 1..n : q[i] = x[i] * x[i] /\ y[i] = b + s * x[i] /\ p[i] = x[i] * y[i]
  BY DEF SumsUp, Totals, Data
<1> DEFINE Holds(i) == Y[i] = b * i + s * X[i] /\ P[i] = b * X[i] + s * Q[i]
           T == {i \in 0..n : ~Holds(i)}
<1>1. SUFFICES ASSUME T # {} PROVE FALSE
  <2>1. Holds(n) => Y[n] = b * n + s * X[n] /\ P[n] = b * X[n] + s * Q[n]
    OBVIOUS
  <2>2. n \in 0..n
    BY <1>0
  <2> HIDE DEF Holds
  <2> QED
    BY <2>1, <2>2
<1>2. PICK j \in T : \A z \in T : j <= z
  <2>1. T \subseteq Nat
    OBVIOUS
  <2> HIDE DEF T
  <2> QED
    BY <1>1, <2>1, LeastOf
<1>3. j # 0
  <2>1. Holds(0)
    BY <1>0
  <2> QED
    BY <1>2, <2>1
<1>4. j \in 1..n /\ j - 1 \in 0..n /\ j - 1 \notin T
  <2> HIDE DEF Holds
  <2> QED
    BY <1>0, <1>2, <1>3
<1>5. Holds(j - 1)
  <2> HIDE DEF Holds
  <2> QED
    BY <1>4
<1> DEFINE c == x[j]
           u == X[j - 1]
           v == Q[j - 1]
<1>6. /\ c \in Int /\ u \in Int /\ v \in Int
      /\ X[j] = u + c /\ Q[j] = v + c * c
      /\ Y[j] = Y[j - 1] + (b + s * c) /\ P[j] = P[j - 1] + c * (b + s * c)
  <2>1. j \in 1..n /\ j - 1 \in 0..n
    BY <1>4
  <2>2. q[j] = x[j] * x[j] /\ y[j] = b + s * x[j] /\ p[j] = x[j] * y[j]
    BY <1>0, <2>1
  <2>3. c \in Int /\ u \in Int /\ v \in Int /\ X[j] = u + c
    BY <1>0, <2>1
  <2>4. Q[j] = Q[j - 1] + q[j] /\ Y[j] = Y[j - 1] + y[j] /\ P[j] = P[j - 1] + p[j]
    BY <1>0, <2>1
  <2>5. Q[j] = v + c * c
    BY <2>2, <2>4
  <2>6. Y[j] = Y[j - 1] + (b + s * c)
    BY <2>2, <2>4
  <2>7. P[j] = P[j - 1] + c * (b + s * c)
    BY <2>2, <2>4
  <2> QED
    BY <2>3, <2>5, <2>6, <2>7
<1>7. Y[j - 1] = b * (j - 1) + s * u /\ P[j - 1] = b * u + s * v
  BY <1>5
<1> HIDE DEF c, u, v
<1>8. Y[j] = b * j + s * (u + c)
  <2>1. b * (j - 1) = b * j - b /\ s * (u + c) = s * u + s * c
    BY <1>4, <1>6
  <2>2. b * j \in Int /\ s * u \in Int /\ s * c \in Int
    BY <1>4, <1>6
  <2> QED
    BY <1>6, <1>7, <2>1, <2>2
<1>9. P[j] = b * (u + c) + s * (v + c * c)
  <2>1. /\ b * (u + c) = b * u + b * c /\ s * (v + c * c) = s * v + s * (c * c)
        /\ c * (b + s * c) = b * c + s * (c * c)
    BY <1>6
  <2>2. b * u \in Int /\ b * c \in Int /\ s * v \in Int /\ s * (c * c) \in Int
    BY <1>6
  <2> QED
    BY <1>6, <1>7, <2>1, <2>2
<1>10. Holds(j)
  BY <1>6, <1>8, <1>9
<1> QED
  BY <1>2, <1>10

-----------------------------------------------------------------------------
(* The fit.                                                                *)

Keys == {"rows", "steps"}
Observation == [tics : Nat \ {0}, rows : Nat, steps : Nat, exact : BOOLEAN]
Regression == [slope : Nat \ {0}, den : Nat \ {0}, base : Int, over : Nat \ {0}]

\* What Line is made of: the sums over the observations.
LEMMA FitIs ==
    ASSUME observations \in Seq(Observation), NEW key \in Keys, NEW n, n = Len(observations)
    PROVE  \E x, q, y, p, X, Q, Y, P :
              /\ Totals(n, x, q, y, p, X, Q, Y, P)
              /\ \A i \in 1..n : x[i] = observations[i].tics /\ y[i] = observations[i][key]
              /\ fit(key) = Line(key, n, X[n], Y[n], n * P[n] - X[n] * Y[n], n * Q[n] - X[n] * X[n])
<1>1. n \in Nat /\ DOMAIN observations = 1..n
  OBVIOUS
<1>2. \A i \in 1..n : /\ observations[i].tics \in Int /\ observations[i]["tics"] \in Int
                      /\ observations[i][key] \in Int /\ observations[i]["tics"] = observations[i].tics
  <2>1. ASSUME NEW o \in Observation
        PROVE  o.tics \in Int /\ o["tics"] = o.tics /\ o["rows"] \in Int /\ o["steps"] \in Int
    BY DEF Observation
  <2>2. \A i \in 1..n : observations[i] \in Observation
    BY <1>1
  <2> QED
    BY <2>1, <2>2 DEF Keys
<1> DEFINE x == Values("tics")
           y == Values(key)
           q == [i \in 1..n |-> observations[i].tics * observations[i].tics]
           p == [i \in 1..n |-> observations[i].tics * observations[i][key]]
<1>3. /\ x \in [1..n -> Int] /\ y \in [1..n -> Int]
      /\ \A i \in 1..n : x[i] = observations[i].tics /\ y[i] = observations[i][key]
  BY <1>1, <1>2 DEF Values
<1>4. q \in [1..n -> Int] /\ p \in [1..n -> Int]
  BY <1>2
<1>5. \A i \in 1..n : q[i] = x[i] * x[i] /\ p[i] = x[i] * y[i]
  BY <1>3
<1>6. fit(key) = Line(key, n, Total(x), Total(y), n * Total(p) - Total(x) * Total(y),
                      n * Total(q) - Total(x) * Total(x))
  BY DEF fit, Sums
<1> HIDE DEF x, y, q, p
<1>7. PICK X : SumsUp(X, n, x) /\ Total(x) = X[n]
  BY <1>1, <1>3, TotalIsSum
<1>8. PICK Y : SumsUp(Y, n, y) /\ Total(y) = Y[n]
  BY <1>1, <1>3, TotalIsSum
<1>9. PICK Q : SumsUp(Q, n, q) /\ Total(q) = Q[n]
  BY <1>1, <1>4, TotalIsSum
<1>10. PICK P : SumsUp(P, n, p) /\ Total(p) = P[n]
  BY <1>1, <1>4, TotalIsSum
<1>11. fit(key) = Line(key, n, X[n], Y[n], n * P[n] - X[n] * Y[n], n * Q[n] - X[n] * X[n])
  BY <1>6, <1>7, <1>8, <1>9, <1>10
<1>12. {x, q, y, p} \subseteq [1..n -> Int]
  BY <1>3, <1>4
<1> QED
  <2>1. Totals(n, x, q, y, p, X, Q, Y, P)
    BY <1>1, <1>5, <1>7, <1>8, <1>9, <1>10, <1>12 DEF Totals, Data
  <2> QED
    BY <1>3, <1>11, <2>1

LEMMA LastObserved ==
    ASSUME observations \in Seq(Observation), observations # <<>>
    PROVE  /\ Len(observations) \in Nat \ {0} /\ Last(observations) \in Observation
           /\ Last(observations) = observations[Len(observations)]
           /\ \A key \in Keys : Last(observations)[key] \in Nat
<1>1. Len(observations) \in Nat \ {0} /\ Len(observations) \in DOMAIN observations
  OBVIOUS
<1>2. Last(observations) \in Observation
  BY <1>1 DEF Last
<1> QED
  BY <1>1, <1>2 DEF Last, Observation, Keys

LEMMA OriginTyped ==
    ASSUME observations \in Seq(Observation), observations # <<>>, NEW key \in Keys
    PROVE  \/ ThroughOrigin(key) = NoFit
           \/ /\ ThroughOrigin(key) = [slope |-> Last(observations)[key], den |-> Last(observations).tics,
                                       base |-> 0, over |-> 1]
              /\ ThroughOrigin(key) \in Regression
<1>1. Last(observations).tics \in Nat \ {0} /\ Last(observations)[key] \in Nat
  BY LastObserved DEF Observation
<1>2. CASE Last(observations).tics <= 0 \/ Last(observations)[key] <= 0
  BY <1>2 DEF ThroughOrigin
<1>3. CASE ~(Last(observations).tics <= 0 \/ Last(observations)[key] <= 0)
  <2>1. ThroughOrigin(key) = [slope |-> Last(observations)[key], den |-> Last(observations).tics,
                              base |-> 0, over |-> 1]
    BY <1>3 DEF ThroughOrigin
  <2>2. Last(observations)[key] \in Nat \ {0} /\ 0 \in Int /\ 1 \in Nat \ {0}
    BY <1>1, <1>3
  <2> QED
    BY <1>1, <2>1, <2>2 DEF Regression
<1> QED
  BY <1>2, <1>3

LEMMA FitTyped ==
    ASSUME observations \in Seq(Observation), NEW key \in Keys
    PROVE  fit(key) = NoFit \/ fit(key) \in Regression
<1> DEFINE n == Len(observations)
<1>1. PICK x, q, y, p, X, Q, Y, P :
              /\ Totals(n, x, q, y, p, X, Q, Y, P)
              /\ \A i \in 1..n : x[i] = observations[i].tics /\ y[i] = observations[i][key]
              /\ fit(key) = Line(key, n, X[n], Y[n], n * P[n] - X[n] * Y[n], n * Q[n] - X[n] * X[n])
  BY FitIs
<1>2. n \in Nat /\ (n = 0 <=> observations = <<>>)
  OBVIOUS
<1>3. X[n] \in Int /\ Y[n] \in Int /\ P[n] \in Int /\ Q[n] \in Int
  <2>1. n \in 0..n
    BY <1>2
  <2> QED
    BY <1>1, <2>1 DEF SumsUp, Totals
<1>4. n * Q[n] - X[n] * X[n] >= 0
  BY <1>1, SquaresSpread DEF Totals, Data
<1> DEFINE num == n * P[n] - X[n] * Y[n]
           den == n * Q[n] - X[n] * X[n]
<1>5. num \in Int /\ den \in Int
  BY <1>2, <1>3
<1>6. fit(key) = Line(key, n, X[n], Y[n], num, den)
  BY <1>1
<1>7. den >= 0
  BY <1>4
<1> HIDE DEF num, den, n
<1>8. CASE n = 0
  BY <1>6, <1>8 DEF Line
<1>9. CASE n # 0 /\ (n = 1 \/ den = 0 \/ num <= 0)
  <2>1. fit(key) = ThroughOrigin(key)
    BY <1>6, <1>9 DEF Line
  <2> QED
    BY <1>2, <1>9, <2>1, OriginTyped
<1>10. CASE n # 0 /\ ~(n = 1 \/ den = 0 \/ num <= 0)
  <2>1. fit(key) = [slope |-> num, den |-> den, base |-> Y[n] * den - num * X[n], over |-> n * den]
    BY <1>6, <1>10 DEF Line
  <2>2. num \in Nat \ {0} /\ den \in Nat \ {0} /\ n \in Nat \ {0}
    BY <1>2, <1>5, <1>7, <1>10
  <2>3. Y[n] * den - num * X[n] \in Int
    BY <1>3, <1>5
  <2>4. n * den \in Nat \ {0}
    BY <2>2
  <2> QED
    BY <2>1, <2>2, <2>3, <2>4 DEF Regression
<1> QED
  BY <1>8, <1>9, <1>10

-----------------------------------------------------------------------------
(* A line solved for a limit.                                              *)

LEMMA QuotientBelow ==
    ASSUME NEW a \in Int, NEW b \in Nat \ {0}, NEW k \in Int, k <= a \div b
    PROVE  k * b <= a
<1>1. (a \div b) * b <= a /\ a \div b \in Int
  OBVIOUS
<1> DEFINE d == a \div b
<1>2. d \in Int /\ d * b <= a /\ d - k >= 0
  BY <1>1
<1> HIDE DEF d
<1>3. (d - k) * b >= 0
  BY <1>2
<1>4. (d - k) * b = d * b - k * b /\ d * b \in Int /\ k * b \in Int
  BY <1>2
<1> QED
  BY <1>2, <1>3, <1>4

LEMMA CancelFactor ==
    ASSUME NEW a \in Int, NEW b \in Int, NEW m \in Nat \ {0}, a * m <= b * m
    PROVE  a <= b
<1>1. SUFFICES ASSUME a - b >= 1 PROVE FALSE
  OBVIOUS
<1>2. (a - b) * m >= 1
  BY <1>1
<1>3. (a - b) * m = a * m - b * m /\ a * m \in Int /\ b * m \in Int
  OBVIOUS
<1> QED
  BY <1>2, <1>3

\* Through the origin and a point of the line, a longer segment is overestimated.
LEMMA OriginIsShort ==
    ASSUME NEW t \in Nat \ {0}, NEW b \in Nat, NEW s \in Nat, NEW of \in Nat \ {0}, NEW limit \in Nat,
           NEW k \in Nat, k > t, k * (20 * of * (b + s * t)) <= 19 * t * limit
    PROVE  of * (b + s * k) <= limit
<1> DEFINE y == b + s * t
           z == b + s * k
<1>1. /\ y \in Nat /\ z \in Nat
  OBVIOUS
<1>2. z * t <= k * y
  <2>1. /\ z * t = b * t + (s * k) * t /\ k * y = b * k + (s * t) * k
        /\ (s * k) * t = (s * t) * k
    OBVIOUS
  <2>2. b * t <= b * k
    <3>1. b * (k - t) >= 0
      OBVIOUS
    <3>2. b * (k - t) = b * k - b * t /\ b * k \in Int /\ b * t \in Int
      OBVIOUS
    <3> QED
      BY <3>1, <3>2
  <2>3. b * t \in Int /\ b * k \in Int /\ (s * k) * t \in Int
    OBVIOUS
  <2> HIDE DEF y, z
  <2> QED
    BY <2>1, <2>2, <2>3
<1>3. k * (20 * of * y) <= 19 * t * limit
  OBVIOUS
<1> HIDE DEF y, z
<1>4. of * (z * t) <= of * (k * y)
  <2> DEFINE u == z * t
             v == k * y
  <2>1. u \in Int /\ v \in Int /\ u <= v
    BY <1>1, <1>2
  <2> HIDE DEF u, v
  <2>2. of * (v - u) >= 0
    BY <2>1
  <2>3. of * (v - u) = of * v - of * u /\ of * v \in Int /\ of * u \in Int
    BY <2>1
  <2>4. of * u <= of * v
    BY <2>2, <2>3
  <2> QED
    BY <2>4 DEF u, v
<1>5. 20 * (of * (k * y)) <= 20 * (t * limit)
  <2> DEFINE v == k * y
             w == t * limit
  <2>1. v \in Nat /\ w \in Nat
    BY <1>1
  <2>2. k * (20 * of * y) = 20 * (of * v) /\ 19 * t * limit = 19 * w
    BY <1>1
  <2>3. of * v \in Nat
    BY <2>1
  <2> QED
    BY <1>3, <2>1, <2>2, <2>3
<1>6. (of * z) * t <= limit * t
  <2>1. of * (z * t) = (of * z) * t /\ t * limit = limit * t
    BY <1>1
  <2>2. of * (z * t) \in Int /\ of * (k * y) \in Int /\ t * limit \in Int
    BY <1>1
  <2> QED
    BY <1>4, <1>5, <2>1, <2>2
<1>7. of * z \in Int
  BY <1>1
<1>8. of * z <= limit
  BY <1>6, <1>7, CancelFactor
<1> QED
  BY <1>8 DEF z

\* A line of least squares through affine data, solved for a limit.
LEMMA SquaresAreShort ==
    ASSUME NEW n \in Nat \ {0}, NEW D \in Nat \ {0}, NEW b \in Nat, NEW s \in Nat \ {0},
           NEW of \in Nat \ {0}, NEW limit \in Nat, of * b <= limit, NEW k \in Nat,
           k <= (19 * D * (limit * (n * D) - of * (b * n * D))) \div (20 * of * (n * D) * (s * D))
    PROVE  of * (b + s * k) <= limit
<1> DEFINE M == (n * D) * D
           free == limit - of * b
<1>1. M \in Nat \ {0}
  <2>1. n * D \in Nat \ {0}
    OBVIOUS
  <2> QED
    BY <2>1
<1>2. of * b \in Nat /\ free \in Nat /\ of * s \in Nat \ {0}
  OBVIOUS
<1>3. 19 * D * (limit * (n * D) - of * (b * n * D)) = (19 * free) * M
  <2> DEFINE u == n * D
             c == of * b
  <2>1. u \in Int /\ c \in Int
    OBVIOUS
  <2>2. b * n * D = b * u /\ of * (b * u) = c * u
    OBVIOUS
  <2>3. limit * u - c * u = (limit - c) * u
    BY <2>1
  <2>4. 19 * D * ((limit - c) * u) = (19 * (limit - c)) * (u * D)
    BY <2>1
  <2> QED
    BY <2>2, <2>3, <2>4
<1>4. 20 * of * (n * D) * (s * D) = (20 * (of * s)) * M
  <2> DEFINE u == n * D
  <2>1. u \in Int
    OBVIOUS
  <2> HIDE DEF u
  <2>2. 20 * of * u * (s * D) = (20 * (of * s)) * (u * D)
    BY <2>1
  <2> QED
    BY <2>2 DEF u
<1> HIDE DEF M, free
<1>5. (20 * (of * s)) * M \in Nat \ {0} /\ (19 * free) * M \in Int
  <2>1. 20 * (of * s) \in Nat \ {0}
    BY <1>2
  <2> HIDE DEF M
  <2> QED
    BY <1>1, <1>2, <2>1
<1>6. k <= ((19 * free) * M) \div ((20 * (of * s)) * M)
  BY <1>3, <1>4
<1>7. k * ((20 * (of * s)) * M) <= (19 * free) * M
  BY <1>5, <1>6, QuotientBelow
<1>8. (k * (20 * (of * s))) * M <= (19 * free) * M
  <2> DEFINE e == 20 * (of * s)
  <2>1. e \in Int
    BY <1>2
  <2> HIDE DEF e
  <2>2. k * (e * M) = (k * e) * M
    BY <1>1, <2>1
  <2> QED
    BY <1>7, <2>2 DEF e
<1>9. k * (20 * (of * s)) <= 19 * free
  <2>1. k * (20 * (of * s)) \in Int /\ 19 * free \in Int
    BY <1>2
  <2> QED
    BY <1>1, <1>8, <2>1, CancelFactor
<1>10. of * (s * k) <= free
  <2>1. k * (20 * (of * s)) = 20 * (of * (s * k)) /\ of * (s * k) \in Nat
    OBVIOUS
  <2> QED
    BY <1>2, <1>9, <2>1
<1>11. of * (b + s * k) = of * b + of * (s * k) /\ of * (s * k) \in Nat
  OBVIOUS
<1> QED
  BY <1>2, <1>10, <1>11 DEF free

\* Once affine data were observed, the length the fit gives for a limit is within it, or at most
\* the length observed last.
LEMMA FitIsShort ==
    ASSUME observations \in Seq(Observation), observations # <<>>, NEW key \in Keys,
           NEW b \in Nat, NEW s \in Nat, b + s > 0,
           \A i \in DOMAIN observations : observations[i][key] = b + s * observations[i].tics,
           NEW of \in Nat \ {0}, NEW limit \in Nat, of * b <= limit, NEW k \in Nat
    PROVE  /\ fit(key) \in Regression
           /\ k <= Reaches(fit(key), limit, of) =>
                 of * (b + s * k) <= limit \/ k <= Last(observations).tics
<1> DEFINE n == Len(observations)
<1>1. PICK x, q, y, p, X, Q, Y, P :
              /\ Totals(n, x, q, y, p, X, Q, Y, P)
              /\ \A i \in 1..n : x[i] = observations[i].tics /\ y[i] = observations[i][key]
              /\ fit(key) = Line(key, n, X[n], Y[n], n * P[n] - X[n] * Y[n], n * Q[n] - X[n] * X[n])
  BY FitIs
<1>2. n \in Nat \ {0} /\ DOMAIN observations = 1..n
  OBVIOUS
<1>3. X[n] \in Int /\ Y[n] \in Int /\ P[n] \in Int /\ Q[n] \in Int
  <2>1. n \in 0..n
    BY <1>2
  <2> QED
    BY <1>1, <2>1 DEF SumsUp, Totals
<1> DEFINE num == n * P[n] - X[n] * Y[n]
           den == n * Q[n] - X[n] * X[n]
<1>4. den >= 0 /\ den \in Int
  <2>1. x \in [1..n -> Int] /\ q \in [1..n -> Int] /\ n \in Nat
    BY <1>1 DEF Totals, Data
  <2>2. (\A i \in 1..n : q[i] = x[i] * x[i]) /\ SumsUp(X, n, x) /\ SumsUp(Q, n, q)
    BY <1>1 DEF Totals, Data
  <2>3. n * Q[n] - X[n] * X[n] \in Int
    BY <1>3, <2>1
  <2> HIDE DEF n
  <2>4. n * Q[n] - X[n] * X[n] >= 0
    BY <2>1, <2>2, SquaresSpread
  <2> QED
    BY <2>3, <2>4
<1>5. Y[n] = b * n + s * X[n] /\ P[n] = b * X[n] + s * Q[n]
  <2>1. \A i \in 1..n : y[i] = b + s * x[i]
    BY <1>1, <1>2
  <2>2. b \in Int /\ s \in Int /\ Totals(n, x, q, y, p, X, Q, Y, P)
    BY <1>1
  <2> HIDE DEF n
  <2> QED
    BY <2>1, <2>2, AffineSums
<1>6. num = s * den
  <2> DEFINE u == X[n]
             v == Q[n]
  <2>1. u \in Int /\ v \in Int
    BY <1>3
  <2>2. num = n * (b * u + s * v) - u * (b * n + s * u) /\ den = n * v - u * u
    BY <1>5
  <2> HIDE DEF u, v, num, den
  <2>3. n * (b * u + s * v) - u * (b * n + s * u) = s * (n * v - u * u)
    BY <1>2, <2>1
  <2> QED
    BY <2>2, <2>3
<1>7. Y[n] * den - num * X[n] = b * n * den
  <2> DEFINE u == X[n]
  <2>1. u \in Int
    BY <1>3
  <2>2. Y[n] * den - num * X[n] = (b * n + s * u) * den - (s * den) * u
    BY <1>5, <1>6
  <2> HIDE DEF u, num, den
  <2>3. (b * n + s * u) * den - (s * den) * u = b * n * den
    BY <1>2, <1>4, <2>1
  <2> QED
    BY <2>2, <2>3
<1>8. fit(key) = Line(key, n, X[n], Y[n], num, den)
  BY <1>1
<1> HIDE DEF num, den
<1> DEFINE o == Last(observations)
<1>9. /\ o \in Observation /\ o.tics \in Nat \ {0} /\ o[key] = b + s * o.tics
      /\ o[key] \in Nat \ {0}
  <2>0. o \in Observation /\ o = observations[n] /\ n \in DOMAIN observations
    BY <1>2, LastObserved
  <2>1. o \in Observation /\ o.tics \in Nat \ {0} /\ o[key] = b + s * o.tics
    <3>1. o.tics \in Nat \ {0}
      BY <2>0 DEF Observation
    <3> QED
      BY <2>0, <3>1
  <2>2. b + s * o.tics \in Nat \ {0}
    <3>1. s * o.tics \in Nat /\ s * o.tics >= s
      BY <2>1
    <3> QED
      BY <3>1
  <2> QED
    BY <2>1, <2>2
<1>10. CASE n = 1 \/ den = 0 \/ num <= 0
  <2>1. fit(key) = ThroughOrigin(key)
    BY <1>2, <1>8, <1>10 DEF Line
  <2>2. ThroughOrigin(key) = [slope |-> o[key], den |-> o.tics, base |-> 0, over |-> 1]
    BY <1>9 DEF ThroughOrigin
  <2>3. fit(key) \in Regression
    BY <1>9, <2>1, <2>2 DEF Regression
  <2>4. ASSUME k <= Reaches(fit(key), limit, of), k > o.tics PROVE of * (b + s * k) <= limit
    <3> DEFINE t == o.tics
               c == o[key]
    <3>1. t \in Nat \ {0} /\ c \in Nat \ {0} /\ c = b + s * t
      BY <1>9
    <3>2. Reaches(fit(key), limit, of)
            = (19 * t * (limit * 1 - of * 0)) \div (20 * of * 1 * c)
      BY <2>1, <2>2 DEF Reaches
    <3> HIDE DEF t, c
    <3>3. 19 * t * (limit * 1 - of * 0) = 19 * t * limit /\ 20 * of * 1 * c = 20 * of * c
      BY <3>1
    <3>4. k <= (19 * t * limit) \div (20 * of * c)
      BY <2>4, <3>2, <3>3
    <3>5. 19 * t * limit \in Int /\ 20 * of * c \in Nat \ {0}
      <4>1. 20 * of \in Nat \ {0}
        OBVIOUS
      <4> QED
        BY <3>1, <4>1
    <3>6. k * (20 * of * c) <= 19 * t * limit
      BY <3>4, <3>5, QuotientBelow
    <3>7. k > t
      BY <2>4 DEF t
    <3> QED
      BY <3>1, <3>6, <3>7, OriginIsShort
  <2>5. o.tics \in Int
    BY <1>9
  <2> QED
    BY <2>3, <2>4, <2>5
<1>11. CASE ~(n = 1 \/ den = 0 \/ num <= 0)
  <2>1. fit(key) = [slope |-> num, den |-> den, base |-> Y[n] * den - num * X[n], over |-> n * den]
    BY <1>2, <1>8, <1>11 DEF Line
  <2>2. den \in Nat \ {0}
    BY <1>4, <1>11
  <2>3. s # 0
    BY <1>6, <1>11, <2>2
  <2>4. s * den \in Nat \ {0} /\ n * den \in Nat \ {0} /\ b * n * den \in Int
    <3>1. b * n \in Int
      BY <1>2
    <3> QED
      BY <1>2, <2>2, <2>3, <3>1
  <2>5. fit(key) = [slope |-> s * den, den |-> den, base |-> b * n * den, over |-> n * den]
    BY <1>6, <1>7, <2>1
  <2>6. fit(key) \in Regression
    BY <2>2, <2>4, <2>5 DEF Regression
  <2>7. ASSUME k <= Reaches(fit(key), limit, of) PROVE of * (b + s * k) <= limit
    <3>1. Reaches(fit(key), limit, of)
            = (19 * den * (limit * (n * den) - of * (b * n * den))) \div (20 * of * (n * den) * (s * den))
      BY <2>5 DEF Reaches
    <3>2. k <= (19 * den * (limit * (n * den) - of * (b * n * den))) \div (20 * of * (n * den) * (s * den))
      BY <2>7, <3>1
    <3>3. n \in Nat \ {0} /\ den \in Nat \ {0} /\ b \in Nat /\ s \in Nat \ {0} /\ of * b <= limit
      BY <1>2, <2>2, <2>3
    <3> HIDE DEF n, den
    <3> QED
      BY <3>2, <3>3, SquaresAreShort
  <2> QED
    BY <2>6, <2>7
<1> QED
  BY <1>10, <1>11

-----------------------------------------------------------------------------
(* What a probe says.                                                      *)

\* The component a program's costs are bounded by, if there is one.
Tallest(c) == /\ c \in DOMAIN program.rows
              /\ \A d \in DOMAIN program.rows : /\ program.rows[d].base <= program.rows[c].base
                                                /\ program.rows[d].slope <= program.rows[c].slope

LEMMA CostsGrow ==
    ASSUME NEW line \in Costs, NEW k \in Nat
    PROVE  /\ line.base \in Nat /\ line.slope \in Nat /\ At(line, k) \in Nat
           /\ At(line, k) = line.base + line.slope * k
           /\ \A j \in Nat : j <= k => At(line, j) <= At(line, k)
           /\ \A other \in Costs : other.base <= line.base /\ other.slope <= line.slope
                                      => At(other, k) <= At(line, k)
<1>1. line.base \in Nat /\ line.slope \in Nat /\ line.slope * k \in Nat
  BY DEF Costs
<1>2. ASSUME NEW a \in Nat, NEW b \in Nat, NEW c \in Nat, NEW d \in Nat, a <= b, c <= d
      PROVE  a * c <= b * d
  <2>1. a * c <= b * c
    BY <1>2
  <2>2. b * c <= b * d
    BY <1>2
  <2> QED
    BY <2>1, <2>2
<1>3. ASSUME NEW j \in Nat, j <= k PROVE At(line, j) <= At(line, k)
  <2>1. line.slope * j <= line.slope * k /\ line.slope * j \in Nat
    BY <1>1, <1>2, <1>3
  <2> QED
    BY <1>1, <2>1 DEF At
<1>4. ASSUME NEW other \in Costs, other.base <= line.base, other.slope <= line.slope
      PROVE  At(other, k) <= At(line, k)
  <2>1. other.base \in Nat /\ other.slope \in Nat /\ other.slope * k \in Nat
    BY DEF Costs
  <2>2. other.slope * k <= line.slope * k
    BY <1>1, <1>2, <1>4, <2>1
  <2> QED
    BY <1>1, <1>4, <2>1, <2>2 DEF At
<1> QED
  BY <1>1, <1>3, <1>4 DEF At

LEMMA ProgramCosts ==
    ASSUME program \in Programs
    PROVE  /\ program.steps \in Costs /\ program.big \in Costs /\ program.complete \in BOOLEAN
           /\ \A c \in DOMAIN program.rows : program.rows[c] \in Costs
           /\ program.steps.base + program.steps.slope > 0
           /\ \E c \in DOMAIN program.rows : program.rows[c].base + program.rows[c].slope > 0
           /\ IsFiniteSet(DOMAIN program.rows) /\ DOMAIN program.rows # {}
<1>1. /\ IsFiniteSet(DOMAIN program.rows) /\ program.rows \in [DOMAIN program.rows -> Costs]
      /\ {program.steps, program.big} \subseteq Costs /\ program.complete \in BOOLEAN
      /\ program.steps.base + program.steps.slope > 0
      /\ \E c \in DOMAIN program.rows : program.rows[c].base + program.rows[c].slope > 0
  BY ProgramsAssumption
<1>2. \A c \in DOMAIN program.rows : program.rows[c] \in Costs
  BY <1>1
<1> HIDE DEF Costs
<1>3. DOMAIN program.rows # {}
  BY <1>1
<1> QED
  BY <1>1, <1>2, <1>3

\* A probe measures every component, whatever it names: no count is above its rows, and with
\* every component named they are the greatest count.
LEMMA ProbeSays ==
    ASSUME program \in Programs, NEW k \in Nat
    PROVE  LET sm == Summary(k)
               raw == rawMaxComponentRows(sm)
           IN  /\ raw.rows \in Nat /\ raw.exact \in BOOLEAN
               /\ sm.n_steps = At(program.steps, k) /\ sm.big = At(program.big, k)
               /\ sm.complete = program.complete /\ sm.fits_leaf_registry \in BOOLEAN
               /\ \E c \in DOMAIN program.rows :
                     /\ \A d \in DOMAIN program.rows : At(program.rows[d], k) <= At(program.rows[c], k)
                     /\ At(program.rows[c], k) <= raw.rows
                     /\ sm.fits_leaf_registry = (Pow2(Max({16, At(program.rows[c], k)})) <= RowCeiling)
                     /\ program.unnamed = {} => raw.rows = At(program.rows[c], k)
<1> DEFINE count == [c \in DOMAIN program.rows |-> At(program.rows[c], k)]
           c0 == Largest(count)
           padded == Pow2(Max({16, count[c0]}))
           sm == Summary(k)
           raw == rawMaxComponentRows(sm)
<1>1. count \in [DOMAIN program.rows -> Nat]
  BY ProgramCosts, CostsGrow
<1>2. c0 \in DOMAIN program.rows /\ \A d \in DOMAIN program.rows : count[c0] >= count[d]
  <2>1. DOMAIN count = DOMAIN program.rows
    OBVIOUS
  <2> HIDE DEF count
  <2>2. \E c \in DOMAIN program.rows : \A d \in DOMAIN program.rows : count[c] >= count[d]
    BY <1>1, ProgramCosts, FiniteMax
  <2> QED
    BY <2>1, <2>2 DEF Largest
<1>3. count[c0] = At(program.rows[c0], k) /\ count[c0] \in Nat
  BY <1>1, <1>2
<1>4. padded \in Nat /\ count[c0] <= padded
  <2>1. Max({16, count[c0]}) \in Nat /\ Max({16, count[c0]}) >= count[c0]
    BY <1>3, MaxOfTwo
  <2> QED
    BY <1>3, <2>1, PadsUp
<1>5. sm = [counts |-> [c \in DOMAIN program.rows \ program.unnamed |-> count[c]],
            max_component |-> c0, max_component_rows |-> padded,
            fits_leaf_registry |-> padded <= RowCeiling, n_steps |-> At(program.steps, k),
            big |-> At(program.big, k), complete |-> program.complete]
  <2>1. DOMAIN count = DOMAIN program.rows
    OBVIOUS
  <2>2. sm = Measured(k, count)
    BY DEF Summary
  <2> HIDE DEF count
  <2> QED
    BY <2>1, <2>2 DEF Measured, Counted, Summarised
<1> HIDE DEF sm, padded, c0
<1>6. \/ raw = [rows |-> count[c0], exact |-> TRUE]
      \/ raw = [rows |-> padded, exact |-> FALSE] /\ c0 \notin DOMAIN program.rows \ program.unnamed
  <2>1. /\ sm.counts = [c \in DOMAIN program.rows \ program.unnamed |-> count[c]]
        /\ sm.max_component = c0 /\ sm.max_component_rows = padded
    BY <1>5
  <2>2. CASE c0 \in DOMAIN program.rows \ program.unnamed
    <3>1. c0 \in DOMAIN sm.counts /\ sm.counts[c0] = count[c0]
      BY <2>1, <2>2
    <3>2. Pow2(Max({16, sm.counts[c0]})) = padded
      BY <3>1 DEF padded
    <3> QED
      BY <2>1, <3>1, <3>2 DEF rawMaxComponentRows
  <2>3. CASE c0 \notin DOMAIN program.rows \ program.unnamed
    <3>1. c0 \notin DOMAIN sm.counts
      BY <2>1, <2>3
    <3>2. raw = [rows |-> sm.max_component_rows, exact |-> FALSE]
      BY <2>1, <3>1 DEF rawMaxComponentRows
    <3> QED
      BY <2>1, <2>3, <3>2
  <2> QED
    BY <2>2, <2>3
<1> HIDE DEF raw
<1>7. raw.rows \in Nat /\ raw.exact \in BOOLEAN /\ count[c0] <= raw.rows
  <2> DEFINE v == count[c0]
  <2>1. v \in Nat /\ padded \in Nat /\ v <= padded
    BY <1>3, <1>4
  <2>2. raw = [rows |-> v, exact |-> TRUE] \/ raw = [rows |-> padded, exact |-> FALSE]
    BY <1>6
  <2> HIDE DEF v
  <2>3. raw.rows \in {v, padded} /\ raw.exact \in BOOLEAN
    <3>1. CASE raw = [rows |-> v, exact |-> TRUE]
      <4>1. raw.rows = v /\ raw.exact = TRUE
        BY <3>1
      <4> QED
        BY <4>1
    <3>2. CASE raw = [rows |-> padded, exact |-> FALSE]
      <4>1. raw.rows = padded /\ raw.exact = FALSE
        BY <3>2
      <4> QED
        BY <4>1
    <3> QED
      BY <2>2, <3>1, <3>2
  <2>4. raw.rows \in Nat /\ v <= raw.rows
    BY <2>1, <2>3
  <2> QED
    BY <2>3, <2>4 DEF v
<1>8. program.unnamed = {} => raw.rows = count[c0]
  BY <1>2, <1>6
<1>9. /\ sm.n_steps = At(program.steps, k) /\ sm.big = At(program.big, k)
      /\ sm.complete = program.complete /\ sm.fits_leaf_registry = (padded <= RowCeiling)
  BY <1>5
<1>10. \A d \in DOMAIN program.rows : At(program.rows[d], k) <= At(program.rows[c0], k)
  BY <1>1, <1>2, <1>3
<1>11. padded = Pow2(Max({16, At(program.rows[c0], k)}))
  BY <1>3 DEF padded
<1>12. sm.fits_leaf_registry \in BOOLEAN
  BY <1>9
<1>13. /\ At(program.rows[c0], k) <= raw.rows
       /\ sm.fits_leaf_registry = (Pow2(Max({16, At(program.rows[c0], k)})) <= RowCeiling)
       /\ program.unnamed = {} => raw.rows = At(program.rows[c0], k)
  BY <1>3, <1>7, <1>8, <1>9, <1>11
<1>14. \E c \in DOMAIN program.rows :
         /\ \A d \in DOMAIN program.rows : At(program.rows[d], k) <= At(program.rows[c], k)
         /\ At(program.rows[c], k) <= raw.rows
         /\ sm.fits_leaf_registry = (Pow2(Max({16, At(program.rows[c], k)})) <= RowCeiling)
         /\ program.unnamed = {} => raw.rows = At(program.rows[c], k)
  <2> HIDE DEF count
  <2> QED
    BY <1>2, <1>10, <1>13
<1> HIDE DEF count
<1> QED
  BY <1>7, <1>9, <1>12, <1>14, Zenon DEF sm, raw

\* What a verdict follows from.
LEMMA VerdictIs ==
    ASSUME program \in Programs, NEW k \in Nat \ {0}, NEW n \in {1, Machine}
    PROVE  LET sm == Summary(k)
               rows == rawMaxComponentRows(sm).rows
               v == judge(k, sm, n)
           IN  /\ v.verdict \in {"accept", "shrink", "impossible"}
               /\ v.verdict = "accept" <=>
                     /\ program.complete /\ sm.fits_leaf_registry /\ 5 * rows <= 4 * RowCeiling
                     /\ At(program.steps, k) <= stepCeiling(n) /\ At(program.big, k) <= MaxBig
               /\ v.verdict = "shrink" => v.tics \in Nat \ {0} /\ program.complete
<1> DEFINE sm == Summary(k)
           rows == rawMaxComponentRows(sm).rows
           cuts == Factors(k, sm, rows, n)
           v == judge(k, sm, n)
<1>1. /\ rows \in Nat /\ sm.n_steps = At(program.steps, k) /\ sm.big = At(program.big, k)
      /\ sm.complete = program.complete /\ sm.fits_leaf_registry \in BOOLEAN
      /\ program.complete \in BOOLEAN
  BY ProbeSays, ProgramCosts
<1>2. At(program.steps, k) \in Nat /\ At(program.big, k) \in Nat /\ stepCeiling(n) \in Nat
  BY ProgramCosts, CostsGrow, PlannerAssumption DEF stepCeiling
<1>3. RowCeiling \in Nat \ {0} /\ MaxBig \in Nat /\ MinTics \in Nat \ {0}
  BY PlannerAssumption
<1>4. v = Judged(k, sm, cuts)
  BY DEF judge
<1> HIDE DEF sm, rows, v
<1>5. cuts = {} <=> /\ sm.fits_leaf_registry /\ 5 * rows <= 4 * RowCeiling
                    /\ sm.n_steps <= stepCeiling(n) /\ sm.big <= MaxBig
  BY <1>1 DEF Factors
<1>6. cuts \subseteq Nat
  <2>1. ASSUME NEW p \in Nat, NEW q \in Nat \ {0} PROVE (k * p * 19) \div (q * 20) \in Nat
    <3>1. k * p * 19 \in Nat /\ q * 20 \in Nat \ {0}
      BY <2>1
    <3> DEFINE a == k * p * 19
               b == q * 20
    <3>2. a \in Nat /\ b \in Nat \ {0}
      BY <3>1
    <3> HIDE DEF a, b
    <3>3. a \div b \in Nat
      BY <3>2
    <3> QED
      BY <3>3 DEF a, b
  <2>2. 4 * RowCeiling \in Nat /\ 5 * Max({rows, RowCeiling}) \in Nat \ {0}
    BY <1>1, <1>3, MaxOfTwo
  <2>3. ~(5 * rows <= 4 * RowCeiling) => 5 * rows \in Nat \ {0}
    BY <1>1, <1>3
  <2>4. ~(sm.n_steps <= stepCeiling(n)) => sm.n_steps \in Nat \ {0}
    BY <1>1, <1>2
  <2>5. ~(sm.big <= MaxBig) => sm.big \in Nat \ {0}
    BY <1>1, <1>2, <1>3
  <2>6. /\ (k * (4 * RowCeiling) * 19) \div ((5 * Max({rows, RowCeiling})) * 20) \in Nat
        /\ ~(5 * rows <= 4 * RowCeiling) => (k * (4 * RowCeiling) * 19) \div ((5 * rows) * 20) \in Nat
        /\ ~(sm.n_steps <= stepCeiling(n)) => (k * stepCeiling(n) * 19) \div (sm.n_steps * 20) \in Nat
        /\ ~(sm.big <= MaxBig) => (k * MaxBig * 19) \div (sm.big * 20) \in Nat
    BY <1>2, <1>3, <2>1, <2>2, <2>3, <2>4, <2>5
  <2> QED
    BY <2>6 DEF Factors
<1> HIDE DEF cuts
<1>7. Judged(k, sm, cuts).verdict = "accept" <=> sm.complete /\ cuts = {}
  BY DEF Judged, Verdict
<1>8. /\ v.verdict \in {"accept", "shrink", "impossible"}
      /\ v.verdict = "shrink" => /\ v.tics = Max({MinTics, Min(cuts \cup {k - 1})})
                                 /\ sm.complete /\ ~(k <= MinTics)
  BY <1>4 DEF Judged, Verdict
<1>9. Max({MinTics, Min(cuts \cup {k - 1})}) \in Nat \ {0}
  <2>1. cuts \cup {k - 1} \subseteq Nat /\ cuts \cup {k - 1} # {}
    BY <1>6
  <2>2. Min(cuts \cup {k - 1}) \in Nat
    <3> DEFINE all == cuts \cup {k - 1}
    <3>1. all \subseteq Nat /\ all # {}
      BY <2>1
    <3> HIDE DEF all
    <3>2. Min(all) \in all
      BY <3>1, MinOfNats
    <3> QED
      BY <3>1, <3>2 DEF all
  <2> QED
    BY <1>3, <2>2, MaxOfTwo
<1> QED
  BY <1>1, <1>4, <1>5, <1>7, <1>8, <1>9 DEF sm, rows, v
-----------------------------------------------------------------------------
(* What the planner knows between two steps.                               *)

PlannerSpec == PlannerInit /\ [][PlannerNext]_plannerVars

Ends == {1, Machine}
Probing == [on : BOOLEAN, tics : Nat, probes : Nat, threads : Ends, broken : BOOLEAN]

PlannerTypeOK ==
    /\ program \in Programs \cup {NoProgram}
    /\ observations \in Seq(Observation)
    /\ lastAccepted \in Nat /\ played \in Nat /\ planned \in Nat
    /\ threads \in Ends /\ probing \in Probing
    /\ IF probing.on THEN probing.tics > 0 /\ ~probing.broken ELSE probing.probes = 0
    /\ accepted \in [tics : Nat, threads : Ends]

\* Whatever is measured, proposed or cut is so of a program.
Started == (observations # <<>> \/ probing.on \/ accepted.tics > 0) => program \in Programs

\* The history is what the program costs: its steps always, its rows when every component is
\* named, one of them being the greatest of all at every length.
HistoryIsCost ==
    \A i \in DOMAIN observations :
       /\ observations[i].steps = At(program.steps, observations[i].tics)
       /\ program.unnamed = {} =>
             \A c \in DOMAIN program.rows :
                Tallest(c) => observations[i].rows = At(program.rows[c], observations[i].tics)

\* Before the first probe of a candidate the last observation is the last cut, made on the
\* threads the candidate was proposed for.
LastIsCut ==
    (observations # <<>> /\ probing.probes = 0 /\ ~probing.broken) =>
       /\ accepted.tics > 0 /\ Last(observations).tics = accepted.tics
       /\ accepted.threads = IF probing.on THEN probing.threads ELSE threads

\* A first candidate is what the model says, or the least there is.
CandidateIsModelled ==
    (probing.on /\ probing.probes = 0 /\ observations # <<>>) =>
       probing.tics <= MinTics \/ probing.tics <= modelled(probing.threads)

PlannerInv == /\ PlannerTypeOK /\ Started /\ HistoryIsCost /\ LastIsCut
              /\ CandidateIsModelled /\ AcceptedFits

LEMMA Limits ==
    /\ RowCeiling \in Nat \ {0} /\ MaxBig \in Nat /\ MinTics \in Nat \ {0}
    /\ MaxTics \in Nat \ {0} /\ InitialTics \in Nat \ {0} /\ MaxGrowth \in Nat \ {0}
    /\ HistoryLength \in Nat \ {0} /\ Machine \in Nat /\ Game \in Nat
    /\ \A n \in Ends : stepCeiling(n) \in Nat
  BY PlannerAssumption DEF Ends, stepCeiling

LEMMA ReachesTyped ==
    ASSUME NEW line \in Regression, NEW limit \in Nat, NEW of \in Nat \ {0}
    PROVE  Reaches(line, limit, of) \in Int
<1> DEFINE a == 19 * line.den * (limit * line.over - of * line.base)
           b == 20 * of * line.over * line.slope
<1>1. /\ line.den \in Nat \ {0} /\ line.over \in Nat \ {0} /\ line.slope \in Nat \ {0}
      /\ line.base \in Int
  BY DEF Regression
<1>2. limit * line.over \in Int /\ of * line.base \in Int /\ of * line.over \in Nat \ {0}
  BY <1>1
<1>3. limit * line.over - of * line.base \in Int /\ 19 * line.den \in Int
      /\ 20 * of * line.over \in Nat \ {0}
  BY <1>1, <1>2
<1>4. a \in Int /\ b \in Nat \ {0}
  <2> DEFINE u == 19 * line.den
             v == limit * line.over - of * line.base
             w == 20 * of * line.over
             s == line.slope
  <2>1. u \in Int /\ v \in Int /\ w \in Nat \ {0} /\ s \in Nat \ {0}
    BY <1>1, <1>3
  <2> HIDE DEF u, v, w, s
  <2>2. u * v \in Int /\ w * s \in Nat \ {0}
    BY <2>1
  <2> QED
    BY <2>2 DEF u, v, w, s
<1> HIDE DEF a, b
<1>5. a \div b \in Int
  BY <1>4
<1> QED
  BY <1>5 DEF Reaches, a, b

\* The length an invariant's model gives is a number.
LEMMA ModelledTyped ==
    ASSUME observations \in Seq(Observation), NEW n \in Ends
    PROVE  /\ modelled(n) \in Int
           /\ fit("rows") \in Regression /\ fit("steps") \in Regression =>
                 /\ modelled(n) <= Reaches(fit("rows"), 4 * RowCeiling, 5)
                 /\ modelled(n) <= Reaches(fit("steps"), stepCeiling(n), 1)
<1>1. /\ fit("rows") = NoFit \/ fit("rows") \in Regression
      /\ fit("steps") = NoFit \/ fit("steps") \in Regression
  BY FitTyped DEF Keys
<1>2. NoFit \notin Regression
  BY DEF NoFit, Regression
<1>3. CASE fit("rows") = NoFit \/ fit("steps") = NoFit
  BY <1>2, <1>3, Limits DEF modelled, Modelled
<1>4. CASE fit("rows") \in Regression /\ fit("steps") \in Regression
  <2> DEFINE r == Reaches(fit("rows"), 4 * RowCeiling, 5)
             s == Reaches(fit("steps"), stepCeiling(n), 1)
  <2>1. modelled(n) = Min({r, s})
    BY <1>2, <1>4 DEF modelled, Modelled
  <2>2. r \in Int /\ s \in Int
    BY <1>4, Limits, ReachesTyped
  <2> HIDE DEF r, s
  <2>3. Min({r, s}) \in Int /\ Min({r, s}) <= r /\ Min({r, s}) <= s
    BY <2>2, MinOfTwo
  <2> QED
    BY <2>1, <2>3 DEF r, s
<1> QED
  BY <1>1, <1>3, <1>4

LEMMA TimesGrows ==
    ASSUME NEW a \in Nat, NEW b \in Nat, a <= b, NEW m \in Nat, NEW c \in Nat, m * b <= c
    PROVE  m * a <= c
<1>1. b - a \in Nat /\ m * b = m * a + m * (b - a)
  OBVIOUS
<1> DEFINE d == b - a
<1>2. m * d \in Nat /\ m * a \in Nat
  <2>1. d \in Nat
    BY <1>1
  <2> HIDE DEF d
  <2> QED
    BY <2>1
<1> QED
  BY <1>1, <1>2

\* One quantity of a first candidate: past the last cut, the fit keeps it below its limit; up
\* to the last cut, it is what the last cut kept.
LEMMA QuantityFits ==
    ASSUME observations \in Seq(Observation), observations # <<>>, NEW key \in Keys,
           NEW line \in Costs, line.base + line.slope > 0,
           \A i \in DOMAIN observations : observations[i][key] = At(line, observations[i].tics),
           NEW of \in Nat \ {0}, NEW limit \in Nat, NEW k \in Nat,
           of * At(line, Last(observations).tics) <= limit,
           NEW least \in Nat, of * At(line, least) <= limit
    PROVE  /\ fit(key) \in Regression
           /\ k <= Reaches(fit(key), limit, of) => of * At(line, k) <= limit
<1> DEFINE b == line.base
           s == line.slope
           t == Last(observations).tics
<1>1. b \in Nat /\ s \in Nat /\ b + s > 0 /\ t \in Nat
  BY CostsGrow, LastObserved DEF Observation
<1>2. \A j \in Nat : At(line, j) \in Nat /\ At(line, j) = b + s * j
  BY CostsGrow
<1>3. \A j, l \in Nat : j <= l => At(line, j) <= At(line, l)
  BY CostsGrow
<1>4. of * b <= limit
  <2>1. At(line, 0) = b /\ At(line, 0) <= At(line, least) /\ At(line, least) \in Nat
    <3>1. \A x, y \in Nat : x + y * 0 = x
      OBVIOUS
    <3>2. line.base + line.slope * 0 = line.base
      BY <1>1, <3>1
    <3>3. At(line, 0) = line.base + line.slope * 0
      BY <1>2
    <3>4. 0 <= least
      OBVIOUS
    <3>5. At(line, 0) <= At(line, least)
      BY <1>3, <3>4
    <3>6. At(line, least) \in Nat
      BY <1>2
    <3> QED
      BY <3>2, <3>3, <3>5, <3>6
  <2> DEFINE v == At(line, least)
  <2>2. b <= v /\ v \in Nat /\ of * v <= limit
    BY <2>1
  <2> HIDE DEF v
  <2> QED
    BY <1>1, <2>2, TimesGrows
<1>5. \A i \in DOMAIN observations : observations[i][key] = b + s * observations[i].tics
  <2>1. \A i \in DOMAIN observations : observations[i].tics \in Nat
    <3>1. \A i \in DOMAIN observations : observations[i] \in Observation
      OBVIOUS
    <3> QED
      BY <3>1 DEF Observation
  <2> QED
    BY <1>2, <2>1
<1> HIDE DEF b, s
<1>6. /\ fit(key) \in Regression
      /\ k <= Reaches(fit(key), limit, of) => of * (b + s * k) <= limit \/ k <= t
  BY <1>1, <1>4, <1>5, FitIsShort
<1>7. ASSUME k <= t PROVE of * At(line, k) <= limit
  <2> DEFINE u == At(line, k)
             v == At(line, t)
  <2>1. u \in Nat /\ v \in Nat /\ u <= v /\ of * v <= limit
    BY <1>1, <1>2, <1>3, <1>7
  <2> HIDE DEF u, v
  <2>2. of * u <= limit
    BY <2>1, TimesGrows
  <2> QED
    BY <2>2 DEF u
<1>8. At(line, k) = b + s * k
  BY <1>2
<1> QED
  BY <1>6, <1>7, <1>8

\* A program that fits at MinTics is accepted at k when its tallest component, its steps and
\* its memory_id_to_big components fit at k.
LEMMA AcceptedAt ==
    ASSUME program \in Programs, Affine, NEW k \in Nat \ {0}, NEW n \in Ends,
           NEW c, Tallest(c), 5 * At(program.rows[c], k) <= 4 * RowCeiling,
           At(program.steps, k) <= stepCeiling(n)
    PROVE  judge(k, Summary(k), n).verdict = "accept"
<1> DEFINE sm == Summary(k)
           raw == rawMaxComponentRows(sm).rows
<1>1. MinTics \in Nat \ {0} /\ RowCeiling \in Nat \ {0} /\ MaxBig \in Nat
  BY Limits
<1>2. program.complete /\ program.unnamed = {} /\ program.big.slope = 0
  BY DEF Affine
<1>3. /\ Summary(MinTics).fits_leaf_registry /\ At(program.big, MinTics) <= MaxBig
  <2>1. judge(MinTics, Summary(MinTics), n).verdict = "accept"
    BY DEF Affine, Ends
  <2> QED
    BY <1>1, <2>1, VerdictIs DEF Ends
<1>4. At(program.big, k) <= MaxBig
  <2>1. /\ At(program.big, k) = program.big.base + program.big.slope * k
        /\ At(program.big, MinTics) = program.big.base + program.big.slope * MinTics
        /\ program.big.base \in Nat
    BY <1>1, ProgramCosts, CostsGrow
  <2>2. program.big.slope * k = 0 /\ program.big.slope * MinTics = 0
    BY <1>1, <1>2
  <2> QED
    BY <1>1, <1>3, <2>1, <2>2
<1>5. 16 <= RowCeiling
  <2>1. PICK d \in DOMAIN program.rows :
           Summary(MinTics).fits_leaf_registry = (Pow2(Max({16, At(program.rows[d], MinTics)})) <= RowCeiling)
    BY <1>1, ProbeSays
  <2> DEFINE h == Max({16, At(program.rows[d], MinTics)})
  <2>2. h \in Nat /\ 16 <= h
    <3> DEFINE v == At(program.rows[d], MinTics)
    <3>1. v \in Nat
      BY <1>1, ProgramCosts, CostsGrow
    <3> HIDE DEF v
    <3>2. Max({16, v}) = IF 16 >= v THEN 16 ELSE v
      BY <3>1, MaxOfTwo
    <3>3. Max({16, v}) \in Nat /\ 16 <= Max({16, v})
      BY <3>1, <3>2
    <3> QED
      BY <3>3 DEF v
  <2>3. Pow2(h) <= RowCeiling
    BY <1>3, <2>1
  <2>4. Pow2(h) \in Nat /\ Pow2(h) >= h
    BY <2>2, PadsUp
  <2> HIDE DEF h
  <2> QED
    BY <1>1, <2>2, <2>3, <2>4
<1>6. PICK d \in DOMAIN program.rows :
        /\ \A e \in DOMAIN program.rows : At(program.rows[e], k) <= At(program.rows[d], k)
        /\ sm.fits_leaf_registry = (Pow2(Max({16, At(program.rows[d], k)})) <= RowCeiling)
        /\ program.unnamed = {} => raw = At(program.rows[d], k)
  BY ProbeSays
<1>7. At(program.rows[d], k) = At(program.rows[c], k) /\ At(program.rows[c], k) \in Nat
  <2>1. /\ program.rows[c] \in Costs /\ program.rows[d] \in Costs
        /\ program.rows[d].base <= program.rows[c].base /\ program.rows[d].slope <= program.rows[c].slope
        /\ c \in DOMAIN program.rows
    BY ProgramCosts DEF Tallest
  <2>2. At(program.rows[d], k) <= At(program.rows[c], k) /\ At(program.rows[c], k) \in Nat
        /\ At(program.rows[d], k) \in Nat
    BY <2>1, CostsGrow
  <2>3. At(program.rows[c], k) <= At(program.rows[d], k)
    BY <1>6, <2>1
  <2> QED
    BY <2>2, <2>3
<1>8. sm.fits_leaf_registry
  <2> DEFINE v == At(program.rows[c], k)
             h == Max({16, v})
  <2>1. v \in Nat /\ 5 * v <= 4 * RowCeiling
    BY <1>7
  <2>2. v <= RowCeiling
    <3> HIDE DEF v
    <3> QED
      BY <1>1, <2>1
  <2>3. h \in Nat /\ h <= RowCeiling
    <3>1. h = IF 16 >= v THEN 16 ELSE v
      BY <2>1, MaxOfTwo
    <3> HIDE DEF h, v
    <3> QED
      BY <1>1, <1>5, <2>1, <2>2, <3>1
  <2>4. Pow2(h) <= Pow2(RowCeiling)
    <3> HIDE DEF h
    <3> QED
      BY <1>1, <2>3, PadsUp
  <2>5. Pow2(h) <= RowCeiling
    BY <2>4, CeilingAssumption
  <2> QED
    BY <1>6, <1>7, <2>5
<1>9. 5 * raw <= 4 * RowCeiling
  BY <1>2, <1>6, <1>7
<1> HIDE DEF sm, raw
<1> QED
  BY <1>2, <1>4, <1>8, <1>9, VerdictIs DEF Ends, sm, raw

LEMMA GuessIsShort == PlannerInv => FirstGuessIsShort
<1> SUFFICES ASSUME PlannerInv, probing.on, probing.probes = 0, observations # <<>>,
                    threads = probing.threads, Affine, MinTics \in 1..probing.tics
             PROVE  judge(probing.tics, Summary(probing.tics), threads).verdict = "accept"
  BY DEF FirstGuessIsShort
<1> DEFINE k == probing.tics
<1>1. /\ program \in Programs /\ observations \in Seq(Observation) /\ threads \in Ends
      /\ k \in Nat \ {0} /\ MinTics <= k /\ MinTics \in Nat \ {0}
  BY Limits DEF PlannerInv, PlannerTypeOK, Started, Probing
<1>2. CASE k <= MinTics
  <2>1. k = MinTics
    BY <1>1, <1>2
  <2>2. threads \in {1, Machine}
    BY <1>1 DEF Ends
  <2> QED
    BY <2>1, <2>2 DEF Affine
<1>3. CASE k <= modelled(threads)
  <2>1. PICK c \in DOMAIN program.rows : Tallest(c)
    BY DEF Affine, Tallest
  <2> DEFINE t == Last(observations).tics
             line == program.rows[c]
             steps == program.steps
             ceiling == stepCeiling(threads)
  <2>2. line \in Costs /\ steps \in Costs /\ line.base + line.slope > 0 /\ steps.base + steps.slope > 0
    <3>1. PICK d \in DOMAIN program.rows : program.rows[d].base + program.rows[d].slope > 0
      BY <1>1, ProgramCosts
    <3>2. line \in Costs /\ steps \in Costs /\ steps.base + steps.slope > 0 /\ program.rows[d] \in Costs
      BY <1>1, ProgramCosts
    <3>3. program.rows[d].base <= line.base /\ program.rows[d].slope <= line.slope
      BY <2>1 DEF Tallest
    <3>4. /\ program.rows[d].base \in Nat /\ line.base \in Nat
          /\ program.rows[d].slope \in Nat /\ line.slope \in Nat
      BY <3>2 DEF Costs
    <3> QED
      BY <3>1, <3>2, <3>3, <3>4
  <2>3. t \in Nat /\ accepted.tics = t /\ accepted.tics > 0 /\ accepted.threads = threads
    <3>1. accepted.tics > 0 /\ t = accepted.tics /\ accepted.threads = threads
      BY DEF PlannerInv, PlannerTypeOK, LastIsCut
    <3>2. t \in Nat
      BY <1>1, LastObserved DEF Observation
    <3> QED
      BY <3>1, <3>2
  <2>4. 5 * At(line, t) <= 4 * RowCeiling /\ At(steps, t) <= ceiling
    BY <2>1, <2>3 DEF PlannerInv, AcceptedFits, Admissible
  <2>5. 5 * At(line, MinTics) <= 4 * RowCeiling /\ At(steps, MinTics) <= ceiling
    <3>1. judge(MinTics, Summary(MinTics), threads).verdict = "accept"
      BY <1>1 DEF Affine, Ends
    <3> DEFINE raw == rawMaxComponentRows(Summary(MinTics)).rows
    <3>2. 5 * raw <= 4 * RowCeiling /\ At(steps, MinTics) <= ceiling
      BY <1>1, <3>1, VerdictIs DEF Ends
    <3>3. /\ raw \in Nat
          /\ \E d \in DOMAIN program.rows :
                /\ \A e \in DOMAIN program.rows : At(program.rows[e], MinTics) <= At(program.rows[d], MinTics)
                /\ At(program.rows[d], MinTics) <= raw
      BY <1>1, ProbeSays
    <3>4. At(line, MinTics) \in Nat /\ \A d \in DOMAIN program.rows : At(program.rows[d], MinTics) \in Nat
      BY <1>1, <2>2, ProgramCosts, CostsGrow
    <3> HIDE DEF raw
    <3>5. At(line, MinTics) <= raw
      BY <3>3, <3>4
    <3> QED
      BY <1>1, <3>2, <3>3, <3>4, <3>5, Limits
  <2>6. /\ \A i \in DOMAIN observations : observations[i]["steps"] = At(steps, observations[i].tics)
        /\ \A i \in DOMAIN observations : observations[i]["rows"] = At(line, observations[i].tics)
    BY <2>1 DEF PlannerInv, HistoryIsCost, Affine
  <2>7. 4 * RowCeiling \in Nat /\ ceiling \in Nat
    BY <1>1, Limits
  <2>8. At(steps, t) \in Nat /\ At(steps, MinTics) \in Nat /\ At(steps, k) \in Nat
    BY <1>1, <2>2, <2>3, CostsGrow
  <2> HIDE DEF t, line, steps, ceiling
  <2>9. /\ fit("rows") \in Regression
        /\ k <= Reaches(fit("rows"), 4 * RowCeiling, 5) => 5 * At(line, k) <= 4 * RowCeiling
    BY <1>1, <2>2, <2>4, <2>5, <2>6, <2>7, QuantityFits DEF Keys, t
  <2>10. /\ fit("steps") \in Regression
         /\ k <= Reaches(fit("steps"), ceiling, 1) => 1 * At(steps, k) <= ceiling
    <3>1. 1 * At(steps, t) <= ceiling /\ 1 * At(steps, MinTics) <= ceiling
      BY <2>4, <2>5, <2>8
    <3> QED
      BY <1>1, <2>2, <2>6, <2>7, <3>1, QuantityFits DEF Keys, t
  <2>11. /\ modelled(threads) \in Int
         /\ modelled(threads) <= Reaches(fit("rows"), 4 * RowCeiling, 5)
         /\ modelled(threads) <= Reaches(fit("steps"), ceiling, 1)
    BY <1>1, <2>9, <2>10, ModelledTyped DEF ceiling
  <2>12. /\ Reaches(fit("rows"), 4 * RowCeiling, 5) \in Int
         /\ Reaches(fit("steps"), ceiling, 1) \in Int
    <3> DEFINE f == fit("rows")
               g == fit("steps")
               l == 4 * RowCeiling
    <3>1. f \in Regression /\ g \in Regression /\ l \in Nat
      BY <2>7, <2>9, <2>10
    <3> HIDE DEF f, g, l
    <3>2. Reaches(f, l, 5) \in Int /\ Reaches(g, ceiling, 1) \in Int
      <4>1. 5 \in Nat \ {0} /\ 1 \in Nat \ {0}
        OBVIOUS
      <4> QED
        BY <2>7, <3>1, <4>1, ReachesTyped
    <3> QED
      BY <3>2 DEF f, g, l
  <2>13. k <= Reaches(fit("rows"), 4 * RowCeiling, 5) /\ k <= Reaches(fit("steps"), ceiling, 1)
    BY <1>1, <1>3, <2>11, <2>12
  <2>14. 5 * At(line, k) <= 4 * RowCeiling /\ At(steps, k) <= ceiling
    BY <2>8, <2>9, <2>10, <2>13
  <2> QED
    BY <1>1, <2>1, <2>14, AcceptedAt DEF line, steps, ceiling
<1> QED
  BY <1>2, <1>3 DEF PlannerInv, CandidateIsModelled

\* The history grows at its end and forgets at its start.
LEMMA RememberKeeps ==
    ASSUME observations \in Seq(Observation), NEW o \in Observation
    PROVE  /\ remember(o) \in Seq(Observation) /\ remember(o) # <<>> /\ Last(remember(o)) = o
           /\ \A i \in DOMAIN remember(o) :
                 remember(o)[i] = o \/ \E j \in DOMAIN observations : remember(o)[i] = observations[j]
<1> DEFINE n == Len(observations)
           all == Append(observations, o)
           m == Max({1, Len(all) - HistoryLength + 1})
           r == SubSeq(all, m, Len(all))
<1>1. /\ all \in Seq(Observation) /\ Len(all) = n + 1 /\ n \in Nat /\ all[n + 1] = o
      /\ DOMAIN all = 1..(n + 1) /\ \A j \in 1..n : j \in DOMAIN observations /\ all[j] = observations[j]
  OBVIOUS
<1>2. m \in 1..(n + 1)
  <2>1. HistoryLength \in Nat \ {0}
    BY Limits
  <2>2. Len(all) - HistoryLength + 1 \in Int /\ 1 \in Int
    BY <1>1, <2>1
  <2>3. m = IF 1 >= Len(all) - HistoryLength + 1 THEN 1 ELSE Len(all) - HistoryLength + 1
    BY <2>2, MaxOfTwo
  <2> HIDE DEF m, all
  <2> QED
    BY <1>1, <2>1, <2>3
<1> HIDE DEF all, m
<1>3. /\ r \in Seq(Observation) /\ Len(r) = n + 2 - m
      /\ \A i \in 1..Len(r) : r[i] = all[m + i - 1]
  BY <1>1, <1>2
<1>4. Len(r) \in Nat \ {0} /\ m + Len(r) - 1 = n + 1
  BY <1>1, <1>2, <1>3
<1> HIDE DEF r, n
<1>5. r[Len(r)] = o /\ r # <<>>
  BY <1>1, <1>3, <1>4
<1>6. ASSUME NEW i \in DOMAIN r
      PROVE  r[i] = o \/ \E j \in DOMAIN observations : r[i] = observations[j]
  <2>1. i \in 1..Len(r) /\ r[i] = all[m + i - 1] /\ m + i - 1 \in 1..(n + 1)
    BY <1>1, <1>2, <1>3, <1>4
  <2>2. CASE m + i - 1 = n + 1
    BY <1>1, <2>1, <2>2
  <2>3. CASE m + i - 1 # n + 1
    <3>1. m + i - 1 \in 1..n
      BY <1>1, <1>2, <2>1, <2>3
    <3> QED
      BY <1>1, <2>1, <3>1
  <2> QED
    BY <2>2, <2>3
<1>7. remember(o) = r
  BY DEF remember, r, m, all
<1>8. Last(r) = o
  BY <1>5 DEF Last
<1> QED
  BY <1>3, <1>5, <1>6, <1>7, <1>8

LEMMA PlannerStarts == PlannerInit => PlannerInv
<1> SUFFICES ASSUME PlannerInit PROVE PlannerInv
  OBVIOUS
<1>1. PlannerTypeOK
  BY Limits DEF PlannerInit, PlannerTypeOK, NotProbing, Probing, Ends
<1>2. Started /\ HistoryIsCost /\ LastIsCut /\ CandidateIsModelled /\ AcceptedFits
  BY DEF PlannerInit, Started, HistoryIsCost, LastIsCut, CandidateIsModelled, AcceptedFits, NotProbing
<1> QED
  BY <1>1, <1>2 DEF PlannerInv

LEMMA ModelFollowsHistory ==
    ASSUME UNCHANGED observations, NEW CONSTANT n
    PROVE  modelled(n)' = modelled(n)
<1> DEFINE Origin(obs, key) ==
             LET o == Last(obs)
             IN  IF o.tics <= 0 \/ o[key] <= 0 THEN NoFit
                 ELSE [slope |-> o[key], den |-> o.tics, base |-> 0, over |-> 1]
           Drawn(obs, key, m, x, y, num, den) ==
             IF m = 0 THEN NoFit
             ELSE IF m = 1 \/ den = 0 \/ num <= 0 THEN Origin(obs, key)
             ELSE [slope |-> num, den |-> den, base |-> y * den - num * x, over |-> m * den]
           Summed(obs, key, m, x, y) ==
             Drawn(obs, key, m, x, y, m * Total([i \in 1..m |-> obs[i].tics * obs[i][key]]) - x * y,
                   m * Total([i \in 1..m |-> obs[i].tics * obs[i].tics]) - x * x)
           Fit(obs, key) == Summed(obs, key, Len(obs), Total([i \in DOMAIN obs |-> obs[i]["tics"]]),
                                   Total([i \in DOMAIN obs |-> obs[i][key]]))
<1>1. \A key : fit(key) = Fit(observations, key)
  BY DEF fit, Sums, Line, ThroughOrigin, Values
<1>2. \A key : fit(key)' = Fit(observations', key)
  BY DEF fit, Sums, Line, ThroughOrigin, Values, NoFit
<1> HIDE DEF Fit
<1>3. fit("rows")' = fit("rows") /\ fit("steps")' = fit("steps")
  BY <1>1, <1>2
<1> QED
  BY <1>3 DEF modelled, Modelled, Reaches, NoFit, stepCeiling

\* A step that leaves the plan alone.
LEMMA PlanIsKept ==
    ASSUME PlannerInv, UNCHANGED <<program, observations, threads, probing, accepted>>,
           lastAccepted' \in Nat, played' \in Nat, planned' \in Nat
    PROVE  PlannerInv'
<1>1. PlannerTypeOK'
  BY DEF PlannerInv, PlannerTypeOK
<1>2. Started' /\ LastIsCut'
  BY DEF PlannerInv, Started, LastIsCut
<1>3. HistoryIsCost'
  BY DEF PlannerInv, HistoryIsCost, Tallest, At
<1>4. AcceptedFits'
  BY DEF PlannerInv, AcceptedFits, Admissible, At, stepCeiling
<1>5. CandidateIsModelled'
  <2> SUFFICES ASSUME probing.on, probing.probes = 0, observations # <<>>
               PROVE  probing.tics <= MinTics \/ probing.tics <= modelled(probing.threads)'
    BY DEF CandidateIsModelled
  <2>1. modelled(probing.threads)' = modelled(probing.threads)
    BY ModelFollowsHistory
  <2> QED
    BY <2>1 DEF PlannerInv, CandidateIsModelled
<1> QED
  BY <1>1, <1>2, <1>3, <1>4, <1>5 DEF PlannerInv

LEMMA NewPlannerKeeps == PlannerInv /\ NewPlanner => PlannerInv'
<1> SUFFICES ASSUME PlannerInv, NewPlanner PROVE PlannerInv'
  OBVIOUS
<1>1. observations = <<>> /\ ~probing.on /\ ~(accepted.tics > 0)
  BY PlannerAssumption DEF PlannerInv, Started, NewPlanner
<1>2. PlannerTypeOK'
  BY DEF PlannerInv, PlannerTypeOK, NewPlanner, Ends
<1>3. Started' /\ HistoryIsCost' /\ LastIsCut' /\ CandidateIsModelled' /\ AcceptedFits'
  BY <1>1 DEF NewPlanner, Started, HistoryIsCost, LastIsCut, CandidateIsModelled, AcceptedFits
<1> QED
  BY <1>2, <1>3 DEF PlannerInv

LEMMA PlayTicsKeeps == PlannerInv /\ PlayTics => PlannerInv'
<1> SUFFICES ASSUME PlannerInv, PlayTics PROVE PlannerInv'
  OBVIOUS
<1>1. played' \in Nat
  <2>1. PICK n \in Bursts : played' = Min({played + n, Game})
    BY DEF PlayTics
  <2>2. played + n \in Nat /\ Game \in Nat
    BY PlannerAssumption DEF PlannerInv, PlannerTypeOK
  <2>3. Min({played + n, Game}) \in {played + n, Game}
    <3> DEFINE m == played + n
    <3>1. m \in Int /\ Game \in Int
      BY <2>2
    <3> HIDE DEF m
    <3>2. Min({m, Game}) \in {m, Game}
      BY <3>1, MinOfTwo
    <3> QED
      BY <3>2 DEF m
  <2> QED
    BY <2>1, <2>2, <2>3
<1> QED
  BY <1>1, PlanIsKept DEF PlayTics, PlannerInv, PlannerTypeOK

\* A proposal is at most what the model says, or MinTics.
LEMMA ProposalIsModelled ==
    ASSUME observations \in Seq(Observation), lastAccepted \in Nat, NEW n \in Ends
    PROVE  /\ propose(MaxTics, n) \in Nat
           /\ propose(MaxTics, n) <= MinTics \/ propose(MaxTics, n) <= modelled(n)
<1> DEFINE k == Max({MinTics, modelled(n)})
           caps == {k, MaxTics} \cup (IF lastAccepted > 0 THEN {lastAccepted * MaxGrowth} ELSE {})
           low == Min({MinTics, MaxTics})
           top == Min(caps)
<1>1. MinTics \in Nat \ {0} /\ MaxTics \in Nat \ {0} /\ MaxGrowth \in Nat \ {0} /\ modelled(n) \in Int
  BY Limits, ModelledTyped
<1>2. k \in Nat /\ k >= MinTics /\ (k = MinTics \/ k = modelled(n))
  BY <1>1, MaxOfTwo
<1>3. low \in Nat /\ low <= MinTics
  <2> DEFINE two == {MinTics, MaxTics}
  <2>1. two \subseteq Nat /\ MinTics \in two
    BY <1>1
  <2> HIDE DEF two
  <2>2. Min(two) \in Nat /\ Min(two) <= MinTics
    BY <2>1, MinOfNats
  <2> QED
    BY <2>2 DEF two
<1> HIDE DEF k
<1>4. caps \subseteq Nat /\ k \in caps
  BY <1>1, <1>2
<1> HIDE DEF caps
<1>5. top \in Nat /\ top <= k
  BY <1>4, MinOfNats
<1> HIDE DEF low, top
<1>6. propose(MaxTics, n) = Max({low, top})
  <2>1. ~(MaxTics <= 0)
    BY <1>1
  <2>2. {k, MaxTics, MaxTics} \cup (IF lastAccepted > 0 THEN {lastAccepted * MaxGrowth} ELSE {}) = caps
    BY DEF caps
  <2>3. propose(MaxTics, n)
          = IF MaxTics <= 0 THEN 0
            ELSE Max({low, Min({k, MaxTics, MaxTics} \cup (IF lastAccepted > 0 THEN {lastAccepted * MaxGrowth} ELSE {}))})
    BY DEF propose, low, k
  <2> QED
    BY <2>1, <2>2, <2>3 DEF top
<1>7. Max({low, top}) = IF low >= top THEN low ELSE top
  BY <1>3, <1>5, MaxOfTwo
<1> QED
  BY <1>1, <1>2, <1>3, <1>5, <1>6, <1>7

LEMMA ProposeNextKeeps == PlannerInv /\ ProposeNext => PlannerInv'
<1> SUFFICES ASSUME PlannerInv, ProposeNext PROVE PlannerInv'
  OBVIOUS
<1> DEFINE wanted == propose(MaxTics, threads)
           left == played - planned
           k == Min({wanted, left})
<1>1. /\ observations \in Seq(Observation) /\ lastAccepted \in Nat /\ threads \in Ends
      /\ played \in Nat /\ planned \in Nat /\ program \in Programs
  BY DEF PlannerInv, PlannerTypeOK, ProposeNext
<1>2. /\ UNCHANGED <<program, observations, lastAccepted, played, planned, accepted>>
      /\ threads' \in Ends /\ ~probing.on /\ ~probing.broken
  BY DEF ProposeNext, Ends
<1>3. k > 0 /\ probing' = [on |-> TRUE, tics |-> k, probes |-> 0, threads |-> threads, broken |-> FALSE]
  BY DEF ProposeNext, NotProbing
<1>4. wanted \in Nat /\ (wanted <= MinTics \/ wanted <= modelled(threads))
  BY <1>1, ProposalIsModelled
<1>5. left \in Int
  BY <1>1
<1>6. MinTics \in Nat /\ modelled(threads) \in Int
  BY <1>1, Limits, ModelledTyped
<1> HIDE DEF wanted, left
<1>7. k \in Int /\ k <= wanted
  BY <1>4, <1>5, MinOfTwo
<1> HIDE DEF k
<1>8. k \in Nat /\ k > 0 /\ (k <= MinTics \/ k <= modelled(threads))
  BY <1>3, <1>4, <1>6, <1>7
<1>9. PlannerTypeOK'
  BY <1>1, <1>2, <1>3, <1>8 DEF PlannerInv, PlannerTypeOK, Probing
<1>10. Started'
  BY <1>1, <1>2 DEF Started
<1>11. HistoryIsCost'
  BY <1>2 DEF PlannerInv, HistoryIsCost, Tallest, At
<1>12. LastIsCut'
  <2> SUFFICES ASSUME observations # <<>>
               PROVE  /\ accepted.tics > 0 /\ Last(observations).tics = accepted.tics
                      /\ accepted.threads = threads
    BY <1>2, <1>3 DEF LastIsCut
  <2>1. CASE probing.probes = 0
    BY <1>2, <2>1 DEF PlannerInv, LastIsCut
  <2>2. CASE probing.probes # 0
    BY <1>2, <2>2 DEF PlannerInv, PlannerTypeOK
  <2> QED
    BY <2>1, <2>2
<1>13. CandidateIsModelled'
  <2>1. PICK n : n = threads
    OBVIOUS
  <2>2. modelled(n)' = modelled(n)
    BY <1>2, ModelFollowsHistory
  <2>3. probing'.tics = k /\ probing'.threads = n
    BY <1>3, <2>1
  <2> QED
    BY <1>8, <2>1, <2>2, <2>3 DEF CandidateIsModelled
<1>14. AcceptedFits'
  BY <1>2 DEF PlannerInv, AcceptedFits, Admissible, At, stepCeiling
<1> QED
  BY <1>9, <1>10, <1>11, <1>12, <1>13, <1>14 DEF PlannerInv

LEMMA HalvedTyped ==
    ASSUME NEW k \in Nat \ {0}, NEW n \in Nat
    PROVE  Halved(k, n) \in Nat \ {0}
<1> DEFINE h == k \div 2
<1>1. h \in Nat /\ MinTics \in Nat \ {0}
  BY Limits
<1> HIDE DEF h
<1>2. Max({MinTics, h}) = IF MinTics >= h THEN MinTics ELSE h
  BY <1>1, MaxOfTwo
<1>3. Max({MinTics, h}) \in Nat \ {0}
  BY <1>1, <1>2
<1> QED
  BY <1>3 DEF Halved, h

\* What a probe adds to the history is what the program costs.
LEMMA ProbeIsCost ==
    ASSUME PlannerInv, program \in Programs, NEW o \in Observation,
           o.steps = At(program.steps, o.tics),
           program.unnamed = {} => \E c \in DOMAIN program.rows :
              /\ \A d \in DOMAIN program.rows : At(program.rows[d], o.tics) <= At(program.rows[c], o.tics)
              /\ o.rows = At(program.rows[c], o.tics),
           UNCHANGED program, observations' = remember(o)
    PROVE  HistoryIsCost'
<1>1. ASSUME program.unnamed = {}, NEW c \in DOMAIN program.rows, Tallest(c)
      PROVE  o.rows = At(program.rows[c], o.tics)
  <2>1. PICK d \in DOMAIN program.rows :
          /\ \A e \in DOMAIN program.rows : At(program.rows[e], o.tics) <= At(program.rows[d], o.tics)
          /\ o.rows = At(program.rows[d], o.tics)
    BY <1>1
  <2>2. o.tics \in Nat /\ program.rows[c] \in Costs /\ program.rows[d] \in Costs
    BY ProgramCosts DEF Observation
  <2>3. program.rows[d].base <= program.rows[c].base /\ program.rows[d].slope <= program.rows[c].slope
    BY <1>1 DEF Tallest
  <2>4. /\ At(program.rows[d], o.tics) <= At(program.rows[c], o.tics)
        /\ At(program.rows[d], o.tics) \in Nat /\ At(program.rows[c], o.tics) \in Nat
    BY <2>2, <2>3, CostsGrow
  <2>5. At(program.rows[c], o.tics) <= At(program.rows[d], o.tics)
    BY <2>1
  <2> QED
    BY <2>1, <2>4, <2>5
<1>2. ASSUME NEW i \in DOMAIN remember(o)
      PROVE  /\ remember(o)[i].steps = At(program.steps, remember(o)[i].tics)
             /\ program.unnamed = {} =>
                   \A c \in DOMAIN program.rows :
                      Tallest(c) => remember(o)[i].rows = At(program.rows[c], remember(o)[i].tics)
  <2>1. CASE remember(o)[i] = o
    BY <1>1, <2>1
  <2>2. CASE \E j \in DOMAIN observations : remember(o)[i] = observations[j]
    BY <2>2 DEF PlannerInv, HistoryIsCost
  <2> QED
    BY <1>2, <2>1, <2>2, RememberKeeps DEF PlannerInv, PlannerTypeOK
<1> DEFINE r == remember(o)
<1> HIDE DEF r
<1>3. observations' = r
  BY DEF r
<1>4. \A i \in DOMAIN r :
        /\ r[i].steps = At(program.steps, r[i].tics)
        /\ program.unnamed = {} =>
              \A c \in DOMAIN program.rows : Tallest(c) => r[i].rows = At(program.rows[c], r[i].tics)
  BY <1>2 DEF r
<1> QED
  BY <1>3, <1>4 DEF HistoryIsCost, Tallest, At

LEMMA ProbeCandidateKeeps == PlannerInv /\ ProbeCandidate => PlannerInv'
<1> SUFFICES ASSUME PlannerInv, ProbeCandidate PROVE PlannerInv'
  OBVIOUS
<1> DEFINE k == probing.tics
           sm == Summary(k)
           raw == rawMaxComponentRows(sm)
           v == judge(k, sm, threads)
           o == [tics |-> k, rows |-> raw.rows, steps |-> sm.n_steps, exact |-> raw.exact]
<1>1. /\ program \in Programs /\ observations \in Seq(Observation) /\ threads \in Ends
      /\ lastAccepted \in Nat /\ played \in Nat /\ planned \in Nat /\ probing.on
      /\ k \in Nat \ {0} /\ ~probing.broken /\ probing \in Probing
      /\ accepted \in [tics : Nat, threads : Ends]
  BY DEF PlannerInv, PlannerTypeOK, Started, ProbeCandidate, Probing
<1>2. UNCHANGED <<program, threads, played, flushing>>
  BY DEF ProbeCandidate
<1>3. /\ observations' = IF sm.complete THEN remember(o) ELSE observations
      /\ Concluded(v)
  BY DEF ProbeCandidate, Probed, Observed
<1>4. /\ raw.rows \in Nat /\ raw.exact \in BOOLEAN
      /\ sm.n_steps = At(program.steps, k) /\ sm.complete = program.complete
      /\ program.complete \in BOOLEAN
      /\ \E c \in DOMAIN program.rows :
            /\ \A d \in DOMAIN program.rows : At(program.rows[d], k) <= At(program.rows[c], k)
            /\ At(program.rows[c], k) <= raw.rows
            /\ program.unnamed = {} => raw.rows = At(program.rows[c], k)
  <2>1. k \in Nat
    BY <1>1
  <2> HIDE DEF k
  <2> QED
    BY <1>1, <2>1, ProbeSays, ProgramCosts
<1>5. At(program.steps, k) \in Nat /\ \A c \in DOMAIN program.rows : At(program.rows[c], k) \in Nat
  BY <1>1, ProgramCosts, CostsGrow
<1>6. /\ v.verdict \in {"accept", "shrink", "impossible"}
      /\ v.verdict = "accept" => /\ program.complete /\ 5 * raw.rows <= 4 * RowCeiling
                                 /\ At(program.steps, k) <= stepCeiling(threads)
                                 /\ At(program.big, k) <= MaxBig
      /\ v.verdict = "shrink" => v.tics \in Nat \ {0} /\ program.complete
  <2>1. threads \in {1, Machine} /\ k \in Nat \ {0}
    BY <1>1 DEF Ends
  <2> HIDE DEF k
  <2> QED
    BY <1>1, <2>1, VerdictIs
<1> HIDE DEF k, sm, raw, v
<1>7. o \in Observation /\ o.tics = k /\ o.steps = At(program.steps, o.tics)
  BY <1>1, <1>4, <1>5 DEF Observation
<1>8. program.unnamed = {} => \E c \in DOMAIN program.rows :
        /\ \A d \in DOMAIN program.rows : At(program.rows[d], o.tics) <= At(program.rows[c], o.tics)
        /\ o.rows = At(program.rows[c], o.tics)
  BY <1>4, <1>7
<1> HIDE DEF o
<1>9. /\ observations' \in Seq(Observation)
      /\ program.complete => observations' # <<>> /\ Last(observations') = o
  <2>1. CASE program.complete
    BY <1>1, <1>3, <1>4, <1>7, <2>1, RememberKeeps
  <2>2. CASE ~program.complete
    BY <1>1, <1>3, <1>4, <2>2
  <2> QED
    BY <2>1, <2>2
<1>10. HistoryIsCost'
  <2>1. CASE program.complete
    BY <1>1, <1>2, <1>3, <1>4, <1>7, <1>8, <2>1, ProbeIsCost
  <2>2. CASE ~program.complete
    BY <1>2, <1>3, <1>4, <2>2 DEF PlannerInv, HistoryIsCost, Tallest, At
  <2> QED
    BY <2>1, <2>2
<1>11. Started'
  BY <1>1, <1>2 DEF Started
<1>12. CASE v.verdict = "accept"
  <2>1. /\ planned' = planned + k /\ lastAccepted' = k
        /\ accepted' = [tics |-> k, threads |-> threads]
        /\ probing' = [on |-> FALSE, tics |-> 0, probes |-> 0, threads |-> 1, broken |-> FALSE]
    BY <1>3, <1>12 DEF Concluded, NotProbing, k
  <2>2. PlannerTypeOK'
    BY <1>1, <1>2, <1>9, <2>1 DEF PlannerTypeOK, Probing, Ends
  <2>3. LastIsCut' /\ CandidateIsModelled'
    <3>1. Last(observations').tics = k /\ k > 0
      BY <1>1, <1>6, <1>7, <1>9, <1>12
    <3> QED
      BY <1>2, <2>1, <3>1 DEF LastIsCut, CandidateIsModelled
  <2>4. AcceptedFits'
    <3>1. \A c \in DOMAIN program.rows : 5 * At(program.rows[c], k) <= 4 * RowCeiling
      <4>1. \A c \in DOMAIN program.rows : At(program.rows[c], k) <= raw.rows
        BY <1>4, <1>5
      <4>2. 5 * raw.rows <= 4 * RowCeiling /\ RowCeiling \in Nat
        BY <1>6, <1>12, Limits
      <4> TAKE c \in DOMAIN program.rows
      <4> DEFINE a == At(program.rows[c], k)
                 b == raw.rows
      <4>3. a \in Nat /\ b \in Nat /\ a <= b /\ 5 * b <= 4 * RowCeiling
        BY <1>4, <1>5, <4>1, <4>2
      <4> HIDE DEF a, b
      <4>4. 5 * a <= 4 * RowCeiling
        BY <4>2, <4>3
      <4> QED
        BY <4>4 DEF a
    <3>2. Admissible(k, threads)
      BY <1>6, <1>12, <3>1 DEF Admissible
    <3>3. accepted'.tics = k /\ accepted'.threads = threads
      BY <2>1
    <3> QED
      BY <1>2, <3>2, <3>3 DEF AcceptedFits, Admissible, At
  <2> QED
    BY <1>10, <1>11, <2>2, <2>3, <2>4 DEF PlannerInv
<1>13. CASE v.verdict = "shrink"
  <2> DEFINE h == Halved(v.tics, probing.probes + 1)
  <2>1. /\ UNCHANGED <<planned, lastAccepted, accepted>>
        /\ probing' = [probing EXCEPT !.tics = h, !.probes = probing.probes + 1]
    BY <1>3, <1>13 DEF Concluded
  <2>2. probing.probes \in Nat /\ probing.threads \in Ends
    BY <1>1 DEF Probing
  <2>3. h \in Nat \ {0}
    <3>1. PICK cut \in Nat \ {0}, n \in Nat : cut = v.tics /\ n = probing.probes + 1
      BY <1>6, <1>13, <2>2
    <3>2. Halved(cut, n) \in Nat \ {0}
      BY HalvedTyped
    <3> QED
      BY <3>1, <3>2
  <2> HIDE DEF h
  <2>4. probing' = [on |-> TRUE, tics |-> h, probes |-> probing.probes + 1,
                    threads |-> probing.threads, broken |-> FALSE]
    BY <1>1, <2>1 DEF Probing
  <2>5. PlannerTypeOK'
    <3> DEFINE m == probing.probes + 1
    <3>1. m \in Nat /\ probing' = [on |-> TRUE, tics |-> h, probes |-> m,
                                   threads |-> probing.threads, broken |-> FALSE]
      BY <2>2, <2>4
    <3> HIDE DEF m
    <3>2. probing' \in Probing
      BY <2>2, <2>3, <3>1 DEF Probing
    <3>3. probing'.on /\ probing'.tics > 0 /\ ~probing'.broken
      BY <2>3, <3>1
    <3> QED
      BY <1>1, <1>2, <1>9, <2>1, <3>2, <3>3 DEF PlannerTypeOK
  <2>6. LastIsCut' /\ CandidateIsModelled'
    BY <2>2, <2>4 DEF LastIsCut, CandidateIsModelled
  <2>7. AcceptedFits'
    BY <1>2, <2>1 DEF PlannerInv, AcceptedFits, Admissible, At, stepCeiling
  <2> QED
    BY <1>10, <1>11, <2>5, <2>6, <2>7 DEF PlannerInv
<1>14. CASE v.verdict = "impossible"
  <2>1. /\ UNCHANGED <<planned, lastAccepted, accepted>>
        /\ probing' = [on |-> FALSE, tics |-> 0, probes |-> 0, threads |-> 1, broken |-> TRUE]
    BY <1>3, <1>14 DEF Concluded, NotProbing
  <2>2. PlannerTypeOK'
    BY <1>1, <1>2, <1>9, <2>1 DEF PlannerTypeOK, Probing, Ends
  <2>3. LastIsCut' /\ CandidateIsModelled'
    BY <2>1 DEF LastIsCut, CandidateIsModelled
  <2>4. AcceptedFits'
    BY <1>2, <2>1 DEF PlannerInv, AcceptedFits, Admissible, At, stepCeiling
  <2> QED
    BY <1>10, <1>11, <2>2, <2>3, <2>4 DEF PlannerInv
<1> QED
  BY <1>6, <1>12, <1>13, <1>14

-----------------------------------------------------------------------------

\* Whatever the programs cost, the prover's threads and the pace of the game: every segment
\* cut fits the ceilings on the threads it was cut for, whatever the prover's answer leaves
\* unnamed, and once one length of an affine program is measured the model's first guess on
\* the same threads is accepted (planner.ts's propose and judge, pipeline.ts's planNext).
THEOREM CutsFit == PlannerSpec => []PlansFit
<1>1. PlannerInv /\ [PlannerNext]_plannerVars => PlannerInv'
  <2> SUFFICES ASSUME PlannerInv, [PlannerNext]_plannerVars PROVE PlannerInv'
    OBVIOUS
  <2>1. CASE NewPlanner
    BY <2>1, NewPlannerKeeps
  <2>2. CASE PlayTics
    BY <2>2, PlayTicsKeeps
  <2>3. CASE ProposeNext
    BY <2>3, ProposeNextKeeps
  <2>4. CASE ProbeCandidate
    BY <2>4, ProbeCandidateKeeps
  <2>5. CASE UNCHANGED plannerVars
    BY <2>5, PlanIsKept DEF plannerVars, PlannerInv, PlannerTypeOK
  <2> QED
    BY <2>1, <2>2, <2>3, <2>4, <2>5 DEF PlannerNext
<1>2. PlannerInv => PlansFit
  BY GuessIsShort DEF PlansFit, PlannerInv
<1> QED
  BY <1>1, <1>2, PlannerStarts, PTL DEF PlannerSpec

-----------------------------------------------------------------------------
(* What is drawn: a snapshot as words.                                     *)

SceneSpec == SceneInit /\ [][SceneNext]_sceneVars

Angles == 0..(Turn - 1)
Bytes == 0..255
Player == [x : Int, y : Int, sector : Nat, weapon : Bytes, pendingWeapon : Bytes, keys : Bytes,
           angle : Angles, viewZ : Int]
Snapshots == [tic : Nat, player : Player, mobjs : Seq(Mobjs), sectors : Seq(SectorRows),
              stats : {createStubSim.totals}]

LEMMA SceneSizes ==
    /\ WalkSpeed \in Nat \ {0} /\ Parts \in Nat \ {0} /\ Turn \in Nat \ {0} /\ Turn % 8 = 0
    /\ RingSlots \in Nat /\ RingSlots >= 2 /\ MAX_MOBJS \in Nat /\ MAX_DYNAMIC_SECTORS \in Nat
    /\ LookAhead \in Nat
  BY SceneAssumption

LEMMA LeastOfNothing ==
    ASSUME NEW a \in Int, NEW b \in Int, NEW c \in Int, a = 0, b = 0, c = 0
    PROVE  Size(a) = Least(b, c)
<1>1. Size(a) = a
  <2>1. \A n \in Int : n >= 0 => Size(n) = n
    BY DEF Size, Most
  <2>2. a >= 0
    OBVIOUS
  <2> QED
    BY <2>1, <2>2
<1>2. Least(b, c) = c
  BY DEF Least
<1> QED
  BY <1>1, <1>2

LEMMA AnglesComeBack ==
    ASSUME NEW m \in Nat \ {0}, NEW a \in 0..(m - 1)
    PROVE  a % m = a /\ (a - m) % m = a
  OBVIOUS

LEMMA BytesComeBack ==
    ASSUME NEW a \in Bytes, NEW b \in Bytes, NEW c \in Bytes
    PROVE  Byte(Pack(a, b, c), 0) = a /\ Byte(Pack(a, b, c), 1) = b /\ Byte(Pack(a, b, c), 2) = c
<1>1. a % 256 = a /\ b % 256 = b /\ c % 256 = c
  BY DEF Bytes
<1> DEFINE w == a + (b * 256) + (c * 65536)
<1>2. Pack(a, b, c) = w /\ w \in Int
  BY <1>1 DEF Pack, Bytes
<1>3. w \div 256 = b + (c * 256) /\ w \div 65536 = c
  BY DEF Bytes
<1>4. w % 256 = a /\ (b + (c * 256)) % 256 = b
  BY DEF Bytes
<1> HIDE DEF w
<1> QED
  BY <1>1, <1>2, <1>3, <1>4 DEF Byte

LEMMA PlayerBytes ==
    ASSUME NEW p \in Player
    PROVE  LET word == Pack(p.weapon, p.pendingWeapon, p.keys)
           IN Byte(word, 0) = p.weapon /\ Byte(word, 1) = p.pendingWeapon /\ Byte(word, 2) = p.keys
<1>1. p.weapon \in Bytes /\ p.pendingWeapon \in Bytes /\ p.keys \in Bytes
  BY DEF Player
<1>2. \A a, b, c \in Bytes : /\ Byte(Pack(a, b, c), 0) = a /\ Byte(Pack(a, b, c), 1) = b
                               /\ Byte(Pack(a, b, c), 2) = c
  BY BytesComeBack
<1> QED
  BY <1>1, <1>2

\* The words of a player say who it is.
LEMMA PlayerComesBack ==
    ASSUME NEW p \in Player, NEW e,
           e.player = <<p.x, p.y, p.viewZ, Signed(p.angle), p.sector, Pack(p.weapon, p.pendingWeapon, p.keys)>>
    PROVE  decodeSnapshot(e).player = p
<1> DEFINE word == Pack(p.weapon, p.pendingWeapon, p.keys)
<1>1. /\ p.weapon \in Bytes /\ p.pendingWeapon \in Bytes /\ p.keys \in Bytes
      /\ p.angle \in 0..(Turn - 1) /\ Turn \in Nat \ {0}
  BY SceneSizes DEF Player, Angles
<1>2. Byte(word, 0) = p.weapon /\ Byte(word, 1) = p.pendingWeapon /\ Byte(word, 2) = p.keys
  BY PlayerBytes
<1>3. Signed(p.angle) % Turn = p.angle
  BY <1>1, AnglesComeBack DEF Signed
<1> HIDE DEF word
<1>4. /\ e.player[1] = p.x /\ e.player[2] = p.y /\ e.player[3] = p.viewZ
      /\ e.player[4] = Signed(p.angle) /\ e.player[5] = p.sector /\ e.player[6] = word
  BY DEF word
<1>5. decodeSnapshot(e).player
      = [x |-> e.player[1], y |-> e.player[2], viewZ |-> e.player[3], angle |-> e.player[4] % Turn,
         sector |-> e.player[5], weapon |-> Byte(e.player[6], 0), pendingWeapon |-> Byte(e.player[6], 1),
         keys |-> Byte(e.player[6], 2)]
  BY DEF decodeSnapshot
<1>6. decodeSnapshot(e).player
      = [x |-> p.x, y |-> p.y, viewZ |-> p.viewZ, angle |-> p.angle,
         sector |-> p.sector, weapon |-> p.weapon, pendingWeapon |-> p.pendingWeapon, keys |-> p.keys]
  BY <1>2, <1>3, <1>4, <1>5, SMT
<1>7. [x |-> p.x, y |-> p.y, viewZ |-> p.viewZ, angle |-> p.angle, sector |-> p.sector,
       weapon |-> p.weapon, pendingWeapon |-> p.pendingWeapon, keys |-> p.keys] = p
  BY DEF Player
<1> QED
  BY <1>6, <1>7

LEMMA WithSectors ==
    ASSUME NEW snap \in Snapshots, NEW rows
    PROVE  [snap EXCEPT !.sectors = rows]
           = [tic |-> snap.tic, player |-> snap.player, mobjs |-> snap.mobjs, sectors |-> rows, stats |-> snap.stats]
  BY DEF Snapshots

\* What a snapshot keeps of itself in a slot, part by part.
LEMMA KeptParts ==
    ASSUME NEW snap \in Snapshots
    PROVE  /\ Kept(snap) \in Snapshots
           /\ Kept(snap) = [tic |-> snap.tic, player |-> snap.player,
                             mobjs |-> SubSeq(snap.mobjs, 1, Least(Len(snap.mobjs), MAX_MOBJS)),
                             sectors |-> SubSeq(snap.sectors, 1, Least(Len(snap.sectors), MAX_DYNAMIC_SECTORS)),
                             stats |-> snap.stats]
<1> DEFINE mobjs == SubSeq(snap.mobjs, 1, Least(Len(snap.mobjs), MAX_MOBJS))
           sectors == SubSeq(snap.sectors, 1, Least(Len(snap.sectors), MAX_DYNAMIC_SECTORS))
<1>1. Kept(snap) = [snap EXCEPT !.mobjs = mobjs, !.sectors = sectors]
  BY DEF Kept
<1>2. mobjs \in Seq(Mobjs) /\ sectors \in Seq(SectorRows)
  <2>1. snap.mobjs \in Seq(Mobjs) /\ snap.sectors \in Seq(SectorRows)
    BY DEF Snapshots
  <2>2. /\ Least(Len(snap.mobjs), MAX_MOBJS) \in Nat /\ Least(Len(snap.mobjs), MAX_MOBJS) <= Len(snap.mobjs)
        /\ Least(Len(snap.sectors), MAX_DYNAMIC_SECTORS) \in Nat
        /\ Least(Len(snap.sectors), MAX_DYNAMIC_SECTORS) <= Len(snap.sectors)
    BY <2>1, SceneSizes DEF Least
  <2> QED
    BY <2>1, <2>2
<1> HIDE DEF mobjs, sectors
<1>3. [snap EXCEPT !.mobjs = mobjs] \in Snapshots
  BY <1>2 DEF Snapshots
<1>4. [snap EXCEPT !.mobjs = mobjs]
      = [tic |-> snap.tic, player |-> snap.player, mobjs |-> mobjs, sectors |-> snap.sectors, stats |-> snap.stats]
  BY DEF Snapshots
<1> DEFINE half == [snap EXCEPT !.mobjs = mobjs]
<1>5. [half EXCEPT !.sectors = sectors]
      = [tic |-> half.tic, player |-> half.player, mobjs |-> half.mobjs, sectors |-> sectors, stats |-> half.stats]
  <2>1. half \in Snapshots
    BY <1>3
  <2> HIDE DEF half
  <2> QED
    BY <2>1, WithSectors
<1>6. [snap EXCEPT !.mobjs = mobjs, !.sectors = sectors]
      = [tic |-> snap.tic, player |-> snap.player, mobjs |-> mobjs, sectors |-> sectors, stats |-> snap.stats]
  BY <1>4, <1>5
<1>7. [tic |-> snap.tic, player |-> snap.player, mobjs |-> mobjs, sectors |-> sectors, stats |-> snap.stats]
      \in Snapshots
  BY <1>2 DEF Snapshots
<1> QED
  BY <1>1, <1>6, <1>7 DEF mobjs, sectors

\* What is decoded of a slot is what was encoded in it, whatever the slot held before.
LEMMA WordsComeBack ==
    ASSUME NEW snap \in Snapshots, NEW out
    PROVE  decodeSnapshot(encodeSnapshot(out, snap)) = Kept(snap)
<1> DEFINE p == snap.player
           m == Least(Len(snap.mobjs), MAX_MOBJS)
           n == Least(Len(snap.sectors), MAX_DYNAMIC_SECTORS)
           e == encodeSnapshot(out, snap)
           d == decodeSnapshot(e)
<1>1. /\ p \in Player /\ snap.mobjs \in Seq(Mobjs) /\ snap.sectors \in Seq(SectorRows)
      /\ Turn \in Nat \ {0}
  BY SceneSizes DEF Snapshots
<1>2. /\ m \in Nat /\ m <= Len(snap.mobjs) /\ m <= MAX_MOBJS
      /\ n \in Nat /\ n <= Len(snap.sectors) /\ n <= MAX_DYNAMIC_SECTORS
  BY <1>1, SceneSizes DEF Least
<1>3. \A a \in Angles : Signed(a) % Turn = a
  BY <1>1, AnglesComeBack DEF Angles, Signed
<1>4. /\ e.tic = snap.tic /\ e.stats = snap.stats /\ e.mobjCount = m /\ e.sectorCount = n
      /\ e.player = <<p.x, p.y, p.viewZ, Signed(p.angle), p.sector, Pack(p.weapon, p.pendingWeapon, p.keys)>>
      /\ \A i \in 1..m : e.mobjs[i] = [snap.mobjs[i] EXCEPT !.angle = Signed(@)]
      /\ \A i \in 1..n : e.sectors[i] = snap.sectors[i]
  <2>1. e = [tic |-> snap.tic, mobjCount |-> m, sectorCount |-> n, stats |-> snap.stats,
             player |-> <<p.x, p.y, p.viewZ, Signed(p.angle), p.sector, Pack(p.weapon, p.pendingWeapon, p.keys)>>,
             mobjs |-> [i \in 1..MAX_MOBJS |->
                IF i <= m THEN [snap.mobjs[i] EXCEPT !.angle = Signed(@)] ELSE out.mobjs[i]],
             sectors |-> [i \in 1..MAX_DYNAMIC_SECTORS |-> IF i <= n THEN snap.sectors[i] ELSE out.sectors[i]]]
    BY DEF encodeSnapshot
  <2> HIDE DEF e, m, n, p
  <2>2. \A i \in 1..m : i \in 1..MAX_MOBJS /\ i <= m
    BY <1>2, SceneSizes
  <2>3. \A i \in 1..n : i \in 1..MAX_DYNAMIC_SECTORS /\ i <= n
    BY <1>2, SceneSizes
  <2> DEFINE mobjs == [i \in 1..MAX_MOBJS |->
                IF i <= m THEN [snap.mobjs[i] EXCEPT !.angle = Signed(@)] ELSE out.mobjs[i]]
             sectors == [i \in 1..MAX_DYNAMIC_SECTORS |-> IF i <= n THEN snap.sectors[i] ELSE out.sectors[i]]
  <2>4. \A i \in 1..m : mobjs[i] = [snap.mobjs[i] EXCEPT !.angle = Signed(@)]
    BY <2>2
  <2>5. \A i \in 1..n : sectors[i] = snap.sectors[i]
    BY <2>3
  <2> HIDE DEF mobjs, sectors
  <2>6. e.mobjs = mobjs /\ e.sectors = sectors
    BY <2>1 DEF mobjs, sectors
  <2> QED
    BY <2>1, <2>4, <2>5, <2>6
<1> HIDE DEF m, n, e, p
<1>5. d.player = p
  BY <1>1, <1>4, PlayerComesBack
<1>6. d = [tic |-> snap.tic, stats |-> snap.stats, player |-> d.player,
           mobjs |-> [i \in 1..m |-> [e.mobjs[i] EXCEPT !.angle = e.mobjs[i].angle % Turn]],
           sectors |-> [i \in 1..n |-> e.sectors[i]]]
  <2>1. d = [tic |-> e.tic, stats |-> e.stats, player |-> d.player,
             mobjs |-> [i \in 1..e.mobjCount |-> [e.mobjs[i] EXCEPT !.angle = @ % Turn]],
             sectors |-> [i \in 1..e.sectorCount |-> e.sectors[i]]]
    BY DEF decodeSnapshot
  <2> QED
    BY <1>4, <2>1, Zenon
<1>7. [i \in 1..m |-> [e.mobjs[i] EXCEPT !.angle = e.mobjs[i].angle % Turn]] = SubSeq(snap.mobjs, 1, m)
  <2>1. \A i \in 1..m : [e.mobjs[i] EXCEPT !.angle = e.mobjs[i].angle % Turn] = snap.mobjs[i]
    <3> TAKE i \in 1..m
    <3> DEFINE mo == snap.mobjs[i]
               coded == [mo EXCEPT !.angle = Signed(mo.angle)]
    <3>1. mo \in Mobjs
      BY <1>1, <1>2
    <3>2. e.mobjs[i] = coded /\ mo.angle \in Angles
      BY <1>4, <3>1 DEF Mobjs, Angles
    <3>3. coded.angle = Signed(mo.angle) /\ Signed(mo.angle) % Turn = mo.angle
      BY <1>3, <3>1, <3>2 DEF Mobjs
    <3>4. [coded EXCEPT !.angle = mo.angle] = mo
      BY <3>1 DEF Mobjs
    <3> QED
      BY <3>2, <3>3, <3>4
  <2>2. SubSeq(snap.mobjs, 1, m) = [i \in 1..m |-> snap.mobjs[i]]
    BY <1>1, <1>2
  <2> QED
    BY <2>1, <2>2
<1>8. [i \in 1..n |-> e.sectors[i]] = SubSeq(snap.sectors, 1, n)
  <2>1. SubSeq(snap.sectors, 1, n) = [i \in 1..n |-> snap.sectors[i]]
    BY <1>1, <1>2
  <2> QED
    BY <1>4, <2>1
<1> QED
  <2> DEFINE mobjs == SubSeq(snap.mobjs, 1, m)
             sectors == SubSeq(snap.sectors, 1, n)
  <2>1. Kept(snap) = [tic |-> snap.tic, player |-> p, mobjs |-> mobjs, sectors |-> sectors, stats |-> snap.stats]
    BY KeptParts, Zenon DEF m, n, p
  <2>2. d = [tic |-> snap.tic, stats |-> snap.stats, player |-> p, mobjs |-> mobjs, sectors |-> sectors]
    BY <1>5, <1>6, <1>7, <1>8, Zenon
  <2> HIDE DEF mobjs, sectors, d
  <2>3. d = Kept(snap)
    BY <2>1, <2>2
  <2> QED
    BY <2>3 DEF d, e

-----------------------------------------------------------------------------
(* Between two snapshots.                                                  *)

LEMMA LerpBetween ==
    ASSUME NEW a \in Int, NEW b \in Int, NEW k \in 0..Parts
    PROVE  /\ lerpFixed(a, b, k) \in Int
           /\ lerpFixed(a, b, k) >= Parts * Least(a, b) /\ lerpFixed(a, b, k) <= Parts * Most(a, b)
           /\ lerpFixed(a, a, k) = Parts * a
<1>1. Parts \in Nat \ {0} /\ k \in Nat /\ k <= Parts
  BY SceneSizes
<1>2. /\ a * Parts \in Int /\ b * Parts \in Int /\ (b - a) * k \in Int
      /\ a * Parts = Parts * a /\ b * Parts = Parts * b
      /\ (b - a) * Parts = b * Parts - a * Parts
  BY <1>1
<1>3. (a - a) * k = 0
  BY <1>1
<1>4. CASE a <= b
  <2>1. (b - a) * k >= 0 /\ (b - a) * k <= (b - a) * Parts
    BY <1>1, <1>4
  <2>2. Parts * Least(a, b) = a * Parts /\ Parts * Most(a, b) = b * Parts
    BY <1>2, <1>4 DEF Least, Most
  <2> QED
    BY <1>2, <1>3, <2>1, <2>2 DEF lerpFixed
<1>5. CASE b < a
  <2>1. (b - a) * k <= 0 /\ (b - a) * k >= (b - a) * Parts
    <3>1. (a - b) * k >= 0 /\ (a - b) * k <= (a - b) * Parts
      BY <1>1, <1>5
    <3>2. (b - a) * k = -((a - b) * k) /\ (b - a) * Parts = -((a - b) * Parts) /\ (a - b) * k \in Int
          /\ (a - b) * Parts \in Int
      BY <1>1
    <3> QED
      BY <3>1, <3>2
  <2>2. Parts * Least(a, b) = b * Parts /\ Parts * Most(a, b) = a * Parts
    BY <1>2, <1>5 DEF Least, Most
  <2> QED
    BY <1>2, <1>3, <2>1, <2>2 DEF lerpFixed
<1> QED
  BY <1>4, <1>5

LEMMA RemainderIs ==
    ASSUME NEW m \in Nat \ {0}, NEW x \in Int, NEW y \in 0..(m - 1), NEW r \in Int, x = y + (r * m)
    PROVE  x % m = y
<1>1. x = ((x \div m) * m) + (x % m) /\ x \div m \in Int /\ x % m \in 0..(m - 1)
  OBVIOUS
<1> DEFINE q == x \div m
           z == x % m
<1>2. q \in Int /\ z \in 0..(m - 1) /\ (q * m) + z = (r * m) + y
  <2>1. r * m \in Int
    OBVIOUS
  <2> QED
    BY <1>1, <2>1
<1> HIDE DEF q, z
<1>3. (q - r) * m = y - z
  <2>1. (q - r) * m = (q * m) - (r * m) /\ q * m \in Int /\ r * m \in Int
    BY <1>2
  <2> QED
    BY <1>2, <2>1
<1>4. q = r
  <2>1. CASE q - r >= 1
    <3>1. (q - r) * m >= m
      BY <1>2, <2>1
    <3> QED
      BY <1>2, <1>3, <3>1
  <2>2. CASE q - r <= -1
    <3>1. (r - q) * m >= m /\ (q - r) * m = -((r - q) * m) /\ (r - q) * m \in Int
      BY <1>2, <2>2
    <3> QED
      BY <1>2, <1>3, <3>1
  <2> QED
    BY <1>2, <2>1, <2>2
<1>5. z = y
  <2>1. (q - r) * m = 0
    BY <1>2, <1>4
  <2> QED
    BY <1>2, <1>3, <2>1
<1> QED
  BY <1>5 DEF z

\* Around a circle of m, two points u apart are no further than that.
Apart(v, w, m) == Least((v - w) % m, (w - v) % m)

LEMMA AroundTheCircle ==
    ASSUME NEW m \in Nat \ {0}, NEW v \in Int, NEW w \in Int, NEW u \in -(m - 1)..(m - 1), NEW r \in Int,
           v - w = u + (r * m)
    PROVE  Apart(v, w, m) <= Size(u)
<1>1. (v - w) % m \in Int /\ (w - v) % m \in Int /\ Size(u) \in Int
  BY DEF Size, Most
<1>2. CASE u >= 0
  <2>1. (v - w) % m = u
    BY <1>2, RemainderIs
  <2> QED
    BY <1>1, <1>2, <2>1 DEF Apart, Least, Size, Most
<1>3. CASE u < 0
  <2>1. w - v = -u + ((-r) * m)
    <3>1. (-r) * m = -(r * m) /\ r * m \in Int
      OBVIOUS
    <3> QED
      BY <3>1
  <2>2. -u \in 0..(m - 1)
    BY <1>3
  <2>3. (w - v) % m = -u
    <3>1. -r \in Int /\ w - v \in Int
      OBVIOUS
    <3> QED
      BY <2>1, <2>2, <3>1, RemainderIs
  <2> QED
    BY <1>1, <1>3, <2>3 DEF Apart, Least, Size, Most
<1> QED
  BY <1>2, <1>3

\* The shorter way from one direction to another, and its length.
Delta(a, b) == ((b - a + (Turn \div 2)) % Turn) - (Turn \div 2)

LEMMA ShorterWay ==
    ASSUME NEW a \in Angles, NEW b \in Angles
    PROVE  /\ Delta(a, b) \in -(Turn - 1)..(Turn - 1) /\ Size(Delta(a, b)) = Apart(a, b, Turn)
           /\ \E q \in {-1, 0, 1} : b - a = Delta(a, b) + (q * Turn)
<1> DEFINE h == Turn \div 2
           x == b - a
           d == Delta(a, b)
<1>1. Turn \in Nat \ {0} /\ Turn = 2 * h /\ h \in Nat /\ x \in -(Turn - 1)..(Turn - 1)
  BY SceneSizes DEF Angles
<1>2. d = ((x + h) % Turn) - h /\ a - b = -x /\ b - a = x
  BY <1>1 DEF Delta, Angles
<1>3. Apart(a, b, Turn) = Least((-x) % Turn, x % Turn)
  BY <1>2 DEF Apart
<1> HIDE DEF h, x, d
<1>4. \E q \in {-1, 0, 1} : x = d + (q * Turn) /\ d \in -h..(h - 1)
  <2>1. CASE x >= -h /\ x < h
    <3>1. (x + h) % Turn = x + h
      BY <1>1, <2>1
    <3>2. x = d + (0 * Turn) /\ d \in -h..(h - 1)
      BY <1>1, <1>2, <2>1, <3>1
    <3> QED
      BY <3>2
  <2>2. CASE x >= h
    <3>1. x + h = (x + h - Turn) + (1 * Turn) /\ x + h - Turn \in 0..(Turn - 1) /\ x + h \in Int
      BY <1>1, <2>2
    <3>2. (x + h) % Turn = x + h - Turn
      BY <1>1, <3>1, RemainderIs
    <3>3. x = d + (1 * Turn) /\ d \in -h..(h - 1)
      BY <1>1, <1>2, <2>2, <3>2
    <3> QED
      BY <3>3
  <2>3. CASE x < -h
    <3>1. x + h = (x + h + Turn) + ((-1) * Turn) /\ x + h + Turn \in 0..(Turn - 1) /\ x + h \in Int
      BY <1>1, <2>3
    <3>2. (x + h) % Turn = x + h + Turn
      BY <1>1, <3>1, RemainderIs
    <3>3. x = d + ((-1) * Turn) /\ d \in -h..(h - 1)
      BY <1>1, <1>2, <2>3, <3>2
    <3> QED
      BY <3>3
  <2> QED
    BY <1>1, <2>1, <2>2, <2>3
<1>5. PICK q \in {-1, 0, 1} : x = d + (q * Turn) /\ d \in -h..(h - 1)
  BY <1>4
<1>6. q \in Int /\ -q \in Int /\ -x = -d + ((-q) * Turn) /\ x \in Int /\ -x \in Int
  BY <1>1, <1>5
<1>6a. PICK y \in Int : y = -x
  BY <1>6
<1>7. Size(d) = Least(y % Turn, x % Turn)
  <2>1. CASE d > 0
    <3>1. x % Turn = d
      BY <1>1, <1>5, <1>6, <1>6a, <2>1, RemainderIs
    <3>2. PICK r \in Int : y = (Turn - d) + (r * Turn)
      <4>1. y = (Turn - d) + ((-q - 1) * Turn) /\ -q - 1 \in Int
        BY <1>1, <1>5, <1>6a, <2>1
      <4> QED
        BY <4>1
    <3>3. PICK e \in 0..(Turn - 1) : e = Turn - d
      <4>1. Turn - d \in 0..(Turn - 1)
        BY <1>1, <1>5, <2>1
      <4> QED
        BY <4>1
    <3>4. y = e + (r * Turn)
      BY <3>2, <3>3
    <3>5. y % Turn = Turn - d
      BY <1>1, <3>3, <3>4, RemainderIs
    <3> QED
      BY <1>1, <1>5, <2>1, <3>1, <3>5 DEF Size, Most, Least
  <2>2. CASE d = 0
    <3>1. x % Turn = 0
      BY <1>1, <1>5, <1>6, <1>6a, <2>2, RemainderIs
    <3>2. y % Turn = 0
      BY <1>1, <1>5, <1>6, <1>6a, <2>2, <3>1
    <3>3. d \in Int /\ x % Turn \in Int /\ y % Turn \in Int
      BY <2>2, <3>1, <3>2
    <3> QED
      BY <2>2, <3>1, <3>2, <3>3, LeastOfNothing
  <2>3. CASE d < 0
    <3>1. y % Turn = -d
      <4>1. PICK e \in 0..(Turn - 1) : e = -d
        BY <1>1, <1>5, <2>3
      <4>2. y = e + ((-q) * Turn)
        BY <1>6, <1>6a, <4>1
      <4> QED
        BY <1>1, <1>6, <1>6a, <4>1, <4>2, RemainderIs
    <3>2. x = (d + Turn) + ((q - 1) * Turn) /\ d + Turn \in 0..(Turn - 1) /\ q - 1 \in Int
      BY <1>1, <1>5, <2>3
    <3>3. x % Turn = d + Turn
      BY <1>1, <1>6, <1>6a, <3>2, RemainderIs
    <3> QED
      BY <1>1, <1>5, <2>3, <3>1, <3>3 DEF Size, Most, Least
  <2> QED
    BY <1>1, <1>5, <2>1, <2>2, <2>3
<1>8. d \in -(Turn - 1)..(Turn - 1)
  BY <1>1, <1>5
<1> QED
  BY <1>3, <1>5, <1>6a, <1>7, <1>8 DEF d, x

\* A turn is shown within the shorter way, from either end.
LEMMA LerpTurns ==
    ASSUME NEW a \in Angles, NEW b \in Angles, NEW k \in 0..Parts
    PROVE  /\ Apart(lerpBam(a, b, k), Parts * a, Turn * Parts) <= Parts * Apart(a, b, Turn)
           /\ Apart(lerpBam(a, b, k), Parts * b, Turn * Parts) <= Parts * Apart(a, b, Turn)
<1> DEFINE d == Delta(a, b)
           m == Turn * Parts
           v == lerpBam(a, b, k)
           size == Size(d)
<1>1. /\ Parts \in Nat \ {0} /\ Turn \in Nat \ {0} /\ k \in Nat /\ k <= Parts /\ m \in Nat \ {0}
      /\ a \in Int /\ b \in Int /\ Parts * a \in Int /\ Parts * b \in Int
  BY SceneSizes DEF Angles
<1>2. d \in Int /\ d \in -(Turn - 1)..(Turn - 1) /\ size = Apart(a, b, Turn) /\ size \in Nat /\ size <= Turn - 1
  BY <1>1, ShorterWay DEF Size, Most
<1>3. PICK q \in {-1, 0, 1} : b - a = d + (q * Turn)
  BY ShorterWay
<1>4. v = ((Parts * a) + (d * k)) % m
  BY <1>1, <1>2 DEF lerpBam, Delta
<1> HIDE DEF d, v, size
<1>5. d * k \in Int /\ d * (Parts - k) \in Int /\ d * Parts = (d * k) + (d * (Parts - k)) /\ d * Parts \in Int
  BY <1>1, <1>2
<1>6. /\ d * k \in -(m - 1)..(m - 1) /\ Size(d * k) <= Parts * size
      /\ -(d * (Parts - k)) \in -(m - 1)..(m - 1) /\ Size(-(d * (Parts - k))) <= Parts * size
  <2>1. Parts * size <= Parts * (Turn - 1) /\ Parts * (Turn - 1) = m - Parts /\ Parts * size \in Int
    BY <1>1, <1>2
  <2>2. \A j \in 0..Parts : /\ d * j \in Int /\ d * j <= Parts * size /\ -(d * j) <= Parts * size
    <3> SUFFICES ASSUME NEW j \in 0..Parts
                 PROVE  d * j \in Int /\ d * j <= Parts * size /\ -(d * j) <= Parts * size
      OBVIOUS
    <3>1. CASE d >= 0
      <4>1. size = d
        BY <1>2, <3>1 DEF size, Size, Most
      <4>2. d * j >= 0 /\ d * j <= d * Parts /\ d * j \in Int /\ d * Parts = Parts * d
        BY <1>1, <1>2, <3>1
      <4> QED
        BY <2>1, <4>1, <4>2
    <3>2. CASE d < 0
      <4>1. size = -d
        BY <1>2, <3>2 DEF size, Size, Most
      <4> DEFINE e == -d
      <4>2. e \in Nat /\ d = -e
        BY <1>2, <3>2
      <4> HIDE DEF e
      <4>3. e * j >= 0 /\ e * j <= e * Parts /\ e * j \in Int /\ e * Parts = Parts * e /\ (-e) * j = -(e * j)
        BY <1>1, <4>2
      <4> QED
        BY <2>1, <4>1, <4>2, <4>3 DEF e
    <3> QED
      BY <1>2, <3>1, <3>2
  <2>3. k \in 0..Parts /\ Parts - k \in 0..Parts
    BY <1>1
  <2>4. /\ d * k <= Parts * size /\ -(d * k) <= Parts * size
        /\ d * (Parts - k) <= Parts * size /\ -(d * (Parts - k)) <= Parts * size
    BY <2>2, <2>3
  <2> DEFINE y == d * k
             z == d * (Parts - k)
             w == Parts * size
  <2>5. y \in Int /\ z \in Int /\ w \in Int /\ y <= w /\ -y <= w /\ z <= w /\ -z <= w /\ w <= m - Parts
    BY <1>5, <2>1, <2>4
  <2> HIDE DEF y, z, w, m
  <2>6. /\ y \in -(m - 1)..(m - 1) /\ Size(y) <= w /\ -z \in -(m - 1)..(m - 1) /\ Size(-z) <= w
    BY <1>1, <2>5 DEF Size, Most
  <2> QED
    BY <2>6 DEF y, z, w
<1> DEFINE at == (Parts * a) + (d * k)
           r == at \div m
<1>7. at \in Int /\ r \in Int /\ -r \in Int /\ at % m = at - (r * m) /\ at % m \in Int /\ r * m \in Int
  <2>1. at \in Int
    BY <1>1, <1>5
  <2> HIDE DEF at, m
  <2> QED
    BY <1>1, <2>1
<1>8. v - (Parts * a) = (d * k) + ((-r) * m) /\ v \in Int
  <2>1. (-r) * m = -(r * m)
    BY <1>1, <1>7
  <2> HIDE DEF r, m
  <2> QED
    BY <1>1, <1>4, <1>5, <1>7, <2>1
<1>9. v - (Parts * b) = -(d * (Parts - k)) + ((-(q + r)) * m) /\ -(q + r) \in Int
  <2>1. (Parts * b) - (Parts * a) = (d * Parts) + (q * m)
    <3>1. (Parts * b) - (Parts * a) = Parts * (b - a)
      BY <1>1
    <3>2. Parts * (d + (q * Turn)) = (d * Parts) + (q * m)
      BY <1>1, <1>2
    <3> QED
      BY <1>3, <3>1, <3>2
  <2>2. (-(q + r)) * m = -(q * m) - (r * m) /\ (-r) * m = -(r * m) /\ q * m \in Int
    BY <1>1, <1>7
  <2> DEFINE qm == q * m
             rm == r * m
             back == (-(q + r)) * m
             left == d * (Parts - k)
             done == d * k
  <2>3. /\ qm \in Int /\ rm \in Int /\ back = -qm - rm /\ left \in Int /\ done \in Int /\ v - (Parts * a) = done - rm
        /\ (Parts * b) - (Parts * a) = done + left + qm
    <3>1. v - (Parts * a) = done + ((-r) * m)
      BY <1>8
    <3>2. d * Parts = done + left
      BY <1>5
    <3> HIDE DEF r, m, done, left
    <3> QED
      BY <1>1, <1>5, <1>7, <2>1, <2>2, <3>1, <3>2 DEF done, left
  <2> HIDE DEF qm, rm, back, left, done, r, m
  <2>4. v - (Parts * b) = -left + back
    BY <1>1, <1>8, <2>3
  <2>5. -(q + r) \in Int
    BY <1>7
  <2> QED
    BY <2>4, <2>5 DEF left, back
<1> HIDE DEF m, r
<1>10. Apart(v, Parts * a, m) <= Size(d * k) /\ Apart(v, Parts * b, m) <= Size(-(d * (Parts - k)))
  BY <1>1, <1>6, <1>7, <1>8, <1>9, AroundTheCircle
<1>11. Apart(v, Parts * a, m) <= Parts * size /\ Apart(v, Parts * b, m) <= Parts * size
  <2>1. /\ Apart(v, Parts * a, m) \in Int /\ Apart(v, Parts * b, m) \in Int
        /\ Size(d * k) \in Int /\ Size(-(d * (Parts - k))) \in Int /\ Parts * size \in Int
    BY <1>1, <1>2, <1>5, <1>8 DEF Apart, Least, Size, Most
  <2> QED
    BY <1>6, <1>10, <2>1
<1> QED
  BY <1>2, <1>11 DEF v, m

Near(v, a, b) == v >= Parts * Least(a, b) /\ v <= Parts * Most(a, b)

LEMMA LerpIsNear ==
    ASSUME NEW a \in Int, NEW b \in Int, NEW k \in 0..Parts
    PROVE  Near(lerpFixed(a, b, k), a, b) /\ lerpFixed(a, a, k) = Parts * a
  BY LerpBetween DEF Near

\* What ShownBetween says of two snapshots and of what is shown between them.
ShownOK(p, c, shown) ==
    /\ Near(shown.x, p.player.x, c.player.x) /\ Near(shown.y, p.player.y, c.player.y)
    /\ LET way == Parts * Apart(p.player.angle, c.player.angle, Turn)
       IN /\ Apart(shown.angle, Parts * p.player.angle, Turn * Parts) <= way
          /\ Apart(shown.angle, Parts * c.player.angle, Turn * Parts) <= way
    /\ \A i \in DOMAIN c.mobjs :
          LET mo == c.mobjs[i]
              old == {j \in DOMAIN p.mobjs : p.mobjs[j].id = mo.id}
          IN IF old = {} \/ mo.teleported
             THEN shown.mobjs[i].x = Parts * mo.x
             ELSE \A j \in old : Near(shown.mobjs[i].x, p.mobjs[j].x, mo.x)

OwnIds(snap) == \A i, j \in DOMAIN snap.mobjs : snap.mobjs[i].id = snap.mobjs[j].id => i = j
AtRest(snap) ==
    \A i \in DOMAIN snap.sectors : LET s == snap.sectors[i] IN
       \/ s.index \in findDynamicSectors
       \/ s.floor = Map.sectors[s.index].floor /\ s.ceiling = Map.sectors[s.index].ceiling

\* How far between the two tics a frame falls.
Moment(t) == Most(0, Least(t, Parts))

LEMMA MomentIs ==
    ASSUME NEW t \in Int
    PROVE  Moment(t) \in 0..Parts
  BY SceneSizes DEF Moment, Most, Least

LEMMA PlacedThing ==
    ASSUME NEW mo \in Mobjs, NEW x, NEW y, NEW z, NEW a
    PROVE  [mo EXCEPT !.x = x, !.y = y, !.z = z, !.angle = a].x = x
  BY DEF Mobjs

LEMMA PlacedSector ==
    ASSUME NEW s \in SectorRows, NEW f, NEW c
    PROVE  LET e == [s EXCEPT !.floor = f, !.ceiling = c]
           IN e.index = s.index /\ e.floor = f /\ e.ceiling = c /\ e.light = s.light
  BY DEF SectorRows

LEMMA FrameBetween ==
    ASSUME NEW p \in Snapshots, NEW c \in Snapshots, OwnIds(p), NEW t \in Int
    PROVE  ShownOK(p, c, interpolate(p, c, t))
<1> DEFINE k == Moment(t)
           shown == interpolate(p, c, t)
<1>1. k \in 0..Parts
  BY MomentIs
<1>2. /\ p.player \in Player /\ c.player \in Player /\ p.mobjs \in Seq(Mobjs) /\ c.mobjs \in Seq(Mobjs)
  BY DEF Snapshots
<1>3. /\ shown.x = lerpFixed(p.player.x, c.player.x, k) /\ shown.y = lerpFixed(p.player.y, c.player.y, k)
      /\ shown.angle = lerpBam(p.player.angle, c.player.angle, k)
  BY DEF interpolate, Moment
<1>4. /\ p.player.x \in Int /\ c.player.x \in Int /\ p.player.y \in Int /\ c.player.y \in Int
      /\ p.player.angle \in Angles /\ c.player.angle \in Angles
  BY <1>2 DEF Player
<1>5. Near(shown.x, p.player.x, c.player.x) /\ Near(shown.y, p.player.y, c.player.y)
  <2> HIDE DEF k, shown
  <2> QED
    BY <1>1, <1>3, <1>4, LerpIsNear
<1>6. LET way == Parts * Apart(p.player.angle, c.player.angle, Turn)
      IN /\ Apart(shown.angle, Parts * p.player.angle, Turn * Parts) <= way
         /\ Apart(shown.angle, Parts * c.player.angle, Turn * Parts) <= way
  <2> HIDE DEF k, shown
  <2> QED
    BY <1>1, <1>3, <1>4, LerpTurns
<1>7. ASSUME NEW i \in DOMAIN c.mobjs
      PROVE  LET mo == c.mobjs[i]
                 old == {j \in DOMAIN p.mobjs : p.mobjs[j].id = mo.id}
             IN IF old = {} \/ mo.teleported
                THEN shown.mobjs[i].x = Parts * mo.x
                ELSE \A j \in old : Near(shown.mobjs[i].x, p.mobjs[j].x, mo.x)
  <2> DEFINE mo == c.mobjs[i]
             old == {j \in DOMAIN p.mobjs : p.mobjs[j].id = mo.id}
             before == {m \in {p.mobjs[j] : j \in DOMAIN p.mobjs} : m.id = mo.id}
             was == IF before # {} /\ ~mo.teleported THEN CHOOSE b \in before : TRUE ELSE mo
  <2>1. mo \in Mobjs /\ mo.x \in Int
    <3>1. mo \in Mobjs
      BY <1>2
    <3> QED
      BY <3>1 DEF Mobjs
  <2>2. shown.mobjs[i] = [mo EXCEPT !.x = lerpFixed(was.x, @, k), !.y = lerpFixed(was.y, @, k),
                                    !.z = lerpFixed(was.z, @, k), !.angle = lerpBam(was.angle, @, k)]
    BY DEF interpolate, Moment
  <2>3. shown.mobjs[i].x = lerpFixed(was.x, mo.x, k)
    <3>1. PICK y, z, a : shown.mobjs[i] = [mo EXCEPT !.x = lerpFixed(was.x, mo.x, k), !.y = y, !.z = z, !.angle = a]
      <4> DEFINE y == lerpFixed(was.y, mo.y, k)
                 z == lerpFixed(was.z, mo.z, k)
                 a == lerpBam(was.angle, mo.angle, k)
      <4>1. shown.mobjs[i] = [mo EXCEPT !.x = lerpFixed(was.x, mo.x, k), !.y = y, !.z = z, !.angle = a]
        BY <2>1, <2>2 DEF Mobjs
      <4> HIDE DEF y, z, a, was, mo, shown, k
      <4> QED
        BY <4>1
    <3> HIDE DEF was, mo, shown, k
    <3> QED
      BY <2>1, <3>1, PlacedThing
  <2>4. \A j \in DOMAIN p.mobjs : p.mobjs[j] \in Mobjs /\ p.mobjs[j].x \in Int
    <3>1. \A j \in DOMAIN p.mobjs : p.mobjs[j] \in Mobjs
      BY <1>2
    <3> QED
      BY <3>1 DEF Mobjs
  <2>5. CASE old = {} \/ mo.teleported
    <3>1. was = mo
      BY <2>5
    <3>2. shown.mobjs[i].x = Parts * mo.x
      <4> HIDE DEF k, shown, mo, was
      <4> QED
        BY <1>1, <2>1, <2>3, <3>1, LerpIsNear
    <3> HIDE DEF shown
    <3> QED
      BY <2>5, <3>2
  <2>6. CASE ~(old = {} \/ mo.teleported)
    <3>1. ASSUME NEW j \in old PROVE was = p.mobjs[j]
      <4>1. before # {} /\ \A b \in before : b = p.mobjs[j]
        BY <3>1 DEF OwnIds
      <4> QED
        BY <2>6, <4>1
    <3>2. ASSUME NEW j \in old PROVE Near(shown.mobjs[i].x, p.mobjs[j].x, mo.x)
      <4>1. shown.mobjs[i].x = lerpFixed(p.mobjs[j].x, mo.x, k) /\ p.mobjs[j].x \in Int
        BY <2>3, <2>4, <3>1
      <4> HIDE DEF k, shown, mo
      <4> QED
        BY <1>1, <2>1, <4>1, LerpIsNear
    <3> QED
      BY <2>6, <3>2
  <2> QED
    BY <2>5, <2>6
<1> HIDE DEF shown
<1> QED
  BY <1>5, <1>6, <1>7, Zenon DEF ShownOK, shown

-----------------------------------------------------------------------------
(* The walls: those of the sectors that never move are the same in every   *)
(* frame.                                                                  *)

LEMMA LastOf ==
    ASSUME NEW n \in Nat, NEW S, S \subseteq 1..n, S # {}
    PROVE  \E x \in S : \A y \in S : y <= x
<1> DEFINE U == {n - x : x \in S}
<1>1. U \subseteq Nat /\ U # {}
  <2>1. \A x \in S : x \in 1..n /\ n - x \in Nat
    OBVIOUS
  <2> QED
    BY <2>1
<1>2. PICK u \in U : \A y \in U : u <= y
  <2> HIDE DEF U
  <2> QED
    BY <1>1, LeastOf
<1>3. PICK x \in S : u = n - x
  BY <1>2
<1>4. \A y \in S : n - x <= n - y /\ y \in 1..n /\ x \in 1..n
  BY <1>2, <1>3
<1> QED
  BY <1>3, <1>4

LevelHeight(s, h) == h.floor = LevelHeights[s].floor /\ h.ceiling = LevelHeights[s].ceiling

LEMMA RestingSectors ==
    ASSUME NEW p \in Snapshots, NEW c \in Snapshots, AtRest(p), AtRest(c), NEW t \in Int,
           NEW s \in SectorIds, s \notin findDynamicSectors
    PROVE  LevelHeight(s, Folded(interpolate(p, c, t).sectors)[s])
<1> DEFINE k == Moment(t)
           rows == interpolate(p, c, t).sectors
           of == {i \in DOMAIN rows : rows[i].index = s}
<1>1. k \in 0..Parts
  BY MomentIs
<1>2. p.sectors \in Seq(SectorRows) /\ c.sectors \in Seq(SectorRows)
  BY DEF Snapshots
<1>3. DOMAIN rows = DOMAIN c.sectors
  BY DEF interpolate
<1>4. ASSUME NEW i \in DOMAIN rows, rows[i].index = s
      PROVE  rows[i].floor = LevelHeights[s].floor /\ rows[i].ceiling = LevelHeights[s].ceiling
  <2> DEFINE r == c.sectors[i]
             old == {j \in DOMAIN p.sectors : p.sectors[j].index = r.index}
             was == IF old = {} THEN r ELSE p.sectors[CHOOSE j \in old : TRUE]
  <2>1. r \in SectorRows
    BY <1>2, <1>3, <1>4
  <2>2. rows[i] = [r EXCEPT !.floor = lerpFixed(was.floor, @, k), !.ceiling = lerpFixed(was.ceiling, @, k)]
    BY <1>3, <1>4 DEF interpolate, Moment
  <2>3. /\ rows[i].floor = lerpFixed(was.floor, r.floor, k) /\ rows[i].ceiling = lerpFixed(was.ceiling, r.ceiling, k)
        /\ r.index = s
    <3> DEFINE f == lerpFixed(was.floor, r.floor, k)
               g == lerpFixed(was.ceiling, r.ceiling, k)
    <3>1. rows[i] = [r EXCEPT !.floor = f, !.ceiling = g]
      BY <2>1, <2>2 DEF SectorRows
    <3> HIDE DEF f, g, r, rows, was
    <3>2. rows[i].index = r.index /\ rows[i].floor = f /\ rows[i].ceiling = g
      BY <2>1, <3>1, PlacedSector
    <3> QED
      BY <1>4, <3>2 DEF f, g
  <2>4. r.floor = Map.sectors[s].floor /\ r.ceiling = Map.sectors[s].ceiling
    BY <1>3, <1>4, <2>3 DEF AtRest
  <2>5. was.floor = Map.sectors[s].floor /\ was.ceiling = Map.sectors[s].ceiling
    <3>1. CASE old = {}
      BY <2>4, <3>1
    <3>2. CASE old # {}
      <4>1. PICK j \in old : was = p.sectors[j]
        BY <3>2
      <4> HIDE DEF was
      <4> QED
        BY <2>3, <4>1 DEF AtRest
    <3> QED
      BY <3>1, <3>2
  <2>6. Map.sectors[s].floor \in Int /\ Map.sectors[s].ceiling \in Int
    <3>1. r.floor \in Int /\ r.ceiling \in Int
      BY <2>1 DEF SectorRows
    <3> QED
      BY <2>4, <3>1
  <2> HIDE DEF was, r, rows, k
  <2>7. rows[i].floor = Parts * Map.sectors[s].floor /\ rows[i].ceiling = Parts * Map.sectors[s].ceiling
    BY <1>1, <2>3, <2>4, <2>5, <2>6, LerpIsNear
  <2>8. /\ Parts * Map.sectors[s].floor = Map.sectors[s].floor * Parts
        /\ Parts * Map.sectors[s].ceiling = Map.sectors[s].ceiling * Parts
    BY <2>6, SceneSizes
  <2>9. /\ LevelHeights[s].floor = Map.sectors[s].floor * Parts
        /\ LevelHeights[s].ceiling = Map.sectors[s].ceiling * Parts
    BY DEF LevelHeights
  <2> QED
    BY <2>7, <2>8, <2>9
<1> SUFFICES LevelHeight(s, Folded(rows)[s])
  OBVIOUS
<1> HIDE DEF rows
<1>5. Folded(rows)[s] = IF of = {} THEN LevelHeights[s]
                        ELSE LET d == rows[CHOOSE i \in of : \A j \in of : j <= i]
                             IN [floor |-> d.floor, ceiling |-> d.ceiling, light |-> d.light]
  BY DEF Folded
<1>6. CASE of = {}
  BY <1>5, <1>6 DEF LevelHeight
<1>7. CASE of # {}
  <2>1. DOMAIN rows = 1..Len(c.sectors) /\ Len(c.sectors) \in Nat
    BY <1>2, <1>3
  <2>2. \E i \in of : \A j \in of : j <= i
    <3>1. of \subseteq 1..Len(c.sectors)
      BY <2>1
    <3> HIDE DEF of
    <3> QED
      BY <1>7, <2>1, <3>1, LastOf
  <2> DEFINE last == CHOOSE i \in of : \A j \in of : j <= i
  <2>3. last \in of
    BY <2>2
  <2>4. Folded(rows)[s] = [floor |-> rows[last].floor, ceiling |-> rows[last].ceiling, light |-> rows[last].light]
    BY <1>5, <1>7
  <2> HIDE DEF last
  <2>5. last \in DOMAIN rows /\ rows[last].index = s
    BY <2>3
  <2> QED
    BY <1>4, <2>4, <2>5 DEF LevelHeight
<1> QED
  BY <1>6, <1>7

SameHeights(h, g) == h.floor = g.floor /\ h.ceiling = g.ceiling

LEMMA SameTop ==
    ASSUME NEW f, NEW b, NEW f2, NEW b2, SameHeights(f, f2), SameHeights(b, b2), NEW kind, NEW line, NEW tex
    PROVE  wallTopAnchor(kind, line, tex, f, b) = wallTopAnchor(kind, line, tex, f2, b2)
  BY DEF SameHeights, wallTopAnchor

\* One wall of a side, as emitSide makes it.
WallOf(f, b, li, side, kind, tex, low, high) ==
    LET top == wallTopAnchor(kind, Map.lines[li], tex, f, b)
        zTop == IF kind = "middle-masked" THEN Least(high, top) ELSE high
        zBottom == IF kind = "middle-masked" THEN Most(low, top - (tex * Parts)) ELSE low
    IN IF tex = 0 \/ zTop <= zBottom THEN {}
       ELSE {[linedef |-> li, side |-> side, kind |-> kind, zTop |-> zTop, zBottom |-> zBottom,
              worldTopZ |-> top, sector |-> SectorOfSide(side)]}
WallsOf(f, b, li, side, other, texture) ==
    LET sky == other # 0 /\ Map.sectors[SectorOfSide(side)].sky /\ Map.sectors[SectorOfSide(other)].sky
        openTop == Least(f.ceiling, b.ceiling)
        openBottom == Most(f.floor, b.floor)
    IN IF other = 0 THEN WallOf(f, b, li, side, "middle", texture.middle, f.floor, f.ceiling)
       ELSE (IF b.ceiling < f.ceiling /\ ~sky
             THEN WallOf(f, b, li, side, "upper", texture.upper, b.ceiling, f.ceiling) ELSE {})
            \cup (IF b.floor > f.floor
                  THEN WallOf(f, b, li, side, "lower", texture.lower, f.floor, b.floor) ELSE {})
            \cup (IF openTop > openBottom
                  THEN WallOf(f, b, li, side, "middle-masked", texture.middle, openBottom, openTop) ELSE {})

LEMMA SideWalls ==
    ASSUME NEW heights, NEW li, NEW side, NEW other, NEW texture
    PROVE  LET f == heights[SectorOfSide(side)]
               b == IF other = 0 THEN f ELSE heights[SectorOfSide(other)]
           IN emitSide(heights, li, side, other, texture) = WallsOf(f, b, li, side, other, texture)
  BY DEF emitSide, WallsOf, WallOf

LEMMA SameWall ==
    ASSUME NEW f, NEW b, NEW f2, NEW b2, SameHeights(f, f2), SameHeights(b, b2),
           NEW li, NEW side, NEW kind, NEW tex, NEW low, NEW high
    PROVE  WallOf(f, b, li, side, kind, tex, low, high) = WallOf(f2, b2, li, side, kind, tex, low, high)
<1>1. wallTopAnchor(kind, Map.lines[li], tex, f, b) = wallTopAnchor(kind, Map.lines[li], tex, f2, b2)
  BY SameTop
<1> QED
  BY <1>1, Zenon DEF WallOf

LEMMA SameWalls ==
    ASSUME NEW f, NEW b, NEW f2, NEW b2, SameHeights(f, f2), SameHeights(b, b2),
           NEW li, NEW side, NEW other, NEW texture
    PROVE  WallsOf(f, b, li, side, other, texture) = WallsOf(f2, b2, li, side, other, texture)
<1>1. f.floor = f2.floor /\ f.ceiling = f2.ceiling /\ b.floor = b2.floor /\ b.ceiling = b2.ceiling
  BY DEF SameHeights
<1>2. \A kind, tex, low, high :
        WallOf(f, b, li, side, kind, tex, low, high) = WallOf(f2, b2, li, side, kind, tex, low, high)
  BY SameWall
<1> DEFINE sky == other # 0 /\ Map.sectors[SectorOfSide(side)].sky /\ Map.sectors[SectorOfSide(other)].sky
           Middle(g, h) == WallOf(g, h, li, side, "middle", texture.middle, g.floor, g.ceiling)
           Upper(g, h) == IF h.ceiling < g.ceiling /\ ~sky
                          THEN WallOf(g, h, li, side, "upper", texture.upper, h.ceiling, g.ceiling) ELSE {}
           Lower(g, h) == IF h.floor > g.floor
                          THEN WallOf(g, h, li, side, "lower", texture.lower, g.floor, h.floor) ELSE {}
           Masked(g, h) == LET openTop == Least(g.ceiling, h.ceiling)
                               openBottom == Most(g.floor, h.floor)
                           IN IF openTop > openBottom
                              THEN WallOf(g, h, li, side, "middle-masked", texture.middle, openBottom, openTop) ELSE {}
<1>3. Middle(f, b) = Middle(f2, b2)
  BY <1>1, <1>2
<1>4. Upper(f, b) = Upper(f2, b2)
  BY <1>1, <1>2
<1>5. Lower(f, b) = Lower(f2, b2)
  BY <1>1, <1>2
<1>6. Masked(f, b) = Masked(f2, b2)
  <2>1. Least(f.ceiling, b.ceiling) = Least(f2.ceiling, b2.ceiling) /\ Most(f.floor, b.floor) = Most(f2.floor, b2.floor)
    BY <1>1
  <2> QED
    BY <1>2, <2>1
<1>7. /\ WallsOf(f, b, li, side, other, texture)
         = IF other = 0 THEN Middle(f, b) ELSE Upper(f, b) \cup Lower(f, b) \cup Masked(f, b)
      /\ WallsOf(f2, b2, li, side, other, texture)
         = IF other = 0 THEN Middle(f2, b2) ELSE Upper(f2, b2) \cup Lower(f2, b2) \cup Masked(f2, b2)
  BY DEF WallsOf
<1> HIDE DEF Middle, Upper, Lower, Masked
<1> QED
  BY <1>3, <1>4, <1>5, <1>6, <1>7

LEMMA WallIsOfSide ==
    ASSUME NEW f, NEW b, NEW li, NEW side, NEW other, NEW texture, NEW q \in WallsOf(f, b, li, side, other, texture)
    PROVE  q.linedef = li /\ q.sector = SectorOfSide(side)
<1>1. \A kind, tex, low, high :
        \A w \in WallOf(f, b, li, side, kind, tex, low, high) : w.linedef = li /\ w.sector = SectorOfSide(side)
  BY DEF WallOf
<1>2. PICK kind, tex, low, high : q \in WallOf(f, b, li, side, kind, tex, low, high)
  <2> HIDE DEF WallOf
  <2> QED
    BY Zenon DEF WallsOf
<1> QED
  BY <1>1, <1>2

\* The walls of a line.
LineWalls(heights, i) ==
    LET l == Map.lines[i]
    IN (IF l.front = 0 THEN {} ELSE emitSide(heights, i, l.front, l.back, Map.textures[l.front]))
       \cup (IF l.back = 0 THEN {} ELSE emitSide(heights, i, l.back, l.front, Map.textures[l.back]))
SectorsOfLine(i) == {SectorOfSide(Map.lines[i].front), SectorOfSide(Map.lines[i].back)}

LEMMA WallsByLine ==
    ASSUME NEW heights, NEW S
    PROVE  \A q : q \in buildWallQuads(heights, S)
                  <=> \E i \in DOMAIN Map.lines : SectorsOfLine(i) \cap S # {} /\ q \in LineWalls(heights, i)
  BY DEF buildWallQuads, LineWalls, SectorsOfLine

LineRecords == [front : 0..Len(Map.sides), back : 0..Len(Map.sides), special : Nat, tag : Nat,
                from : DOMAIN Map.points, to : DOMAIN Map.points,
                lowerUnpegged : BOOLEAN, upperUnpegged : BOOLEAN]

LEMMA LinesAre ==
    /\ Map.lines \in Seq(LineRecords) /\ Len(Map.lines) \in Nat /\ DOMAIN Map.lines = 1..Len(Map.lines)
    /\ \A i \in DOMAIN Map.lines : Map.lines[i] \in LineRecords
<1>1. Map.lines \in Seq(LineRecords)
  BY MapAssumption, Zenon DEF LineRecords
<1> QED
  BY <1>1

LEMMA SidesOfLine ==
    ASSUME NEW i \in DOMAIN Map.lines
    PROVE  /\ SectorsOfLine(i) \subseteq SectorIds \cup {0}
           /\ \A side \in {Map.lines[i].front, Map.lines[i].back} :
                 IF side = 0 THEN SectorOfSide(side) = 0 ELSE SectorOfSide(side) \in SectorIds
<1>1. /\ Map.sides \in Seq(SectorIds) /\ Len(Map.sides) \in Nat
      /\ {Map.lines[i].front, Map.lines[i].back} \subseteq 0..Len(Map.sides)
  <2>1. Map.sides \in Seq(SectorIds)
    BY MapAssumption, Zenon
  <2> QED
    <3>1. Map.lines[i] \in LineRecords
      BY LinesAre
    <3>2. Map.lines[i].front \in 0..Len(Map.sides) /\ Map.lines[i].back \in 0..Len(Map.sides)
      BY <3>1 DEF LineRecords
    <3> QED
      BY <2>1, <3>2
<1>2. ASSUME NEW side \in 0..Len(Map.sides), side # 0 PROVE SectorOfSide(side) \in SectorIds
  <2>1. side \in 1..Len(Map.sides)
    BY <1>1, <1>2
  <2> QED
    BY <1>1, <1>2, <2>1 DEF SectorOfSide
<1>3. SectorOfSide(0) = 0
  BY DEF SectorOfSide
<1> QED
  BY <1>1, <1>2, <1>3 DEF SectorsOfLine

LEMMA LineOfWall ==
    ASSUME NEW heights, NEW i \in DOMAIN Map.lines, NEW q \in LineWalls(heights, i)
    PROVE  q.linedef = i /\ \E side \in {Map.lines[i].front, Map.lines[i].back} \ {0} : q.sector = SectorOfSide(side)
<1> DEFINE l == Map.lines[i]
<1>1. CASE l.front # 0 /\ q \in emitSide(heights, i, l.front, l.back, Map.textures[l.front])
  <2>1. q.linedef = i /\ q.sector = SectorOfSide(l.front)
    BY <1>1, SideWalls, WallIsOfSide
  <2> QED
    BY <1>1, <2>1
<1>2. CASE l.back # 0 /\ q \in emitSide(heights, i, l.back, l.front, Map.textures[l.back])
  <2>1. q.linedef = i /\ q.sector = SectorOfSide(l.back)
    BY <1>2, SideWalls, WallIsOfSide
  <2> QED
    BY <1>2, <2>1
<1> QED
  BY <1>1, <1>2 DEF LineWalls

LEMMA SameLineWalls ==
    ASSUME NEW heights, NEW levels, NEW i \in DOMAIN Map.lines,
           \A s \in SectorsOfLine(i) \ {0} : SameHeights(heights[s], levels[s])
    PROVE  LineWalls(heights, i) = LineWalls(levels, i)
<1> DEFINE l == Map.lines[i]
<1>1. \A side \in {l.front, l.back} : side # 0 => SameHeights(heights[SectorOfSide(side)], levels[SectorOfSide(side)])
  <2>1. \A side \in {l.front, l.back} : side # 0 => SectorOfSide(side) \in SectorIds
    BY SidesOfLine
  <2>2. \A side \in {l.front, l.back} : SectorOfSide(side) \in SectorsOfLine(i)
    BY DEF SectorsOfLine
  <2>3. \A s \in SectorIds : s # 0
    BY DEF SectorIds
  <2> QED
    BY <2>1, <2>2, <2>3
<1>2. ASSUME NEW side \in {l.front, l.back}, NEW other \in {l.front, l.back}, NEW texture, side # 0
      PROVE  emitSide(heights, i, side, other, texture) = emitSide(levels, i, side, other, texture)
  <2> DEFINE f == heights[SectorOfSide(side)]
             b == IF other = 0 THEN f ELSE heights[SectorOfSide(other)]
             f2 == levels[SectorOfSide(side)]
             b2 == IF other = 0 THEN f2 ELSE levels[SectorOfSide(other)]
  <2>1. SameHeights(f, f2) /\ SameHeights(b, b2)
    BY <1>1, <1>2
  <2>2. /\ emitSide(heights, i, side, other, texture) = WallsOf(f, b, i, side, other, texture)
        /\ emitSide(levels, i, side, other, texture) = WallsOf(f2, b2, i, side, other, texture)
    BY SideWalls
  <2> HIDE DEF f, b, f2, b2
  <2>3. WallsOf(f, b, i, side, other, texture) = WallsOf(f2, b2, i, side, other, texture)
    BY <2>1, SameWalls
  <2> QED
    BY <2>2, <2>3
<1> QED
  BY <1>2 DEF LineWalls

\* The walls that never move and those rebuilt for a frame are those of the level.
LEMMA WallsComplete ==
    ASSUME NEW heights,
           \A s \in SectorIds : s \notin findDynamicSectors => SameHeights(heights[s], LevelHeights[s])
    PROVE  LET static == buildStaticWalls(findDynamicSectors)
               moving == buildWallQuads(heights, findDynamicSectors)
           IN static \cup moving = buildWallQuads(heights, SectorIds) /\ static \cap moving = {}
<1> DEFINE dyn == findDynamicSectors
           static == buildStaticWalls(dyn)
           moving == buildWallQuads(heights, dyn)
           all == buildWallQuads(heights, SectorIds)
           Moves(i) == SectorsOfLine(i) \cap dyn # {}
           lines == DOMAIN Map.lines
<1>1. 0 \notin dyn /\ 0 \notin SectorIds
  BY DEF findDynamicSectors, SectorIds
<1>2. \A q : q \in moving <=> \E i \in lines : Moves(i) /\ q \in LineWalls(heights, i)
  BY WallsByLine
<1>3. ASSUME NEW h, NEW i \in lines, NEW q \in LineWalls(h, i)
      PROVE  SectorsOfLine(i) \cap SectorIds # {} /\ q.linedef = i /\ (isDynamicQuad(q, dyn) <=> Moves(i))
  <2>1. PICK side \in {Map.lines[i].front, Map.lines[i].back} \ {0} : q.linedef = i /\ q.sector = SectorOfSide(side)
    BY LineOfWall
  <2>2. SectorOfSide(side) \in SectorIds /\ SectorOfSide(side) \in SectorsOfLine(i)
    BY <2>1, SidesOfLine DEF SectorsOfLine
  <2>3. isDynamicQuad(q, dyn)
        <=> \E o \in {Map.lines[i].front, Map.lines[i].back} \ {0} : SectorOfSide(o) \in dyn
    BY <2>1 DEF isDynamicQuad
  <2>4. \A o \in {Map.lines[i].front, Map.lines[i].back} : SectorOfSide(o) \in dyn => o # 0
    BY <1>1, SidesOfLine
  <2> HIDE DEF dyn
  <2> QED
    BY <2>1, <2>2, <2>3, <2>4 DEF SectorsOfLine
<1>4. \A q : q \in all <=> \E i \in lines : q \in LineWalls(heights, i)
  BY <1>3, WallsByLine
<1>5. \A q : q \in static <=> \E i \in lines : ~Moves(i) /\ q \in LineWalls(LevelHeights, i)
  <2>1. \A q : q \in static <=> q \in buildWallQuads(LevelHeights, SectorIds) /\ ~isDynamicQuad(q, dyn)
    BY DEF buildStaticWalls
  <2>2. \A q : q \in buildWallQuads(LevelHeights, SectorIds) <=> \E i \in lines : q \in LineWalls(LevelHeights, i)
    BY <1>3, WallsByLine
  <2> HIDE DEF static, dyn, lines
  <2> QED
    BY <1>3, <2>1, <2>2 DEF dyn
<1>6. ASSUME NEW i \in lines, ~Moves(i) PROVE LineWalls(heights, i) = LineWalls(LevelHeights, i)
  <2>1. \A s \in SectorsOfLine(i) \ {0} : s \in SectorIds /\ s \notin dyn
    BY <1>6, SidesOfLine
  <2> QED
    BY <2>1, SameLineWalls
<1>7. static \cup moving = all
  <2> HIDE DEF static, moving, all, lines, Moves
  <2> QED
    BY <1>2, <1>4, <1>5, <1>6
<1>8. static \cap moving = {}
  <2>1. SUFFICES ASSUME NEW q \in static \cap moving PROVE FALSE
    OBVIOUS
  <2>2. PICK i \in lines : Moves(i) /\ q \in LineWalls(heights, i)
    BY <1>2, <2>1
  <2>3. PICK j \in lines : ~Moves(j) /\ q \in LineWalls(LevelHeights, j)
    BY <1>5, <2>1
  <2>4. i = q.linedef /\ j = q.linedef
    BY <1>3, <2>2, <2>3
  <2> QED
    BY <2>2, <2>3, <2>4
<1> QED
  BY <1>7, <1>8

-----------------------------------------------------------------------------
(* What a fold leaves after every place of a sequence.                     *)

LEMMA MaxIsPlace ==
    ASSUME NEW n \in Nat, NEW s \in SUBSET (1..n), s # {}
    PROVE  Max(s) \in s /\ Max(s) \in 1..n
<1>1. \E x \in s : \A y \in s : x >= y
  <2>1. PICK x \in s : \A y \in s : y <= x
    BY LastOf
  <2>2. \A y \in s : x >= y
    <3>1. \A y \in s : y \in 1..n
      OBVIOUS
    <3> QED
      BY <2>1, <3>1
  <2> QED
    BY <2>2
<1> QED
  BY <1>1 DEF Max

RunsOver(g, n, V, zero, step) == /\ g \in [0..n -> V] /\ g[0] = zero
                                 /\ \A i \in 1..n : g[i] = step[<<g[i - 1], i>>]

LEMMA PrefixRun ==
    ASSUME NEW n \in Nat, NEW V, NEW zero \in V, NEW step \in [V \X (1..n) -> V], NEW F, F[1..0] = zero,
           \A i \in 1..n : F[1..(i - 1)] \in V => F[1..i] = step[<<F[1..(i - 1)], i>>]
    PROVE  RunsOver([i \in 0..n |-> F[1..i]], n, V, zero, step)
<1>1. \A i \in 0..n : F[1..i] \in V
  <2> DEFINE T == {i \in 0..n : F[1..i] \notin V}
  <2>1. SUFFICES ASSUME T # {} PROVE FALSE
    OBVIOUS
  <2>2. PICK x \in T : \A y \in T : x <= y
    <3>1. T \subseteq Nat
      OBVIOUS
    <3> HIDE DEF T
    <3> QED
      BY <2>1, <3>1, LeastOf
  <2>3. x \in 0..n /\ F[1..x] \notin V
    BY <2>2
  <2>4. x # 0
    BY <2>3
  <2>5. x \in 1..n /\ x - 1 \in 0..n /\ x - 1 \notin T
    BY <2>2, <2>3, <2>4
  <2>6. F[1..(x - 1)] \in V
    BY <2>5
  <2>7. F[1..x] = step[<<F[1..(x - 1)], x>>]
    BY <2>5, <2>6
  <2> QED
    BY <2>3, <2>5, <2>6, <2>7
<1> DEFINE g == [i \in 0..n |-> F[1..i]]
<1>2. g \in [0..n -> V] /\ g[0] = zero
  BY <1>1
<1>3. ASSUME NEW i \in 1..n PROVE g[i] = step[<<g[i - 1], i>>]
  <2>1. i - 1 \in 0..n /\ i \in 0..n
    OBVIOUS
  <2>2. F[1..(i - 1)] \in V
    BY <1>1, <2>1
  <2> QED
    BY <2>1, <2>2
<1> HIDE DEF g
<1>4. RunsOver(g, n, V, zero, step)
  BY <1>2, <1>3 DEF RunsOver
<1> QED
  BY <1>4 DEF g

LEMMA FilteredIs ==
    ASSUME NEW D, NEW s \in Seq(D), NEW S
    PROVE  Filtered(s, S) \in Seq(D \cap S)
<1> DEFINE n == Len(s)
           V == Seq(D \cap S)
           Over(h) == [u \in SUBSET (1..n) |->
                          IF u = {} THEN <<>>
                          ELSE IF s[Max(u)] \in S THEN Append(h[u \ {Max(u)}], s[Max(u)]) ELSE h[u \ {Max(u)}]]
           F == CHOOSE h : h = Over(h)
           step == [a \in V \X (1..n) |-> IF s[a[2]] \in S THEN Append(a[1], s[a[2]]) ELSE a[1]]
<1>1. n \in Nat /\ DOMAIN s = 1..n
  OBVIOUS
<1>2. Filtered(s, S) = F[1..n]
  BY <1>1 DEF Filtered, FoldLeft, MapThenFoldSet
<1>3. ASSUME NEW v \in V, NEW i \in 1..n
      PROVE  /\ step[<<v, i>>] = IF s[i] \in S THEN Append(v, s[i]) ELSE v
             /\ step[<<v, i>>] \in V
  <2>1. step[<<v, i>>] = IF s[i] \in S THEN Append(v, s[i]) ELSE v
    OBVIOUS
  <2>2. s[i] \in D
    OBVIOUS
  <2>3. s[i] \in S => Append(v, s[i]) \in V
    BY <2>2
  <2> QED
    BY <2>1, <2>3
<1>4. step \in [V \X (1..n) -> V] /\ <<>> \in V
  <2>1. \A a \in V \X (1..n) : a = <<a[1], a[2]>> /\ a[1] \in V /\ a[2] \in 1..n
    OBVIOUS
  <2>2. \A a \in V \X (1..n) : step[a] \in V
    BY <1>3, <2>1
  <2> QED
    BY <2>2
<1> HIDE DEF step, n
<1>5. F = Over(F)
  <2>1. PICK f : FoldsOver(f, n, V, <<>>, step)
    <3> HIDE DEF V
    <3> QED
      BY <1>1, <1>4, FoldTable
  <2>2. ASSUME NEW u \in SUBSET (1..n), u # {}
        PROVE  f[u] = IF s[Max(u)] \in S THEN Append(f[u \ {Max(u)}], s[Max(u)]) ELSE f[u \ {Max(u)}]
    <3>1. Max(u) \in 1..n /\ u \ {Max(u)} \in SUBSET (1..n)
      BY <1>1, <2>2, MaxIsPlace
    <3>2. f[u \ {Max(u)}] \in V /\ f[u] = step[<<f[u \ {Max(u)}], Max(u)>>]
      BY <2>1, <2>2, <3>1 DEF FoldsOver
    <3> HIDE DEF V
    <3> QED
      BY <1>3, <3>1, <3>2
  <2>3. \A u \in SUBSET (1..n) : f[u] = Over(f)[u]
    <3>1. f[{}] = <<>>
      BY <2>1 DEF FoldsOver
    <3> QED
      BY <2>2, <3>1
  <2>4. f = Over(f)
    <3>1. f \in [SUBSET (1..n) -> V]
      BY <2>1 DEF FoldsOver
    <3> HIDE DEF V
    <3> QED
      BY <2>3, <3>1
  <2> HIDE DEF Over
  <2> QED
    BY <2>4
<1> HIDE DEF F
<1>6. F[1..0] = <<>>
  <2>1. 1..0 = {} /\ {} \in SUBSET (1..n)
    OBVIOUS
  <2> QED
    BY <1>5, <2>1
<1>7. ASSUME NEW i \in 1..n, F[1..(i - 1)] \in V PROVE F[1..i] = step[<<F[1..(i - 1)], i>>]
  <2>1. F[1..i] = IF s[i] \in S THEN Append(F[1..(i - 1)], s[i]) ELSE F[1..(i - 1)]
    BY <1>1, <1>5, PrefixStep
  <2> QED
    BY <1>3, <1>7, <2>1
<1> HIDE DEF V, Over
<1>8. RunsOver([i \in 0..n |-> F[1..i]], n, V, <<>>, step)
  BY <1>1, <1>4, <1>6, <1>7, PrefixRun
<1>9. F[1..n] \in V
  <2> DEFINE g == [i \in 0..n |-> F[1..i]]
  <2>1. g \in [0..n -> V] /\ n \in 0..n
    BY <1>1, <1>8 DEF RunsOver
  <2>2. g[n] = F[1..n]
    BY <2>1
  <2> QED
    BY <2>1, <2>2
<1> QED
  BY <1>2, <1>9 DEF V

-----------------------------------------------------------------------------
(* The tour: its legs, their length together, and a point along it.        *)

LegCount == Len(buildTour) - 1
TourLegs == Legs(buildTour)
Places == [x : Int, y : Int]
LegRecords == {leg \in [from : Places, to : Places, length : Nat \ {0}] :
                 Size(leg.to.x - leg.from.x) <= leg.length /\ Size(leg.to.y - leg.from.y) <= leg.length}

\* A leg is as long as it goes in either coordinate.
LEMMA SquareBounds ==
    ASSUME NEW n \in Nat, NEW a \in Int, NEW b \in Nat, n * n >= (a * a) + b
    PROVE  Size(a) <= n
<1>1. PICK k \in Nat : k = Size(a)
  BY DEF Size, Most
<1>2. k * k = a * a
  <2>1. CASE k = a
    BY <2>1
  <2>2. CASE k = -a
    BY <2>2
  <2> QED
    BY <1>1, <2>1, <2>2 DEF Size, Most
<1>3. SUFFICES ASSUME k >= n + 1 PROVE FALSE
  BY <1>1
<1>4. PICK r \in Nat : k = n + 1 + r
  <2>1. k - (n + 1) \in Nat
    BY <1>3
  <2> QED
    BY <2>1
<1>5. k * k = (n * n) + (2 * n) + 1 + (2 * r) + (2 * (n * r)) + (r * r) /\ n * r \in Nat /\ r * r \in Nat
  BY <1>4
<1>6. PICK p \in Nat, q \in Nat, t \in Nat : p = n * r /\ q = r * r /\ t = n * n
  BY <1>5
<1> QED
  BY <1>2, <1>5, <1>6

LEMMA HypotIs ==
    ASSUME NEW dx \in Int, NEW dy \in Int
    PROVE  Hypot(dx, dy) \in Nat /\ Size(dx) <= Hypot(dx, dy) /\ Size(dy) <= Hypot(dx, dy)
<1> DEFINE T == {n \in 0..(Size(dx) + Size(dy)) : n * n >= (dx * dx) + (dy * dy)}
<1>1. PICK a \in Nat, b \in Nat : a = Size(dx) /\ b = Size(dy)
  BY DEF Size, Most
<1>2. a * a = dx * dx /\ b * b = dy * dy
  <2>1. a = dx \/ a = -dx
    BY <1>1 DEF Size, Most
  <2>2. b = dy \/ b = -dy
    BY <1>1 DEF Size, Most
  <2> QED
    BY <2>1, <2>2
<1>3. (a + b) * (a + b) = (a * a) + (2 * (a * b)) + (b * b) /\ a * b \in Nat
  OBVIOUS
<1>4. a + b \in T
  <2>1. (a + b) * (a + b) >= (a * a) + (b * b)
    BY <1>3
  <2> QED
    BY <1>1, <1>2, <2>1
<1>5. T \subseteq Nat
  BY <1>1
<1>6. T # {}
  BY <1>4
<1> HIDE DEF T
<1>7. PICK h \in T : \A y \in T : h <= y
  BY <1>5, <1>6, LeastOf
<1>8. Lowest(T) \in T
  BY <1>7 DEF Lowest
<1>9. Hypot(dx, dy) = Lowest(T)
  BY DEF Hypot, T
<1> DEFINE n == Hypot(dx, dy)
<1>10. n \in Nat /\ n * n >= (dx * dx) + (dy * dy)
  BY <1>5, <1>8, <1>9 DEF T
<1> HIDE DEF n
<1>11. dx * dx \in Nat /\ dy * dy \in Nat
  BY <1>2
<1>12. PICK u \in Nat, v \in Nat : u = dx * dx /\ v = dy * dy
  BY <1>11
<1>13. n * n >= (dx * dx) + v /\ n * n >= (dy * dy) + u
  BY <1>10, <1>12
<1>14. Size(dx) <= n /\ Size(dy) <= n
  BY <1>10, <1>12, <1>13, SquareBounds
<1> QED
  BY <1>10, <1>14 DEF n

LEMMA LegsAre ==
    /\ LegCount \in Nat \ {0} /\ DOMAIN TourLegs = 1..LegCount /\ TourLegs \in [1..LegCount -> LegRecords]
    /\ \A i \in 1..(LegCount - 1) : TourLegs[i].to = TourLegs[i + 1].from
<1>1. buildTour \in Seq(Places) /\ Len(buildTour) \in Nat /\ Len(buildTour) >= 2
  <2>1. buildTour \in Seq(Places) /\ Len(buildTour) >= 2
    BY TourAssumption, Zenon DEF Places
  <2> QED
    BY <2>1
<1>2. LegCount \in Nat \ {0} /\ Len(buildTour) = LegCount + 1
  BY <1>1 DEF LegCount
<1>3. ASSUME NEW i \in 1..LegCount
      PROVE  buildTour[i] \in Places /\ buildTour[i + 1] \in Places
  <2>1. i \in 1..(Len(buildTour) - 1) /\ i \in DOMAIN buildTour /\ i + 1 \in DOMAIN buildTour
    BY <1>1, <1>2
  <2> QED
    BY <1>1, <2>1
<1>4. TourLegs = [i \in 1..LegCount |->
                [from |-> buildTour[i], to |-> buildTour[i + 1],
                 length |-> Most(1, Hypot(buildTour[i + 1].x - buildTour[i].x, buildTour[i + 1].y - buildTour[i].y))]]
  BY DEF TourLegs, Legs, LegCount
<1>5. ASSUME NEW i \in 1..LegCount
      PROVE  /\ TourLegs[i] \in LegRecords
             /\ TourLegs[i].from = buildTour[i] /\ TourLegs[i].to = buildTour[i + 1]
  <2> DEFINE a == buildTour[i]
             b == buildTour[i + 1]
             n == Most(1, Hypot(b.x - a.x, b.y - a.y))
  <2>1. TourLegs[i] = [from |-> a, to |-> b, length |-> n]
    BY <1>4
  <2>2. a \in Places /\ b \in Places
    BY <1>3
  <2> HIDE DEF a, b
  <2>3. n \in Nat \ {0} /\ Size(b.x - a.x) <= n /\ Size(b.y - a.y) <= n
    <3>1. PICK dx \in Int, dy \in Int : dx = b.x - a.x /\ dy = b.y - a.y
      BY <2>2 DEF Places
    <3>2. PICK h \in Nat : h = Hypot(dx, dy) /\ Size(dx) <= h /\ Size(dy) <= h
      BY HypotIs
    <3>3. n = Most(1, h)
      BY <3>1, <3>2
    <3>4. Size(dx) \in Nat /\ Size(dy) \in Nat
      BY DEF Size, Most
    <3> QED
      BY <3>1, <3>2, <3>3, <3>4 DEF Most
  <2> HIDE DEF n
  <2>4. TourLegs[i] \in LegRecords
    BY <2>1, <2>2, <2>3 DEF LegRecords
  <2> QED
    BY <2>1, <2>4 DEF a, b
<1>6. DOMAIN TourLegs = 1..LegCount /\ TourLegs \in [1..LegCount -> LegRecords]
  <2>1. DOMAIN TourLegs = 1..LegCount
    BY <1>4
  <2>2. TourLegs = [i \in 1..LegCount |-> TourLegs[i]]
    BY <1>4
  <2> QED
    BY <1>5, <2>1, <2>2
<1>7. ASSUME NEW i \in 1..(LegCount - 1) PROVE TourLegs[i].to = TourLegs[i + 1].from
  <2>1. i \in 1..LegCount /\ i + 1 \in 1..LegCount
    BY <1>2
  <2> QED
    BY <1>5, <2>1
<1> QED
  BY <1>2, <1>6, <1>7

LEMMA LengthIs == TotalLength(TourLegs) \in Nat \ {0}
<1> DEFINE n == LegCount
           Over(h) == [u \in SUBSET (1..n) |->
                          IF u = {} THEN 0 ELSE h[u \ {Max(u)}] + TourLegs[Max(u)].length]
           F == CHOOSE h : h = Over(h)
           step == [a \in Nat \X (1..n) |-> a[1] + TourLegs[a[2]].length]
<1>1. n \in Nat /\ n # 0 /\ DOMAIN TourLegs = 1..n
  BY LegsAre
<1>2. TotalLength(TourLegs) = F[1..n]
  BY <1>1 DEF TotalLength, FoldLeft, MapThenFoldSet
<1>3. ASSUME NEW i \in 1..n PROVE TourLegs[i].length \in Nat /\ TourLegs[i].length >= 1
  BY LegsAre DEF LegRecords
<1>4. step \in [Nat \X (1..n) -> Nat] /\ 0 \in Nat
  BY <1>3
<1>5. ASSUME NEW v \in Nat, NEW i \in 1..n PROVE step[<<v, i>>] = v + TourLegs[i].length
  OBVIOUS
<1> HIDE DEF step, n
<1>6. F = Over(F)
  <2>1. PICK f : FoldsOver(f, n, Nat, 0, step)
    BY <1>1, <1>4, FoldTable
  <2>2. ASSUME NEW u \in SUBSET (1..n), u # {}
        PROVE  f[u] = f[u \ {Max(u)}] + TourLegs[Max(u)].length
    <3>1. Max(u) \in 1..n /\ u \ {Max(u)} \in SUBSET (1..n)
      BY <1>1, <2>2, MaxIsPlace
    <3>2. f[u \ {Max(u)}] \in Nat /\ f[u] = step[<<f[u \ {Max(u)}], Max(u)>>]
      BY <2>1, <2>2, <3>1 DEF FoldsOver
    <3> QED
      BY <1>5, <3>1, <3>2
  <2>3. f = Over(f)
    <3>1. f \in [SUBSET (1..n) -> Nat] /\ f[{}] = 0
      BY <2>1 DEF FoldsOver
    <3> QED
      BY <2>2, <3>1
  <2> HIDE DEF Over
  <2> QED
    BY <2>3
<1> HIDE DEF F
<1>7. F[1..0] = 0
  <2>1. 1..0 = {} /\ {} \in SUBSET (1..n)
    OBVIOUS
  <2> QED
    BY <1>6, <2>1
<1>8. ASSUME NEW i \in 1..n, F[1..(i - 1)] \in Nat PROVE F[1..i] = step[<<F[1..(i - 1)], i>>]
  <2>1. F[1..i] = F[1..(i - 1)] + TourLegs[i].length
    <3>1. 1..i \in SUBSET (1..n) /\ 1..i # {} /\ Max(1..i) = i /\ (1..i) \ {Max(1..i)} = 1..(i - 1)
      BY <1>1, PrefixStep
    <3>2. F[1..i] = Over(F)[1..i]
      BY <1>6
    <3>3. Over(F)[1..i] = F[(1..i) \ {Max(1..i)}] + TourLegs[Max(1..i)].length
      BY <3>1
    <3> QED
      BY <3>1, <3>2, <3>3
  <2> QED
    BY <1>5, <1>8, <2>1
<1> HIDE DEF Over
<1> DEFINE g == [i \in 0..n |-> F[1..i]]
<1>9. RunsOver(g, n, Nat, 0, step)
  <2> DEFINE V == Nat
             zero == 0
  <2>1. zero \in V /\ F[1..0] = zero /\ step \in [V \X (1..n) -> V] /\ \A i \in 1..n : F[1..(i - 1)] \in V => F[1..i] = step[<<F[1..(i - 1)], i>>]
    BY <1>4, <1>7, <1>8
  <2> HIDE DEF V, zero
  <2>2. RunsOver([i \in 0..n |-> F[1..i]], n, V, zero, step)
    BY <1>1, <2>1, PrefixRun
  <2> QED
    BY <2>2 DEF V, zero
<1>10. g[n] = F[1..n] /\ n \in 1..n /\ n - 1 \in 0..n
  BY <1>1
<1> HIDE DEF g
<1>11. g[n - 1] \in Nat /\ g[n] = step[<<g[n - 1], n>>]
  BY <1>9, <1>10 DEF RunsOver
<1>12. g[n] = g[n - 1] + TourLegs[n].length /\ TourLegs[n].length \in Nat /\ TourLegs[n].length >= 1
  BY <1>3, <1>5, <1>10, <1>11
<1> QED
  BY <1>2, <1>10, <1>11, <1>12

\* A point on a leg, and the walk along one: as positionAt makes them.
On(a, b, done, length) == a + (((b - a) * done) \div length)
Along(w, leg) ==
    IF w.stopped THEN w
    ELSE IF w.left <= leg.length
    THEN [stopped |-> TRUE, left |-> 0,
          x |-> On(leg.from.x, leg.to.x, w.left, leg.length), y |-> On(leg.from.y, leg.to.y, w.left, leg.length)]
    ELSE [stopped |-> FALSE, left |-> w.left - leg.length, x |-> leg.to.x, y |-> leg.to.y]
Walks == [stopped : BOOLEAN, left : Nat, x : Int, y : Int]
Away(distance) == [stopped |-> FALSE, left |-> Most(0, distance), x |-> 0, y |-> 0]
Far(w, v) == Most(Size(v.x - w.x), Size(v.y - w.y))

LEMMA Quotient ==
    ASSUME NEW n \in Nat \ {0}, NEW q \in Int
    PROVE  (n * q) \div n = q
  OBVIOUS

\* A difference of at most n, shared out over n steps: u steps take it no further than u.
LEMMA Share ==
    ASSUME NEW n \in Nat \ {0}, NEW l \in Int, NEW d \in 0..n, NEW e \in 0..n, d <= e, Size(l) <= n
    PROVE  /\ (l * d) \div n \in Int /\ (l * e) \div n \in Int
           /\ ((l * e) \div n) - ((l * d) \div n) <= e - d
           /\ ((l * d) \div n) - ((l * e) \div n) <= e - d
<1>1. PICK a \in Int, b \in Int : a = l * d /\ b = l * e
  OBVIOUS
<1>2. PICK u \in Int, r \in 0..(n - 1) : u = a \div n /\ a = (n * u) + r
  <2>1. a \div n \in Int /\ a % n \in 0..(n - 1) /\ a = (n * (a \div n)) + (a % n)
    OBVIOUS
  <2> QED
    BY <2>1
<1>3. PICK v \in Int, s \in 0..(n - 1) : v = b \div n /\ b = (n * v) + s
  <2>1. b \div n \in Int /\ b % n \in 0..(n - 1) /\ b = (n * (b \div n)) + (b % n)
    OBVIOUS
  <2> QED
    BY <2>1
<1>4. PICK k \in Nat : k = e - d
  OBVIOUS
<1>5. b - a <= n * k /\ a - b <= n * k
  <2>1. l <= n /\ -l <= n
    BY DEF Size, Most
  <2>2. n - l \in Nat /\ n + l \in Nat
    BY <2>1
  <2>3. PICK p \in Nat, q \in Nat : p = n - l /\ q = n + l
    BY <2>2
  <2>4. p * k \in Nat /\ q * k \in Nat
    OBVIOUS
  <2>5. p * k = (n * k) - (l * k) /\ q * k = (n * k) + (l * k)
    BY <2>3
  <2>6. b - a = l * k
    BY <1>1, <1>4
  <2> QED
    BY <2>4, <2>5, <2>6
<1>6. ASSUME NEW m \in Int, n * m <= (n * k) + (n - 1) PROVE m <= k
  <2>1. SUFFICES ASSUME m >= k + 1 PROVE FALSE
    OBVIOUS
  <2>2. PICK t \in Nat : m = k + 1 + t
    <3>1. m - (k + 1) \in Nat
      BY <2>1
    <3> QED
      BY <3>1
  <2>3. n * m = (n * k) + n + (n * t) /\ n * t \in Nat
    BY <2>2
  <2> QED
    BY <1>6, <2>3
<1>7. n * (v - u) = (n * v) - (n * u) /\ n * (u - v) = (n * u) - (n * v)
  OBVIOUS
<1>8. v - u <= k
  <2>1. n * (v - u) <= (n * k) + (n - 1)
    BY <1>2, <1>3, <1>5, <1>7
  <2> QED
    BY <1>6, <2>1
<1>9. u - v <= k
  <2>1. n * (u - v) <= (n * k) + (n - 1)
    BY <1>2, <1>3, <1>5, <1>7
  <2> QED
    BY <1>6, <2>1
<1> QED
  BY <1>1, <1>2, <1>3, <1>4, <1>8, <1>9

LEMMA OnLine ==
    ASSUME NEW a \in Int, NEW b \in Int, NEW n \in Nat \ {0}, Size(b - a) <= n, NEW d \in 0..n, NEW e \in 0..n
    PROVE  /\ On(a, b, d, n) \in Int /\ On(a, b, e, n) \in Int
           /\ Size(On(a, b, e, n) - On(a, b, d, n)) <= Size(e - d)
           /\ Size(b - On(a, b, d, n)) <= n - d
           /\ Size(On(a, b, d, n) - a) <= d
<1>1. PICK l \in Int : l = b - a
  OBVIOUS
<1> DEFINE Off(u) == (l * u) \div n
<1>2. \A u \in 0..n : On(a, b, u, n) = a + Off(u)
  BY <1>1 DEF On
<1>3. \A u, v \in 0..n : u <= v => /\ Off(u) \in Int /\ Off(v) \in Int
                                   /\ Off(v) - Off(u) <= v - u /\ Off(u) - Off(v) <= v - u
  BY <1>1, Share
<1>4. Off(0) = 0 /\ Off(n) = l
  <2>1. l * 0 = 0 /\ 0 \div n = 0 /\ l * n = n * l
    OBVIOUS
  <2>2. (n * l) \div n = l
    BY Quotient
  <2> QED
    BY <2>1, <2>2
<1> HIDE DEF Off
<1>5. 0 \in 0..n /\ n \in 0..n /\ 0 <= d /\ d <= n
  OBVIOUS
<1>6. Off(d) \in Int /\ Off(e) \in Int
  BY <1>3
<1>7. Size(Off(e) - Off(d)) <= Size(e - d)
  <2>1. CASE d <= e
    BY <1>3, <1>6, <2>1 DEF Size, Most
  <2>2. CASE e <= d
    BY <1>3, <1>6, <2>2 DEF Size, Most
  <2> QED
    BY <2>1, <2>2
<1>8. Size(l - Off(d)) <= n - d
  <2>1. Off(n) - Off(d) <= n - d /\ Off(d) - Off(n) <= n - d
    BY <1>3, <1>5
  <2> QED
    BY <1>4, <1>6, <2>1 DEF Size, Most
<1>9. Size(Off(d)) <= d
  <2>1. Off(d) - Off(0) <= d - 0 /\ Off(0) - Off(d) <= d - 0
    BY <1>3, <1>5
  <2> QED
    BY <1>4, <1>6, <2>1 DEF Size, Most
<1>10. On(a, b, d, n) = a + Off(d) /\ On(a, b, e, n) = a + Off(e)
  BY <1>2
<1>11. /\ (a + Off(e)) - (a + Off(d)) = Off(e) - Off(d)
       /\ b - (a + Off(d)) = l - Off(d) /\ (a + Off(d)) - a = Off(d)
  BY <1>1, <1>6
<1> QED
  BY <1>6, <1>7, <1>8, <1>9, <1>10, <1>11

\* Between two points of a leg there is at most what was walked between them.
LEMMA OnLeg ==
    ASSUME NEW leg \in LegRecords, NEW d \in 0..leg.length, NEW e \in 0..leg.length
    PROVE  LET x(u) == On(leg.from.x, leg.to.x, u, leg.length)
               y(u) == On(leg.from.y, leg.to.y, u, leg.length)
           IN /\ x(d) \in Int /\ y(d) \in Int /\ x(e) \in Int /\ y(e) \in Int
              /\ Most(Size(x(e) - x(d)), Size(y(e) - y(d))) <= Size(e - d)
              /\ Most(Size(leg.to.x - x(d)), Size(leg.to.y - y(d))) <= leg.length - d
              /\ Most(Size(x(d) - leg.from.x), Size(y(d) - leg.from.y)) <= d
              /\ Most(Size(leg.to.x - leg.from.x), Size(leg.to.y - leg.from.y)) <= leg.length
<1> DEFINE a == leg.from.x
           b == leg.to.x
           p == leg.from.y
           q == leg.to.y
           n == leg.length
           x(u) == On(a, b, u, n)
           y(u) == On(p, q, u, n)
<1>1. /\ a \in Int /\ b \in Int /\ p \in Int /\ q \in Int /\ n \in Nat \ {0}
      /\ Size(b - a) <= n /\ Size(q - p) <= n
  BY DEF LegRecords, Places
<1> HIDE DEF a, b, p, q, n
<1>2. d \in 0..n /\ e \in 0..n
  BY DEF n
<1>3. /\ x(d) \in Int /\ x(e) \in Int /\ Size(x(e) - x(d)) <= Size(e - d)
      /\ Size(b - x(d)) <= n - d /\ Size(x(d) - a) <= d
  BY <1>1, <1>2, OnLine
<1>4. /\ y(d) \in Int /\ y(e) \in Int /\ Size(y(e) - y(d)) <= Size(e - d)
      /\ Size(q - y(d)) <= n - d /\ Size(y(d) - p) <= d
  BY <1>1, <1>2, OnLine
<1> HIDE DEF x, y
<1>5. /\ x(d) \in Int /\ y(d) \in Int /\ x(e) \in Int /\ y(e) \in Int
      /\ Most(Size(x(e) - x(d)), Size(y(e) - y(d))) <= Size(e - d)
      /\ Most(Size(b - x(d)), Size(q - y(d))) <= n - d
      /\ Most(Size(x(d) - a), Size(y(d) - p)) <= d
      /\ Most(Size(b - a), Size(q - p)) <= n
  BY <1>1, <1>3, <1>4 DEF Most
<1> QED
  BY <1>5 DEF x, y, a, b, p, q, n

LEMMA Triangle ==
    ASSUME NEW u \in Places, NEW v \in Places, NEW w \in Places
    PROVE  /\ Far(u, w) <= Far(u, v) + Far(v, w) /\ Far(u, v) \in Nat /\ Far(v, w) \in Nat /\ Far(u, w) \in Nat
           /\ Far(u, u) = 0
  BY DEF Far, Size, Most, Places

Place(w) == [x |-> w.x, y |-> w.y]

\* Of two walks along the same legs, the second with gap more to go.
Close(w, v, gap) ==
    \/ ~w.stopped /\ ~v.stopped /\ v.left - w.left = gap /\ Place(w) = Place(v)
    \/ w.stopped /\ ~v.stopped /\ Far(Place(w), Place(v)) + v.left <= gap
    \/ w.stopped /\ v.stopped /\ Far(Place(w), Place(v)) <= gap

LEMMA AlongKeeps ==
    ASSUME NEW leg \in LegRecords, NEW w \in Walks, NEW v \in Walks, NEW gap \in Nat, Close(w, v, gap),
           w.stopped /\ ~v.stopped => Place(v) = leg.from
    PROVE  /\ Along(w, leg) \in Walks /\ Along(v, leg) \in Walks
           /\ Close(Along(w, leg), Along(v, leg), gap)
           /\ ~Along(v, leg).stopped => Place(Along(v, leg)) = leg.to
<1> DEFINE n == leg.length
           Spot(d) == [x |-> On(leg.from.x, leg.to.x, d, n), y |-> On(leg.from.y, leg.to.y, d, n)]
           Stop(d) == [stopped |-> TRUE, left |-> 0, x |-> Spot(d).x, y |-> Spot(d).y]
           Go(d) == [stopped |-> FALSE, left |-> d - n, x |-> leg.to.x, y |-> leg.to.y]
<1>1. /\ leg.from \in Places /\ leg.to \in Places /\ n \in Nat \ {0}
      /\ w.left \in Nat /\ v.left \in Nat /\ Place(w) \in Places /\ Place(v) \in Places
  BY DEF LegRecords, Walks, Places, Place
<1>2. ASSUME NEW d \in 0..n
      PROVE  /\ Spot(d) \in Places /\ Far(Spot(d), leg.to) <= n - d /\ Far(leg.from, Spot(d)) <= d
             /\ \A e \in 0..n : Far(Spot(d), Spot(e)) <= Size(e - d)
  BY OnLeg DEF Far, Places
<1>3. Far(leg.from, leg.to) <= n
  <2>1. 0 \in 0..n
    BY <1>1
  <2> QED
    BY <2>1, OnLeg DEF Far
<1>4. \A u \in Walks : Along(u, leg) = IF u.stopped THEN u ELSE IF u.left <= n THEN Stop(u.left) ELSE Go(u.left)
  BY DEF Along
<1>5. \A d \in 0..n : Stop(d) \in Walks /\ Place(Stop(d)) = Spot(d) /\ Stop(d).stopped
  BY <1>2 DEF Walks, Place, Places
<1>6. \A d \in Nat : d > n => /\ Go(d) \in Walks /\ Place(Go(d)) = leg.to /\ ~Go(d).stopped
                              /\ Go(d).left = d - n
  BY <1>1 DEF Walks, Place, Places
<1> HIDE DEF n, Spot, Stop, Go
<1>7. \A u \in Walks : u.left \in Nat /\ (u.left <= n => u.left \in 0..n)
  BY <1>1 DEF Walks
<1>8. CASE ~w.stopped /\ ~v.stopped
  <2>1. v.left = w.left + gap
    BY <1>1, <1>8 DEF Close
  <2>2. CASE v.left <= n
    <3>1. w.left \in 0..n /\ v.left \in 0..n
      BY <1>1, <2>1, <2>2
    <3>2. Along(w, leg) = Stop(w.left) /\ Along(v, leg) = Stop(v.left)
      BY <1>4, <1>8, <3>1
    <3>3. Far(Spot(w.left), Spot(v.left)) <= Size(v.left - w.left) /\ Size(v.left - w.left) = gap
      BY <1>1, <1>2, <2>1, <3>1 DEF Size, Most
    <3>4. Far(Spot(w.left), Spot(v.left)) <= gap
      BY <3>3
    <3> QED
      BY <1>5, <3>1, <3>2, <3>4 DEF Close
  <2>3. CASE v.left > n /\ w.left <= n
    <3>1. w.left \in 0..n
      BY <1>1, <2>3
    <3>2. Along(w, leg) = Stop(w.left) /\ Along(v, leg) = Go(v.left)
      BY <1>1, <1>4, <1>8, <2>3
    <3>3. Far(Spot(w.left), leg.to) <= n - w.left /\ Far(Spot(w.left), leg.to) \in Nat
      BY <1>1, <1>2, <3>1, Triangle
    <3>4. Far(Spot(w.left), leg.to) + (v.left - n) <= gap
      BY <1>1, <2>1, <3>3
    <3> QED
      BY <1>1, <1>5, <1>6, <2>3, <3>1, <3>2, <3>4 DEF Close
  <2>4. CASE w.left > n
    <3>1. v.left > n
      BY <1>1, <2>1, <2>4
    <3>2. Along(w, leg) = Go(w.left) /\ Along(v, leg) = Go(v.left)
      BY <1>1, <1>4, <1>8, <2>4, <3>1
    <3>3. (v.left - n) - (w.left - n) = gap
      BY <1>1, <2>1
    <3> QED
      BY <1>1, <1>6, <2>4, <3>1, <3>2, <3>3 DEF Close
  <2> QED
    BY <1>1, <2>2, <2>3, <2>4
<1>9. CASE w.stopped /\ ~v.stopped
  <2>1. Far(Place(w), leg.from) + v.left <= gap /\ Along(w, leg) = w
    BY <1>4, <1>9 DEF Close
  <2>2. CASE v.left <= n
    <3>1. v.left \in 0..n
      BY <1>1, <2>2
    <3>2. Along(v, leg) = Stop(v.left)
      BY <1>4, <1>9, <3>1
    <3>3. Far(Place(w), Spot(v.left)) <= gap
      <4>1. /\ Far(leg.from, Spot(v.left)) <= v.left
            /\ Far(Place(w), Spot(v.left)) <= Far(Place(w), leg.from) + Far(leg.from, Spot(v.left))
            /\ Far(leg.from, Spot(v.left)) \in Nat /\ Far(Place(w), leg.from) \in Nat /\ Far(Place(w), Spot(v.left)) \in Nat
        BY <1>1, <1>2, <3>1, Triangle
      <4> QED
        BY <1>1, <2>1, <4>1
    <3> QED
      BY <1>5, <1>9, <2>1, <3>1, <3>2, <3>3 DEF Close
  <2>3. CASE v.left > n
    <3>1. Along(v, leg) = Go(v.left)
      BY <1>1, <1>4, <1>9, <2>3
    <3>2. Far(Place(w), leg.to) + (v.left - n) <= gap
      <4>1. /\ Far(Place(w), leg.to) <= Far(Place(w), leg.from) + Far(leg.from, leg.to)
            /\ Far(leg.from, leg.to) \in Nat /\ Far(Place(w), leg.from) \in Nat /\ Far(Place(w), leg.to) \in Nat
        BY <1>1, Triangle
      <4> QED
        BY <1>1, <1>3, <2>1, <4>1
    <3> QED
      BY <1>1, <1>6, <1>9, <2>1, <2>3, <3>1, <3>2 DEF Close
  <2> QED
    BY <1>1, <2>2, <2>3
<1>10. CASE w.stopped /\ v.stopped
  BY <1>4, <1>10
<1> QED
  BY <1>8, <1>9, <1>10 DEF Close

LEMMA AlongTyped ==
    ASSUME NEW w \in Walks, NEW leg \in LegRecords
    PROVE  Along(w, leg) \in Walks
<1>1. Close(w, w, 0) \/ (w.stopped /\ Far(Place(w), Place(w)) <= 0)
  <2>1. w.left - w.left = 0 /\ Place(w) \in Places
    BY DEF Walks, Place, Places
  <2>2. Far(Place(w), Place(w)) = 0
    BY <2>1, Triangle
  <2> QED
    BY <2>1, <2>2 DEF Close
<1>2. Close(w, w, 0)
  BY <1>1 DEF Close
<1> QED
  BY <1>2, AlongKeeps

\* The walk to a distance along the tour, leg by leg.
WalksTo(g, d) == /\ g \in [0..LegCount -> Walks] /\ g[0] = Away(d)
                 /\ \A i \in 1..LegCount : g[i] = Along(g[i - 1], TourLegs[i])

LEMMA WalkExists ==
    ASSUME NEW d \in Int
    PROVE  \E g : WalksTo(g, d) /\ positionAt(TourLegs, d) = Place(g[LegCount])
<1> DEFINE n == LegCount
           V == Walks
           zero == Away(d)
           Over(h) == [u \in SUBSET (1..n) |->
                          IF u = {} THEN zero ELSE Along(h[u \ {Max(u)}], TourLegs[Max(u)])]
           F == CHOOSE h : h = Over(h)
           step == [a \in V \X (1..n) |-> Along(a[1], TourLegs[a[2]])]
<1>1. n \in Nat /\ n # 0 /\ DOMAIN TourLegs = 1..n
  BY LegsAre
<1>2. positionAt(TourLegs, d) = Place(F[1..n])
  BY <1>1, Zenon DEF positionAt, FoldLeft, MapThenFoldSet, Along, On, Away, Place
<1>3. \A i \in 1..n : TourLegs[i] \in LegRecords
  BY LegsAre
<1>4. zero \in V
  BY DEF Away, Walks, Most
<1> HIDE DEF V, zero
<1>5. ASSUME NEW v \in V, NEW i \in 1..n
      PROVE  step[<<v, i>>] = Along(v, TourLegs[i]) /\ step[<<v, i>>] \in V
  <2>1. step[<<v, i>>] = Along(v, TourLegs[i])
    OBVIOUS
  <2>2. Along(v, TourLegs[i]) \in V
    BY <1>3, AlongTyped DEF V
  <2> QED
    BY <2>1, <2>2
<1>6. step \in [V \X (1..n) -> V]
  <2>1. \A a \in V \X (1..n) : a = <<a[1], a[2]>> /\ a[1] \in V /\ a[2] \in 1..n
    OBVIOUS
  <2>2. \A a \in V \X (1..n) : step[a] \in V
    BY <1>5, <2>1
  <2> QED
    BY <2>2
<1> HIDE DEF step, n
<1>7. F = Over(F)
  <2>1. PICK f : FoldsOver(f, n, V, zero, step)
    BY <1>1, <1>4, <1>6, FoldTable
  <2>2. ASSUME NEW u \in SUBSET (1..n), u # {}
        PROVE  f[u] = Along(f[u \ {Max(u)}], TourLegs[Max(u)])
    <3>1. Max(u) \in 1..n /\ u \ {Max(u)} \in SUBSET (1..n)
      BY <1>1, <2>2, MaxIsPlace
    <3>2. f[u \ {Max(u)}] \in V /\ f[u] = step[<<f[u \ {Max(u)}], Max(u)>>]
      BY <2>1, <2>2, <3>1 DEF FoldsOver
    <3> QED
      BY <1>5, <3>1, <3>2
  <2>3. f = Over(f)
    <3>1. f \in [SUBSET (1..n) -> V] /\ f[{}] = zero
      BY <2>1 DEF FoldsOver
    <3>2. \A u \in SUBSET (1..n) : f[u] = Over(f)[u]
      BY <2>2, <3>1
    <3> QED
      BY <3>1, <3>2
  <2> HIDE DEF Over
  <2> QED
    BY <2>3
<1> HIDE DEF F
<1>8. F[1..0] = zero
  <2>1. 1..0 = {} /\ {} \in SUBSET (1..n)
    OBVIOUS
  <2> QED
    BY <1>7, <2>1
<1>9. ASSUME NEW i \in 1..n PROVE F[1..i] = Along(F[1..(i - 1)], TourLegs[i])
  <2>1. 1..i \in SUBSET (1..n) /\ 1..i # {} /\ Max(1..i) = i /\ (1..i) \ {Max(1..i)} = 1..(i - 1)
    BY <1>1, PrefixStep
  <2>2. F[1..i] = Over(F)[1..i]
    BY <1>7
  <2>3. Over(F)[1..i] = Along(F[(1..i) \ {Max(1..i)}], TourLegs[Max(1..i)])
    BY <2>1
  <2> QED
    BY <2>1, <2>2, <2>3
<1> HIDE DEF Over
<1>10. ASSUME NEW i \in 1..n, F[1..(i - 1)] \in V PROVE F[1..i] = step[<<F[1..(i - 1)], i>>]
  BY <1>5, <1>9, <1>10
<1> DEFINE g == [i \in 0..n |-> F[1..i]]
<1>11. RunsOver(g, n, V, zero, step)
  BY <1>1, <1>4, <1>6, <1>8, <1>10, PrefixRun
<1>12. g[n] = F[1..n] /\ \A i \in 1..n : g[i] = F[1..i] /\ g[i - 1] = F[1..(i - 1)]
  BY <1>1
<1> HIDE DEF g
<1>13. WalksTo(g, d)
  BY <1>9, <1>11, <1>12 DEF RunsOver, WalksTo, n, V, zero
<1> QED
  BY <1>2, <1>12, <1>13 DEF n

\* Between two distances there is no more than what lies between them.
LEMMA FurtherOn ==
    ASSUME NEW d \in Int, NEW e \in Int, d <= e
    PROVE  /\ positionAt(TourLegs, d) \in Places /\ positionAt(TourLegs, e) \in Places
           /\ Far(positionAt(TourLegs, d), positionAt(TourLegs, e)) <= e - d
<1>1. PICK g : WalksTo(g, d) /\ positionAt(TourLegs, d) = Place(g[LegCount])
  BY WalkExists
<1>2. PICK h : WalksTo(h, e) /\ positionAt(TourLegs, e) = Place(h[LegCount])
  BY WalkExists
<1>3. LegCount \in Nat \ {0} /\ \A i \in 1..LegCount : TourLegs[i] \in LegRecords
  BY LegsAre
<1> DEFINE gap == Most(0, e) - Most(0, d)
           OK(i) == /\ Close(g[i], h[i], gap)
                    /\ i = 0 => ~g[i].stopped
                    /\ i > 0 /\ ~h[i].stopped => Place(h[i]) = TourLegs[i].to
<1>4. gap \in Nat /\ gap <= e - d
  BY DEF Most
<1>5. \A i \in 0..LegCount : g[i] \in Walks /\ h[i] \in Walks
  BY <1>1, <1>2 DEF WalksTo
<1>6. OK(0)
  <2>1. g[0] = Away(d) /\ h[0] = Away(e)
    BY <1>1, <1>2 DEF WalksTo
  <2>2. /\ ~Away(d).stopped /\ ~Away(e).stopped /\ Place(Away(d)) = Place(Away(e))
        /\ Away(e).left - Away(d).left = gap
    BY DEF Away, Place
  <2> QED
    BY <2>1, <2>2 DEF Close
<1> HIDE DEF gap
<1>7. ASSUME NEW i \in 1..LegCount, OK(i - 1) PROVE OK(i)
  <2>1. /\ g[i] = Along(g[i - 1], TourLegs[i]) /\ h[i] = Along(h[i - 1], TourLegs[i])
        /\ i - 1 \in 0..LegCount /\ TourLegs[i] \in LegRecords /\ g[i - 1] \in Walks /\ h[i - 1] \in Walks
    <3>1. i - 1 \in 0..LegCount
      BY <1>3
    <3> QED
      BY <1>1, <1>2, <1>3, <1>5, <3>1 DEF WalksTo
  <2>2. g[i - 1].stopped /\ ~h[i - 1].stopped => Place(h[i - 1]) = TourLegs[i].from
    <3> SUFFICES ASSUME g[i - 1].stopped, ~h[i - 1].stopped PROVE Place(h[i - 1]) = TourLegs[i].from
      OBVIOUS
    <3>1. i - 1 # 0
      BY <1>7
    <3>2. i - 1 \in 1..(LegCount - 1) /\ (i - 1) + 1 = i
      BY <1>3, <3>1
    <3>3. TourLegs[i - 1].to = TourLegs[i].from
      BY <3>2, LegsAre
    <3> QED
      BY <1>7, <3>2, <3>3
  <2>3. Close(g[i], h[i], gap) /\ (~h[i].stopped => Place(h[i]) = TourLegs[i].to)
    BY <1>4, <1>7, <2>1, <2>2, AlongKeeps
  <2> QED
    BY <2>3
<1> HIDE DEF OK
<1>8. OK(LegCount)
  <2> DEFINE T == {i \in 0..LegCount : ~OK(i)}
  <2>1. SUFFICES ASSUME T # {} PROVE FALSE
    BY <1>3
  <2>2. PICK x \in T : \A y \in T : x <= y
    <3>1. T \subseteq Nat
      OBVIOUS
    <3> HIDE DEF T
    <3> QED
      BY <2>1, <3>1, LeastOf
  <2>3. x # 0 /\ x \in 1..LegCount /\ x - 1 \in 0..LegCount /\ x - 1 \notin T
    BY <1>3, <1>6, <2>2
  <2> QED
    BY <1>7, <2>2, <2>3
<1>9. g[LegCount] \in Walks /\ h[LegCount] \in Walks
  BY <1>3, <1>5
<1> DEFINE w == g[LegCount]
           v == h[LegCount]
<1>10. Place(w) \in Places /\ Place(v) \in Places /\ v.left \in Nat /\ Close(w, v, gap)
  BY <1>8, <1>9 DEF OK, Walks, Place, Places
<1> HIDE DEF w, v
<1>11. Far(Place(w), Place(v)) <= gap
  <2>1. Far(Place(w), Place(v)) \in Nat /\ Far(Place(v), Place(v)) = 0
    BY <1>10, Triangle
  <2> QED
    BY <1>4, <1>10, <2>1 DEF Close
<1>12. Far(Place(w), Place(v)) \in Nat
  BY <1>10, Triangle
<1> QED
  BY <1>1, <1>2, <1>4, <1>10, <1>11, <1>12 DEF w, v

-----------------------------------------------------------------------------
(* What the stub gives at a tic.                                           *)

\* How far along the tour at a tic, there and back.
TourLength == TotalLength(TourLegs)
TravelOf(t) == LET d == (t * WalkSpeed) % (2 * TourLength)
               IN IF d < TourLength THEN [at |-> d, way |-> 1] ELSE [at |-> (2 * TourLength) - d, way |-> -1]

LEMMA TurnsBack ==
    ASSUME NEW t \in Nat
    PROVE  /\ TravelOf(t).at \in Int /\ TravelOf(t).way \in {1, -1}
           /\ Size(TravelOf(t + 1).at - TravelOf(t).at) <= WalkSpeed
<1> DEFINE l == TourLength
           m == 2 * l
           w == WalkSpeed
           x == (t * w) % m
           y == ((t + 1) * w) % m
           at(d) == IF d < l THEN d ELSE m - d
<1>1. l \in Nat \ {0} /\ w \in Nat \ {0} /\ m \in Nat \ {0}
  BY LengthIs, SceneSizes DEF TourLength
<1>2. TravelOf(t).at = at(x) /\ TravelOf(t + 1).at = at(y) /\ TravelOf(t).way \in {1, -1}
  BY DEF TravelOf
<1> HIDE DEF w
<1>3. t * w \in Int /\ (t + 1) * w = (t * w) + w
  BY <1>1
<1> DEFINE q == (t * w) \div m
<1>4. x \in 0..(m - 1) /\ q \in Int /\ t * w = x + (q * m)
  <2> DEFINE a == t * w
  <2>1. a \in Int
    BY <1>3
  <2> HIDE DEF a, m
  <2> QED
    BY <1>1, <2>1 DEF a
<1> HIDE DEF q, l
<1>5. CASE w >= l
  <2>1. y \in 0..(m - 1)
    <3> DEFINE a == (t + 1) * w
    <3>1. a \in Int
      BY <1>1, <1>3
    <3> HIDE DEF a, m
    <3> QED
      BY <1>1, <3>1 DEF a
  <2> HIDE DEF x, y
  <2> QED
    BY <1>1, <1>2, <1>4, <1>5, <2>1 DEF Size, Most, w
<1>6. CASE w < l
  <2>1. CASE x + w < m
    <3>1. y = x + w
      <4>1. (t + 1) * w = (x + w) + (q * m) /\ x + w \in 0..(m - 1) /\ (t + 1) * w \in Int
        BY <1>1, <1>3, <1>4, <2>1
      <4> DEFINE a == (t + 1) * w
                 b == x + w
      <4>2. a \in Int /\ b \in 0..(m - 1) /\ a = b + (q * m)
        BY <4>1
      <4> HIDE DEF a, b, m
      <4>3. a % m = b
        BY <1>1, <1>4, <4>2, RemainderIs
      <4> QED
        BY <4>3 DEF a, b, m
    <3> HIDE DEF x, y
    <3> QED
      BY <1>1, <1>2, <1>4, <1>6, <2>1, <3>1 DEF Size, Most, w
  <2>2. CASE x + w >= m
    <3>1. y = x + w - m
      <4> DEFINE a == (t + 1) * w
                 b == x + w - m
                 r == q + 1
      <4>1. (q + 1) * m = (q * m) + m /\ q * m \in Int
        <5> HIDE DEF m
        <5> QED
          BY <1>1, <1>4
      <4>2. a \in Int /\ b \in 0..(m - 1) /\ a = b + (r * m) /\ r \in Int
        BY <1>1, <1>3, <1>4, <1>6, <2>2, <4>1
      <4> HIDE DEF a, b, m, r
      <4>3. a % m = b
        BY <1>1, <4>2, RemainderIs
      <4> QED
        BY <4>3 DEF a, b, m
    <3> HIDE DEF x, y
    <3> QED
      BY <1>1, <1>2, <1>4, <1>6, <2>2, <3>1 DEF Size, Most, w
  <2> QED
    BY <1>1, <1>4, <2>1, <2>2
<1> QED
  <2>1. TravelOf(t).at \in Int
    <3> HIDE DEF x
    <3> QED
      BY <1>1, <1>2, <1>4
  <2> QED
    BY <1>1, <1>2, <1>5, <1>6, <2>1 DEF w

LEMMA CountsOn ==
    ASSUME NEW m \in Nat \ {0}, NEW t \in Nat
    PROVE  t % m \in 0..(m - 1) /\ (t + 1) % m = IF (t % m) + 1 < m THEN (t % m) + 1 ELSE 0
<1>1. t % m \in 0..(m - 1) /\ t \div m \in Int /\ t = (t % m) + ((t \div m) * m)
  OBVIOUS
<1>2. PICK x \in 0..(m - 1), q \in Int : t % m = x /\ t = x + (q * m)
  BY <1>1
<1>3. PICK e \in Int : e = t + 1
  OBVIOUS
<1>4. CASE x + 1 < m
  <2>1. PICK v \in 0..(m - 1) : v = x + 1
    BY <1>4
  <2>2. e = v + (q * m)
    BY <1>2, <1>3, <2>1
  <2>3. e % m = v
    BY <2>2, RemainderIs
  <2> QED
    BY <1>2, <1>3, <1>4, <2>1, <2>3
<1>5. CASE ~(x + 1 < m)
  <2>1. PICK v \in 0..(m - 1), r \in Int : v = 0 /\ r = q + 1
    OBVIOUS
  <2>2. (q + 1) * m = (q * m) + m /\ q * m \in Int /\ x + 1 = m
    BY <1>5
  <2>3. e = v + (r * m)
    BY <1>2, <1>3, <2>1, <2>2
  <2>4. e % m = v
    BY <2>3, RemainderIs
  <2> QED
    BY <1>2, <1>3, <1>5, <2>1, <2>4
<1> QED
  BY <1>4, <1>5

LEMMA DoorMoves ==
    ASSUME NEW door, door.open \in Int, door.closed \in Int, door.closed <= door.open, NEW t \in Nat
    PROVE  /\ doorCeiling(door, t) \in Int
           /\ Size(doorCeiling(door, t + 1) - doorCeiling(door, t)) <= 2
<1> DEFINE a == door.closed
           b == door.open
           n == (Most(0, b - a) + 1) \div 2
           m == (n * 2) + 150 + 70
           High(u) == IF u < 70 THEN a
                    ELSE IF u < 70 + n THEN a + (2 * (u - 70))
                    ELSE IF u < 70 + n + 150 THEN b
                    ELSE Most(a, b - (2 * (u - (70 + n + 150))))
           x == t % m
           y == (t + 1) % m
<1>1. doorCeiling(door, t) = High(x) /\ doorCeiling(door, t + 1) = High(y)
  BY DEF doorCeiling
<1>2. a \in Int /\ b \in Int /\ a <= b
  OBVIOUS
<1> HIDE DEF a, b
<1>3. n \in Nat /\ (2 * n = b - a \/ 2 * n = b - a + 1)
  BY <1>2 DEF Most
<1> HIDE DEF n
<1>4. m \in Nat \ {0} /\ m = (2 * n) + 220
  BY <1>3
<1> HIDE DEF m
<1>5. x \in 0..(m - 1) /\ y = IF x + 1 < m THEN x + 1 ELSE 0
  <2>1. PICK k \in Nat \ {0} : k = m
    BY <1>4
  <2>2. t % k \in 0..(k - 1) /\ (t + 1) % k = IF (t % k) + 1 < k THEN (t % k) + 1 ELSE 0
    BY CountsOn
  <2> QED
    BY <2>1, <2>2
<1> HIDE DEF x, y
<1>6. High(x) \in Int /\ Size(High(y) - High(x)) <= 2
  BY <1>2, <1>3, <1>4, <1>5 DEF Most, Size
<1> QED
  BY <1>1, <1>6

-----------------------------------------------------------------------------
(* What the stub knows of the level.                                       *)

SectorRecords == [floor : Int, ceiling : Int, light : Int, special : Nat, tag : Nat, sky : BOOLEAN]

LEMMA SectorsAre ==
    /\ Map.sectors \in Seq(SectorRecords) /\ Len(Map.sectors) \in Nat /\ SectorIds = 1..Len(Map.sectors)
    /\ \A s \in SectorIds : Map.sectors[s] \in SectorRecords
<1>1. Map.sectors \in Seq(SectorRecords)
  BY MapAssumption, Zenon DEF SectorRecords
<1> QED
  BY <1>1 DEF SectorIds

\* The door is a sector that may move, and it opens upwards.
LEMMA DoorIs ==
    ASSUME findDoor # NONE
    PROVE  /\ findDoor.sector \in SectorIds /\ findDoor.sector \in findDynamicSectors
           /\ findDoor.floor = Map.sectors[findDoor.sector].floor /\ findDoor.floor \in Int
           /\ findDoor.closed \in Int /\ findDoor.open \in Int /\ findDoor.closed <= findDoor.open
<1> DEFINE Neighbours(s) == {SectorOfSide(Map.lines[i].front) : i \in {j \in DOMAIN Map.lines : SectorOfSide(Map.lines[j].back) = s}}
                            \cup {SectorOfSide(Map.lines[i].back) : i \in {j \in DOMAIN Map.lines : SectorOfSide(Map.lines[j].front) = s}}
           Around(s) == {Map.sectors[n].ceiling : n \in Neighbours(s) \ {0, s}}
           IsDoor(l) == l.special \in {1, 117} /\ l.back # 0 /\ Around(SectorOfSide(l.back)) # {}
           doors == {i \in DOMAIN Map.lines : IsDoor(Map.lines[i])}
           first == Lowest(doors)
           s == SectorOfSide(Map.lines[first].back)
<1>1. doors # {} /\ findDoor = [sector |-> s, floor |-> Map.sectors[s].floor, closed |-> Map.sectors[s].ceiling,
                                open |-> Lowest(Around(s)) - 4]
  BY DEF findDoor
<1>2. \A i \in doors : i \in DOMAIN Map.lines /\ Map.lines[i].special \in {1, 117} /\ Map.lines[i].back # 0
  OBVIOUS
<1> HIDE DEF doors
<1>3. first \in doors
  <2>1. doors \subseteq Nat
    BY <1>2, LinesAre
  <2>2. \E x \in doors : \A y \in doors : x <= y
    BY <1>1, <2>1, LeastOf
  <2> QED
    BY <2>2 DEF Lowest
<1> HIDE DEF first
<1>4. /\ first \in DOMAIN Map.lines /\ Map.lines[first].special \in {1, 117} /\ Map.lines[first].back # 0
      /\ s \in SectorIds /\ Map.lines[first].tag = 0
  <2>1. first \in DOMAIN Map.lines /\ Map.lines[first].special \in {1, 117} /\ Map.lines[first].back # 0
    BY <1>2, <1>3
  <2>2. s \in SectorIds
    BY <2>1, SidesOfLine
  <2>3. \A i \in DOMAIN Map.lines : Map.lines[i].special \in {1, 117} => Map.lines[i].tag = 0
    BY DoorAssumption, Zenon
  <2> QED
    BY <2>1, <2>2, <2>3
<1>5. s \in findDynamicSectors
  <2>1. Map.lines[first].special # 0 /\ s # 0
    BY <1>4 DEF SectorIds
  <2> DEFINE Of(l) == IF l.special = 0 THEN {}
                      ELSE IF l.tag # 0 THEN {u \in SectorIds : Map.sectors[u].tag = l.tag}
                      ELSE {SectorOfSide(l.back)} \ {0}
  <2>2. s \in Of(Map.lines[first])
    BY <1>4, <2>1
  <2>3. \A i \in DOMAIN Map.lines : Of(Map.lines[i]) \subseteq findDynamicSectors
    BY DEF findDynamicSectors
  <2> HIDE DEF Of
  <2> QED
    BY <1>4, <2>2, <2>3
<1> HIDE DEF s
<1>6. Map.sectors[s].floor \in Int /\ Map.sectors[s].ceiling \in Int
  <2>1. Map.sectors[s] \in SectorRecords
    BY <1>4, SectorsAre
  <2> QED
    BY <2>1 DEF SectorRecords
<1>7. findDoor.open \in Int /\ findDoor.closed <= findDoor.open
  BY DoorAssumption, Zenon
<1> QED
  BY <1>1, <1>4, <1>5, <1>6, <1>7

LEMMA NoDoor ==
    findDoor = NONE => findDoor.sector = 0
  BY DEF NONE

\* The sectors whose light the stub changes, and their rows and that of the door at a tic.
Lights == Filtered([i \in SectorIds |-> i],
                   {i \in SectorIds : Map.sectors[i].special \in (Blinking \cup {4}) /\ i # findDoor.sector})
LightRow(i, t) == [index |-> i, floor |-> Map.sectors[i].floor, ceiling |-> Map.sectors[i].ceiling,
                   light |-> blinkLight(Map.sectors[i].special, Map.sectors[i].light, i, t)]
LightRows(t) == [i \in DOMAIN Lights |-> LightRow(Lights[i], t)]
DoorRow(t) == [index |-> findDoor.sector, floor |-> findDoor.floor, ceiling |-> doorCeiling(findDoor, t),
               light |-> Map.sectors[findDoor.sector].light]
DoorRows(t) == IF findDoor = NONE THEN <<>> ELSE <<DoorRow(t)>>
SectorsOf(t) == DoorRows(t) \o LightRows(t)

LEMMA LightsAre ==
    /\ Lights \in Seq(SectorIds) /\ Len(Lights) \in Nat /\ DOMAIN Lights = 1..Len(Lights)
    /\ \A i \in DOMAIN Lights : Lights[i] \in SectorIds
<1> DEFINE all == [i \in SectorIds |-> i]
           S == {i \in SectorIds : Map.sectors[i].special \in (Blinking \cup {4}) /\ i # findDoor.sector}
           D == SectorIds
<1>1. all \in Seq(D)
  BY SectorsAre
<1>2. Lights = Filtered(all, S)
  BY DEF Lights
<1> HIDE DEF all, S, D
<1>3. Lights \in Seq(D \cap S)
  BY <1>1, <1>2, FilteredIs
<1>4. Lights \in Seq(D)
  BY <1>3
<1> QED
  BY <1>4 DEF D

LEMMA BlinkingLight ==
    ASSUME NEW special \in Nat, NEW base \in Int, NEW s \in Nat, NEW t \in Nat
    PROVE  blinkLight(special, base, s, t) \in Int
<1> DEFINE L == blinkLight(special, base, s, t)
           dim == Most(0, base - 96)
<1>1. dim \in Int
  BY DEF Most
<1>2. CASE special = 1
  <2>1. L \in {dim, base}
    BY <1>2 DEF blinkLight
  <2> QED
    BY <1>1, <2>1
<1>3. CASE special \in {2, 4, 13}
  <2>1. L \in {dim, base}
    BY <1>3 DEF blinkLight
  <2> QED
    BY <1>1, <2>1
<1>4. CASE special \in {3, 12}
  <2>1. L \in {dim, base}
    BY <1>4 DEF blinkLight
  <2> QED
    BY <1>1, <2>1
<1>5. CASE special = 8
  <2>1. L = base - ((60 * (64 - Size((t % 128) - 64))) \div 64)
    BY <1>5 DEF blinkLight
  <2> QED
    BY <2>1 DEF Size, Most
<1>6. CASE special = 17
  BY <1>6 DEF blinkLight, Least
<1>7. CASE special \notin {1, 2, 4, 13, 3, 12, 8, 17}
  BY <1>7 DEF blinkLight
<1> QED
  BY <1>2, <1>3, <1>4, <1>5, <1>6, <1>7

LEMMA LightRowIs ==
    ASSUME NEW s \in SectorIds, NEW t \in Nat
    PROVE  LightRow(s, t) \in SectorRows
<1>1. Map.sectors[s] \in SectorRecords /\ s \in Nat
  BY SectorsAre
<1>2. /\ Map.sectors[s].floor \in Int /\ Map.sectors[s].ceiling \in Int
      /\ Map.sectors[s].special \in Nat /\ Map.sectors[s].light \in Int
  BY <1>1 DEF SectorRecords
<1> DEFINE special == Map.sectors[s].special
           base == Map.sectors[s].light
           light == blinkLight(special, base, s, t)
<1>3. light \in Int
  <2>1. special \in Nat /\ base \in Int
    BY <1>2
  <2> HIDE DEF special, base
  <2> QED
    BY <1>1, <2>1, BlinkingLight
<1>4. LightRow(s, t) = [index |-> s, floor |-> Map.sectors[s].floor, ceiling |-> Map.sectors[s].ceiling, light |-> light]
  BY DEF LightRow
<1> HIDE DEF light
<1> QED
  BY <1>2, <1>3, <1>4 DEF SectorRows

LEMMA DoorRowIs ==
    ASSUME findDoor # NONE, NEW t \in Nat
    PROVE  /\ DoorRow(t) \in SectorRows /\ DoorRow(t).index \in findDynamicSectors
           /\ Size(DoorRow(t + 1).ceiling - DoorRow(t).ceiling) <= 2
<1> DEFINE door == findDoor
<1>1. /\ door.sector \in SectorIds /\ door.sector \in findDynamicSectors /\ door.floor \in Int
      /\ door.closed \in Int /\ door.open \in Int /\ door.closed <= door.open
  BY DoorIs
<1>2. Map.sectors[door.sector].light \in Int
  <2>1. Map.sectors[door.sector] \in SectorRecords
    BY <1>1, SectorsAre
  <2> QED
    BY <2>1 DEF SectorRecords
<1>3. \A u : DoorRow(u) = [index |-> door.sector, floor |-> door.floor, ceiling |-> doorCeiling(door, u),
                            light |-> Map.sectors[door.sector].light]
  BY DEF DoorRow
<1> HIDE DEF door
<1>4. doorCeiling(door, t) \in Int /\ Size(doorCeiling(door, t + 1) - doorCeiling(door, t)) <= 2
  BY <1>1, DoorMoves
<1>5. DoorRow(t) \in SectorRows
  BY <1>1, <1>2, <1>3, <1>4 DEF SectorRows
<1> QED
  BY <1>1, <1>3, <1>4, <1>5

\* From one tic to the next the rows are the same sectors, and move at most two units.
LEMMA SectorsOfTic ==
    ASSUME NEW t \in Nat
    PROVE  /\ SectorsOf(t) \in Seq(SectorRows)
           /\ \A i \in DOMAIN SectorsOf(t) : LET s == SectorsOf(t)[i] IN
                 \/ s.index \in findDynamicSectors
                 \/ s.floor = Map.sectors[s.index].floor /\ s.ceiling = Map.sectors[s.index].ceiling
           /\ \A i \in DOMAIN SectorsOf(t) : Size(SectorsOf(t + 1)[i].ceiling - SectorsOf(t)[i].ceiling) <= 2
<1> DEFINE n == Len(Lights)
           Rows(u) == LightRows(u)
           d == IF findDoor = NONE THEN 0 ELSE 1
           OK(s) == \/ s.index \in findDynamicSectors
                    \/ s.floor = Map.sectors[s.index].floor /\ s.ceiling = Map.sectors[s.index].ceiling
<1>1. n \in Nat /\ d \in {0, 1} /\ t + 1 \in Nat
  BY LightsAre
<1>2. ASSUME NEW u \in Nat
      PROVE  /\ Rows(u) \in Seq(SectorRows) /\ Len(Rows(u)) = n
             /\ \A i \in 1..n : /\ Rows(u)[i] \in SectorRows /\ OK(Rows(u)[i])
                                /\ Rows(u)[i].ceiling = Map.sectors[Lights[i]].ceiling
  <2>1. \A i \in 1..n : Lights[i] \in SectorIds /\ LightRow(Lights[i], u) \in SectorRows
    BY LightsAre, LightRowIs
  <2>2. Rows(u) = [i \in 1..n |-> LightRow(Lights[i], u)]
    BY LightsAre DEF LightRows
  <2>3. \A i \in 1..n : LET r == LightRow(Lights[i], u)
                        IN OK(r) /\ r.ceiling = Map.sectors[Lights[i]].ceiling
    BY DEF LightRow
  <2> HIDE DEF n, OK, Rows
  <2> QED
    BY <1>1, <2>1, <2>2, <2>3
<1>3. ASSUME NEW u \in Nat
      PROVE  /\ DoorRows(u) \in Seq(SectorRows) /\ Len(DoorRows(u)) = d
             /\ d = 1 => OK(DoorRows(u)[1]) /\ DoorRows(u)[1] = DoorRow(u)
  <2>1. CASE findDoor = NONE
    BY <2>1 DEF DoorRows
  <2>2. CASE findDoor # NONE
    <3>1. DoorRow(u) \in SectorRows /\ OK(DoorRow(u))
      BY <2>2, DoorRowIs
    <3>2. DoorRows(u) = <<DoorRow(u)>>
      BY <2>2 DEF DoorRows
    <3> QED
      BY <2>2, <3>1, <3>2
  <2> QED
    BY <2>1, <2>2
<1> HIDE DEF Rows, n, OK
<1>4. ASSUME NEW u \in Nat
      PROVE  /\ SectorsOf(u) \in Seq(SectorRows) /\ DOMAIN SectorsOf(u) = 1..(d + n)
             /\ \A i \in 1..(d + n) : SectorsOf(u)[i] = IF i <= d THEN DoorRows(u)[i] ELSE Rows(u)[i - d]
  <2>1. SectorsOf(u) = DoorRows(u) \o Rows(u)
    BY DEF SectorsOf, Rows
  <2>2. /\ DoorRows(u) \in Seq(SectorRows) /\ Len(DoorRows(u)) = d /\ Rows(u) \in Seq(SectorRows) /\ Len(Rows(u)) = n
    BY <1>2, <1>3
  <2> HIDE DEF d
  <2> QED
    BY <1>1, <2>1, <2>2
<1>5. ASSUME NEW i \in 1..(d + n) PROVE IF i <= d THEN i = 1 /\ d = 1 ELSE i - d \in 1..n
  BY <1>1
<1>6. \A i \in DOMAIN SectorsOf(t) : OK(SectorsOf(t)[i])
  <2> HIDE DEF d
  <2> QED
    BY <1>2, <1>3, <1>4, <1>5
<1>7. ASSUME NEW i \in DOMAIN SectorsOf(t) PROVE Size(SectorsOf(t + 1)[i].ceiling - SectorsOf(t)[i].ceiling) <= 2
  <2>1. i \in 1..(d + n)
    BY <1>4
  <2>2. CASE i <= d
    <3>1. i = 1 /\ d = 1 /\ findDoor # NONE
      BY <1>5, <2>1, <2>2
    <3>2. SectorsOf(t)[i] = DoorRow(t) /\ SectorsOf(t + 1)[i] = DoorRow(t + 1)
      <4> HIDE DEF d
      <4> QED
        BY <1>1, <1>3, <1>4, <2>1, <2>2, <3>1
    <3> QED
      BY <3>1, <3>2, DoorRowIs
  <2>3. CASE ~(i <= d)
    <3>1. i - d \in 1..n
      BY <1>5, <2>1, <2>3
    <3>2. SectorsOf(t)[i].ceiling = SectorsOf(t + 1)[i].ceiling /\ SectorsOf(t)[i] \in SectorRows
      <4> HIDE DEF d
      <4>1. PICK j \in 1..n, u \in Nat : j = i - d /\ u = t + 1
        BY <1>1, <3>1
      <4>2. SectorsOf(t)[i] = Rows(t)[j] /\ SectorsOf(u)[i] = Rows(u)[j]
        BY <1>4, <2>1, <2>3, <4>1
      <4> QED
        BY <1>2, <4>1, <4>2
    <3> QED
      BY <3>2 DEF SectorRows, Size, Most
  <2> QED
    BY <2>2, <2>3
<1> QED
  BY <1>4, <1>6, <1>7 DEF OK

-----------------------------------------------------------------------------
(* The things of the stub, and its player.                                 *)

LEMMA PointIsIn ==
    ASSUME NEW p
    PROVE  pointInSector(p) \in SectorIds \cup {0} /\ pointInSector(p) \in Nat
<1>1. pointInSector(p) \in SectorIds \cup {0}
  BY DEF pointInSector
<1> QED
  BY <1>1, SectorsAre

ThingRecords == [type : Int, x : Int, y : Int, angle : Angles, skills : SUBSET Nat, multiplayer : BOOLEAN]
InfoRecords == [drawable : BOOLEAN, hangs : BOOLEAN, height : Int, frames : Seq(Int) \ {<<>>},
                ticsPerFrame : Nat \ {0}, fullbright : BOOLEAN, counts : {"kill", "item", "none"}]
StandIns == [id : Nat, type : DOMAIN MobjInfo, x : Int, y : Int, angle : Angles, sector : Nat, z : Int,
             teleported : BOOLEAN, fullbright : BOOLEAN]

LEMMA ThingsAre ==
    /\ Map.things \in Seq(ThingRecords) /\ DOMAIN MobjInfo \subseteq Int
    /\ \A type \in DOMAIN MobjInfo : MobjInfo[type] \in InfoRecords
<1>1. Map.things \in Seq(ThingRecords)
  BY MapAssumption, Zenon DEF ThingRecords, Angles
<1>2. /\ DOMAIN MobjInfo \subseteq Int
      /\ \A type \in DOMAIN MobjInfo : MobjInfo[type] \in InfoRecords
  BY MapAssumption, Zenon DEF InfoRecords
<1> QED
  BY <1>1, <1>2

\* The things that are spawned are numbered in their order.
LEMMA SpawnedThings ==
    /\ spawnMobjs \in Seq(StandIns)
    /\ \A i \in DOMAIN spawnMobjs : spawnMobjs[i].id = i
<1> DEFINE Wanted == {t \in Range(Map.things) : Spawned(t) /\ MobjInfo[t.type].drawable}
           kept == Filtered(Map.things, Wanted)
           Height(t) == LET k == MobjInfo[t.type]
                            s == pointInSector(t)
                        IN IF s = 0 THEN (IF k.hangs THEN -k.height ELSE 0)
                           ELSE IF k.hangs THEN Map.sectors[s].ceiling - k.height ELSE Map.sectors[s].floor
           Mobj(t, id) == [id |-> id, type |-> t.type, x |-> t.x, y |-> t.y, angle |-> t.angle,
                           sector |-> pointInSector(t), z |-> Height(t), teleported |-> FALSE,
                           fullbright |-> MobjInfo[t.type].fullbright]
           V == ThingRecords \cap Wanted
<1>1. spawnMobjs = [i \in DOMAIN kept |-> Mobj(kept[i], i)]
  BY DEF spawnMobjs
<1>2. kept \in Seq(V)
  <2> DEFINE D == ThingRecords
  <2>1. Map.things \in Seq(D)
    BY ThingsAre
  <2> HIDE DEF D, Wanted
  <2>2. Filtered(Map.things, Wanted) \in Seq(D \cap Wanted)
    BY <2>1, FilteredIs
  <2> QED
    BY <2>2 DEF D
<1>3. \A t \in V : t \in ThingRecords /\ t.type \in DOMAIN MobjInfo
  BY DEF Spawned
<1> HIDE DEF V, kept
<1>4. Len(kept) \in Nat /\ DOMAIN kept = 1..Len(kept) /\ \A i \in DOMAIN kept : kept[i] \in V
  BY <1>2
<1>5. ASSUME NEW t \in V, NEW id \in Nat PROVE Mobj(t, id) \in StandIns /\ Mobj(t, id).id = id
  <2>1. /\ t.type \in DOMAIN MobjInfo /\ t.x \in Int /\ t.y \in Int /\ t.angle \in Angles
        /\ MobjInfo[t.type] \in InfoRecords
    BY <1>3, ThingsAre DEF ThingRecords
  <2>2. MobjInfo[t.type].height \in Int /\ MobjInfo[t.type].fullbright \in BOOLEAN
    BY <2>1 DEF InfoRecords
  <2>3. pointInSector(t) \in SectorIds \cup {0} /\ pointInSector(t) \in Nat
    BY PointIsIn
  <2>4. \A s \in SectorIds : Map.sectors[s].floor \in Int /\ Map.sectors[s].ceiling \in Int
    BY SectorsAre DEF SectorRecords
  <2>5. Height(t) \in Int
    <3>1. PICK h \in Int, s \in SectorIds \cup {0} : h = MobjInfo[t.type].height /\ s = pointInSector(t)
      BY <2>2, <2>3
    <3>2. -h \in Int /\ 0 \in Int
      BY <3>1
    <3>3. s # 0 => Map.sectors[s].ceiling - h \in Int /\ Map.sectors[s].floor \in Int
      BY <2>4, <3>1
    <3> QED
      BY <3>1, <3>2, <3>3, Zenon
  <2> HIDE DEF Height
  <2>6. Mobj(t, id) \in StandIns
    BY <2>1, <2>2, <2>3, <2>5 DEF StandIns
  <2> QED
    BY <2>6
<1> HIDE DEF Mobj
<1>6. \A i \in DOMAIN kept : Mobj(kept[i], i) \in StandIns /\ Mobj(kept[i], i).id = i
  BY <1>4, <1>5
<1>7. spawnMobjs \in Seq(StandIns)
  BY <1>1, <1>4, <1>6
<1> QED
  BY <1>1, <1>6, <1>7

LEMMA SeenThing ==
    ASSUME NEW mo \in StandIns, NEW t \in Nat
    PROVE  toSnapshot(mo, t) \in Mobjs /\ toSnapshot(mo, t).id = mo.id
<1> DEFINE k == MobjInfo[mo.type]
           frame == k.frames[1 + ((t \div k.ticsPerFrame) % Len(k.frames))]
<1>1. /\ mo.id \in Nat /\ mo.type \in DOMAIN MobjInfo /\ mo.x \in Int /\ mo.y \in Int /\ mo.z \in Int
      /\ mo.angle \in Angles /\ mo.sector \in Nat /\ mo.teleported \in BOOLEAN /\ mo.fullbright \in BOOLEAN
  BY DEF StandIns
<1>2. mo.type \in Int /\ k.frames \in Seq(Int) \ {<<>>} /\ k.ticsPerFrame \in Nat \ {0}
  BY <1>1, ThingsAre DEF InfoRecords
<1>3. frame \in Int
  <2>1. PICK frames \in Seq(Int), n \in Nat \ {0}, m \in Nat \ {0} :
           k.frames = frames /\ n = k.ticsPerFrame /\ m = Len(frames)
    BY <1>2
  <2>2. t \div n \in Int
    OBVIOUS
  <2>3. PICK q \in Int : q = t \div n
    BY <2>2
  <2>4. 1 + (q % m) \in 1..Len(frames)
    BY <2>1
  <2>5. frame = frames[1 + (q % m)]
    BY <2>1, <2>3
  <2> HIDE DEF frame
  <2> QED
    BY <2>4, <2>5
<1>4. toSnapshot(mo, t)
      = [id |-> mo.id, type |-> mo.type, x |-> mo.x, y |-> mo.y, z |-> mo.z, angle |-> mo.angle,
         sector |-> mo.sector, teleported |-> mo.teleported, fullbright |-> mo.fullbright, frame |-> frame]
  BY DEF toSnapshot
<1> HIDE DEF frame, k
<1> QED
  BY <1>1, <1>2, <1>3, <1>4 DEF Mobjs, Angles

LEMMA AngleIs ==
    ASSUME NEW dx \in Int, NEW dy \in Int
    PROVE  pointToAngle(dx, dy) \in Angles
<1>1. PICK q \in Nat \ {0} : Turn = 8 * q
  <2>1. Turn \in Nat \ {0} /\ Turn % 8 = 0
    BY SceneSizes
  <2>2. PICK n \in Nat \ {0} : n = Turn
    BY <2>1
  <2>3. n % 8 = 0 /\ n \div 8 \in Nat /\ n = 8 * (n \div 8)
    BY <2>1, <2>2
  <2> QED
    BY <2>2, <2>3
<1>2. Turn \div 2 = 4 * q /\ Turn \div 4 = 2 * q /\ Turn \div 8 = q
  BY <1>1
<1>3. pointToAngle(dx, dy) \in {0, Turn \div 2, Turn \div 4, 3 * (Turn \div 4), (Turn \div 8) + (Turn \div 4) * 0,
                                (Turn \div 8) + (Turn \div 4) * 1, (Turn \div 8) + (Turn \div 4) * 2,
                                (Turn \div 8) + (Turn \div 4) * 3}
  BY DEF pointToAngle
<1>4. pointToAngle(dx, dy) \in {0, 4 * q, 2 * q, 6 * q, q, 3 * q, 5 * q, 7 * q}
  BY <1>2, <1>3
<1> QED
  BY <1>1, <1>4 DEF Angles

LEMMA PlayerIs ==
    ASSUME NEW t \in Nat, NEW at \in Places, NEW angle \in Angles
    PROVE  /\ playerAt(t, at, angle) \in Player
           /\ playerAt(t, at, angle).x = at.x /\ playerAt(t, at, angle).y = at.y
<1> DEFINE s == pointInSector(at)
           floor == IF s = 0 THEN 0 ELSE Map.sectors[s].floor
           ceiling == IF s = 0 THEN floor + 128 ELSE Map.sectors[s].ceiling
           bob == Bob[t % 40]
           z == Most(floor, Least(floor + 41 + bob, ceiling - 4))
<1>1. s \in SectorIds \cup {0} /\ s \in Nat
  BY PointIsIn
<1>2. \A u \in SectorIds : Map.sectors[u].floor \in Int /\ Map.sectors[u].ceiling \in Int
  BY SectorsAre DEF SectorRecords
<1>3. bob \in Int
  <2>1. Bob \in [0..39 -> Int]
    BY MapAssumption, Zenon
  <2>2. t % 40 \in 0..39
    OBVIOUS
  <2> QED
    BY <2>1, <2>2
<1>4. at.x \in Int /\ at.y \in Int
  BY DEF Places
<1>5. playerAt(t, at, angle)
      = [x |-> at.x, y |-> at.y, sector |-> s, weapon |-> 1, pendingWeapon |-> 1, keys |-> 0, angle |-> angle,
         viewZ |-> z]
  BY DEF playerAt
<1>6. floor \in Int /\ ceiling \in Int
  <2> HIDE DEF s
  <2> QED
    BY <1>1, <1>2
<1> HIDE DEF s, floor, ceiling, bob
<1>7. z \in Int
  BY <1>3, <1>6 DEF Most, Least
<1>8. 0 \in Bytes /\ 1 \in Bytes
  BY DEF Bytes
<1> HIDE DEF z
<1> QED
  BY <1>1, <1>4, <1>5, <1>7, <1>8 DEF Player

LEMMA PlayerWithKeys ==
    ASSUME NEW p \in Player, NEW keys \in Bytes
    PROVE  [p EXCEPT !.keys = keys] \in Player
  BY DEF Player

-----------------------------------------------------------------------------
(* A tic of the stub.                                                      *)

LEMMA StubOfLevel ==
    createStubSim = [legs |-> TourLegs, length |-> TourLength, mobjs |-> spawnMobjs, door |-> findDoor,
                     totals |-> createStubSim.totals, lightSectors |-> Lights]
<1> DEFINE totals == countTotals
<1>1. createStubSim = [legs |-> TourLegs, length |-> TourLength, mobjs |-> spawnMobjs, door |-> findDoor,
                       totals |-> totals, lightSectors |-> Lights]
  BY DEF createStubSim, StubOf, TourLegs, TourLength, Lights
<1> HIDE DEF totals
<1> QED
  BY <1>1

\* What the stub publishes at a tic.
StubShape(snap, t) ==
    /\ snap \in Snapshots /\ OwnIds(snap) /\ AtRest(snap)
    /\ LET at == positionAt(TourLegs, TravelOf(t).at) IN snap.player.x = at.x /\ snap.player.y = at.y
    /\ snap.sectors = SectorsOf(t)

LEMMA StubTicIs ==
    ASSUME stub = createStubSim, NEW t \in Nat
    PROVE  StubShape(stepTic(t), t)
<1> DEFINE w == TravelOf(t)
           at == positionAt(TourLegs, w.at)
           behind == positionAt(TourLegs, w.at - (LookAhead * w.way))
           ahead == positionAt(TourLegs, w.at + (LookAhead * w.way))
           angle == pointToAngle(ahead.x - behind.x, ahead.y - behind.y)
           player == playerAt(t, at, angle)
           mobjs == [i \in DOMAIN spawnMobjs |-> toSnapshot(spawnMobjs[i], t)]
<1>1. stub.legs = TourLegs /\ stub.length = TourLength /\ stub.mobjs = spawnMobjs /\ stub.door = findDoor
      /\ stub.lightSectors = Lights /\ stub.totals = createStubSim.totals
  <2> DEFINE totals == createStubSim.totals
  <2>1. stub = [legs |-> TourLegs, length |-> TourLength, mobjs |-> spawnMobjs, door |-> findDoor,
                totals |-> totals, lightSectors |-> Lights]
    BY StubOfLevel
  <2> HIDE DEF totals
  <2>2. stub.totals = totals
    BY <2>1
  <2> QED
    BY <2>1, <2>2 DEF totals
<1>2. travelled(t) = w
  BY <1>1 DEF travelled, TravelOf
<1>3. sectorsAt(t) = SectorsOf(t)
  BY <1>1, Zenon DEF sectorsAt, SectorsOf, DoorRows, DoorRow, LightRows, LightRow
<1>4. stepTic(t) = [tic |-> t, player |-> player, mobjs |-> mobjs, sectors |-> SectorsOf(t),
                    stats |-> createStubSim.totals]
  BY <1>1, <1>2, <1>3, Zenon DEF stepTic
<1>5. w.at \in Int /\ w.way \in {1, -1}
  BY TurnsBack
<1>6. at \in Places /\ behind \in Places /\ ahead \in Places
  <2>1. ASSUME NEW d \in Int PROVE positionAt(TourLegs, d) \in Places
    <3>1. d <= d
      OBVIOUS
    <3> QED
      BY <3>1, FurtherOn
  <2>2. LookAhead * w.way \in Int
    BY <1>5, SceneSizes
  <2>3. PICK d \in Int, e \in Int : d = w.at - (LookAhead * w.way) /\ e = w.at + (LookAhead * w.way)
    BY <1>5, <2>2
  <2> QED
    BY <1>5, <2>1, <2>3
<1> HIDE DEF w, at, behind, ahead
<1>7. angle \in Angles
  <2>1. PICK dx \in Int, dy \in Int : dx = ahead.x - behind.x /\ dy = ahead.y - behind.y
    BY <1>6 DEF Places
  <2> QED
    BY <2>1, AngleIs
<1> HIDE DEF angle
<1>8. player \in Player /\ player.x = at.x /\ player.y = at.y
  BY <1>6, <1>7, PlayerIs
<1> HIDE DEF player
<1>9. mobjs \in Seq(Mobjs) /\ \A i \in DOMAIN mobjs : mobjs[i].id = i
  <2>1. \A i \in DOMAIN spawnMobjs : /\ toSnapshot(spawnMobjs[i], t) \in Mobjs
                                     /\ toSnapshot(spawnMobjs[i], t).id = i
    BY SpawnedThings, SeenThing
  <2>2. DOMAIN spawnMobjs = 1..Len(spawnMobjs) /\ Len(spawnMobjs) \in Nat
    BY SpawnedThings
  <2> QED
    BY <2>1, <2>2
<1> HIDE DEF mobjs
<1>10. SectorsOf(t) \in Seq(SectorRows) /\ \A i \in DOMAIN SectorsOf(t) : LET s == SectorsOf(t)[i] IN
          \/ s.index \in findDynamicSectors
          \/ s.floor = Map.sectors[s.index].floor /\ s.ceiling = Map.sectors[s.index].ceiling
  BY SectorsOfTic
<1> DEFINE snap == stepTic(t)
           rows == SectorsOf(t)
           totals == createStubSim.totals
<1>11. rows \in Seq(SectorRows) /\ AtRest([sectors |-> rows])
  BY <1>10 DEF AtRest
<1>12. snap = [tic |-> t, player |-> player, mobjs |-> mobjs, sectors |-> rows, stats |-> totals]
  BY <1>4
<1> HIDE DEF rows, totals, snap
<1>13. snap \in [tic : Nat, player : Player, mobjs : Seq(Mobjs), sectors : Seq(SectorRows), stats : {totals}]
  BY <1>8, <1>9, <1>11, <1>12
<1>14. snap.mobjs = mobjs /\ snap.player = player /\ snap.sectors = rows
  BY <1>12
<1>15. OwnIds(snap) /\ AtRest(snap)
  BY <1>9, <1>11, <1>14 DEF OwnIds, AtRest
<1> QED
  BY <1>8, <1>13, <1>14, <1>15 DEF StubShape, Snapshots, totals, snap, rows, at, w

\* What NothingJumps says of two snapshots.
Steady(a, b) ==
    /\ Most(Size(b.player.x - a.player.x), Size(b.player.y - a.player.y)) <= WalkSpeed
    /\ \A i \in DOMAIN a.sectors : Size(b.sectors[i].ceiling - a.sectors[i].ceiling) <= 2

LEMMA StubIsSteady ==
    ASSUME NEW t \in Nat, NEW a, NEW b, StubShape(a, t), StubShape(b, t + 1)
    PROVE  Steady(a, b)
<1>1. PICK d \in Int, e \in Int : d = TravelOf(t).at /\ e = TravelOf(t + 1).at
  <2>1. t + 1 \in Nat
    OBVIOUS
  <2>2. PICK u \in Nat : u = t + 1
    BY <2>1
  <2> QED
    BY <2>2, TurnsBack
<1>2. Size(e - d) <= WalkSpeed
  BY <1>1, TurnsBack
<1> DEFINE v == positionAt(TourLegs, d)
           w == positionAt(TourLegs, e)
<1>3. a.player.x = v.x /\ a.player.y = v.y /\ b.player.x = w.x /\ b.player.y = w.y
  BY <1>1 DEF StubShape
<1>4. v \in Places /\ w \in Places /\ Far(v, w) <= Size(e - d)
  <2>1. CASE d <= e
    <3>1. v \in Places /\ w \in Places /\ Far(v, w) <= e - d
      BY <2>1, FurtherOn
    <3> HIDE DEF v, w
    <3> QED
      BY <2>1, <3>1 DEF Size, Most
  <2>2. CASE e <= d
    <3>1. v \in Places /\ w \in Places /\ Far(w, v) <= d - e
      BY <2>2, FurtherOn
    <3> HIDE DEF v, w
    <3>2. Far(v, w) = Far(w, v)
      BY <3>1 DEF Far, Size, Most, Places
    <3> QED
      BY <2>2, <3>1, <3>2 DEF Size, Most
  <2> QED
    BY <2>1, <2>2
<1> HIDE DEF v, w
<1>5. Far(v, w) \in Nat /\ Size(e - d) \in Nat /\ WalkSpeed \in Nat
  BY <1>4, Triangle, SceneSizes DEF Size, Most
<1>6. Most(Size(b.player.x - a.player.x), Size(b.player.y - a.player.y)) <= WalkSpeed
  BY <1>2, <1>3, <1>4, <1>5 DEF Far
<1>7. a.sectors = SectorsOf(t) /\ b.sectors = SectorsOf(t + 1)
  BY DEF StubShape
<1>8. \A i \in DOMAIN a.sectors : Size(b.sectors[i].ceiling - a.sectors[i].ceiling) <= 2
  BY <1>7, SectorsOfTic
<1> QED
  BY <1>6, <1>8 DEF Steady

\* A tic of the core.
LEMMA CoreTicIs ==
    ASSUME stub = createStubSim, NEW t \in Nat, NEW n \in DOMAIN CoreFrames, NEW f \in CoreFrames[n]
    PROVE  LET snap == [tic |-> t, mobjs |-> f.mobjs, sectors |-> f.sectors, stats |-> stub.totals,
                        player |-> [playerAt(0, Start, f.angle) EXCEPT !.keys = f.keys]]
           IN snap \in Snapshots /\ OwnIds(snap) /\ AtRest(snap)
<1>1. /\ f.angle \in 0..(Turn - 1) /\ f.keys \in 0..255
      /\ f.mobjs \in Seq(Mobjs) /\ f.sectors \in Seq(SectorRows)
      /\ \A i, j \in DOMAIN f.mobjs : f.mobjs[i].id = f.mobjs[j].id => i = j
      /\ \A i \in DOMAIN f.sectors : LET s == f.sectors[i] IN
            \/ s.index \in findDynamicSectors
            \/ s.floor = Map.sectors[s.index].floor /\ s.ceiling = Map.sectors[s.index].ceiling
  BY CoreAssumption, Zenon
<1> DEFINE start == Start
           first == 0
           was == playerAt(first, start, f.angle)
           player == [was EXCEPT !.keys = f.keys]
           totals == createStubSim.totals
           snap == [tic |-> t, mobjs |-> f.mobjs, sectors |-> f.sectors, stats |-> totals, player |-> player]
<1>2. start \in Places /\ first \in Nat
  BY TourAssumption, Zenon DEF Places
<1> HIDE DEF start, first
<1>3. was \in Player
  BY <1>1, <1>2, PlayerIs DEF Angles
<1> HIDE DEF was
<1>4. player \in Player
  BY <1>1, <1>3, PlayerWithKeys DEF Bytes
<1> HIDE DEF player, totals
<1>5. snap \in [tic : Nat, player : Player, mobjs : Seq(Mobjs), sectors : Seq(SectorRows), stats : {totals}]
  BY <1>1, <1>4
<1>6. snap.mobjs = f.mobjs /\ snap.sectors = f.sectors
  OBVIOUS
<1> HIDE DEF snap
<1>7. OwnIds(snap) /\ AtRest(snap)
  BY <1>1, <1>6 DEF OwnIds, AtRest
<1>8. snap \in Snapshots
  BY <1>5 DEF Snapshots, totals
<1>9. [tic |-> t, mobjs |-> f.mobjs, sectors |-> f.sectors, stats |-> stub.totals,
       player |-> [playerAt(0, Start, f.angle) EXCEPT !.keys = f.keys]] = snap
  BY Zenon DEF snap, player, was, first, start, totals
<1> QED
  BY <1>7, <1>8, <1>9

\* What a snapshot keeps of itself still has its own things, and moves only what may move.
LEMMA KeptKeeps ==
    ASSUME NEW snap \in Snapshots, OwnIds(snap), AtRest(snap)
    PROVE  Kept(snap) \in Snapshots /\ OwnIds(Kept(snap)) /\ AtRest(Kept(snap))
<1> DEFINE m == Least(Len(snap.mobjs), MAX_MOBJS)
           n == Least(Len(snap.sectors), MAX_DYNAMIC_SECTORS)
           kept == Kept(snap)
<1>1. snap.mobjs \in Seq(Mobjs) /\ snap.sectors \in Seq(SectorRows)
  BY DEF Snapshots
<1>2. /\ m \in Nat /\ m <= Len(snap.mobjs) /\ n \in Nat /\ n <= Len(snap.sectors)
  BY <1>1, SceneSizes DEF Least
<1>3. kept \in Snapshots /\ kept.mobjs = SubSeq(snap.mobjs, 1, m) /\ kept.sectors = SubSeq(snap.sectors, 1, n)
  <2>1. kept \in Snapshots /\ kept = [tic |-> snap.tic, player |-> snap.player,
                                      mobjs |-> SubSeq(snap.mobjs, 1, m), sectors |-> SubSeq(snap.sectors, 1, n),
                                      stats |-> snap.stats]
    BY KeptParts, Zenon
  <2> HIDE DEF kept, m, n
  <2> QED
    BY <2>1
<1> HIDE DEF kept, m, n
<1>4. DOMAIN kept.mobjs = 1..m /\ \A i \in 1..m : i \in DOMAIN snap.mobjs /\ kept.mobjs[i] = snap.mobjs[i]
  BY <1>1, <1>2, <1>3
<1>5. DOMAIN kept.sectors = 1..n /\ \A i \in 1..n : i \in DOMAIN snap.sectors /\ kept.sectors[i] = snap.sectors[i]
  BY <1>1, <1>2, <1>3
<1>6. OwnIds(kept)
  BY <1>4 DEF OwnIds
<1>7. AtRest(kept)
  BY <1>5 DEF AtRest
<1> QED
  BY <1>3, <1>6, <1>7 DEF kept

\* The slot after the one published last is not that one, and that one is the one before it.
LEMMA NextSlot ==
    ASSUME NEW last \in -1..(RingSlots - 1)
    PROVE  LET next == (last + 1 + RingSlots) % RingSlots
           IN /\ next \in 0..(RingSlots - 1) /\ next # last
              /\ last # -1 => (next + RingSlots - 1) % RingSlots = last
<1>1. PICK n \in Nat : n = RingSlots /\ n >= 2
  BY SceneSizes
<1> DEFINE next == (last + 1 + n) % n
<1>2. next = IF last + 1 < n THEN last + 1 ELSE 0
  <2>1. CASE last + 1 < n
    <3>1. PICK v \in 0..(n - 1), q \in Int, a \in Int, m \in Nat \ {0} :
             v = last + 1 /\ q = 1 /\ a = last + 1 + n /\ m = n
      BY <1>1, <2>1
    <3>2. v \in 0..(m - 1) /\ a = v + (q * m)
      BY <3>1
    <3>3. a % m = v
      BY <3>2, RemainderIs
    <3> QED
      BY <2>1, <3>1, <3>3
  <2>2. CASE ~(last + 1 < n)
    <3>1. PICK v \in 0..(n - 1), q \in Int, a \in Int, m \in Nat \ {0} :
             v = 0 /\ q = 2 /\ a = last + 1 + n /\ m = n
      BY <1>1, <2>2
    <3>2. v \in 0..(m - 1) /\ a = v + (q * m)
      BY <1>1, <2>2, <3>1
    <3>3. a % m = v
      BY <3>2, RemainderIs
    <3> QED
      BY <2>2, <3>1, <3>3
  <2> QED
    BY <2>1, <2>2
<1> HIDE DEF next
<1>3. next \in 0..(n - 1) /\ next # last
  BY <1>1, <1>2
<1>4. ASSUME last # -1 PROVE (next + n - 1) % n = last
  <2>1. PICK v \in 0..(n - 1), q \in Int, a \in Int, m \in Nat \ {0} :
           v = last /\ q = (IF last + 1 < n THEN 1 ELSE 0) /\ a = next + n - 1 /\ m = n
    BY <1>1, <1>3, <1>4
  <2>2. v \in 0..(m - 1) /\ a = v + (q * m)
    BY <1>1, <1>2, <1>4, <2>1
  <2>3. a % m = v
    BY <2>2, RemainderIs
  <2> QED
    BY <2>1, <2>3
<1> QED
  BY <1>1, <1>3, <1>4 DEF next

-----------------------------------------------------------------------------
(* The inductive invariant of the scene.                                   *)

\* What is worked out once of the level.
LevelKnown ==
    /\ stub = createStubSim
    /\ drawn = [dynamicSectors |-> findDynamicSectors, staticWalls |-> buildStaticWalls(findDynamicSectors)]

\* The slot published last and the one before it hold the last two snapshots.
RingHolds ==
    /\ DOMAIN ringSlots.words = 0..(RingSlots - 1) /\ ringSlots.published \in -1..(RingSlots - 1)
    /\ ringSlots.seq \in Nat /\ sent \in Seq(Snapshots) /\ Len(sent) = Least(ringSlots.seq, 2)
    /\ ringSlots.published = -1 <=> sent = <<>>
    /\ sent # <<>> => decodeSnapshot(ringSlots.words[ringSlots.published]) = Kept(sent[Len(sent)])
    /\ Len(sent) = 2 =>
          decodeSnapshot(ringSlots.words[(ringSlots.published + RingSlots - 1) % RingSlots]) = Kept(sent[1])

SentAreSound == \A i \in DOMAIN sent : OwnIds(sent[i]) /\ AtRest(sent[i])

\* The stub's last tic is the one before the next, and followed the one before it closely.
StubKeepsPace ==
    /\ sim.tic \in Nat
    /\ sim.kind = "none" => sent = <<>>
    /\ sim.kind = "stub" =>
          /\ sent # <<>> /\ sim.tic >= 1 /\ StubShape(sent[Len(sent)], sim.tic - 1)
          /\ Len(sent) = 2 => Steady(sent[1], sent[2])

ViewIsSound ==
    view # <<>> =>
       /\ view.previous = Kept(sent[1]) /\ view.current = Kept(sent[2])
       /\ ShownOK(view.previous, view.current, view.shown)
       /\ view.walls[1] \cup view.walls[2] = buildWallQuads(view.heights, SectorIds)
       /\ view.walls[1] \cap view.walls[2] = {}

SceneInv == LevelKnown /\ RingHolds /\ SentAreSound /\ StubKeepsPace /\ ViewIsSound

LEMMA SceneStarts == SceneInit => SceneInv
<1> SUFFICES ASSUME SceneInit PROVE SceneInv
  OBVIOUS
<1>1. LevelKnown
  BY DEF SceneInit, LevelKnown
<1>2. sent = <<>> /\ view = <<>> /\ sim.kind = "none" /\ sim.tic = 0
  BY DEF SceneInit
<1>3. DOMAIN ringSlots.words = 0..(RingSlots - 1) /\ ringSlots.published = -1 /\ ringSlots.seq = 0
  <2> DEFINE words == [i \in 0..(RingSlots - 1) |-> BlankWords]
  <2>1. ringSlots = [words |-> words, published |-> -1, seq |-> 0] /\ DOMAIN words = 0..(RingSlots - 1)
    BY DEF SceneInit
  <2> HIDE DEF words
  <2> QED
    BY <2>1
<1>4. RingHolds
  <2>1. -1 \in -1..(RingSlots - 1)
    BY SceneSizes
  <2>2. Len(sent) = 0 /\ sent \in Seq(Snapshots) /\ Least(0, 2) = 0
    BY <1>2 DEF Least
  <2> QED
    BY <1>2, <1>3, <2>1, <2>2 DEF RingHolds
<1>5. SentAreSound
  BY <1>2 DEF SentAreSound
<1> QED
  BY <1>1, <1>2, <1>4, <1>5 DEF SceneInv, StubKeepsPace, ViewIsSound

LEMMA PublishKeeps ==
    ASSUME SceneInv, NEW snap \in Snapshots, OwnIds(snap), AtRest(snap), PublishSnapshot(snap)
    PROVE  /\ RingHolds' /\ SentAreSound' /\ ViewIsSound' /\ sent' # <<>> /\ sent'[Len(sent')] = snap
           /\ Len(sent') = 2 => sent # <<>> /\ sent'[1] = sent[Len(sent)] /\ sent'[2] = snap
<1> DEFINE last == ringSlots.published
           next == (last + 1 + RingSlots) % RingSlots
           words == ringSlots.words
           n == Len(sent)
<1>1. /\ DOMAIN words = 0..(RingSlots - 1) /\ last \in -1..(RingSlots - 1)
      /\ ringSlots.seq \in Nat /\ sent \in Seq(Snapshots) /\ n = Least(ringSlots.seq, 2)
      /\ last = -1 <=> sent = <<>>
      /\ sent # <<>> => decodeSnapshot(words[last]) = Kept(sent[n])
  BY DEF SceneInv, RingHolds
<1>2. n \in 0..2 /\ (n = 0 <=> sent = <<>>) /\ (n # 0 => sent[n] \in Snapshots)
  <2>1. n \in 0..2
    BY <1>1 DEF Least
  <2> DEFINE S == Snapshots
  <2>2. sent \in Seq(S)
    BY <1>1
  <2> HIDE DEF S
  <2>3. (n = 0 <=> sent = <<>>) /\ (n # 0 => sent[n] \in S)
    BY <2>1, <2>2
  <2> QED
    BY <2>1, <2>3 DEF S
<1>3. /\ next \in 0..(RingSlots - 1) /\ next # last
      /\ last # -1 => (next + RingSlots - 1) % RingSlots = last
  BY <1>1, NextSlot
<1>4. /\ ringSlots' = [words |-> [words EXCEPT ![next] = encodeSnapshot(words[next], snap)],
                       published |-> next, seq |-> ringSlots.seq + 1]
      /\ sent' = IF sent = <<>> THEN <<snap>> ELSE <<sent[n], snap>>
      /\ view' = <<>>
  BY DEF PublishSnapshot
<1> HIDE DEF next, n
<1>5. /\ ringSlots'.published = next /\ ringSlots'.seq = ringSlots.seq + 1
      /\ DOMAIN ringSlots'.words = 0..(RingSlots - 1)
      /\ ringSlots'.words[next] = encodeSnapshot(words[next], snap)
      /\ last # -1 => ringSlots'.words[last] = words[last]
  <2> DEFINE e == encodeSnapshot(words[next], snap)
             after == [words EXCEPT ![next] = e]
             s == ringSlots.seq
  <2>1. ringSlots' = [words |-> after, published |-> next, seq |-> s + 1]
    BY <1>4
  <2>2. DOMAIN after = 0..(RingSlots - 1) /\ after[next] = e /\ (last # -1 => after[last] = words[last])
    <3> HIDE DEF e, words, last
    <3>1. last # -1 => last \in 0..(RingSlots - 1)
      BY <1>1, SceneSizes
    <3> QED
      BY <1>1, <1>3, <3>1
  <2> HIDE DEF after, e, s, last
  <2>3. ringSlots'.words = after /\ ringSlots'.published = next /\ ringSlots'.seq = s + 1
    BY <2>1
  <2> QED
    BY <2>2, <2>3 DEF e, s
<1>6. /\ sent' \in Seq(Snapshots) /\ Len(sent') = IF sent = <<>> THEN 1 ELSE 2
      /\ sent'[Len(sent')] = snap /\ (sent # <<>> => sent'[1] = sent[n] /\ sent'[2] = snap)
  <2>1. CASE sent = <<>>
    BY <1>4, <2>1
  <2>2. CASE sent # <<>>
    <3> DEFINE was == sent[n]
    <3>1. was \in Snapshots /\ sent' = <<was, snap>>
      BY <1>2, <1>4, <2>2
    <3> HIDE DEF was
    <3>2. sent' \in Seq(Snapshots) /\ Len(sent') = 2 /\ sent'[1] = was /\ sent'[2] = snap
      BY <3>1
    <3> QED
      BY <2>2, <3>2 DEF was
  <2> QED
    BY <2>1, <2>2
<1>7. Len(sent') = Least(ringSlots'.seq, 2)
  <2>1. PICK s \in Nat : s = ringSlots.seq
    BY <1>1
  <2>2. IF sent = <<>> THEN s = 0 ELSE s >= 1
    BY <1>1, <1>2, <2>1 DEF Least
  <2>3. ringSlots'.seq = s + 1
    BY <1>5, <2>1
  <2> QED
    BY <1>6, <2>2, <2>3 DEF Least
<1>8. decodeSnapshot(ringSlots'.words[next]) = Kept(snap)
  BY <1>5, WordsComeBack
<1>9. sent # <<>> => decodeSnapshot(ringSlots'.words[(next + RingSlots - 1) % RingSlots]) = Kept(sent'[1])
  BY <1>1, <1>3, <1>5, <1>6
<1>10. RingHolds'
  <2>1. sent' # <<>> /\ next # -1
    BY <1>3, <1>6, SceneSizes
  <2>2. Len(sent') = 2 => sent # <<>>
    BY <1>6
  <2>3. next \in -1..(RingSlots - 1) /\ ringSlots'.seq \in Nat
    BY <1>1, <1>3, <1>5, SceneSizes
  <2> HIDE DEF last, words
  <2> QED
    BY <1>5, <1>6, <1>7, <1>8, <1>9, <2>1, <2>2, <2>3 DEF RingHolds
<1>11. SentAreSound'
  <2>1. sent # <<>> => n \in DOMAIN sent /\ OwnIds(sent[n]) /\ AtRest(sent[n])
    <3>1. sent # <<>> => n \in DOMAIN sent
      BY <1>1, <1>2 DEF n
    <3> QED
      BY <3>1 DEF SceneInv, SentAreSound
  <2>2. CASE sent = <<>>
    <3>1. DOMAIN sent' = {1} /\ sent'[1] = snap
      BY <1>6, <2>2
    <3> QED
      BY <3>1 DEF SentAreSound, OwnIds, AtRest
  <2>3. CASE sent # <<>>
    <3>1. DOMAIN sent' = {1, 2} /\ sent'[1] = sent[n] /\ sent'[2] = snap
      BY <1>6, <2>3
    <3>2. \A i \in DOMAIN sent' : sent'[i] \in {sent[n], snap}
      BY <3>1
    <3>3. \A i \in DOMAIN sent' : OwnIds(sent'[i]) /\ AtRest(sent'[i])
      BY <2>1, <2>3, <3>2
    <3> QED
      BY <3>3 DEF SentAreSound, OwnIds, AtRest
  <2> QED
    BY <2>2, <2>3
<1>12. ViewIsSound'
  BY <1>4 DEF ViewIsSound
<1>13. /\ sent' # <<>> /\ sent'[Len(sent')] = snap
       /\ Len(sent') = 2 => sent # <<>> /\ sent'[1] = sent[n] /\ sent'[2] = snap
  BY <1>6
<1> QED
  BY <1>10, <1>11, <1>12, <1>13 DEF n

LEMMA StubKeeps ==
    ASSUME SceneInv, StubTic
    PROVE  SceneInv'
<1>1. /\ sim.kind \in {"none", "stub"} /\ PublishSnapshot(stepTic(sim.tic))
      /\ sim' = [kind |-> "stub", tic |-> sim.tic + 1] /\ stub' = stub /\ drawn' = drawn
  BY DEF StubTic
<1>2. PICK t \in Nat : t = sim.tic
  BY DEF SceneInv, StubKeepsPace
<1>3. PICK snap : snap = stepTic(t)
  OBVIOUS
<1>4. StubShape(snap, t)
  BY <1>3, StubTicIs DEF SceneInv, LevelKnown
<1>5. snap \in Snapshots /\ OwnIds(snap) /\ AtRest(snap) /\ PublishSnapshot(snap)
  BY <1>1, <1>2, <1>3, <1>4 DEF StubShape
<1>6. /\ RingHolds' /\ SentAreSound' /\ ViewIsSound' /\ sent' # <<>> /\ sent'[Len(sent')] = snap
      /\ Len(sent') = 2 => sent # <<>> /\ sent'[1] = sent[Len(sent)] /\ sent'[2] = snap
  BY <1>5, PublishKeeps
<1>7. ASSUME Len(sent') = 2 PROVE Steady(sent'[1], sent'[2])
  <2>1. sent # <<>> /\ sim.kind = "stub"
    BY <1>1, <1>6, <1>7 DEF SceneInv, StubKeepsPace
  <2>2. t >= 1 /\ StubShape(sent[Len(sent)], t - 1)
    BY <1>2, <2>1 DEF SceneInv, StubKeepsPace
  <2>3. PICK u \in Nat : u = t - 1 /\ t = u + 1
    BY <2>2
  <2>4. PICK a : a = sent[Len(sent)]
    OBVIOUS
  <2>5. Steady(a, snap)
    BY <1>4, <2>2, <2>3, <2>4, StubIsSteady
  <2> QED
    BY <1>6, <1>7, <2>4, <2>5
<1>8. StubKeepsPace'
  <2>1. sim'.kind = "stub" /\ sim'.tic = t + 1
    BY <1>1, <1>2
  <2>2. sim'.tic \in Nat /\ sim'.tic >= 1 /\ sim'.tic - 1 = t
    BY <2>1
  <2>3. StubShape(sent'[Len(sent')], sim'.tic - 1)
    BY <1>4, <1>6, <2>2
  <2>4. StubShape(sent[Len(sent)], sim.tic - 1)' /\ (Len(sent') = 2 => Steady(sent[1], sent[2])')
    BY <1>7, <2>3 DEF StubShape, Steady, OwnIds, AtRest
  <2> QED
    BY <1>6, <2>1, <2>2, <2>4 DEF StubKeepsPace
<1>9. LevelKnown'
  BY <1>1 DEF SceneInv, LevelKnown
<1> QED
  BY <1>6, <1>8, <1>9 DEF SceneInv

LEMMA CoreKeeps ==
    ASSUME SceneInv, CoreTic
    PROVE  SceneInv'
<1>1. /\ sim.tic < Len(CoreFrames) /\ sim' = [kind |-> "core", tic |-> sim.tic + 1]
      /\ stub' = stub /\ drawn' = drawn
  BY DEF CoreTic
<1>2. PICK t \in Nat : t = sim.tic
  BY DEF SceneInv, StubKeepsPace
<1>3. t + 1 \in DOMAIN CoreFrames
  BY <1>1, <1>2, CoreAssumption
<1>4. PICK f \in CoreFrames[t + 1] :
         PublishSnapshot([tic |-> t, mobjs |-> f.mobjs, sectors |-> f.sectors, stats |-> stub.totals,
                          player |-> [playerAt(0, Start, f.angle) EXCEPT !.keys = f.keys]])
  BY <1>2, Zenon DEF CoreTic
<1>5. PICK snap : snap = [tic |-> t, mobjs |-> f.mobjs, sectors |-> f.sectors, stats |-> stub.totals,
                          player |-> [playerAt(0, Start, f.angle) EXCEPT !.keys = f.keys]]
  OBVIOUS
<1>6. snap \in Snapshots /\ OwnIds(snap) /\ AtRest(snap)
  <2>1. stub = createStubSim
    BY DEF SceneInv, LevelKnown
  <2>2. PICK n \in DOMAIN CoreFrames : n = t + 1
    BY <1>3
  <2>3. f \in CoreFrames[n]
    BY <2>2
  <2> QED
    BY <1>5, <2>1, <2>3, CoreTicIs, Zenon
<1>7. PublishSnapshot(snap)
  BY <1>4, <1>5, Zenon
<1>8. RingHolds' /\ SentAreSound' /\ ViewIsSound'
  BY <1>6, <1>7, PublishKeeps
<1>9. StubKeepsPace'
  BY <1>1, <1>2 DEF StubKeepsPace
<1>10. LevelKnown'
  BY <1>1 DEF SceneInv, LevelKnown
<1> QED
  BY <1>8, <1>9, <1>10 DEF SceneInv

LEMMA DrawKeeps ==
    ASSUME SceneInv, NEW t \in Int, Draw(t)
    PROVE  SceneInv'
<1>1. /\ ringSlots.seq >= 2
      /\ stub' = stub /\ drawn' = drawn /\ sim' = sim /\ ringSlots' = ringSlots /\ sent' = sent
  BY DEF Draw
<1>2. PICK p, c : /\ p = decodeSnapshot(ringSlots.words[(ringSlots.published + RingSlots - 1) % RingSlots])
                  /\ c = decodeSnapshot(ringSlots.words[ringSlots.published])
  OBVIOUS
<1>3. Len(sent) = 2 /\ sent \in Seq(Snapshots)
  <2>1. PICK s \in Nat : s = ringSlots.seq /\ Len(sent) = Least(s, 2) /\ s >= 2 /\ sent \in Seq(Snapshots)
    BY <1>1 DEF SceneInv, RingHolds
  <2>2. Least(s, 2) = 2
    BY <2>1 DEF Least
  <2> QED
    BY <2>1, <2>2
<1>4. p = Kept(sent[1]) /\ c = Kept(sent[2])
  <2>1. sent # <<>>
    <3>1. SUFFICES ASSUME sent = <<>> PROVE FALSE
      OBVIOUS
    <3>2. Len(sent) = 0
      BY <3>1
    <3> QED
      BY <1>3, <3>2
  <2> QED
    BY <1>2, <1>3, <2>1 DEF SceneInv, RingHolds
<1>5. p \in Snapshots /\ OwnIds(p) /\ AtRest(p) /\ c \in Snapshots /\ AtRest(c)
  <2>1. PICK a \in Snapshots, b \in Snapshots :
           a = sent[1] /\ b = sent[2] /\ OwnIds(a) /\ AtRest(a) /\ OwnIds(b) /\ AtRest(b)
    <3>1. /\ sent[1] \in Snapshots /\ sent[2] \in Snapshots
          /\ OwnIds(sent[1]) /\ AtRest(sent[1]) /\ OwnIds(sent[2]) /\ AtRest(sent[2])
      BY <1>3 DEF SceneInv, SentAreSound
    <3> QED
      BY <3>1, Zenon
  <2> QED
    BY <1>4, <2>1, KeptKeeps
<1>6. PICK shown : shown = interpolate(p, c, t)
  OBVIOUS
<1>7. PICK heights : heights = Folded(shown.sectors)
  OBVIOUS
<1>8. /\ view'.previous = p /\ view'.current = c /\ view'.shown = shown /\ view'.heights = heights
      /\ view'.walls = <<drawn.staticWalls, buildWallQuads(heights, drawn.dynamicSectors)>>
  <2>1. PICK walls, sprites :
           /\ view' = [previous |-> p, current |-> c, shown |-> shown, heights |-> heights,
                       walls |-> walls, sprites |-> sprites]
           /\ walls = <<drawn.staticWalls, buildWallQuads(heights, drawn.dynamicSectors)>>
    <3>1. PICK walls, sprites : /\ walls = <<drawn.staticWalls, buildWallQuads(heights, drawn.dynamicSectors)>>
                                /\ sprites = buildSprites(shown, heights)
      OBVIOUS
    <3>2. view' = [previous |-> p, current |-> c, shown |-> shown, heights |-> heights,
                   walls |-> walls, sprites |-> sprites]
      BY <1>2, <1>6, <1>7, <3>1, Zenon DEF Draw
    <3> QED
      BY <3>1, <3>2
  <2> QED
    BY <2>1
<1>9. ShownOK(p, c, shown)
  BY <1>5, <1>6, FrameBetween
<1>10. \A s \in SectorIds : s \notin findDynamicSectors => SameHeights(heights[s], LevelHeights[s])
  <2> TAKE s \in SectorIds
  <2> SUFFICES ASSUME s \notin findDynamicSectors PROVE SameHeights(heights[s], LevelHeights[s])
    OBVIOUS
  <2>1. LevelHeight(s, heights[s])
    BY <1>5, <1>6, <1>7, RestingSectors
  <2> QED
    BY <2>1 DEF LevelHeight, SameHeights
<1>11. PICK static, moving : /\ static = buildStaticWalls(findDynamicSectors)
                             /\ moving = buildWallQuads(heights, findDynamicSectors)
  OBVIOUS
<1>12. static \cup moving = buildWallQuads(heights, SectorIds) /\ static \cap moving = {}
  BY <1>10, <1>11, WallsComplete, Zenon
<1>13. view'.walls[1] = static /\ view'.walls[2] = moving
  <2>1. drawn.staticWalls = static /\ drawn.dynamicSectors = findDynamicSectors
    <3> DEFINE dyn == findDynamicSectors
    <3>1. drawn = [dynamicSectors |-> dyn, staticWalls |-> static]
      BY <1>11, Zenon DEF SceneInv, LevelKnown
    <3> HIDE DEF dyn
    <3>2. drawn.staticWalls = static /\ drawn.dynamicSectors = dyn
      BY <3>1
    <3> QED
      BY <3>2 DEF dyn
  <2>2. view'.walls = <<static, moving>>
    BY <1>8, <1>11, <2>1, Zenon
  <2> QED
    BY <2>2
<1>14. ViewIsSound'
  <2>1. view'.previous = Kept(sent'[1]) /\ view'.current = Kept(sent'[2])
    BY <1>1, <1>4, <1>8
  <2>2. /\ view'.walls[1] \cup view'.walls[2] = buildWallQuads(view'.heights, SectorIds)
        /\ view'.walls[1] \cap view'.walls[2] = {}
    BY <1>8, <1>12, <1>13
  <2>3. ShownOK(view'.previous, view'.current, view'.shown)
    BY <1>8, <1>9
  <2> QED
    BY <2>1, <2>2, <2>3 DEF ViewIsSound, Kept, ShownOK, Near, Apart, buildWallQuads
<1>15. LevelKnown' /\ RingHolds' /\ SentAreSound' /\ StubKeepsPace'
  BY <1>1 DEF SceneInv, LevelKnown, RingHolds, SentAreSound, StubKeepsPace, StubShape, Steady, OwnIds, AtRest
<1> QED
  BY <1>14, <1>15 DEF SceneInv

LEMMA SceneSame ==
    ASSUME SceneInv, UNCHANGED sceneVars
    PROVE  SceneInv'
  BY DEF sceneVars, SceneInv, LevelKnown, RingHolds, SentAreSound, StubKeepsPace, ViewIsSound

\* The inductive invariant says what SceneHolds says.
LEMMA SceneInvHolds == SceneInv => SceneHolds
<1> SUFFICES ASSUME SceneInv PROVE SceneHolds
  OBVIOUS
<1>1. PairIsSent
  BY DEF SceneInv, ViewIsSound, PairIsSent
<1>2. NothingJumps
  BY Zenon DEF SceneInv, StubKeepsPace, Steady, NothingJumps
<1>3. ShownBetween
  <2> SUFFICES ASSUME view # <<>> PROVE ShownBetween
    BY DEF ShownBetween
  <2>1. ShownOK(view.previous, view.current, view.shown)
    BY DEF SceneInv, ViewIsSound
  <2> QED
    BY <2>1, Zenon DEF ShownOK, ShownBetween, Near, Apart
<1>4. WallsAreCurrent
  BY DEF SceneInv, ViewIsSound, WallsAreCurrent
<1> QED
  BY <1>1, <1>2, <1>3, <1>4 DEF SceneHolds

\* What is drawn is what was published: a frame is made of the last two
\* snapshots with nothing lost or left over, the stub's tics follow each other
\* closely enough to be shown, what is shown lies between the two and turns the
\* shorter way, and the walls are those of the level at the heights shown, each
\* once (stubSim.ts, snapshot.ts, walls.ts, renderer.ts).
THEOREM ShowsWhatWasSent == SceneSpec => []SceneHolds
<1>1. SceneInit => SceneInv
  BY SceneStarts
<1>2. SceneInv /\ [SceneNext]_sceneVars => SceneInv'
  <2>1. ASSUME SceneInv, SceneNext PROVE SceneInv'
    <3>1. CASE StubTic
      BY <2>1, <3>1, StubKeeps
    <3>2. CASE CoreTic
      BY <2>1, <3>2, CoreKeeps
    <3>3. ASSUME NEW t \in -1..(Parts + 1), Draw(t) PROVE SceneInv'
      <4>1. t \in Int
        BY SceneSizes
      <4> QED
        BY <2>1, <3>3, <4>1, DrawKeeps
    <3> QED
      BY <2>1, <3>1, <3>2, <3>3 DEF SceneNext
  <2> QED
    BY <2>1, SceneSame
<1> QED
  BY <1>1, <1>2, SceneInvHolds, PTL DEF SceneSpec

=============================================================================
