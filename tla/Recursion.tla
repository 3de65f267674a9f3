------------------------------- MODULE Recursion -------------------------------
(***************************************************************************)
(* Facts that stand in for induction over data: a set of naturals has a    *)
(* least element, so whatever fails for some natural fails for a least     *)
(* one; and a tail-recursive function exists, so it satisfies the equation *)
(* that defines it.                                                        *)
(***************************************************************************)
EXTENDS Integers, FiniteSets, FiniteSetTheorems, WellFoundedInduction, TLAPS

\* Every set of naturals has a least element.
LEMMA LeastElement ==
  ASSUME NEW T \in SUBSET Nat, T # {}
  PROVE  \E m \in T : \A k \in T : m <= k
<1> DEFINE F == {0..t : t \in T}
<1>1. F \subseteq FiniteSubsetsOf(Nat)
  <2>1. \A t \in T : 0..t \in SUBSET Nat /\ IsFiniteSet(0..t)
    BY FS_Interval
  <2> QED BY <2>1 DEF FiniteSubsetsOf
<1>2. F # {}
  OBVIOUS
<1>3. PICK x \in F : \A y \in F : <<y, x>> \notin StrictSubsetOrdering(Nat)
  <2> HIDE DEF F
  <2> QED BY <1>1, <1>2, FS_StrictSubsetOrderingWellFounded, WFMin
<1>4. PICK m \in T : x = 0..m
  OBVIOUS
<1>5. ASSUME NEW k \in T, k < m
      PROVE  FALSE
  <2>1. 0..k \subseteq x /\ 0..k # x
    BY <1>4, <1>5
  <2>2. <<0..k, x>> \in StrictSubsetOrdering(Nat)
    BY <2>1, <1>4 DEF StrictSubsetOrdering
  <2> QED BY <2>2, <1>3
<1> QED BY <1>5

\* A finite set of naturals has a greatest element.
LEMMA GreatestElement ==
  ASSUME NEW S \in SUBSET Nat, S # {}, IsFiniteSet(S)
  PROVE  \E m \in S : \A k \in S : k <= m
<1> DEFINE Above(s) == {t \in S : t >= s}
           F == {Above(s) : s \in S}
<1>1. F \subseteq FiniteSubsetsOf(S)
  <2>1. \A s \in S : Above(s) \in SUBSET S /\ IsFiniteSet(Above(s))
    BY FS_Subset
  <2> QED BY <2>1 DEF FiniteSubsetsOf
<1>2. F # {}
  OBVIOUS
<1>3. PICK x \in F : \A y \in F : <<y, x>> \notin StrictSubsetOrdering(S)
  <2> HIDE DEF F
  <2> QED BY <1>1, <1>2, FS_StrictSubsetOrderingWellFounded, WFMin
<1>4. PICK m \in S : x = Above(m)
  OBVIOUS
<1>5. ASSUME NEW k \in S, k > m
      PROVE  FALSE
  <2>1. Above(k) \subseteq Above(m)
    <3>1. k \in Nat /\ m \in Nat /\ \A t \in S : t \in Nat
      OBVIOUS
    <3>2. \A t \in S : t >= k => t >= m
      BY <1>5, <3>1
    <3> HIDE DEF F
    <3> QED BY <3>2
  <2> m \in Above(m) /\ m \notin Above(k)
    BY <1>5
  <2> HIDE DEF Above
  <2>2. <<Above(k), x>> \in StrictSubsetOrdering(S)
    <3>1. Above(k) \subseteq S /\ Above(m) \subseteq S
      BY DEF Above
    <3> QED BY <2>1, <3>1, <1>4 DEF StrictSubsetOrdering
  <2> QED BY <2>2, <1>3
<1> QED BY <1>5

-----------------------------------------------------------------------------
\* A function that is base at stop, and elsewhere what it is at the next element,
\* exists whether or not stop is always reached.
LEMMA TailRecursion ==
  ASSUME NEW D, NEW R, NEW stop \in SUBSET D, NEW base \in [D -> R], NEW next \in [D -> D]
  PROVE  \E f \in [D -> R] : \A x \in D : f[x] = IF x \in stop THEN base[x] ELSE f[next[x]]
<1> DEFINE Closed == {C \in SUBSET D : \A z \in C \ stop : next[z] \in C}
           ends == [x \in D |-> {y \in stop : \A C \in Closed : x \in C => y \in C}]
           end(E) == IF E = {} THEN CHOOSE r \in R : TRUE ELSE base[CHOOSE y : y \in E]
           f == [x \in D |-> end(ends[x])]
<1>1. ASSUME NEW x \in stop
      PROVE  ends[x] = {x}
  <2>1. {x} \in Closed
    OBVIOUS
  <2>2. ends[x] = {y \in stop : \A C \in Closed : x \in C => y \in C}
    OBVIOUS
  <2> HIDE DEF Closed, ends
  <2> QED BY <2>1, <2>2
<1>2. ASSUME NEW x \in D, x \notin stop
      PROVE  ends[x] = ends[next[x]]
  <2>1. ASSUME NEW C \in Closed, next[x] \in C
        PROVE  C \cup {x} \in Closed
    BY <2>1
  <2>2. ASSUME NEW C \in Closed, x \in C
        PROVE  next[x] \in C
    BY <1>2, <2>2
  <2>3. /\ ends[x] = {y \in stop : \A C \in Closed : x \in C => y \in C}
        /\ ends[next[x]] = {y \in stop : \A C \in Closed : next[x] \in C => y \in C}
    OBVIOUS
  <2> HIDE DEF Closed, ends
  <2>4. ASSUME NEW y \in stop, \A C \in Closed : x \in C => y \in C, NEW C \in Closed, next[x] \in C
        PROVE  y \in C
    BY <1>2, <2>1, <2>4
  <2>5. \A y \in stop : (\A C \in Closed : x \in C => y \in C)
                        <=> (\A C \in Closed : next[x] \in C => y \in C)
    BY <2>2, <2>4
  <2> QED BY <2>3, <2>5
<1>3. \A x \in D : ends[x] \in SUBSET D
  OBVIOUS
<1> HIDE DEF ends, Closed
<1>4. \A x \in D : f[x] = end(ends[x]) /\ f[next[x]] = end(ends[next[x]])
  OBVIOUS
<1>5. ASSUME NEW x \in stop
      PROVE  f[x] = base[x]
  <2>1. end({x}) = base[x]
    OBVIOUS
  <2> HIDE DEF end, f
  <2> QED BY <1>1, <1>4, <2>1
<1>6. ASSUME NEW x \in D
      PROVE  f[x] \in R
  <2>1. \A E \in SUBSET D : end(E) \in R
    OBVIOUS
  <2> HIDE DEF end, f
  <2> QED BY <1>3, <1>4, <2>1
<1>7. f \in [D -> R]
  BY <1>6
<1> HIDE DEF end, f
<1>8. \A x \in D : f[x] = IF x \in stop THEN base[x] ELSE f[next[x]]
  BY <1>2, <1>4, <1>5
<1> QED BY <1>7, <1>8

\* Of the elements where m is least, one has the least n.
LEMMA LeastPair ==
  ASSUME NEW D, NEW T \in SUBSET D, T # {}, NEW m \in [D -> Nat], NEW n \in [D -> Nat]
  PROVE  \E x \in T : \A y \in T : ~(m[y] < m[x] \/ (m[y] = m[x] /\ n[y] < n[x]))
<1> DEFINE M == {m[x] : x \in T}
<1>1. M # {} /\ M \in SUBSET Nat
  OBVIOUS
<1>2. PICK k \in M : \A l \in M : k <= l
  <2> HIDE DEF M
  <2> QED BY <1>1, LeastElement
<1> DEFINE Lowest == {x \in T : m[x] = k}
           N == {n[x] : x \in Lowest}
<1>3. N # {} /\ N \in SUBSET Nat
  <2>1. Lowest # {} /\ \A x \in Lowest : n[x] \in Nat
    OBVIOUS
  <2> HIDE DEF Lowest
  <2> QED BY <2>1
<1>4. PICK l \in N : \A j \in N : l <= j
  <2> HIDE DEF N
  <2> QED BY <1>3, LeastElement
<1>5. PICK x \in Lowest : n[x] = l
  OBVIOUS
<1>6. x \in T /\ m[x] = k /\ k \in Nat /\ l \in Nat
  OBVIOUS
<1>7. ASSUME NEW y \in T
      PROVE  ~(m[y] < m[x] \/ (m[y] = m[x] /\ n[y] < n[x]))
  <2>1. m[y] \in M /\ (m[y] = k => n[y] \in N) /\ m[y] \in Nat /\ n[y] \in Nat
    OBVIOUS
  <2> HIDE DEF M, N, Lowest
  <2> QED BY <1>2, <1>4, <1>5, <1>6, <2>1
<1> QED BY <1>6, <1>7

\* No element of T has a smaller measure than x.
Least(x, T, m) == x \in T /\ \A y \in T : ~(m[y] < m[x])

\* A nonempty set has an element of the least measure.
LEMMA LeastMeasure ==
  ASSUME NEW D, NEW T \in SUBSET D, T # {}, NEW m \in [D -> Nat]
  PROVE  \E x : Least(x, T, m)
<1>1. PICK x \in T : \A y \in T : ~(m[y] < m[x] \/ (m[y] = m[x] /\ m[y] < m[x]))
  BY LeastPair
<1> QED BY <1>1 DEF Least

\* What holds at first and from each number to the next holds up to n.
LEMMA Upward ==
  ASSUME NEW n \in Nat, NEW T \in SUBSET (0..n), 0 \in T, \A i \in 1..n : i - 1 \in T => i \in T
  PROVE  \A i \in 0..n : i \in T
<1> DEFINE Wrong == (0..n) \ T
<1>1. ASSUME Wrong # {}
      PROVE  FALSE
  <2>1. Wrong \in SUBSET Nat
    OBVIOUS
  <2>2. PICK i \in Wrong : \A j \in Wrong : i <= j
    <3> HIDE DEF Wrong
    <3> QED BY <1>1, <2>1, LeastElement
  <2> QED BY <2>2
<1> QED BY <1>1

\* The function f on 0..n has b for its first value, and each other is a step
\* from the one before.
StepByStep(f, n, D, b, step) ==
  f \in [0..n -> D] /\ f[0] = b /\ \A i \in 1..n : f[i] = step[<<i, f[i - 1]>>]

\* There is such a function for every first value and steps.
LEMMA PrefixRecursion ==
  ASSUME NEW n \in Nat, NEW D, NEW b \in D, NEW step \in [(1..n) \X D -> D]
  PROVE  \E f : StepByStep(f, n, D, b, step)
<1> DEFINE Runs(f, k) == f[0] = b /\ \A i \in 1..k : f[i] = step[<<i, f[i - 1]>>]
           T == {k \in 0..n : \E f \in [0..k -> D] : Runs(f, k)}
<1>1. 0 \in T
  <2> DEFINE g == [i \in 0..0 |-> b]
  <2>1. g \in [0..0 -> D] /\ g[0] = b /\ 0 \in 0..n
    OBVIOUS
  <2>2. Runs(g, 0)
    BY <2>1
  <2> HIDE DEF g, Runs
  <2> QED BY <2>1, <2>2
<1>2. ASSUME NEW k \in 1..n, k - 1 \in T
      PROVE  k \in T
  <2>1. PICK f \in [0..(k - 1) -> D] : Runs(f, k - 1)
    <3> HIDE DEF Runs
    <3> QED BY <1>2
  <2> DEFINE g == [i \in 0..k |-> IF i = k THEN step[<<k, f[k - 1]>>] ELSE f[i]]
  <2>2. step[<<k, f[k - 1]>>] \in D
    <3>1. f[k - 1] \in D
      BY <2>1
    <3> QED BY <3>1
  <2>3. g \in [0..k -> D]
    BY <2>1, <2>2
  <2>4. g[0] = b
    BY <2>1
  <2>5. ASSUME NEW i \in 1..k
        PROVE  g[i] = step[<<i, g[i - 1]>>]
    <3>1. g[i - 1] = f[i - 1]
      OBVIOUS
    <3>2. g[i] = IF i = k THEN step[<<k, f[k - 1]>>] ELSE f[i]
      OBVIOUS
    <3>3. i # k => i \in 1..(k - 1)
      OBVIOUS
    <3> HIDE DEF g
    <3> QED BY <2>1, <3>1, <3>2, <3>3
  <2>6. Runs(g, k)
    <3> HIDE DEF g
    <3> QED BY <2>4, <2>5
  <2> HIDE DEF g, Runs
  <2> QED BY <2>3, <2>6
<1>3. T \in SUBSET (0..n)
  OBVIOUS
<1>4. n \in T
  <2> HIDE DEF T
  <2>1. \A k \in 0..n : k \in T
    BY <1>1, <1>2, <1>3, Upward
  <2> QED BY <2>1
<1> QED BY <1>4 DEF StepByStep

\* The function f gives x, and what f gives for each of next[x].
Branching(f, D, next) ==
  f \in [D -> SUBSET D] /\ \A x \in D : f[x] = {x} \cup UNION {f[y] : y \in next[x]}

\* There is such a function: what can be reached from x along next is x and what
\* can be reached from next[x].
LEMMA TreeRecursion ==
  ASSUME NEW D, NEW next \in [D -> SUBSET D]
  PROVE  \E f : Branching(f, D, next)
<1> DEFINE Closed == {C \in SUBSET D : \A z \in C : next[z] \subseteq C}
           f == [x \in D |-> {z \in D : \A C \in Closed : x \in C => z \in C}]
<1>1. f \in [D -> SUBSET D]
  OBVIOUS
<1>2. ASSUME NEW x \in D
      PROVE  f[x] \in Closed /\ x \in f[x] /\ \A C \in Closed : x \in C => f[x] \subseteq C
  <2>1. f[x] = {z \in D : \A C \in Closed : x \in C => z \in C}
    OBVIOUS
  <2>2. ASSUME NEW z \in f[x]
        PROVE  next[z] \subseteq f[x]
    <3>1. z \in D /\ next[z] \subseteq D
      BY <2>1
    <3>2. ASSUME NEW C \in Closed, x \in C
          PROVE  next[z] \subseteq C
      BY <2>1, <2>2, <3>2
    <3> HIDE DEF Closed, f
    <3> QED BY <2>1, <3>1, <3>2
  <2> QED BY <2>1, <2>2
<1> HIDE DEF f
<1>3. ASSUME NEW x \in D
      PROVE  f[x] = {x} \cup UNION {f[y] : y \in next[x]}
  <2> DEFINE C == {x} \cup UNION {f[y] : y \in next[x]}
  <2>1. ASSUME NEW y \in next[x]
        PROVE  y \in D /\ y \in f[y] /\ f[y] \subseteq f[x] /\ f[y] \in Closed
    <3>1. y \in D /\ y \in f[x]
      BY <1>2, <2>1
    <3> QED BY <1>2, <3>1
  <2>2. C \subseteq f[x]
    BY <1>2, <2>1
  <2>3. C \in Closed
    <3>1. C \in SUBSET D
      BY <2>1
    <3>2. ASSUME NEW z \in C
          PROVE  next[z] \subseteq C
      <4>1. CASE z = x
        BY <2>1, <4>1
      <4>2. ASSUME NEW y \in next[x], z \in f[y]
            PROVE  next[z] \subseteq C
        BY <2>1, <4>2
      <4> QED BY <3>2, <4>1, <4>2
    <3> QED BY <3>1, <3>2
  <2>4. f[x] \subseteq C
    <3>1. x \in C
      OBVIOUS
    <3> HIDE DEF Closed, C
    <3> QED BY <1>2, <2>3, <3>1
  <2> QED BY <2>2, <2>4
<1> QED BY <1>1, <1>3 DEF Branching

\* The function f is b on stop, and elsewhere a step from what it is one further down.
StepDown(f, D, R, stop, b, next, step) ==
  f \in [D -> R] /\ \A x \in D : f[x] = IF x \in stop THEN b ELSE step[<<x, f[next[x]]>>]

\* There is such a function if going down lowers a measure.
LEMMA DownwardRecursion ==
  ASSUME NEW D, NEW R, NEW stop \in SUBSET D, NEW b \in R, NEW next \in [D -> D],
         NEW step \in [D \X R -> R],
         \E m \in [D -> Nat] : \A x \in D \ stop : m[next[x]] < m[x]
  PROVE  \E f : StepDown(f, D, R, stop, b, next, step)
<1>1. PICK m \in [D -> Nat] : \A x \in D \ stop : m[next[x]] < m[x]
  OBVIOUS
<1> DEFINE val(g, x) == IF x \in stop THEN b ELSE step[<<x, g[next[x]]>>]
           Good(g, i) == g \in [D -> R] /\ \A x \in D : m[x] <= i => g[x] = val(g, x)
<1>2. ASSUME NEW n \in Nat
      PROVE  \E g : Good(g, n)
  <2> DEFINE T == {i \in 0..n : \E g : Good(g, i)}
  <2>1. 0 \in T
    <3> DEFINE g == [x \in D |-> b]
    <3>1. ASSUME NEW x \in D, m[x] <= 0
          PROVE  x \in stop
      <4>1. m[x] \in Nat /\ m[next[x]] \in Nat
        OBVIOUS
      <4> QED BY <1>1, <3>1, <4>1
    <3>2. Good(g, 0)
      BY <3>1
    <3> HIDE DEF Good
    <3> QED BY <3>2
  <2>2. ASSUME NEW i \in 1..n, i - 1 \in T
        PROVE  i \in T
    <3>1. PICK g : Good(g, i - 1)
      BY <2>2
    <3> DEFINE h == [x \in D |-> val(g, x)]
    <3>2. h \in [D -> R]
      <4>1. \A x \in D : val(g, x) \in R
        BY <3>1
      <4> HIDE DEF val
      <4> QED BY <4>1
    <3>3. ASSUME NEW x \in D, m[x] <= i
          PROVE  h[x] = val(h, x)
      <4>1. CASE x \in stop
        BY <4>1
      <4>2. CASE x \notin stop
        <5>1. m[next[x]] <= i - 1 /\ next[x] \in D
          <6>1. m[x] \in Nat /\ m[next[x]] \in Nat /\ m[next[x]] < m[x] /\ next[x] \in D
            BY <1>1, <4>2
          <6> QED BY <3>3, <6>1
        <5>2. g[next[x]] = val(g, next[x]) /\ h[next[x]] = val(g, next[x])
          <6> HIDE DEF val
          <6> QED BY <3>1, <5>1
        <5>3. h[x] = step[<<x, g[next[x]]>>]
          BY <4>2
        <5> HIDE DEF h
        <5> QED BY <4>2, <5>2, <5>3
      <4> QED BY <4>1, <4>2
    <3> HIDE DEF h, val
    <3>4. Good(h, i)
      BY <3>2, <3>3
    <3> QED BY <3>4
  <2>3. T \in SUBSET (0..n)
    OBVIOUS
  <2> HIDE DEF T
  <2>4. n \in T
    <3>1. \A i \in 0..n : i \in T
      BY <2>1, <2>2, <2>3, Upward
    <3> QED BY <3>1
  <2> QED BY <2>4 DEF T
<1>3. ASSUME NEW g, NEW h, NEW i \in Nat, NEW j \in Nat, Good(g, i), Good(h, j),
             NEW z \in D, m[z] <= i, m[z] <= j
      PROVE  g[z] = h[z]
  <2> DEFINE T == {x \in D : m[x] <= i /\ m[x] <= j /\ g[x] # h[x]}
  <2>1. ASSUME T # {}
        PROVE  FALSE
    <3>1. T \in SUBSET D
      OBVIOUS
    <3>2. PICK x : Least(x, T, m)
      <4> HIDE DEF T
      <4> QED BY <2>1, <3>1, LeastMeasure
    <3>3. x \in T /\ \A y \in T : ~(m[y] < m[x])
      BY <3>2 DEF Least
    <3>4. g[x] = val(g, x) /\ h[x] = val(h, x) /\ g[x] # h[x] /\ x \in D
      BY <1>3, <3>3
    <3>5. x \notin stop
      BY <3>4
    <3>6. m[next[x]] < m[x] /\ next[x] \in D /\ m[x] <= i /\ m[x] <= j
      BY <1>1, <3>3, <3>5
    <3>7. m[next[x]] <= i /\ m[next[x]] <= j
      <4>1. m[x] \in Nat /\ m[next[x]] \in Nat
        BY <3>4, <3>6
      <4> QED BY <3>6, <4>1
    <3>8. g[next[x]] = h[next[x]]
      BY <3>3, <3>6, <3>7
    <3> QED BY <3>4, <3>5, <3>8
  <2> QED BY <1>3, <2>1
<1> DEFINE pick(i) == CHOOSE g : Good(g, i)
           f == [x \in D |-> pick(m[x])[x]]
<1> HIDE DEF Good
<1>4. \A n \in Nat : Good(pick(n), n)
  BY <1>2
<1> HIDE DEF pick
<1>5. ASSUME NEW x \in D
      PROVE  f[x] \in R /\ f[x] = val(f, x)
  <2>1. m[x] \in Nat /\ m[next[x]] \in Nat /\ next[x] \in D
    OBVIOUS
  <2>2. Good(pick(m[x]), m[x]) /\ Good(pick(m[next[x]]), m[next[x]])
    BY <1>4, <2>1
  <2>3. f[x] = pick(m[x])[x] /\ f[next[x]] = pick(m[next[x]])[next[x]]
    BY <2>1
  <2>4. pick(m[x]) \in [D -> R] /\ f[x] = val(pick(m[x]), x)
    <3>1. m[x] <= m[x]
      BY <2>1
    <3> HIDE DEF f, val
    <3> QED BY <2>2, <2>3, <3>1 DEF Good
  <2>5. CASE x \in stop
    BY <2>3, <2>4, <2>5
  <2>6. CASE x \notin stop
    <3>1. m[next[x]] <= m[x] /\ m[next[x]] <= m[next[x]]
      BY <1>1, <2>1, <2>6
    <3>2. pick(m[next[x]])[next[x]] = pick(m[x])[next[x]]
      BY <1>3, <2>1, <2>2, <3>1
    <3> HIDE DEF f
    <3> QED BY <2>3, <2>4, <2>6, <3>2
  <2> QED BY <2>5, <2>6
<1>6. f \in [D -> R]
  <2> HIDE DEF val
  <2> QED BY <1>5
<1> HIDE DEF f
<1> QED BY <1>5, <1>6 DEF StepDown

-----------------------------------------------------------------------------
\* The function f is base on stop, and elsewhere what it is at the next element.
Iterates(f, D, R, stop, base, next) ==
  f \in [D -> R] /\ \A x \in D : f[x] = IF x \in stop THEN base[x] ELSE f[next[x]]

\* TailRecursion, with a name for what the function does.
LEMMA Iteration ==
  ASSUME NEW D, NEW R, NEW stop \in SUBSET D, NEW base \in [D -> R], NEW next \in [D -> D]
  PROVE  \E f : Iterates(f, D, R, stop, base, next)
<1>1. PICK f \in [D -> R] : \A x \in D : f[x] = IF x \in stop THEN base[x] ELSE f[next[x]]
  <2>1. next \in [D -> D] /\ base \in [D -> R] /\ stop \in SUBSET D
    OBVIOUS
  <2> QED BY <2>1, TailRecursion
<1>2. Iterates(f, D, R, stop, base, next)
  BY <1>1 DEF Iterates
<1> QED BY <1>2

-----------------------------------------------------------------------------
\* A monotone function on the subsets of a set has a fixed point.
LEMMA FixedPoint ==
  ASSUME NEW D, NEW F \in [SUBSET D -> SUBSET D],
         \A X, Y \in SUBSET D : X \subseteq Y => F[X] \subseteq F[Y]
  PROVE  \E W \in SUBSET D : F[W] = W
<1> DEFINE W == UNION {X \in SUBSET D : X \subseteq F[X]}
<1>1. W \in SUBSET D /\ \A X \in SUBSET D : X \subseteq F[X] => X \subseteq W
  OBVIOUS
<1>2. \A x \in W : \E X \in SUBSET D : X \subseteq F[X] /\ x \in X
  OBVIOUS
<1> HIDE DEF W
<1>3. W \subseteq F[W]
  <2> SUFFICES ASSUME NEW x \in W PROVE x \in F[W]
    OBVIOUS
  <2>1. PICK X \in SUBSET D : X \subseteq F[X] /\ x \in X
    BY <1>2
  <2>2. F[X] \subseteq F[W]
    BY <1>1, <2>1
  <2> QED BY <2>1, <2>2
<1>4. F[W] \in SUBSET D /\ F[W] \subseteq F[F[W]]
  BY <1>1, <1>3
<1>5. F[W] \subseteq W
  BY <1>1, <1>4
<1> QED BY <1>1, <1>3, <1>5

=============================================================================
