----------------------------- MODULE StartUpProofs -----------------------------
(***************************************************************************)
(* What Main starts from: a graph without loops or double edges, every     *)
(* edge both ways, whether it is read or drawn; and an estimate of the     *)
(* number of colours that is never too low.                                *)
(***************************************************************************)
EXTENDS StartUp, Recursion, SequenceTheorems

Keys(n) == 0..(n - 1)

\* The graph adj on n vertices has no loop, no edge twice, and every edge both ways.
SimpleGraph(n, adj) ==
  /\ adj \in [Keys(n) -> Seq(Keys(n))]
  /\ \A v \in Keys(n) : IsInjective(adj[v]) /\ v \notin Range(adj[v])
  /\ \A u, v \in Keys(n) : u \in Range(adj[v]) <=> v \in Range(adj[u])

\* A list of neighbours that v joins.
LEMMA Joined ==
  ASSUME NEW S, NEW s \in Seq(S), NEW v \in S
  PROVE  /\ Append(s, v) \in Seq(S)
         /\ Range(Append(s, v)) = Range(s) \cup {v} /\ Range(s) \subseteq S
         /\ IsInjective(s) /\ v \notin Range(s) => IsInjective(Append(s, v))
<1> DEFINE all == Append(s, v)
<1>1. all \in Seq(S) /\ Len(all) = Len(s) + 1 /\ Len(s) \in Nat
  BY AppendProperties, LenProperties
<1>2. (\A i \in 1..Len(s) : all[i] = s[i]) /\ all[Len(s) + 1] = v
  BY AppendProperties, LenProperties
<1>3. DOMAIN s = 1..Len(s) /\ DOMAIN all = 1..(Len(s) + 1)
  BY <1>1, LenProperties
<1> HIDE DEF all
<1>4. Range(all) = Range(s) \cup {v}
  BY <1>1, <1>2, <1>3 DEF Range
<1>5. Range(s) \subseteq S
  BY ElementOfSeq, <1>3 DEF Range
<1>6. ASSUME IsInjective(s), v \notin Range(s), NEW i \in DOMAIN all, NEW j \in DOMAIN all, all[i] = all[j]
      PROVE  i = j
  <2>1. \A k \in 1..Len(s) : s[k] \in Range(s) /\ s[k] # v
    BY <1>3, <1>6 DEF Range
  <2>2. \A k, l \in 1..Len(s) : s[k] = s[l] => k = l
    BY <1>3, <1>6 DEF IsInjective
  <2>3. /\ i \in 1..Len(s) \/ i = Len(s) + 1
        /\ j \in 1..Len(s) \/ j = Len(s) + 1
    BY <1>1, <1>3, <1>6
  <2> QED BY <1>2, <1>6, <2>1, <2>2, <2>3
<1> QED BY <1>1, <1>4, <1>5, <1>6 DEF all, IsInjective

\* The empty list names no neighbour.
LEMMA NoneYet ==
  ASSUME NEW S
  PROVE  << >> \in Seq(S) /\ IsInjective(<< >>) /\ Range(<< >>) = {}
BY EmptySeq DEF IsInjective, Range

-----------------------------------------------------------------------------
(* A graph drawn at random. *)

\* Another edge leaves a simple graph.
LEMMA AddEdgeSimple ==
  ASSUME NEW n \in Nat, NEW adj, SimpleGraph(n, adj),
         NEW u \in Keys(n), NEW v \in Keys(n), u # v
  PROVE  SimpleGraph(n, addEdge(adj, u, v))
<1>1. CASE v \in Range(adj[u])
  BY <1>1 DEF addEdge
<1>2. CASE v \notin Range(adj[u])
  <2> DEFINE more == addEdge(adj, u, v)
  <2>1. /\ adj \in [Keys(n) -> Seq(Keys(n))]
        /\ \A w \in Keys(n) : IsInjective(adj[w]) /\ w \notin Range(adj[w])
        /\ \A w, x \in Keys(n) : x \in Range(adj[w]) <=> w \in Range(adj[x])
    BY DEF SimpleGraph
  <2>2. more = [adj EXCEPT ![u] = Append(@, v), ![v] = Append(@, u)]
    BY <1>2 DEF addEdge
  <2>3. /\ Append(adj[u], v) \in Seq(Keys(n)) /\ IsInjective(Append(adj[u], v))
        /\ Range(Append(adj[u], v)) = Range(adj[u]) \cup {v}
    BY <1>2, <2>1, Joined
  <2>4. /\ Append(adj[v], u) \in Seq(Keys(n)) /\ IsInjective(Append(adj[v], u))
        /\ Range(Append(adj[v], u)) = Range(adj[v]) \cup {u}
    BY <1>2, <2>1, Joined
  <2>5. more \in [Keys(n) -> Seq(Keys(n))]
    BY <2>1, <2>2, <2>3, <2>4
  <2>6. /\ more[u] = Append(adj[u], v) /\ more[v] = Append(adj[v], u)
        /\ \A w \in Keys(n) \ {u, v} : more[w] = adj[w]
    BY <2>1, <2>2
  <2> HIDE DEF more
  <2>7. \A w \in Keys(n) : Range(more[w]) = IF w = u THEN Range(adj[u]) \cup {v}
                                            ELSE IF w = v THEN Range(adj[v]) \cup {u}
                                            ELSE Range(adj[w])
    BY <2>3, <2>4, <2>6
  <2>8. \A w \in Keys(n) : IsInjective(more[w]) /\ w \notin Range(more[w])
    BY <2>1, <2>3, <2>4, <2>6, <2>7
  <2>9. \A w, x \in Keys(n) : x \in Range(more[w]) <=> w \in Range(more[x])
    <3>1. \A w, x \in Keys(n) : x \in Range(more[w])
                                <=> x \in Range(adj[w]) \/ (w = u /\ x = v) \/ (w = v /\ x = u)
      BY <2>7
    <3> QED BY <2>1, <3>1
  <2> QED BY <2>5, <2>8, <2>9 DEF SimpleGraph, more
<1> QED BY <1>1, <1>2

\* What a drawing may have come to.
Drawings(n) == {acc \in [adj : [Keys(n) -> Seq(Keys(n))], edgeCount : Nat] : SimpleGraph(n, acc.adj)}

\* One more pair that is drawn leaves a simple graph.
LEMMA DrawSimple ==
  ASSUME NEW n \in Nat, NEW acc \in Drawings(n), NEW e \in Keys(n) \X Keys(n), NEW edges
  PROVE  Draw(acc, e, edges) \in Drawings(n)
<1> DEFINE more == addEdge(acc.adj, e[1], e[2])
<1>1. CASE acc.edgeCount = edges \/ e[1] = e[2]
  BY <1>1 DEF Draw
<1>2. CASE ~(acc.edgeCount = edges \/ e[1] = e[2])
  <2>1. SimpleGraph(n, more)
    BY <1>2, AddEdgeSimple DEF Drawings
  <2>2. Draw(acc, e, edges) =
          [adj |-> more, edgeCount |-> IF more = acc.adj THEN acc.edgeCount ELSE acc.edgeCount + 1]
    BY <1>2 DEF Draw
  <2>3. acc.edgeCount \in Nat
    BY DEF Drawings
  <2> HIDE DEF more
  <2> QED BY <2>1, <2>2, <2>3 DEF Drawings, SimpleGraph
<1> QED BY <1>1, <1>2

\* Every graph the generator makes is simple, whatever pairs are drawn.
LEMMA GeneratedSimple ==
  ASSUME NEW n \in Nat, NEW edges, NEW pairs \in Seq(Keys(n) \X Keys(n))
  PROVE  SimpleGraph(n, generate(n, edges, pairs))
<1> DEFINE m == Len(pairs)
           D == Drawings(n)
           first == [adj |-> [v \in 0..(n - 1) |-> <<>>], edgeCount |-> 0]
           drawn == CHOOSE f : f = [i \in 0..m |-> IF i = 0 THEN first ELSE Draw(f[i - 1], pairs[i], edges)]
           step == [x \in (1..m) \X D |-> Draw(x[2], pairs[x[1]], edges)]
<1>1. m \in Nat /\ \A i \in 1..m : pairs[i] \in Keys(n) \X Keys(n)
  BY LenProperties, ElementOfSeq
<1>2. first \in Drawings(n)
  <2> DEFINE none == [v \in 0..(n - 1) |-> <<>>]
  <2>1. none \in [Keys(n) -> Seq(Keys(n))] /\ \A v \in Keys(n) : none[v] = << >>
    BY EmptySeq DEF Keys
  <2> HIDE DEF none
  <2>2. SimpleGraph(n, none)
    BY <2>1, NoneYet DEF SimpleGraph
  <2> QED BY <2>1, <2>2 DEF Drawings, none
<1>3. step \in [(1..m) \X D -> D] /\ first \in D
  BY <1>1, <1>2, DrawSimple
<1>4. generate(n, edges, pairs) = drawn[m].adj
  BY DEF generate
<1> HIDE DEF m, first
<1>5. PICK f : StepByStep(f, m, D, first, step)
  <2> HIDE DEF step, D, drawn
  <2>1. m \in Nat /\ first \in D /\ step \in [(1..m) \X D -> D]
    BY <1>1, <1>3
  <2> QED BY <2>1, PrefixRecursion
<1>6. f = [i \in 0..m |-> IF i = 0 THEN first ELSE Draw(f[i - 1], pairs[i], edges)]
  <2>1. ASSUME NEW i \in 1..m
        PROVE  f[i] = Draw(f[i - 1], pairs[i], edges)
    <3>1. f[i - 1] \in D
      BY <1>1, <1>5 DEF StepByStep
    <3>2. <<i, f[i - 1]>> \in (1..m) \X D
      BY <3>1
    <3> QED BY <1>5, <3>2 DEF StepByStep
  <2> HIDE DEF step
  <2>2. \A i \in 0..m : f[i] = IF i = 0 THEN first ELSE Draw(f[i - 1], pairs[i], edges)
    BY <1>1, <1>5, <2>1 DEF StepByStep
  <2> QED BY <1>5, <2>2 DEF StepByStep
<1>7. drawn = [i \in 0..m |-> IF i = 0 THEN first ELSE Draw(drawn[i - 1], pairs[i], edges)]
  BY <1>6
<1> HIDE DEF drawn
<1>8. \A i \in 0..m : drawn[i] = IF i = 0 THEN first ELSE Draw(drawn[i - 1], pairs[i], edges)
  BY <1>7
<1> DEFINE T == {i \in 0..m : drawn[i] \in Drawings(n)}
<1>9. \A i \in 0..m : i \in T
  <2>1. T \in SUBSET (0..m) /\ 0 \in T
    BY <1>1, <1>2, <1>8
  <2>2. ASSUME NEW i \in 1..m, i - 1 \in T
        PROVE  i \in T
    <3>1. drawn[i] = Draw(drawn[i - 1], pairs[i], edges)
      BY <1>1, <1>8
    <3> QED BY <1>1, <2>2, <3>1, DrawSimple
  <2> HIDE DEF T
  <2> QED BY <1>1, <2>1, <2>2, Upward
<1>10. drawn[m] \in Drawings(n)
  BY <1>1, <1>9
<1> QED BY <1>4, <1>10 DEF Drawings

-----------------------------------------------------------------------------
(* A graph read from a file. *)

\* The graphs on some of n vertices.
Lists(n) == UNION {[K -> Seq(Keys(n))] : K \in SUBSET Keys(n)}

\* The neighbours adj lists for u, if it lists any.
Listed(adj, u) == IF u \in DOMAIN adj THEN Range(adj[u]) ELSE {}

\* t is adj with v listed for u beside the others.
Inserted(adj, u, v, t) ==
  /\ DOMAIN t = DOMAIN adj \cup {u}
  /\ Range(t[u]) = Listed(adj, u) \cup {v}
  /\ v \notin Listed(adj, u) /\ (u \in DOMAIN adj => IsInjective(adj[u])) => IsInjective(t[u])
  /\ \A w \in DOMAIN adj \ {u} : t[w] = adj[w]

\* insertHelper lists one more neighbour.
LEMMA InsertLists ==
  ASSUME NEW n \in Nat, NEW adj \in Lists(n), NEW u \in Keys(n), NEW v \in Keys(n)
  PROVE  /\ insertHelper(adj, u, v) \in Lists(n)
         /\ Inserted(adj, u, v, insertHelper(adj, u, v))
<1> DEFINE t == insertHelper(adj, u, v)
           more == IF u \in DOMAIN adj THEN Append(adj[u], v) ELSE <<v>>
<1>1. PICK K \in SUBSET Keys(n) : adj \in [K -> Seq(Keys(n))]
  BY DEF Lists
<1>2. DOMAIN adj = K
  BY <1>1
<1>3. /\ more \in Seq(Keys(n)) /\ Range(more) = Listed(adj, u) \cup {v}
      /\ v \notin Listed(adj, u) /\ (u \in DOMAIN adj => IsInjective(adj[u])) => IsInjective(more)
  <2>1. CASE u \in K
    BY <1>1, <1>2, <2>1, Joined DEF Listed
  <2>2. CASE u \notin K
    <3> DEFINE none == << >>
    <3>1. <<v>> = Append(none, v)
      OBVIOUS
    <3>2. none \in Seq(Keys(n)) /\ IsInjective(none) /\ Range(none) = {}
      BY NoneYet
    <3> HIDE DEF none
    <3>3. Append(none, v) \in Seq(Keys(n)) /\ Range(Append(none, v)) = {v} /\ IsInjective(Append(none, v))
      BY <3>2, Joined
    <3> QED BY <1>2, <2>2, <3>1, <3>3 DEF Listed
  <2> QED BY <2>1, <2>2
<1> HIDE DEF more
<1>4. t = [w \in K \cup {u} |-> IF w # u THEN adj[w] ELSE more]
  BY <1>2 DEF insertHelper, more
<1>5. t \in [K \cup {u} -> Seq(Keys(n))]
  BY <1>1, <1>3, <1>4
<1>6. t \in Lists(n)
  BY <1>5 DEF Lists
<1>7. t[u] = more /\ (\A w \in K \ {u} : t[w] = adj[w]) /\ DOMAIN t = K \cup {u}
  BY <1>4
<1> HIDE DEF t
<1>8. Inserted(adj, u, v, t)
  BY <1>2, <1>3, <1>7 DEF Inserted
<1> QED BY <1>6, <1>8 DEF t

\* adj is what the first i lines say.
ReadSoFar(n, lines, i, adj) ==
  /\ adj \in Lists(n) /\ DOMAIN adj = {lines[j][1] - 1 : j \in 1..i}
  /\ \A u \in DOMAIN adj :
       /\ IsInjective(adj[u])
       /\ \A v \in Keys(n) : v \in Range(adj[u]) <=> \E j \in 1..i : lines[j] = <<u + 1, v + 1>>

\* One more line is read.
LEMMA ReadLine ==
  ASSUME NEW n \in Nat, NEW lines \in Seq((1..n) \X (1..n)),
         \A i, j \in DOMAIN lines : lines[i] = lines[j] => i = j,
         NEW i \in 1..Len(lines), NEW u \in Keys(n), NEW v \in Keys(n), lines[i] = <<u + 1, v + 1>>,
         NEW adj, ReadSoFar(n, lines, i - 1, adj), NEW t, t = insertHelper(adj, u, v)
  PROVE  ReadSoFar(n, lines, i, t)
<1>1. DOMAIN lines = 1..Len(lines) /\ Len(lines) \in Nat
  BY LenProperties
<1>4. /\ adj \in Lists(n) /\ DOMAIN adj = {lines[j][1] - 1 : j \in 1..(i - 1)}
      /\ \A w \in DOMAIN adj : IsInjective(adj[w])
      /\ \A w \in DOMAIN adj : \A x \in Keys(n) :
           x \in Range(adj[w]) <=> \E j \in 1..(i - 1) : lines[j] = <<w + 1, x + 1>>
  BY DEF ReadSoFar
<1>5. /\ t \in Lists(n) /\ DOMAIN t = DOMAIN adj \cup {u}
      /\ Range(t[u]) = Listed(adj, u) \cup {v}
      /\ v \notin Listed(adj, u) /\ (u \in DOMAIN adj => IsInjective(adj[u])) => IsInjective(t[u])
      /\ \A w \in DOMAIN adj \ {u} : t[w] = adj[w]
  <2>1. t \in Lists(n) /\ Inserted(adj, u, v, t)
    BY <1>4, InsertLists
  <2> QED BY <2>1 DEF Inserted
<1>6. 1..i = (1..(i - 1)) \cup {i} /\ i \in 1..Len(lines) /\ \A j \in 1..(i - 1) : j \in 1..Len(lines) /\ j # i
  BY <1>1
<1>7. v \notin Listed(adj, u)
  <2>1. ~ \E j \in 1..(i - 1) : lines[j] = <<u + 1, v + 1>>
    BY <1>1, <1>6
  <2> QED BY <1>4, <2>1 DEF Listed
<1>8. DOMAIN t = {lines[j][1] - 1 : j \in 1..i}
  <2>1. lines[i][1] - 1 = u
    BY DEF Keys
  <2> DEFINE a(j) == lines[j][1] - 1
             before == 1..(i - 1)
             now == 1..i
  <2>2. /\ DOMAIN adj = {a(j) : j \in before}
        /\ now = before \cup {i} /\ a(i) = u
        /\ DOMAIN t = DOMAIN adj \cup {u}
    BY <1>4, <1>5, <1>6, <2>1
  <2> HIDE DEF a, before, now
  <2>3. DOMAIN t = {a(j) : j \in now}
    BY ONLY <2>2
  <2> QED BY <2>3 DEF a, now
<1>9. \A w \in DOMAIN t : IsInjective(t[w])
  BY <1>4, <1>5, <1>7
<1>10. ASSUME NEW w \in DOMAIN t, NEW x \in Keys(n)
       PROVE  x \in Range(t[w]) <=> \E j \in 1..i : lines[j] = <<w + 1, x + 1>>
  <2>1. w \in Keys(n)
    BY <1>5 DEF Lists
  <2>2. x \in Listed(adj, w) <=> \E j \in 1..(i - 1) : lines[j] = <<w + 1, x + 1>>
    <3>1. CASE w \in DOMAIN adj
      BY <1>4, <3>1 DEF Listed
    <3>2. CASE w \notin DOMAIN adj
      <4>1. ASSUME NEW j \in 1..(i - 1), lines[j] = <<w + 1, x + 1>>
            PROVE  FALSE
        <5>1. lines[j][1] - 1 = w
          BY <2>1, <4>1 DEF Keys
        <5> QED BY <1>4, <3>2, <5>1
      <4> QED BY <3>2, <4>1 DEF Listed
    <3> QED BY <3>1, <3>2
  <2>3. x \in Range(t[w]) <=> x \in Listed(adj, w) \/ (w = u /\ x = v)
    BY <1>5 DEF Listed
  <2>4. lines[i] = <<w + 1, x + 1>> <=> w = u /\ x = v
    <3>1. /\ u \in Int /\ v \in Int /\ w \in Int /\ x \in Int
      BY <2>1 DEF Keys
    <3>2. \A a, b, c, d : <<a, b>> = <<c, d>> <=> a = c /\ b = d
      OBVIOUS
    <3>3. lines[i] = <<w + 1, x + 1>> <=> u + 1 = w + 1 /\ v + 1 = x + 1
      BY <3>2
    <3>4. (u + 1 = w + 1 <=> w = u) /\ (v + 1 = x + 1 <=> x = v)
      BY ONLY <3>1
    <3> QED BY <3>3, <3>4, Zenon
  <2> QED BY <1>6, <2>2, <2>3, <2>4
<1> QED BY <1>5, <1>8, <1>9, <1>10 DEF ReadSoFar

\* A file is read as its lines say, whatever their order.
LEMMA FileRead ==
  ASSUME NEW n \in Nat, NEW lines \in Seq((1..n) \X (1..n)),
         \A i, j \in DOMAIN lines : lines[i] = lines[j] => i = j
  PROVE  ReadSoFar(n, lines, Len(lines), parseInputFile(lines))
<1> DEFINE m == Len(lines)
           D == Lists(n)
           u(i) == lines[i][1] - 1
           v(i) == lines[i][2] - 1
           first == [x \in {} |-> <<>>]
           read == CHOOSE f : f = [i \in 0..m |-> IF i = 0 THEN first ELSE insertHelper(f[i - 1], u(i), v(i))]
           step == [x \in (1..m) \X D |-> insertHelper(x[2], u(x[1]), v(x[1]))]
<1>1. m \in Nat /\ \A i \in 1..m : u(i) \in Keys(n) /\ v(i) \in Keys(n) /\ lines[i] = <<u(i) + 1, v(i) + 1>>
  <2>1. m \in Nat /\ \A i \in 1..m : lines[i] \in (1..n) \X (1..n)
    BY LenProperties, ElementOfSeq
  <2>2. \A e \in (1..n) \X (1..n) : \E a \in 1..n, b \in 1..n : e = <<a, b>>
    OBVIOUS
  <2>3. \A a \in 1..n : a - 1 \in Keys(n) /\ (a - 1) + 1 = a
    BY DEF Keys
  <2>4. ASSUME NEW i \in 1..m
        PROVE  u(i) \in Keys(n) /\ v(i) \in Keys(n) /\ lines[i] = <<u(i) + 1, v(i) + 1>>
    <3>1. PICK a \in 1..n, b \in 1..n : lines[i] = <<a, b>>
      <4> HIDE DEF m, u, v
      <4> QED BY <2>1, <2>2
    <3>2. u(i) = a - 1 /\ v(i) = b - 1
      BY <3>1
    <3> HIDE DEF u, v
    <3> QED BY <2>3, <3>1, <3>2
  <2> QED BY <2>1, <2>4
<1>2. first \in D /\ DOMAIN first = {}
  <2>1. first \in [{} -> Seq(Keys(n))]
    OBVIOUS
  <2> QED BY <2>1 DEF Lists
<1>3. parseInputFile(lines) = read[m]
  BY DEF parseInputFile
<1> HIDE DEF m, first, u, v
<1>4. step \in [(1..m) \X D -> D]
  <2>1. \A x \in (1..m) \X D : x[1] \in 1..m /\ x[2] \in D
    OBVIOUS
  <2>2. \A x \in (1..m) \X D : insertHelper(x[2], u(x[1]), v(x[1])) \in D
    BY <1>1, <2>1, InsertLists
  <2> QED BY <2>2
<1>5. PICK f : StepByStep(f, m, D, first, step)
  <2> HIDE DEF step, D, read
  <2> QED BY <1>1, <1>2, <1>4, PrefixRecursion
<1>6. f = [i \in 0..m |-> IF i = 0 THEN first ELSE insertHelper(f[i - 1], u(i), v(i))]
  <2>1. ASSUME NEW i \in 1..m
        PROVE  f[i] = insertHelper(f[i - 1], u(i), v(i))
    <3>1. f[i - 1] \in D
      BY <1>1, <1>5 DEF StepByStep
    <3>2. <<i, f[i - 1]>> \in (1..m) \X D
      BY <3>1
    <3> QED BY <1>5, <3>2 DEF StepByStep
  <2> HIDE DEF step
  <2>2. \A i \in 0..m : f[i] = IF i = 0 THEN first ELSE insertHelper(f[i - 1], u(i), v(i))
    BY <1>1, <1>5, <2>1 DEF StepByStep
  <2> QED BY <1>5, <2>2 DEF StepByStep
<1>7. read = [i \in 0..m |-> IF i = 0 THEN first ELSE insertHelper(read[i - 1], u(i), v(i))]
  BY <1>6
<1> HIDE DEF read
<1>8. \A i \in 0..m : read[i] = IF i = 0 THEN first ELSE insertHelper(read[i - 1], u(i), v(i))
  BY <1>7
<1> DEFINE T == {i \in 0..m : ReadSoFar(n, lines, i, read[i])}
<1>9. \A i \in 0..m : i \in T
  <2>1. T \in SUBSET (0..m)
    OBVIOUS
  <2>2. 0 \in T
    <3>1. read[0] = first /\ 1..0 = {} /\ 0 \in 0..m
      BY <1>1, <1>8
    <3> QED BY <1>2, <3>1 DEF ReadSoFar
  <2>3. ASSUME NEW i \in 1..m, i - 1 \in T
        PROVE  i \in T
    <3>1. read[i] = insertHelper(read[i - 1], u(i), v(i)) /\ i \in 0..m
      BY <1>1, <1>8
    <3>2. ReadSoFar(n, lines, i, insertHelper(read[i - 1], u(i), v(i)))
      <4>1. ReadSoFar(n, lines, i - 1, read[i - 1]) /\ i \in 1..Len(lines)
        BY <2>3 DEF m
      <4> QED BY <1>1, <4>1, ReadLine
    <3> QED BY <3>1, <3>2
  <2> HIDE DEF T
  <2> QED BY <1>1, <2>1, <2>2, <2>3, Upward
<1>10. ReadSoFar(n, lines, m, read[m])
  BY <1>1, <1>9
<1> QED BY <1>3, <1>10 DEF m

\* The graph of a file that lists every edge once in each direction, and leaves no
\* vertex out, is simple.
LEMMA FileSimple ==
  ASSUME NEW n \in Nat, NEW lines \in Seq((1..n) \X (1..n)),
         \A i, j \in DOMAIN lines : lines[i] = lines[j] => i = j,
         \A i \in DOMAIN lines : /\ lines[i][1] # lines[i][2]
                                 /\ \E j \in DOMAIN lines : lines[j] = <<lines[i][2], lines[i][1]>>,
         \A v \in 1..n : \E i \in DOMAIN lines : lines[i][1] = v
  PROVE  SimpleGraph(n, parseInputFile(lines))
<1> DEFINE adj == parseInputFile(lines)
           m == Len(lines)
<1>1. DOMAIN lines = 1..m /\ m \in Nat
  BY LenProperties
<1>2. \A i \in 1..m : lines[i] \in (1..n) \X (1..n)
  BY <1>1, ElementOfSeq
<1>3. ReadSoFar(n, lines, m, adj)
  BY FileRead
<1> HIDE DEF adj, m
<1>4. DOMAIN adj = Keys(n)
  <2> DEFINE a(j) == lines[j][1]
  <2>1. DOMAIN adj = {a(j) - 1 : j \in 1..m}
    BY <1>3 DEF ReadSoFar
  <2>2. \A j \in 1..m : a(j) \in 1..n
    BY <1>2
  <2>3. \A v \in 1..n : \E j \in 1..m : a(j) = v
    BY <1>1
  <2> HIDE DEF a
  <2>4. \A v \in Keys(n) : \E j \in 1..m : a(j) - 1 = v
    <3> TAKE v \in Keys(n)
    <3>1. v + 1 \in 1..n /\ v \in Int
      BY DEF Keys
    <3>2. PICK j \in 1..m : a(j) = v + 1
      BY <2>3, <3>1
    <3> QED BY <3>1, <3>2
  <2>5. \A j \in 1..m : a(j) - 1 \in Keys(n)
    <3>1. \A k \in 1..n : k - 1 \in Keys(n)
      BY DEF Keys
    <3> QED BY <2>2, <3>1
  <2> QED BY <2>1, <2>4, <2>5
<1>5. adj \in [Keys(n) -> Seq(Keys(n))]
  BY <1>3, <1>4 DEF ReadSoFar, Lists
<1>6. \A u, v \in Keys(n) : v \in Range(adj[u]) <=> \E j \in 1..m : lines[j] = <<u + 1, v + 1>>
  BY <1>3, <1>4 DEF ReadSoFar
<1>7. \A v \in Keys(n) : IsInjective(adj[v])
  BY <1>3, <1>4 DEF ReadSoFar
<1>8. ASSUME NEW v \in Keys(n), v \in Range(adj[v])
      PROVE  FALSE
  <2>1. PICK j \in 1..m : lines[j] = <<v + 1, v + 1>>
    BY <1>6, <1>8
  <2>2. lines[j][1] = lines[j][2]
    BY <2>1
  <2> QED BY <1>1, <2>2
<1>9. ASSUME NEW u \in Keys(n), NEW v \in Keys(n), v \in Range(adj[u])
      PROVE  u \in Range(adj[v])
  <2>1. PICK i \in 1..m : lines[i] = <<u + 1, v + 1>>
    BY <1>6, <1>9
  <2>2. PICK j \in 1..m : lines[j] = <<lines[i][2], lines[i][1]>>
    BY <1>1
  <2>3. lines[j] = <<v + 1, u + 1>>
    BY <2>1, <2>2
  <2> QED BY <1>6, <2>3
<1> QED BY <1>5, <1>7, <1>8, <1>9 DEF SimpleGraph, adj

-----------------------------------------------------------------------------
(* The estimate of the number of colours. *)

\* What the greedy colouring may have come to.
Colorings(n) == [colors : [Keys(n) -> Nat], bestColor : Nat, size : Nat]

\* The vertices before k are properly coloured, the others not yet, and the table
\* of colours has room for two more.
ColoredTo(n, adj, k, acc) ==
  /\ acc \in Colorings(n) /\ acc.size >= 3
  /\ \A v \in Keys(n) :
       /\ acc.colors[v] <= acc.size - 3
       /\ v >= k => acc.colors[v] = 0
       /\ v < k => /\ acc.colors[v] >= 1
                   /\ \A u \in Range(adj[v]) : u < k => acc.colors[u] # acc.colors[v]

\* The next vertex gets the least colour that its neighbours leave free, which is
\* in the table.
LEMMA BestColorFree ==
  ASSUME NEW n \in Nat, NEW adj, SimpleGraph(n, adj), NEW k \in Keys(n), NEW acc, ColoredTo(n, adj, k, acc)
  PROVE  LET best == TakeBestColor(adj, acc, k).bestColor
         IN /\ best \in 1..(acc.size - 2)
            /\ \A u \in Range(adj[k]) : acc.colors[u] # best
            /\ TakeBestColor(adj, acc, k) = [colors |-> [acc.colors EXCEPT ![k] = best],
                                             bestColor |-> best, size |-> Resized(acc.size, best)]
<1> DEFINE used == {acc.colors[u] : u \in Range(adj[k])}
           free == {c \in 1..(acc.size - 1) : c \notin used}
           least == CHOOSE c \in free : \A d \in free : c <= d
           best == IF free = {} THEN acc.bestColor ELSE least
<1>1. acc.size \in Nat /\ acc.size >= 3
  BY DEF ColoredTo, Colorings
<1>2. \A u \in Range(adj[k]) : u \in Keys(n)
  BY Joined DEF SimpleGraph
<1>3. \A u \in Keys(n) : acc.colors[u] \in Nat /\ acc.colors[u] <= acc.size - 3
  BY DEF ColoredTo, Colorings
<1>4. \A c \in used : c <= acc.size - 3
  BY <1>2, <1>3
<1>5. acc.size - 2 \in free
  <2> HIDE DEF used
  <2>1. acc.size - 2 \notin used
    BY <1>1, <1>4
  <2> QED BY <1>1, <2>1
<1>6. least \in free /\ \A d \in free : least <= d
  <2>1. free \in SUBSET Nat /\ free # {}
    BY <1>1, <1>5
  <2> HIDE DEF free
  <2> QED BY <2>1, LeastElement
<1>7. least \in 1..(acc.size - 1) /\ least \notin used /\ least <= acc.size - 2
  <2> HIDE DEF used, least
  <2> QED BY <1>5, <1>6
<1>8. best = least
  BY <1>5
<1>9. least \in 1..(acc.size - 2)
  <2> HIDE DEF least
  <2> QED BY <1>1, <1>7
<1>10. TakeBestColor(adj, acc, k) = [colors |-> [acc.colors EXCEPT ![k] = best],
                                     bestColor |-> best, size |-> Resized(acc.size, best)]
  BY DEF TakeBestColor
<1> HIDE DEF best, least
<1>11. TakeBestColor(adj, acc, k).bestColor = best
  BY <1>10
<1>12. \A u \in Range(adj[k]) : acc.colors[u] # least
  BY <1>7
<1> QED BY <1>8, <1>9, <1>10, <1>11, <1>12

\* One more vertex is coloured.
LEMMA ColorNext ==
  ASSUME NEW n \in Nat, NEW adj, SimpleGraph(n, adj), NEW k \in Keys(n), NEW acc, ColoredTo(n, adj, k, acc)
  PROVE  ColoredTo(n, adj, k + 1, TakeBestColor(adj, acc, k))
<1> DEFINE t == TakeBestColor(adj, acc, k)
           best == t.bestColor
           colors == [acc.colors EXCEPT ![k] = best]
<1>1. /\ best \in 1..(acc.size - 2)
      /\ \A u \in Range(adj[k]) : acc.colors[u] # best
      /\ t = [colors |-> colors, bestColor |-> best, size |-> Resized(acc.size, best)]
  BY BestColorFree
<1>2. /\ acc.colors \in [Keys(n) -> Nat] /\ acc.size \in Nat /\ acc.size >= 3
      /\ \A v \in Keys(n) :
           /\ acc.colors[v] <= acc.size - 3
           /\ v >= k => acc.colors[v] = 0
           /\ v < k => /\ acc.colors[v] >= 1
                       /\ \A u \in Range(adj[v]) : u < k => acc.colors[u] # acc.colors[v]
  BY DEF ColoredTo, Colorings
<1>3. /\ \A v \in Keys(n) : \A u \in Range(adj[v]) : u \in Keys(n) /\ v \in Range(adj[u])
      /\ k \notin Range(adj[k]) /\ \A v \in Keys(n) : v \in Int
  <2>1. \A v \in Keys(n) : \A u \in Range(adj[v]) : u \in Keys(n)
    BY Joined DEF SimpleGraph
  <2> QED BY <2>1 DEF SimpleGraph, Keys
<1> HIDE DEF t
<1>4. t.colors = colors /\ t.size = Resized(acc.size, best)
  BY <1>1
<1> HIDE DEF best
<1>5. /\ Resized(acc.size, best) \in Nat /\ Resized(acc.size, best) >= 3
      /\ best <= Resized(acc.size, best) - 3 /\ acc.size <= Resized(acc.size, best)
  <2>1. CASE best = acc.size - 2
    BY <1>1, <1>2, <2>1 DEF Resized
  <2>2. CASE best # acc.size - 2
    BY <1>1, <1>2, <2>2 DEF Resized
  <2> QED BY <2>1, <2>2
<1>6. /\ colors \in [Keys(n) -> Nat] /\ colors[k] = best
      /\ \A v \in Keys(n) \ {k} : colors[v] = acc.colors[v]
  BY <1>1, <1>2
<1>7. t \in Colorings(n)
  <2> HIDE DEF colors
  <2> QED BY <1>1, <1>5, <1>6 DEF Colorings
<1> DEFINE size == Resized(acc.size, best)
<1> HIDE DEF colors, size
<1>8. ASSUME NEW v \in Keys(n)
      PROVE  /\ colors[v] <= size - 3
             /\ v >= k + 1 => colors[v] = 0
             /\ v < k + 1 => /\ colors[v] >= 1
                             /\ \A u \in Range(adj[v]) : u < k + 1 => colors[u] # colors[v]
  <2>1. v \in Int /\ k \in Int /\ size \in Int /\ acc.size <= size /\ best <= size - 3
    BY <1>3, <1>5 DEF size
  <2>2. acc.colors[v] \in Nat /\ best \in Nat /\ best >= 1 /\ acc.size \in Nat
    BY <1>1, <1>2
  <2>3. CASE v = k
    <3>1. \A u \in Range(adj[v]) : colors[u] # colors[v]
      BY <1>1, <1>3, <1>6, <2>3
    <3> QED BY <1>6, <2>1, <2>2, <2>3, <3>1
  <2>4. CASE v # k
    <3>1. colors[v] = acc.colors[v] /\ acc.colors[v] <= acc.size - 3
      BY <1>2, <1>6, <2>4
    <3>2. colors[v] <= size - 3
      BY <2>1, <2>2, <3>1
    <3>3. v >= k + 1 => colors[v] = 0
      BY <1>2, <2>1, <3>1
    <3>4. v < k + 1 => v < k
      BY <2>1, <2>4
    <3>5. ASSUME v < k, NEW u \in Range(adj[v]), u < k + 1
          PROVE  colors[u] # colors[v]
      <4>1. u \in Keys(n) /\ v \in Range(adj[u]) /\ u \in Int
        BY <1>3
      <4>2. CASE u = k
        BY <1>1, <1>6, <2>4, <3>1, <4>1, <4>2
      <4>3. CASE u # k
        <5>1. u < k
          BY <2>1, <3>5, <4>1, <4>3
        <5> QED BY <1>2, <1>6, <3>1, <3>5, <4>1, <4>3, <5>1
      <4> QED BY <4>2, <4>3
    <3>6. v < k => colors[v] >= 1
      BY <1>2, <3>1
    <3> QED BY <3>2, <3>3, <3>4, <3>5, <3>6
  <2> QED BY <2>3, <2>4
<1>9. t.colors = colors /\ t.size = size /\ size >= 3
  BY <1>4, <1>5 DEF size
<1>10. ColoredTo(n, adj, k + 1, t)
  BY <1>7, <1>8, <1>9 DEF ColoredTo
<1> QED BY <1>10 DEF t

\* f colours the graph adj on n vertices with the colours from 1 to k.
ColorsGraph(f, n, adj, k) ==
  /\ k \in Int /\ f \in [Keys(n) -> Nat]
  /\ \A v \in Keys(n) : f[v] \in 1..k /\ \A u \in Range(adj[v]) : f[u] # f[v]

\* There is a proper colouring with as many colours as Main estimates.
LEMMA EstimateProper ==
  ASSUME NEW n \in Nat, NEW adj, SimpleGraph(n, adj), NEW init_s \in Nat, init_s >= 3
  PROVE  \E f : ColorsGraph(f, n, adj, getConservativeChromaticNum(adj, init_s))
<1> DEFINE N == Cardinality(DOMAIN adj)
           first(m) == [colors |-> [v \in 0..(m - 1) |-> 0], bestColor |-> 0, size |-> init_s]
           colored(m) == CHOOSE f : f = [i \in 0..m |-> IF i = 0 THEN first(m)
                                                        ELSE TakeBestColor(adj, f[i - 1], i - 1)]
           g == colored(n)
           step == [x \in (1..n) \X Colorings(n) |->
                      IF ColoredTo(n, adj, x[1] - 1, x[2]) THEN TakeBestColor(adj, x[2], x[1] - 1)
                      ELSE first(n)]
<1>1. DOMAIN adj = Keys(n) /\ N = n
  <2>1. DOMAIN adj = Keys(n)
    BY DEF SimpleGraph
  <2>2. Cardinality(0..(n - 1)) = n
    BY FS_Interval
  <2> QED BY <2>1, <2>2 DEF Keys
<1>2. getConservativeChromaticNum(adj, init_s)
        = LET used == Range(g[n].colors) IN CHOOSE m \in used \cup {-1} : \A c \in used : c <= m
  <2>1. getConservativeChromaticNum(adj, init_s)
          = LET used == Range(colored(N)[N].colors) IN CHOOSE m \in used \cup {-1} : \A c \in used : c <= m
    BY DEF getConservativeChromaticNum
  <2> HIDE DEF colored, N
  <2> QED BY <1>1, <2>1
<1> HIDE DEF N
<1>3. ColoredTo(n, adj, 0, first(n)) /\ first(n) \in Colorings(n)
  <2> DEFINE none == [v \in Keys(n) |-> 0]
  <2>1. none \in [Keys(n) -> Nat] /\ \A v \in Keys(n) : none[v] = 0 /\ v >= 0
    BY DEF Keys
  <2>2. first(n) = [colors |-> none, bestColor |-> 0, size |-> init_s]
    BY DEF Keys
  <2> HIDE DEF none, first
  <2>3. first(n) \in Colorings(n) /\ first(n).colors = none /\ first(n).size = init_s
    BY <2>1, <2>2 DEF Colorings
  <2>4. 0 <= init_s - 3 /\ \A v \in Keys(n) : ~(v < 0)
    BY DEF Keys
  <2> QED BY <2>1, <2>3, <2>4 DEF ColoredTo
<1> HIDE DEF first
<1>4. \A i \in 1..n : i - 1 \in Keys(n) /\ (i - 1) + 1 = i
  BY DEF Keys
<1>5. step \in [(1..n) \X Colorings(n) -> Colorings(n)]
  <2>1. ASSUME NEW i \in 1..n, NEW acc \in Colorings(n), ColoredTo(n, adj, i - 1, acc)
        PROVE  TakeBestColor(adj, acc, i - 1) \in Colorings(n)
    <3>1. ColoredTo(n, adj, (i - 1) + 1, TakeBestColor(adj, acc, i - 1))
      BY <1>4, <2>1, ColorNext
    <3> QED BY <3>1 DEF ColoredTo
  <2> QED BY <1>3, <2>1
<1>6. PICK f : StepByStep(f, n, Colorings(n), first(n), step)
  <2> HIDE DEF step
  <2> QED BY <1>3, <1>5, PrefixRecursion
<1> DEFINE T == {i \in 0..n : ColoredTo(n, adj, i, f[i])}
<1>7. ASSUME NEW i \in 1..n, ColoredTo(n, adj, i - 1, f[i - 1])
      PROVE  f[i] = TakeBestColor(adj, f[i - 1], i - 1) /\ ColoredTo(n, adj, i, f[i])
  <2>1. f[i - 1] \in Colorings(n)
    BY <1>7 DEF ColoredTo
  <2>2. <<i, f[i - 1]>> \in (1..n) \X Colorings(n)
    BY <2>1
  <2>3. f[i] = step[<<i, f[i - 1]>>]
    BY <1>6 DEF StepByStep
  <2>4. f[i] = TakeBestColor(adj, f[i - 1], i - 1)
    BY <1>7, <2>2, <2>3
  <2>5. ColoredTo(n, adj, (i - 1) + 1, TakeBestColor(adj, f[i - 1], i - 1))
    BY <1>4, <1>7, ColorNext
  <2> QED BY <1>4, <2>4, <2>5
<1>8. \A i \in 0..n : i \in T
  <2>1. T \in SUBSET (0..n) /\ 0 \in T
    BY <1>3, <1>6 DEF StepByStep
  <2>2. \A i \in 1..n : i - 1 \in T => i \in T
    BY <1>7
  <2> HIDE DEF T
  <2> QED BY <2>1, <2>2, Upward
<1>9. f = [i \in 0..n |-> IF i = 0 THEN first(n) ELSE TakeBestColor(adj, f[i - 1], i - 1)]
  <2>1. \A i \in 1..n : i - 1 \in 0..n
    OBVIOUS
  <2>2. \A i \in 1..n : f[i] = TakeBestColor(adj, f[i - 1], i - 1)
    BY <1>7, <1>8, <2>1
  <2>3. \A i \in 0..n : f[i] = IF i = 0 THEN first(n) ELSE TakeBestColor(adj, f[i - 1], i - 1)
    BY <1>6, <2>2 DEF StepByStep
  <2> HIDE DEF step
  <2> QED BY <1>6, <2>3 DEF StepByStep
<1>10. ColoredTo(n, adj, n, g[n])
  <2>1. g = [i \in 0..n |-> IF i = 0 THEN first(n) ELSE TakeBestColor(adj, g[i - 1], i - 1)]
    BY <1>9
  <2> DEFINE U == {i \in 0..n : ColoredTo(n, adj, i, g[i])}
  <2> HIDE DEF g
  <2>2. g[0] = first(n) /\ \A i \in 1..n : g[i] = TakeBestColor(adj, g[i - 1], i - 1)
    BY <2>1
  <2>3. U \in SUBSET (0..n) /\ 0 \in U
    BY <1>3, <2>2
  <2>4. ASSUME NEW i \in 1..n, i - 1 \in U
        PROVE  i \in U
    <3>1. ColoredTo(n, adj, (i - 1) + 1, TakeBestColor(adj, g[i - 1], i - 1))
      BY <1>4, <2>4, ColorNext
    <3> QED BY <1>4, <2>2, <3>1
  <2> HIDE DEF U
  <2>5. \A i \in 0..n : i \in U
    BY <2>3, <2>4, Upward
  <2> QED BY <2>5 DEF U
<1> DEFINE colors == g[n].colors
           used == Range(colors)
           m == CHOOSE m \in used \cup {-1} : \A c \in used : c <= m
<1>11. /\ colors \in [Keys(n) -> Nat]
       /\ \A v \in Keys(n) : colors[v] >= 1 /\ \A u \in Range(adj[v]) : colors[u] # colors[v]
  <2>1. \A v \in Keys(n) : v < n /\ \A u \in Range(adj[v]) : u < n
    <3>1. \A v \in Keys(n) : v < n
      BY DEF Keys
    <3>2. \A v \in Keys(n) : \A u \in Range(adj[v]) : u \in Keys(n)
      BY Joined DEF SimpleGraph
    <3> QED BY <3>1, <3>2
  <2> HIDE DEF g
  <2> QED BY <1>10, <2>1 DEF ColoredTo, Colorings
<1> HIDE DEF g, colors
<1>12. \E k \in used \cup {-1} : \A c \in used : c <= k
  <2>1. CASE used = {}
    BY <2>1
  <2>2. CASE used # {}
    <3>1. used = {colors[v] : v \in Keys(n)}
      BY <1>11 DEF Range
    <3>2. IsFiniteSet(Keys(n))
      BY FS_Interval DEF Keys
    <3>3. IsFiniteSet(used)
      <4>1. colors \in Surjection(Keys(n), used)
        BY <1>11, <3>1 DEF Surjection
      <4> HIDE DEF used
      <4> QED BY <3>2, <4>1, FS_Surjection
    <3>4. used \in SUBSET Nat
      BY <1>11, <3>1
    <3> HIDE DEF used
    <3> QED BY <2>2, <3>3, <3>4, GreatestElement
  <2> QED BY <2>1, <2>2
<1>13. m \in used \cup {-1} /\ \A c \in used : c <= m
  BY <1>12
<1>14. \A v \in Keys(n) : colors[v] \in used
  BY <1>11 DEF Range
<1>15. used \subseteq Nat
  BY <1>11 DEF Range
<1> HIDE DEF m, used
<1>16. m \in Int /\ \A v \in Keys(n) : colors[v] \in 1..m
  BY <1>11, <1>13, <1>14, <1>15
<1>17. getConservativeChromaticNum(adj, init_s) = m
  BY <1>2 DEF m, used, colors
<1> QED BY <1>11, <1>16, <1>17 DEF ColorsGraph

=============================================================================
