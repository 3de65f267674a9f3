---------------------------- MODULE GraphColorProofs ----------------------------
(***************************************************************************)
(* Theorems about the parallel colouring program, for every graph, every   *)
(* number of colours and every setting of its options. The first parts are *)
(* about one chare: its local search, what it sends and what it answers;   *)
(* then come the tree of all chares, the merge of an answer, and Inv, the  *)
(* inductive invariant, which rests on the one of SearchTreeProofs.        *)
(***************************************************************************)
EXTENDS GraphColor, ColorStateProofs

-----------------------------------------------------------------------------
(* The loop of a local search. *)

\* Where the loop stands next.
LoopNext(q) ==
  [stack      |-> SearchStep(Head(q.stack)).nodes \o Tail(q.stack),
   iterations |-> q.iterations + 1]

\* What it ends with at q.
LoopEnd(q) ==
  IF q.stack = <<>> THEN [outcome |-> "failed", iterations |-> q.iterations]
  ELSE [outcome |-> SearchStep(Head(q.stack)).outcome, state |-> SearchStep(Head(q.stack)).state,
        iterations |-> q.iterations + 1]

\* Whether it goes on.
LoopsOn(q) == q.stack # <<>> /\ SearchStep(Head(q.stack)).outcome = "pushed"

\* A turn of the loop keeps the types.
LEMMA LoopNextType ==
  ASSUME NEW q \in Searching, LoopsOn(q)
  PROVE  LoopNext(q) \in Searching
<1> DEFINE nodes == SearchStep(Head(q.stack)).nodes
<1>1. q.stack \in Seq(StackNode) /\ q.iterations \in Nat /\ q.stack # <<>>
  BY DEF Searching, LoopsOn
<1>2. Head(q.stack) \in StackNode /\ Tail(q.stack) \in Seq(StackNode)
  BY <1>1, HeadTailProperties
<1>3. nodes \in Seq(StackNode)
  BY <1>2, SearchStepType DEF LoopsOn
<1> HIDE DEF nodes
<1>4. nodes \o Tail(q.stack) \in Seq(StackNode)
  BY <1>2, <1>3, ConcatProperties
<1> QED BY <1>1, <1>4 DEF LoopNext, Searching, nodes

\* The equation of SearchLoop.
LEMMA LoopEquation ==
  ASSUME NEW q \in Searching
  PROVE  SearchLoop[q] = IF LoopsOn(q) THEN SearchLoop[LoopNext(q)] ELSE LoopEnd(q)
<1> DEFINE Eq(f) == f = [p \in Searching |-> IF LoopsOn(p) THEN f[LoopNext(p)] ELSE LoopEnd(p)]
<1>1. \E f : Eq(f)
  <2> DEFINE D    == Searching
             stop == {p \in D : ~LoopsOn(p)}
             base == [p \in D |-> LoopEnd(p)]
             R    == {LoopEnd(p) : p \in D}
             next == [p \in D |-> IF p \in stop THEN p ELSE LoopNext(p)]
  <2>1. next \in [D -> D] /\ base \in [D -> R] /\ stop \in SUBSET D
    BY LoopNextType
  <2>2. PICK f : Iterates(f, D, R, stop, base, next)
    <3> HIDE DEF D, R, next, stop, base, Eq
    <3> QED BY <2>1, Iteration
  <2>3. \A p \in Searching : f[p] = IF LoopsOn(p) THEN f[LoopNext(p)] ELSE LoopEnd(p)
    BY <2>2 DEF Iterates
  <2>4. f = [p \in Searching |-> f[p]]
    BY <2>2 DEF Iterates
  <2> QED BY <2>3, <2>4
<1>2. SearchLoop = CHOOSE f : Eq(f)
  BY DEF SearchLoop, LoopsOn, LoopEnd, LoopNext
<1> HIDE DEF Eq
<1>3. Eq(SearchLoop)
  BY <1>1, <1>2
<1> QED BY <1>3 DEF Eq

\* The sequence q without its first k elements.
Suffix(q, k) == SubSeq(q, k + 1, Len(q))

\* From one suffix to the next.
LEMMA SuffixParts ==
  ASSUME NEW S, NEW q \in Seq(S)
  PROVE  /\ \A k \in 0..Len(q) : Suffix(q, k) \in Seq(S)
         /\ Suffix(q, 0) = q /\ Suffix(q, Len(q)) = <<>>
         /\ \A k \in 1..Len(q) : q[k] \in S /\ Suffix(q, k - 1) = <<q[k]>> \o Suffix(q, k)
<1>1. Len(q) \in Nat /\ \A a \in 1..Len(q) : q[a] \in S
  BY LenProperties, ElementOfSeq
<1>2. ASSUME NEW k \in 0..Len(q)
      PROVE  Suffix(q, k) \in Seq(S)
  <2> DEFINE m == k + 1
             n == Len(q)
  <2>1. m \in Int /\ n \in Int /\ \A i \in m..n : q[i] \in S
    BY <1>1
  <2> HIDE DEF m, n
  <2>2. SubSeq(q, m, n) \in Seq(S)
    BY <2>1, SubSeqProperties
  <2> QED BY <2>2 DEF Suffix, m, n
<1>3. Suffix(q, 0) = q
  BY SubSeqFull DEF Suffix
<1>4. Suffix(q, Len(q)) = <<>>
  <2> DEFINE m == Len(q) + 1
             n == Len(q)
  <2>1. m \in Int /\ n \in Int /\ n < m
    BY <1>1
  <2> HIDE DEF m, n
  <2>2. SubSeq(q, m, n) = <<>>
    BY <2>1, SubSeqEmpty
  <2> QED BY <2>2 DEF Suffix, m, n
<1>5. ASSUME NEW k \in 1..Len(q)
      PROVE  q[k] \in S /\ Suffix(q, k - 1) = <<q[k]>> \o Suffix(q, k)
  <2>1. (k - 1) + 1 = k /\ Len(q) \in k..Len(q)
    BY <1>1
  <2>2. SubSeq(q, k, Len(q)) = <<q[k]>> \o SubSeq(q, k + 1, Len(q))
    <3> DEFINE n == Len(q)
    <3>1. n \in k..Len(q)
      BY <2>1
    <3> HIDE DEF n
    <3>2. SubSeq(q, k, n) = <<q[k]>> \o SubSeq(q, k + 1, n)
      BY <3>1, SubSeqRecursiveFirst
    <3> QED BY <3>2 DEF n
  <2> QED BY <1>1, <2>1, <2>2 DEF Suffix
<1> QED BY <1>2, <1>3, <1>4, <1>5

\* What is put in front of a stack comes off it.
LEMMA OnTop ==
  ASSUME NEW S, NEW x \in S, NEW rest \in Seq(S)
  PROVE  /\ <<x>> \o rest \in Seq(S) /\ <<x>> \o rest # <<>>
         /\ Head(<<x>> \o rest) = x /\ Tail(<<x>> \o rest) = rest
OBVIOUS

\* The loop ends at q, with a colouring or, if a count was wrong, in a trip.
LoopOK(seed, below, right, q) ==
  LET e == SearchLoop[q]
  IN /\ e.iterations \in Nat
     /\ \/ e.outcome = "found" /\ FoundOK(seed, below, e.state)
        \/ e.outcome = "tripped" /\ ~right

\* Or n on top of the stack has no solution, and the loop gets to the rest.
Drops(seed, below, n) ==
  \A rest \in Seq(StackNode), i \in Nat :
    LET q == [stack |-> <<n>> \o rest, iterations |-> i]
    IN \/ LoopOK(seed, below, ExactCount(n), q)
       \/ /\ ~Solvable(seed, n.state)
          /\ \E j \in Nat : SearchLoop[q] = SearchLoop[[stack |-> rest, iterations |-> j]]

\* If the nodes of a sequence drop one after the other, all of them do.
LEMMA AllDrop ==
  ASSUME NEW seed, NEW below, NEW nodes \in Seq(StackNode), NEW right,
         \A k \in 1..Len(nodes) : Drops(seed, below, nodes[k]) /\ (right => ExactCount(nodes[k])),
         NEW rest \in Seq(StackNode), NEW i \in Nat
  PROVE  LET q == [stack |-> nodes \o rest, iterations |-> i]
         IN \/ LoopOK(seed, below, right, q)
            \/ /\ \A k \in 1..Len(nodes) : ~Solvable(seed, nodes[k].state)
               /\ \E j \in Nat : SearchLoop[q] = SearchLoop[[stack |-> rest, iterations |-> j]]
<1> DEFINE q == [stack |-> nodes \o rest, iterations |-> i]
           At(k, j) == [stack |-> Suffix(nodes, k) \o rest, iterations |-> j]
           Covered == {k \in 0..Len(nodes) :
                      \/ LoopOK(seed, below, right, q)
                      \/ /\ \A l \in 1..k : ~Solvable(seed, nodes[l].state)
                         /\ \E j \in Nat : SearchLoop[q] = SearchLoop[At(k, j)]}
<1>1. Len(nodes) \in Nat
  BY LenProperties
<1>2. 0 \in Covered
  <2>1. At(0, i) = q
    BY SuffixParts
  <2>2. \E j \in Nat : SearchLoop[q] = SearchLoop[At(0, j)]
    <3> HIDE DEF At, q
    <3> QED BY <2>1
  <2> HIDE DEF At, q
  <2> QED BY <1>1, <2>2
<1>3. ASSUME NEW k \in 1..Len(nodes), k - 1 \in Covered
      PROVE  k \in Covered
  <2>1. CASE LoopOK(seed, below, right, q)
    BY <1>1, <2>1
  <2>2. CASE ~LoopOK(seed, below, right, q)
    <3>1. PICK j \in Nat : SearchLoop[q] = SearchLoop[At(k - 1, j)]
      BY <1>3, <2>2
    <3>2. \A l \in 1..(k - 1) : ~Solvable(seed, nodes[l].state)
      BY <1>3, <2>2
    <3> DEFINE more == Suffix(nodes, k) \o rest
               p == [stack |-> <<nodes[k]>> \o more, iterations |-> j]
    <3>3. Suffix(nodes, k) \in Seq(StackNode) /\ nodes[k] \in StackNode
          /\ Suffix(nodes, k - 1) = <<nodes[k]>> \o Suffix(nodes, k)
      BY <1>1, SuffixParts
    <3>4. (<<nodes[k]>> \o Suffix(nodes, k)) \o rest = <<nodes[k]>> \o more /\ more \in Seq(StackNode)
      <4> DEFINE a == Suffix(nodes, k)
                 b == <<nodes[k]>>
      <4>1. a \in Seq(StackNode) /\ b \in Seq(StackNode)
        BY <3>3
      <4> HIDE DEF a, b
      <4>2. (b \o a) \o rest = b \o (a \o rest) /\ a \o rest \in Seq(StackNode)
        BY <4>1, ConcatAssociative, ConcatProperties
      <4> QED BY <4>2 DEF a, b
    <3>5. At(k - 1, j) = p
      BY <3>3, <3>4
    <3> HIDE DEF more
    <3>6. \/ LoopOK(seed, below, ExactCount(nodes[k]), p)
          \/ /\ ~Solvable(seed, nodes[k].state)
             /\ \E l \in Nat : SearchLoop[p] = SearchLoop[[stack |-> more, iterations |-> l]]
      BY <3>4 DEF Drops
    <3>7. SearchLoop[q] = SearchLoop[p]
      <4> HIDE DEF At, p, q
      <4> QED BY <3>1, <3>5
    <3>8. ~LoopOK(seed, below, ExactCount(nodes[k]), p)
      <4> HIDE DEF p, q
      <4> QED BY <2>2, <3>7 DEF LoopOK
    <3>9. PICK l \in Nat : SearchLoop[p] = SearchLoop[[stack |-> more, iterations |-> l]]
      BY <3>6, <3>8
    <3>10. SearchLoop[q] = SearchLoop[At(k, l)]
      BY <3>7, <3>9 DEF more
    <3>11. \A m \in 1..k : ~Solvable(seed, nodes[m].state)
      <4>1. \A m \in 1..k : m = k \/ m \in 1..(k - 1)
        BY <1>1
      <4>2. ~Solvable(seed, nodes[k].state)
        BY <3>6, <3>8
      <4> QED BY <3>2, <4>1, <4>2
    <3> HIDE DEF At, q, p
    <3> QED BY <1>1, <3>10, <3>11
  <2> QED BY <2>1, <2>2
<1>4. Len(nodes) \in Covered
  <2> DEFINE n == Len(nodes)
  <2>1. Covered \in SUBSET (0..n)
    OBVIOUS
  <2> HIDE DEF Covered, n
  <2>2. \A k \in 0..n : k \in Covered
    BY <1>1, <1>2, <1>3, <2>1, Upward DEF n
  <2> QED BY <1>1, <2>2 DEF n
<1>5. \A j : At(Len(nodes), j) = [stack |-> rest, iterations |-> j]
  BY SuffixParts, ConcatEmptySeq
<1> HIDE DEF q
<1>6. \/ LoopOK(seed, below, right, q)
      \/ /\ \A k \in 1..Len(nodes) : ~Solvable(seed, nodes[k].state)
         /\ \E j \in Nat : SearchLoop[q] = SearchLoop[[stack |-> rest, iterations |-> j]]
  <2>1. \/ LoopOK(seed, below, right, q)
        \/ /\ \A k \in 1..Len(nodes) : ~Solvable(seed, nodes[k].state)
           /\ \E j \in Nat : SearchLoop[q] = SearchLoop[At(Len(nodes), j)]
    BY <1>4
  <2> HIDE DEF At
  <2> QED BY <1>5, <2>1
<1> QED BY <1>6 DEF q

\* Every wide node drops, or leads to a colouring.
LEMMA LoopDrops ==
  ASSUME NEW seed \in State, NEW below \in Seq(Vertex), NEW n, Wide(seed, below, n)
  PROVE  Drops(seed, below, n)
<1> DEFINE D == StackNode
           Wrong == {x \in D : Wide(seed, below, x) /\ ~Drops(seed, below, x)}
           m == [x \in D |-> Size(x)]
<1>1. m \in [D -> Nat] /\ Wrong \in SUBSET D
  BY FiniteParts DEF Size, LiveVertices
<1>2. SUFFICES ASSUME Wrong # {} PROVE FALSE
  BY DEF Wide
<1>3. PICK x : Least(x, Wrong, m)
  <2> HIDE DEF D, Wrong, m
  <2> QED BY <1>1, <1>2, LeastMeasure
<1>4. /\ x \in StackNode /\ Wide(seed, below, x) /\ ~Drops(seed, below, x)
      /\ \A y \in StackNode : Wide(seed, below, y) /\ Size(y) < Size(x) => Drops(seed, below, y)
  BY <1>3 DEF Least
<1> HIDE DEF D, Wrong, m
<1>5. PICK rest \in Seq(StackNode) : \E i \in Nat :
        LET q == [stack |-> <<x>> \o rest, iterations |-> i]
        IN ~(\/ LoopOK(seed, below, ExactCount(x), q)
             \/ /\ ~Solvable(seed, x.state)
                /\ \E j \in Nat : SearchLoop[q] = SearchLoop[[stack |-> rest, iterations |-> j]])
  BY <1>4 DEF Drops
<1>6. PICK i \in Nat :
        LET q == [stack |-> <<x>> \o rest, iterations |-> i]
        IN ~(\/ LoopOK(seed, below, ExactCount(x), q)
             \/ /\ ~Solvable(seed, x.state)
                /\ \E j \in Nat : SearchLoop[q] = SearchLoop[[stack |-> rest, iterations |-> j]])
  BY <1>5
<1> DEFINE q == [stack |-> <<x>> \o rest, iterations |-> i]
           step == SearchStep(x)
<1>7. /\ ~LoopOK(seed, below, ExactCount(x), q)
      /\ ~(/\ ~Solvable(seed, x.state)
           /\ \E j \in Nat : SearchLoop[q] = SearchLoop[[stack |-> rest, iterations |-> j]])
  BY <1>6
<1>8. /\ q \in Searching /\ q.stack # <<>> /\ q.iterations = i
      /\ Head(q.stack) = x /\ Tail(q.stack) = rest
  BY <1>4, OnTop DEF Searching
<1> HIDE DEF q, step
<1>9. SearchLoop[q] = IF LoopsOn(q) THEN SearchLoop[LoopNext(q)] ELSE LoopEnd(q)
  BY <1>8, LoopEquation
<1>10. \/ step.outcome = "found" /\ FoundOK(seed, below, step.state)
       \/ step.outcome = "tripped" /\ ~ExactCount(x)
       \/ /\ step.outcome = "pushed"
          /\ step.nodes \in Seq(StackNode)
          /\ \A k \in 1..Len(step.nodes) :
               /\ Wide(seed, below, step.nodes[k])
               /\ Size(step.nodes[k]) < Size(x)
               /\ ExactCount(x) => ExactCount(step.nodes[k])
          /\ Solvable(seed, x.state) => \E k \in 1..Len(step.nodes) : Solvable(seed, step.nodes[k].state)
  BY <1>4, WideStep DEF step
<1>11. LoopsOn(q) <=> step.outcome = "pushed"
  BY <1>8 DEF LoopsOn, step
<1>12. CASE step.outcome # "pushed"
  <2>1. SearchLoop[q] = [outcome |-> step.outcome, state |-> step.state, iterations |-> i + 1]
    BY <1>8, <1>9, <1>11, <1>12 DEF LoopEnd, step
  <2>2. LoopOK(seed, below, ExactCount(x), q)
    BY <1>10, <1>12, <2>1 DEF LoopOK
  <2> QED BY <1>7, <2>2
<1>13. CASE step.outcome = "pushed"
  <2> DEFINE nodes == step.nodes
             p == [stack |-> nodes \o rest, iterations |-> i + 1]
  <2>1. SearchLoop[q] = SearchLoop[p]
    BY <1>8, <1>9, <1>11, <1>13 DEF LoopNext, step
  <2>2. /\ nodes \in Seq(StackNode)
        /\ \A k \in 1..Len(nodes) :
             /\ Wide(seed, below, nodes[k])
             /\ Size(nodes[k]) < Size(x)
             /\ ExactCount(x) => ExactCount(nodes[k])
        /\ Solvable(seed, x.state) => \E k \in 1..Len(nodes) : Solvable(seed, nodes[k].state)
    BY <1>10, <1>13
  <2> HIDE DEF nodes
  <2>3. \A k \in 1..Len(nodes) : Drops(seed, below, nodes[k]) /\ (ExactCount(x) => ExactCount(nodes[k]))
    BY <1>4, <2>2 DEF Wide
  <2>4. i + 1 \in Nat
    OBVIOUS
  <2>5. \/ LoopOK(seed, below, ExactCount(x), p)
        \/ /\ \A k \in 1..Len(nodes) : ~Solvable(seed, nodes[k].state)
           /\ \E j \in Nat : SearchLoop[p] = SearchLoop[[stack |-> rest, iterations |-> j]]
    BY <2>2, <2>3, <2>4, AllDrop
  <2> HIDE DEF p
  <2>6. LoopOK(seed, below, ExactCount(x), p) => LoopOK(seed, below, ExactCount(x), q)
    BY <2>1 DEF LoopOK
  <2> QED BY <1>7, <2>1, <2>2, <2>5, <2>6
<1> QED BY <1>12, <1>13

\* The search of a chare with state s, which has left vertices to colour: it
\* finds a colouring, finds that there is none, or trips over a wrong count.
LEMMA ColorLocallyRight ==
  ASSUME NEW seed \in State, NEW below \in Seq(Vertex), NEW s \in State, NEW left \in Int,
         Wide(seed, below, [state |-> s, uncolored |-> left, removed |-> <<>>])
  PROVE  LET local == ColorLocally(s, left)
         IN /\ local.iterations \in Nat
            /\ \/ local.outcome = "found" /\ FoundOK(seed, below, local.state)
               \/ local.outcome = "failed" /\ ~Solvable(seed, s)
               \/ local.outcome = "tripped" /\ left # Cardinality(LiveVertices(s))
<1> DEFINE n == [state |-> s, uncolored |-> left, removed |-> <<>>]
           local == ColorLocally(s, left)
           q == SearchFrom(s, left)
<1>1. n.state = s /\ n.uncolored = left /\ n.removed = <<>> /\ Wide(seed, below, n)
  OBVIOUS
<1>2. q = [stack |-> <<n>>, iterations |-> 0]
  BY DEF SearchFrom
<1>3. ExactCount(n) <=> left = Cardinality(LiveVertices(s))
  BY <1>1 DEF ExactCount
<1> HIDE DEF n
<1>4. CASE left = 0
  <2> DEFINE e == [n EXCEPT !.uncolored = Cardinality(LiveVertices(n.state))]
  <2>1. /\ NodeOK(seed, below, e) /\ e.state = s /\ e.removed = <<>>
        /\ e.uncolored = Cardinality(LiveVertices(s)) /\ left >= Cardinality(LiveVertices(s))
    BY <1>1 DEF Wide, StackNode
  <2>2. Cardinality(LiveVertices(s)) \in Nat
    BY FiniteParts DEF LiveVertices
  <2> HIDE DEF e
  <2>3. e.uncolored = 0
    BY <1>4, <2>1, <2>2
  <2>4. FoundOK(seed, below, s)
    BY <2>1, <2>3, NothingLeft
  <2>5. local = [outcome |-> "found", state |-> s, iterations |-> 0]
    BY <1>4 DEF ColorLocally
  <2> HIDE DEF local
  <2> QED BY <2>4, <2>5 DEF local
<1>5. CASE left # 0
  <2>1. local = SearchLoop[q]
    BY <1>5 DEF ColorLocally
  <2>2. Drops(seed, below, n)
    BY <1>1, LoopDrops
  <2>3. n \in StackNode /\ <<>> \in Seq(StackNode) /\ <<n>> \o <<>> = <<n>>
    BY <1>1, ConcatEmptySeq DEF Wide
  <2>4. \/ LoopOK(seed, below, ExactCount(n), q)
        \/ /\ ~Solvable(seed, s)
           /\ \E j \in Nat : SearchLoop[q] = SearchLoop[[stack |-> <<>>, iterations |-> j]]
    <3> DEFINE p == [stack |-> <<n>> \o <<>>, iterations |-> 0]
    <3>1. \/ LoopOK(seed, below, ExactCount(n), p)
          \/ /\ ~Solvable(seed, n.state)
             /\ \E j \in Nat : SearchLoop[p] = SearchLoop[[stack |-> <<>>, iterations |-> j]]
      BY <2>2, <2>3 DEF Drops
    <3>2. p = q
      BY <1>2, <2>3
    <3> HIDE DEF p, q
    <3> QED BY <1>1, <3>1, <3>2
  <2>5. ASSUME NEW j \in Nat
        PROVE  SearchLoop[[stack |-> <<>>, iterations |-> j]] = [outcome |-> "failed", iterations |-> j]
    <3> DEFINE p == [stack |-> <<>>, iterations |-> j]
    <3>1. p \in Searching /\ p.stack = <<>> /\ p.iterations = j
      BY <2>3 DEF Searching
    <3> HIDE DEF p
    <3>2. SearchLoop[p] = LoopEnd(p)
      BY <3>1, LoopEquation DEF LoopsOn
    <3> QED BY <3>1, <3>2 DEF LoopEnd, p
  <2> HIDE DEF q, local
  <2>6. CASE LoopOK(seed, below, ExactCount(n), q)
    BY <1>3, <2>1, <2>6 DEF LoopOK, local
  <2>7. CASE ~LoopOK(seed, below, ExactCount(n), q)
    <3>1. PICK j \in Nat : SearchLoop[q] = SearchLoop[[stack |-> <<>>, iterations |-> j]]
      BY <2>4, <2>7
    <3>2. local = [outcome |-> "failed", iterations |-> j] /\ ~Solvable(seed, s)
      BY <2>1, <2>4, <2>5, <2>7, <3>1
    <3> QED BY <3>2 DEF local
  <2> QED BY <2>6, <2>7
<1> QED BY <1>4, <1>5

-----------------------------------------------------------------------------
(* A chare, when run() starts. *)

\* The parts of Constructed.
LEMMA ConstructedParts ==
  ASSUME NEW m \in Creation
  PROVE  LET c == Constructed(m)
             s == VertexRemoval(m.seed).state
             v == GetNextConstraintVertex(s)
         IN /\ c.state = s /\ c.deletedV = VertexRemoval(m.seed).deleted
            /\ c.left = m.uncolored - Len(VertexRemoval(m.seed).deleted)
            /\ c.kind = KindOf(s, c.left, v, SubgraphSeeds(s))
            /\ c.stuck <=> c.kind = "or" /\ v = -1
            /\ c.kind = "and" => c.seeds = SubgraphSeeds(s)
            /\ c.kind = "or" /\ v # -1 => c.seeds = ColorSeeds(s, c.left, v)
            /\ c.kind # "and" /\ (c.kind # "or" \/ v = -1) => c.seeds = <<>>
<1> DEFINE r     == VertexRemoval(m.seed)
           s     == r.state
           left  == m.uncolored - Len(r.deleted)
           v     == GetNextConstraintVertex(s)
           parts == SubgraphSeeds(s)
           kind  == KindOf(s, left, v, parts)
           stuck == kind = "or" /\ v = -1
           seeds == CASE kind = "and" -> parts
                      [] kind = "or" /\ v # -1 -> ColorSeeds(s, left, v)
                      [] OTHER -> <<>>
           c     == Constructed(m)
<1>1. c = [state |-> s, deletedV |-> r.deleted, left |-> left, kind |-> kind,
           stuck |-> stuck, seeds |-> seeds]
  BY DEF Constructed
<1>2. /\ kind = "and" => seeds = parts
      /\ kind = "or" /\ v # -1 => seeds = ColorSeeds(s, left, v)
      /\ kind # "and" /\ (kind # "or" \/ v = -1) => seeds = <<>>
  <2> HIDE DEF kind, v, s, left, parts
  <2> QED OBVIOUS
<1> HIDE DEF c, seeds, stuck, kind, left, s, v, parts, r
<1>3. /\ c.state = s /\ c.deletedV = r.deleted /\ c.left = left /\ c.kind = kind
      /\ c.stuck = stuck /\ c.seeds = seeds
  BY <1>1
<1> QED BY <1>2, <1>3 DEF c, stuck, kind, left, s, v, parts, r

\* A chare to be created, but for its name.
Job == [seed : State, uncolored : Int]

\* The ways run() takes.
LEMMA KindMeans ==
  ASSUME NEW s, NEW left, NEW v, NEW parts
  PROVE  LET kind == KindOf(s, left, v, parts)
         IN /\ kind \in {"leaf", "and", "or", "dead"}
            /\ kind = "leaf" <=> left <= grainSize \/ baseline
            /\ kind = "and" => doSubgraph /\ Len(parts) > 1
            /\ kind = "dead" => v # -1 /\ s.poss[v] = {}
BY DEF KindOf

\* What an AND chare sends.
LEMMA SubgraphSeedsAre ==
  ASSUME NEW s \in State
  PROVE  LET parts == Subgraphs(InScope(s))
             seeds == SubgraphSeeds(s)
         IN /\ Splits(parts, InScope(s)) /\ Len(parts) \in Nat
            /\ seeds \in Seq(Job) /\ Len(seeds) = Len(parts)
            /\ \A i \in 1..Len(parts) : /\ seeds[i].seed = Narrowed(s, parts[i])
                                        /\ seeds[i].uncolored = Cardinality(parts[i])
<1> DEFINE S     == InScope(s)
           parts == Subgraphs(S)
           job(i) == [seed |-> Narrowed(s, parts[i]), uncolored |-> Cardinality(parts[i])]
           seeds == SubgraphSeeds(s)
<1>1. S \in SUBSET Vertex
  BY LiveScope
<1>2. Splits(parts, S)
  <2> HIDE DEF S
  <2> QED BY <1>1, SubgraphsSplit
<1>3. seeds = [i \in 1..Len(parts) |-> job(i)]
  BY DEF SubgraphSeeds, Narrowed, InScope, SubgraphUncolored
<1> HIDE DEF parts, seeds
<1>4. Len(parts) \in Nat /\ \A i \in 1..Len(parts) : parts[i] \in SUBSET S
  BY <1>2, LenProperties DEF Splits
<1>5. ASSUME NEW i \in 1..Len(parts)
      PROVE  job(i) \in Job
  <2>1. Narrowed(s, parts[i]) \in State
    BY <1>4, NarrowedParts
  <2>2. Cardinality(parts[i]) \in Int
    BY <1>1, <1>4, FiniteParts
  <2> QED BY <2>1, <2>2 DEF Job
<1> HIDE DEF job
<1>6. seeds \in Seq(Job) /\ Len(seeds) = Len(parts)
  BY <1>3, <1>4, <1>5, IsASeq
<1>7. \A i \in 1..Len(parts) : seeds[i].seed = Narrowed(s, parts[i]) /\ seeds[i].uncolored = Cardinality(parts[i])
  BY <1>3 DEF job
<1> QED BY <1>2, <1>4, <1>6, <1>7 DEF parts, seeds

\* What an OR chare sends.
LEMMA ColorSeedsAre ==
  ASSUME NEW s \in State, GetNextConstraintVertex(s) # -1, NEW left \in Int
  PROVE  LET v == GetNextConstraintVertex(s)
             colours == GetValueOrderingOfColors(s, v)
             seeds == ColorSeeds(s, left, v)
         IN /\ v \in Vertex /\ Live(s, v)
            /\ seeds \in Seq(Job) /\ Len(seeds) = Len(colours) /\ Len(colours) \in Nat
            /\ Range(colours) = {colours[i] : i \in 1..Len(colours)}
            /\ \A i \in 1..Len(colours) :
                 LET t == UpdateState(s, v, colours[i], TRUE)
                 IN /\ colours[i] \in s.poss[v] /\ colours[i] \in Range(colours)
                    /\ seeds[i].seed = t
                    /\ seeds[i].uncolored = left - VerticesColored(s, t)
<1> DEFINE v == GetNextConstraintVertex(s)
           colours == GetValueOrderingOfColors(s, v)
           seeds == ColorSeeds(s, left, v)
           Tried(c) == UpdateState(s, v, c, TRUE)
           job(c) == [seed |-> Tried(c), uncolored |-> left - VerticesColored(s, Tried(c))]
<1>1. v \in Vertex /\ Live(s, v)
  BY NextVertexLive DEF LiveVertices
<1>2. /\ colours \in Seq({c \in s.poss[v] : Possible(s, v, c)})
      /\ Range(colours) = {c \in s.poss[v] : Possible(s, v, c)}
  BY <1>1, ValueOrderingAll
<1>3. seeds = [i \in 1..Len(colours) |-> job(colours[i])]
  BY DEF ColorSeeds
<1>4. \A c \in Range(colours) : Tried(c) \in State /\ left - VerticesColored(s, Tried(c)) \in Int
  BY SentType
<1> HIDE DEF v, colours, seeds
<1>5. /\ Len(colours) \in Nat /\ Range(colours) = {colours[i] : i \in 1..Len(colours)}
      /\ Range(colours) \subseteq s.poss[v]
  BY <1>2, RangeEquality, LenProperties
<1>6. \A i \in 1..Len(colours) : colours[i] \in s.poss[v] /\ colours[i] \in Range(colours)
  BY <1>5
<1>7. ASSUME NEW c \in Range(colours)
      PROVE  job(c) \in Job
  <2> DEFINE k == left - VerticesColored(s, Tried(c))
  <2>1. Tried(c) \in State /\ k \in Int /\ job(c) = [seed |-> Tried(c), uncolored |-> k]
    BY <1>4
  <2> HIDE DEF Tried, k, job
  <2> QED BY <2>1 DEF Job
<1>8. \A c : job(c).seed = Tried(c) /\ job(c).uncolored = left - VerticesColored(s, Tried(c))
  OBVIOUS
<1> HIDE DEF job, Tried
<1>9. seeds \in Seq(Job) /\ Len(seeds) = Len(colours)
  BY <1>3, <1>5, <1>6, <1>7, IsASeq
<1>10. \A i \in 1..Len(colours) : /\ seeds[i].seed = Tried(colours[i])
                                  /\ seeds[i].uncolored = left - VerticesColored(s, Tried(colours[i]))
  BY <1>3, <1>8
<1> QED BY <1>1, <1>5, <1>6, <1>9, <1>10 DEF v, colours, seeds, Tried

\* A chare is what it should be, whatever creates it.
LEMMA ConstructedType ==
  ASSUME NEW m \in Creation
  PROVE  LET c == Constructed(m)
         IN /\ c.state \in State /\ c.deletedV \in Seq(Vertex) /\ c.left \in Int
            /\ c.kind \in {"leaf", "and", "or", "dead"} /\ c.seeds \in Seq(Job)
<1> DEFINE s == VertexRemoval(m.seed).state
           d == VertexRemoval(m.seed).deleted
           c == Constructed(m)
           v == GetNextConstraintVertex(s)
<1>1. m.seed \in State /\ m.uncolored \in Int
  BY DEF Creation
<1>2. s \in State /\ d \in Seq(Vertex)
  BY <1>1, VertexRemovalRemoves
<1>3. /\ c.state = s /\ c.deletedV = d /\ c.left = m.uncolored - Len(d)
      /\ c.kind = KindOf(s, c.left, v, SubgraphSeeds(s))
      /\ c.kind = "and" => c.seeds = SubgraphSeeds(s)
      /\ c.kind = "or" /\ v # -1 => c.seeds = ColorSeeds(s, c.left, v)
      /\ c.kind # "and" /\ (c.kind # "or" \/ v = -1) => c.seeds = <<>>
  BY ConstructedParts
<1> HIDE DEF s, d, c
<1>4. c.left \in Int
  BY <1>1, <1>2, <1>3, LenProperties
<1>5. c.kind \in {"leaf", "and", "or", "dead"}
  BY <1>3, KindMeans
<1>6. c.seeds \in Seq(Job)
  <2>1. SubgraphSeeds(s) \in Seq(Job)
    BY <1>2, SubgraphSeedsAre
  <2>2. v # -1 => ColorSeeds(s, c.left, v) \in Seq(Job)
    BY <1>2, <1>4, ColorSeedsAre
  <2>3. <<>> \in Seq(Job)
    OBVIOUS
  <2> QED BY <1>3, <2>1, <2>2, <2>3
<1> QED BY <1>2, <1>3, <1>4, <1>5, <1>6 DEF c

\* What every creation message is: sound, and with a count that is not too low.
Good(m) ==
  /\ Sound(m.seed) /\ m.uncolored \in Int
  /\ m.uncolored >= Cardinality(LiveVertices(m.seed))
  /\ chromaticNum_ > 1 => Forced(m.seed) = {}

\* And whether the count is right.
Counted(m) == m.uncolored = Cardinality(LiveVertices(m.seed))

\* The chare that a good message creates.
LEMMA ConstructedRight ==
  ASSUME NEW m \in Creation, Good(m)
  PROVE  LET c == Constructed(m)
         IN /\ Sound(c.state) /\ c.state.color = m.seed.color
            /\ Wide(m.seed, c.deletedV, [state |-> c.state, uncolored |-> c.left, removed |-> <<>>])
            /\ c.left >= Cardinality(LiveVertices(c.state))
            /\ Counted(m) <=> c.left = Cardinality(LiveVertices(c.state))
            /\ LiveVertices(c.state) \subseteq LiveVertices(m.seed)
            /\ InScope(c.state) \subseteq InScope(m.seed)
            /\ Forced(c.state) \subseteq Forced(m.seed)
            /\ c.state = VertexRemoval(m.seed).state /\ c.deletedV = VertexRemoval(m.seed).deleted
<1> DEFINE seed == m.seed
           s == VertexRemoval(seed).state
           d == VertexRemoval(seed).deleted
           a == Cardinality(LiveVertices(seed))
           b == Cardinality(LiveVertices(s))
           k == a - Len(d)
           n == [state |-> s, uncolored |-> k, removed |-> <<>>]
           left == m.uncolored - Len(d)
           c == Constructed(m)
<1>1. Sound(seed) /\ m.uncolored \in Int /\ m.uncolored >= a /\ (Counted(m) <=> m.uncolored = a) /\ seed \in State
  BY DEF Good, Counted, Sound
<1>2. c.state = s /\ c.deletedV = d /\ c.left = left
  BY ConstructedParts
<1>3. NodeOK(seed, d, n) /\ s.color = seed.color /\ s \in State /\ d \in Seq(Vertex)
  BY <1>1, ConstructedNode
<1>4. /\ s.poss = seed.poss /\ s.out = seed.out
      /\ b + Len(d) = a
  BY <1>1, VertexRemovalRemoves
<1> HIDE DEF s, d
<1>5. /\ Sound(s) /\ Held(seed.onStack, s, d \o <<>>)
  BY <1>3 DEF NodeOK
<1>6. seed.onStack \subseteq s.onStack
  BY <1>5 DEF Held
<1>7. a \in Nat /\ b \in Nat /\ Len(d) \in Nat
  BY <1>3, FiniteParts, LenProperties DEF LiveVertices
<1>8. left \in Int /\ left >= b /\ (Counted(m) <=> left = b)
  <2> HIDE DEF a, b
  <2> QED BY <1>1, <1>4, <1>7
<1>9. Wide(seed, d, [state |-> s, uncolored |-> left, removed |-> <<>>])
  <2>1. <<>> \in Seq(Vertex) /\ left >= Cardinality(LiveVertices(s))
    BY <1>8
  <2> HIDE DEF left, k
  <2> QED BY <1>3, <1>8, <2>1, WideMeans
<1>10. LiveVertices(s) \subseteq LiveVertices(seed) /\ InScope(s) \subseteq InScope(seed)
  BY <1>3, <1>4, <1>6 DEF LiveVertices, Live, InScope, IsOperationPermissible, IsColored
<1>11. Forced(s) \subseteq Forced(seed)
  BY <1>4, <1>10 DEF Forced
<1> HIDE DEF c, left
<1> QED BY <1>2, <1>3, <1>5, <1>8, <1>9, <1>10, <1>11 DEF c, s, d

\* How much there is to colour and to keep coloured.
Weight(s) == Cardinality(InScope(s)) + Cardinality(LiveVertices(s))

\* Weights are naturals, and grow with scope and live vertices.
LEMMA WeightGrows ==
  ASSUME NEW s, NEW t, InScope(s) \subseteq InScope(t), LiveVertices(s) \subseteq LiveVertices(t)
  PROVE  /\ Weight(s) \in Nat /\ Weight(t) \in Nat /\ Weight(s) <= Weight(t)
         /\ InScope(s) # InScope(t) => Weight(s) < Weight(t)
         /\ LiveVertices(s) # LiveVertices(t) => Weight(s) < Weight(t)
<1> DEFINE a == Cardinality(InScope(s))
           b == Cardinality(LiveVertices(s))
           c == Cardinality(InScope(t))
           d == Cardinality(LiveVertices(t))
<1>1. /\ a \in Nat /\ b \in Nat /\ c \in Nat /\ d \in Nat
      /\ IsFiniteSet(InScope(t)) /\ IsFiniteSet(LiveVertices(t))
  BY LiveScope, FiniteParts DEF LiveVertices
<1>2. a <= c /\ (InScope(s) # InScope(t) => a < c)
  BY <1>1, FS_Subset
<1>3. b <= d /\ (LiveVertices(s) # LiveVertices(t) => b < d)
  BY <1>1, FS_Subset
<1>4. Weight(s) = a + b /\ Weight(t) = c + d
  BY DEF Weight
<1> HIDE DEF a, b, c, d
<1> QED BY <1>1, <1>2, <1>3, <1>4

\* What it sends is good, and there is less to colour in it.
LEMMA SeedsRight ==
  ASSUME NEW m \in Creation, Good(m), NEW i \in 1..Len(Constructed(m).seeds)
  PROVE  LET k == Constructed(m).seeds[i]
         IN /\ k \in Job /\ Good(k) /\ Weight(k.seed) < Weight(m.seed)
            /\ Constructed(m).kind = "and" => (Counted(k) <=> LiveVertices(k.seed) = InScope(k.seed))
            /\ Constructed(m).kind # "and" /\ Counted(m) => Counted(k)
<1> DEFINE c == Constructed(m)
           s == c.state
           v == GetNextConstraintVertex(s)
           k == c.seeds[i]
<1>1. /\ Sound(s) /\ s \in State /\ c.left >= Cardinality(LiveVertices(s))
      /\ Counted(m) <=> c.left = Cardinality(LiveVertices(s))
      /\ LiveVertices(s) \subseteq LiveVertices(m.seed)
      /\ InScope(s) \subseteq InScope(m.seed)
      /\ Forced(s) \subseteq Forced(m.seed)
  BY ConstructedRight DEF Sound
<1>2. /\ c.kind = KindOf(s, c.left, v, SubgraphSeeds(s))
      /\ c.kind = "and" => c.seeds = SubgraphSeeds(s)
      /\ c.kind = "or" /\ v # -1 => c.seeds = ColorSeeds(s, c.left, v)
      /\ c.kind # "and" /\ (c.kind # "or" \/ v = -1) => c.seeds = <<>>
  BY ConstructedParts
<1>3. c.left \in Int /\ c.seeds \in Seq(Job) /\ k \in Job
  BY ConstructedType, ElementOfSeq
<1>4. i \in 1..Len(c.seeds)
  OBVIOUS
<1>5. chromaticNum_ > 1 => Forced(s) = {}
  BY <1>1 DEF Good
<1> HIDE DEF c, s
<1>6. Weight(s) \in Nat /\ Weight(m.seed) \in Nat /\ Weight(s) <= Weight(m.seed)
  BY <1>1, WeightGrows
<1>7. CASE c.kind = "and"
  <2> DEFINE parts == Subgraphs(InScope(s))
             p == parts[i]
             t == Narrowed(s, p)
  <2>1. /\ Splits(parts, InScope(s)) /\ Len(c.seeds) = Len(parts)
        /\ \A j \in 1..Len(parts) : /\ c.seeds[j].seed = Narrowed(s, parts[j])
                                    /\ c.seeds[j].uncolored = Cardinality(parts[j])
    BY <1>1, <1>2, <1>7, SubgraphSeedsAre
  <2>2. doSubgraph /\ Len(parts) > 1 /\ Len(parts) \in Nat
    <3>1. Len(parts) \in Nat
      BY <1>1, SubgraphSeedsAre
    <3>2. doSubgraph /\ Len(SubgraphSeeds(s)) > 1
      <4> HIDE DEF v
      <4> QED BY <1>2, <1>7 DEF KindOf
    <3> QED BY <1>2, <1>7, <2>1, <3>1, <3>2
  <2> HIDE DEF parts
  <2>3. /\ i \in 1..Len(parts) /\ k.seed = t /\ k.uncolored = Cardinality(p)
    BY <1>4, <2>1
  <2>4. PICK j \in 1..Len(parts) : j # i
    <3>1. 1 \in 1..Len(parts) /\ 2 \in 1..Len(parts) /\ 1 # 2
      BY <2>2
    <3> QED BY <3>1
  <2>5. p \in SUBSET InScope(s) /\ p # InScope(s)
    <3>1. parts[j] # {} /\ parts[j] \subseteq InScope(s) /\ p \subseteq InScope(s)
      BY <2>1, <2>3 DEF Splits
    <3>2. p \cap parts[j] = {}
      BY <2>1, <2>3, <2>4 DEF Splits
    <3> HIDE DEF p
    <3> QED BY <3>1, <3>2
  <2> HIDE DEF p
  <2>6. /\ t \in State /\ InScope(t) = p /\ LiveVertices(t) = LiveVertices(s) \cap p
        /\ t.poss = s.poss /\ Sound(t)
    BY <1>1, <2>5, NarrowedParts
  <2> HIDE DEF t
  <2>7. Weight(t) < Weight(s) /\ Weight(t) \in Nat
    BY <2>5, <2>6, WeightGrows
  <2>8. /\ Cardinality(p) >= Cardinality(LiveVertices(t)) /\ Cardinality(p) \in Int
        /\ Cardinality(p) = Cardinality(LiveVertices(t)) <=> LiveVertices(t) = p
    <3>1. p \in SUBSET Vertex
      BY <2>5, LiveScope
    <3>2. LiveVertices(t) \subseteq p
      BY <2>6
    <3>3. IsFiniteSet(p) /\ Cardinality(p) \in Nat /\ Cardinality(LiveVertices(t)) <= Cardinality(p)
          /\ Cardinality(LiveVertices(t)) \in Nat
      BY <3>1, <3>2, FiniteParts, FS_Subset
    <3>4. Cardinality(LiveVertices(t)) = Cardinality(p) => LiveVertices(t) = p
      BY <3>2, <3>3, FS_Subset
    <3> QED BY <3>3, <3>4
  <2>9. Forced(t) \subseteq Forced(s)
    BY <2>6 DEF Forced
  <2>10. Good(k)
    BY <1>5, <2>2, <2>3, <2>6, <2>8, <2>9 DEF Good
  <2>11. Weight(t) < Weight(m.seed)
    BY <1>6, <2>7
  <2>12. Counted(k) <=> LiveVertices(t) = InScope(t)
    BY <2>3, <2>6, <2>8 DEF Counted
  <2> QED BY <1>3, <1>7, <2>3, <2>10, <2>11, <2>12 DEF c
<1>8. CASE c.kind = "or" /\ v # -1
  <2> DEFINE colours == GetValueOrderingOfColors(s, v)
             t == UpdateState(s, v, colours[i], TRUE)
  <2>1. /\ v \in Vertex /\ Live(s, v)
        /\ Len(c.seeds) = Len(colours)
        /\ \A j \in 1..Len(colours) :
             LET u == UpdateState(s, v, colours[j], TRUE)
             IN /\ colours[j] \in s.poss[v] /\ colours[j] \in Range(colours)
                /\ c.seeds[j].seed = u
                /\ c.seeds[j].uncolored = c.left - VerticesColored(s, u)
    BY <1>1, <1>2, <1>3, <1>8, ColorSeedsAre
  <2>2. /\ colours[i] \in s.poss[v] /\ colours[i] \in Range(colours)
        /\ k.seed = t
        /\ k.uncolored = c.left - VerticesColored(s, t)
    BY <1>4, <2>1
  <2>3. /\ Sound(t)
        /\ Cardinality(LiveVertices(s)) - VerticesColored(s, t) = Cardinality(LiveVertices(t))
        /\ Cardinality(LiveVertices(t)) < Cardinality(LiveVertices(s))
    BY <1>1, <1>8, <2>2, SentOn
  <2> HIDE DEF colours
  <2>4. Grown(s, t) /\ LiveVertices(t) \subseteq LiveVertices(s)
    BY <1>1, <2>1, <2>2, UpdateStateFollows
  <2>5. chromaticNum_ > 1 => Forced(t) = {}
    BY <1>1, <1>5, <2>1, <2>2, UpdateStateExhausts
  <2> HIDE DEF t, v
  <2>6. InScope(t) = InScope(s) /\ LiveVertices(t) # LiveVertices(s)
    <3>1. Cardinality(LiveVertices(t)) \in Nat
      BY FiniteParts DEF LiveVertices
    <3> QED BY <2>3, <2>4, <3>1, GrownScope
  <2>7. Weight(t) < Weight(s) /\ Weight(t) \in Nat
    BY <2>4, <2>6, WeightGrows
  <2>8. /\ k.uncolored \in Int /\ k.uncolored >= Cardinality(LiveVertices(t))
        /\ Counted(m) => k.uncolored = Cardinality(LiveVertices(t))
    <3> DEFINE x == Cardinality(LiveVertices(s))
               y == Cardinality(LiveVertices(t))
               z == VerticesColored(s, t)
               w == k.uncolored
    <3>1. x \in Nat /\ y \in Nat /\ z \in Int
      <4>1. Cardinality(Uncolored(s)) \in Nat /\ Cardinality(Uncolored(t)) \in Nat
        BY FiniteParts DEF Uncolored
      <4> QED BY <4>1, FiniteParts DEF LiveVertices, VerticesColored
    <3>2. w = c.left - z /\ c.left >= x /\ (Counted(m) => c.left = x) /\ x - z = y
      BY <1>1, <2>2, <2>3
    <3> HIDE DEF x, y, z, w
    <3>3. w \in Int /\ w >= y /\ (Counted(m) => w = y)
      BY <1>3, <3>1, <3>2
    <3> QED BY <3>3 DEF w, y
  <2>9. Good(k)
    BY <2>2, <2>3, <2>5, <2>8 DEF Good
  <2>10. Weight(t) < Weight(m.seed)
    BY <1>6, <2>7
  <2>11. Counted(m) => Counted(k)
    BY <2>2, <2>8 DEF Counted
  <2> QED BY <1>3, <1>8, <2>2, <2>9, <2>10, <2>11 DEF c
<1>9. CASE c.kind # "and" /\ (c.kind # "or" \/ v = -1)
  <2>1. c.seeds = <<>>
    BY <1>2, <1>9
  <2> QED BY <1>4, <2>1
<1> QED BY <1>7, <1>8, <1>9

-----------------------------------------------------------------------------
(* The creation messages of a search. *)

\* The i-th message that the chare created by m sends.
ChildMessage(m, i) ==
  [id |-> Append(m.id, i - 1), seed |-> Constructed(m).seeds[i].seed,
   uncolored |-> Constructed(m).seeds[i].uncolored]

\* Messages are sent from messages, finitely many.
LEMMA SentAre ==
  ASSUME NEW m \in Creation
  PROVE  /\ Len(Constructed(m).seeds) \in Nat
         /\ Sent(m) = {ChildMessage(m, i) : i \in 1..Len(Constructed(m).seeds)}
         /\ \A i \in 1..Len(Constructed(m).seeds) :
              /\ ChildMessage(m, i) \in Creation
              /\ ChildMessage(m, i).seed = Constructed(m).seeds[i].seed
              /\ ChildMessage(m, i).uncolored = Constructed(m).seeds[i].uncolored
              /\ ChildMessage(m, i).id = Append(m.id, i - 1)
         /\ Sent(m) \subseteq Creation
         /\ IsFiniteSet(Sent(m))
<1> DEFINE seeds == Constructed(m).seeds
           I == 1..Len(seeds)
           f == [i \in I |-> ChildMessage(m, i)]
<1>1. seeds \in Seq(Job) /\ m.id \in Seq(Nat)
  BY ConstructedType DEF Creation
<1>2. DOMAIN seeds = I /\ Len(seeds) \in Nat /\ \A i \in I : seeds[i] \in Job
  BY <1>1, LenProperties, ElementOfSeq
<1>3. Sent(m) = {ChildMessage(m, i) : i \in I}
  BY <1>2 DEF Sent, ChildMessage
<1>4. ASSUME NEW i \in I
      PROVE  ChildMessage(m, i) \in Creation
  <2>1. i - 1 \in Nat
    BY <1>2
  <2>2. Append(m.id, i - 1) \in Seq(Nat)
    BY <1>1, <2>1, AppendProperties
  <2>3. seeds[i].seed \in State /\ seeds[i].uncolored \in Int
    BY <1>2 DEF Job
  <2> HIDE DEF seeds
  <2> QED BY <2>2, <2>3 DEF ChildMessage, Creation, seeds
<1>5. \A i \in I : /\ ChildMessage(m, i).seed = seeds[i].seed
                   /\ ChildMessage(m, i).uncolored = seeds[i].uncolored
                   /\ ChildMessage(m, i).id = Append(m.id, i - 1)
  BY DEF ChildMessage
<1>6. IsFiniteSet(Sent(m))
  <2>1. f \in Surjection(I, Sent(m))
    BY <1>3 DEF Surjection
  <2>2. IsFiniteSet(I)
    BY <1>2, FirstNumbers
  <2> HIDE DEF f, I
  <2> QED BY <2>1, <2>2, FS_Surjection
<1> HIDE DEF seeds
<1> QED BY <1>2, <1>3, <1>4, <1>5, <1>6 DEF seeds

\* The equation of Messages.
LEMMA MessagesEquation ==
  \A m \in Creation : Messages[m] = {m} \cup UNION {Messages[k] : k \in Sent(m)}
<1> DEFINE next == [m \in Creation |-> Sent(m)]
<1>1. next \in [Creation -> SUBSET Creation]
  BY SentAre
<1>2. PICK f : Branching(f, Creation, next)
  <2> HIDE DEF next
  <2> QED BY <1>1, TreeRecursion
<1>3. \A m \in Creation : f[m] = {m} \cup UNION {f[k] : k \in Sent(m)}
  BY <1>2 DEF Branching
<1>4. f = [m \in Creation |-> {m} \cup UNION {f[k] : k \in Sent(m)}]
  BY <1>2, <1>3 DEF Branching
<1> DEFINE g == CHOOSE g : g = [m \in Creation |-> {m} \cup UNION {g[k] : k \in Sent(m)}]
<1>5. Messages = g
  BY DEF Messages
<1>6. g = [m \in Creation |-> {m} \cup UNION {g[k] : k \in Sent(m)}]
  BY <1>4
<1> HIDE DEF g
<1>7. \A m \in Creation : g[m] = {m} \cup UNION {g[k] : k \in Sent(m)}
  BY <1>6
<1> QED BY <1>5, <1>7

\* The sequence p is a beginning of the sequence n.
Begins(p, n) == Len(p) <= Len(n) /\ \A j \in 1..Len(p) : n[j] = p[j]

\* The messages that descend from m make a finite tree of good messages, each
\* with a name of its own.
Spans(m) ==
  LET M == Messages[m]
  IN /\ M \subseteq Creation /\ m \in M /\ IsFiniteSet(M)
     /\ \A k \in M : Good(k) /\ Sent(k) \subseteq M /\ Begins(m.id, k.id)
     /\ \A k \in M : k = m \/ \E p \in M : k \in Sent(p)
     /\ \A k, l \in M : k.id = l.id => k = l

\* A sequence begins with one that it is appended to.
LEMMA BeginsOn ==
  ASSUME NEW p \in Seq(Nat), NEW x \in Nat, NEW n \in Seq(Nat), Begins(Append(p, x), n)
  PROVE  Begins(p, n) /\ Len(n) > Len(p) /\ n[Len(p) + 1] = x
<1>1. /\ Len(Append(p, x)) = Len(p) + 1 /\ Append(p, x)[Len(p) + 1] = x
      /\ \A j \in 1..Len(p) : Append(p, x)[j] = p[j]
      /\ Len(p) \in Nat /\ Len(n) \in Nat
  BY AppendProperties, LenProperties
<1>2. Len(p) + 1 <= Len(n) /\ \A j \in 1..(Len(p) + 1) : n[j] = Append(p, x)[j]
  BY <1>1 DEF Begins
<1>3. Len(p) + 1 \in 1..(Len(p) + 1) /\ \A j \in 1..Len(p) : j \in 1..(Len(p) + 1)
  BY <1>1
<1> QED BY <1>1, <1>2, <1>3 DEF Begins

\* What the children of m span is what m spans.
LEMMA SpansOn ==
  ASSUME NEW m \in Creation, Good(m), \A k \in Sent(m) : Spans(k)
  PROVE  Spans(m)
<1> DEFINE M == Messages[m]
           F == {Messages[k] : k \in Sent(m)}
           f == [k \in Sent(m) |-> Messages[k]]
           I == 1..Len(Constructed(m).seeds)
<1>1. /\ Len(Constructed(m).seeds) \in Nat
      /\ Sent(m) = {ChildMessage(m, i) : i \in I}
      /\ \A i \in I : ChildMessage(m, i) \in Creation /\ ChildMessage(m, i).id = Append(m.id, i - 1)
      /\ Sent(m) \subseteq Creation
      /\ IsFiniteSet(Sent(m))
      /\ m.id \in Seq(Nat)
  BY SentAre DEF Creation
<1>2. M = {m} \cup UNION F
  BY MessagesEquation
<1>3. \A k \in M : k = m \/ \E l \in Sent(m) : k \in Messages[l]
  BY <1>2
<1>4. \A l \in Sent(m) : Messages[l] \subseteq M /\ l \in M
  BY <1>2 DEF Spans
<1>5. M \subseteq Creation /\ m \in M
  BY <1>2 DEF Spans
<1>6. IsFiniteSet(M)
  <2>1. f \in Surjection(Sent(m), F)
    BY DEF Surjection
  <2>2. IsFiniteSet(F)
    <3> HIDE DEF f, F
    <3> QED BY <1>1, <2>1, FS_Surjection
  <2>3. \A S \in F : IsFiniteSet(S)
    BY DEF Spans
  <2>4. IsFiniteSet(UNION F)
    <3> HIDE DEF F
    <3> QED BY <2>2, <2>3, FS_UNION
  <2>5. IsFiniteSet({m})
    BY FS_Singleton
  <2> HIDE DEF F
  <2> QED BY <1>2, <2>4, <2>5, FS_Union
<1> HIDE DEF M
<1>7. ASSUME NEW i \in I, NEW k \in Messages[ChildMessage(m, i)]
      PROVE  /\ k \in Creation /\ Begins(m.id, k.id) /\ Len(k.id) > Len(m.id)
             /\ k.id[Len(m.id) + 1] = i - 1
  <2>1. Spans(ChildMessage(m, i)) /\ i - 1 \in Nat
    BY <1>1
  <2> DEFINE c == ChildMessage(m, i)
             x == i - 1
             p == m.id
  <2>2. c.id = Append(p, x) /\ Spans(c) /\ k \in Messages[c] /\ x \in Nat /\ p \in Seq(Nat)
    BY <1>1, <2>1
  <2> HIDE DEF c, x, p
  <2>3. k \in Creation /\ Begins(c.id, k.id)
    BY <2>2 DEF Spans
  <2>4. k.id \in Seq(Nat)
    BY <2>3 DEF Creation
  <2>5. Begins(p, k.id) /\ Len(k.id) > Len(p) /\ k.id[Len(p) + 1] = x
    BY <2>2, <2>3, <2>4, BeginsOn
  <2> QED BY <2>3, <2>5 DEF x, p
<1>8. Begins(m.id, m.id)
  BY <1>1, LenProperties DEF Begins
<1>9. ASSUME NEW k \in M
      PROVE  /\ Good(k) /\ Sent(k) \subseteq M /\ Begins(m.id, k.id)
             /\ k = m \/ \E p \in M : k \in Sent(p)
  <2>1. CASE k = m
    BY <1>4, <1>8, <2>1
  <2>2. ASSUME NEW i \in I, k \in Messages[ChildMessage(m, i)]
        PROVE  /\ Good(k) /\ Sent(k) \subseteq M /\ Begins(m.id, k.id)
               /\ k = m \/ \E p \in M : k \in Sent(p)
    <3>1. ChildMessage(m, i) \in Sent(m)
      BY <1>1
    <3>2. Spans(ChildMessage(m, i)) /\ Messages[ChildMessage(m, i)] \subseteq M
      BY <1>4, <3>1
    <3>3. Good(k) /\ Sent(k) \subseteq M
      BY <2>2, <3>2 DEF Spans
    <3>4. k = ChildMessage(m, i) \/ \E p \in M : k \in Sent(p)
      BY <2>2, <3>2 DEF Spans
    <3> QED BY <1>5, <1>7, <2>2, <3>1, <3>3, <3>4
  <2> QED BY <1>1, <1>3, <2>1, <2>2
<1>10. ASSUME NEW k \in M, NEW l \in M, k.id = l.id
       PROVE  k = l
  <2>1. CASE k = m \/ l = m
    <3>1. \A x \in M : x = m \/ Len(x.id) > Len(m.id)
      BY <1>1, <1>3, <1>7
    <3>2. Len(m.id) \in Nat
      BY <1>1, LenProperties
    <3> QED BY <1>10, <2>1, <3>1, <3>2
  <2>2. CASE k # m /\ l # m
    <3>1. PICK i \in I : k \in Messages[ChildMessage(m, i)]
      BY <1>1, <1>3, <2>2
    <3>2. PICK j \in I : l \in Messages[ChildMessage(m, j)]
      BY <1>1, <1>3, <2>2
    <3>3. i - 1 = j - 1
      BY <1>7, <1>10, <3>1, <3>2
    <3>4. i = j
      BY <1>1, <3>3
    <3>5. Spans(ChildMessage(m, i))
      BY <1>1
    <3> QED BY <1>10, <3>1, <3>2, <3>4, <3>5 DEF Spans
  <2> QED BY <2>1, <2>2
<1> QED BY <1>5, <1>6, <1>9, <1>10 DEF Spans, M

\* Every good message spans a tree: the messages that descend from it have less
\* and less to colour.
LEMMA GoodSpans ==
  ASSUME NEW m \in Creation, Good(m)
  PROVE  Spans(m)
<1> DEFINE D == Creation
           size == [k \in D |-> Weight(k.seed)]
           Wrong == {k \in D : Good(k) /\ ~Spans(k)}
<1>1. size \in [D -> Nat] /\ Wrong \in SUBSET D
  BY WeightGrows
<1>2. SUFFICES ASSUME Wrong # {} PROVE FALSE
  OBVIOUS
<1>3. PICK x : Least(x, Wrong, size)
  <2> HIDE DEF D, Wrong, size
  <2> QED BY <1>1, <1>2, LeastMeasure
<1>4. /\ x \in Creation /\ Good(x) /\ ~Spans(x)
      /\ \A k \in Creation : Good(k) /\ Weight(k.seed) < Weight(x.seed) => Spans(k)
  BY <1>3 DEF Least
<1> HIDE DEF D, Wrong, size
<1>5. ASSUME NEW k \in Sent(x)
      PROVE  k \in Creation /\ Good(k) /\ Weight(k.seed) < Weight(x.seed)
  <2>1. PICK i \in 1..Len(Constructed(x).seeds) : k = ChildMessage(x, i)
    BY <1>4, SentAre
  <2>2. /\ k \in Creation /\ k.seed = Constructed(x).seeds[i].seed
        /\ k.uncolored = Constructed(x).seeds[i].uncolored
    BY <1>4, <2>1, SentAre
  <2>3. Good(Constructed(x).seeds[i]) /\ Weight(Constructed(x).seeds[i].seed) < Weight(x.seed)
    BY <1>4, SeedsRight
  <2> QED BY <2>2, <2>3 DEF Good
<1> QED BY <1>4, <1>5, SpansOn

\* The root's message is good.
LEMMA RootGood ==
  RootMessage \in Creation /\ Good(RootMessage) /\ Counted(RootMessage) /\ RootMessage.id = Root
<1>1. Sound(InitialState) /\ Cardinality(LiveVertices(InitialState)) = vertices_ /\ InitialState \in State
  BY InitialSound DEF Sound
<1>2. Root \in Seq(Nat)
  BY DEF Root
<1>3. RootMessage.id = Root /\ RootMessage.seed = InitialState /\ RootMessage.uncolored = vertices_
  BY DEF RootMessage
<1>4. vertices_ \in Nat
  BY GraphAssumption
<1> QED BY <1>1, <1>2, <1>3, <1>4, InitialUnforced DEF RootMessage, Creation, Good, Counted

-----------------------------------------------------------------------------
(* The tree of chares. *)

\* The message that creates the chare n.
Msg(n) == CHOOSE m \in Messages[RootMessage] : m.id = n

\* Every chare is created by a good message of its own.
LEMMA NodesAre ==
  /\ IsFiniteSet(Node) /\ Root \in Node /\ Node \subseteq Seq(Nat)
  /\ \A n \in Node : /\ Msg(n) \in Messages[RootMessage] /\ Msg(n).id = n
                     /\ Msg(n) \in Creation /\ Good(Msg(n)) /\ Tree[n] = Chare(Msg(n))
                     /\ Begins(Root, n)
  /\ \A m \in Messages[RootMessage] : m.id \in Node /\ Msg(m.id) = m /\ m \in Creation
  /\ Msg(Root) = RootMessage
<1> DEFINE all == Messages[RootMessage]
           ids == {m.id : m \in all}
           f == [m \in all |-> m.id]
<1>1. /\ all \subseteq Creation /\ RootMessage \in all /\ IsFiniteSet(all) /\ RootMessage.id = Root
      /\ \A k \in all : Good(k) /\ Begins(Root, k.id)
      /\ \A k, l \in all : k.id = l.id => k = l
  <2>1. Spans(RootMessage) /\ RootMessage.id = Root
    BY RootGood, GoodSpans
  <2> QED BY <2>1 DEF Spans
<1>2. chares = [n \in ids |-> Chare(Msg(n))]
  BY ChareAssumption DEF SearchChares, Msg
<1>3. Node = ids /\ \A n \in Node : Tree[n] = Chare(Msg(n))
  <2>1. DOMAIN chares = ids
    BY <1>2
  <2>2. Tree = [n \in ids |-> chares[n]]
    BY <2>1 DEF Tree
  <2>3. Node = ids
    BY <2>2 DEF Node
  <2>4. \A n \in ids : Tree[n] = chares[n]
    BY <2>2
  <2>5. \A n \in ids : chares[n] = Chare(Msg(n))
    BY <1>2
  <2> QED BY <2>3, <2>4, <2>5
<1> HIDE DEF all
<1>4. \A n \in ids : \E m \in all : m.id = n
  OBVIOUS
<1>5. \A n \in ids : Msg(n) \in all /\ Msg(n).id = n
  <2> HIDE DEF ids
  <2> QED BY <1>4 DEF Msg, all
<1>6. \A m \in all : m.id \in ids /\ Msg(m.id) = m
  <2>1. \A m \in all : m.id \in ids
    OBVIOUS
  <2> HIDE DEF ids
  <2> QED BY <1>1, <1>5, <2>1
<1>7. IsFiniteSet(ids)
  <2>1. f \in Surjection(all, ids)
    BY DEF Surjection
  <2> HIDE DEF f, ids
  <2> QED BY <1>1, <2>1, FS_Surjection
<1> HIDE DEF ids
<1>8. \A m \in all : m.id \in Seq(Nat)
  BY <1>1 DEF Creation
<1>9. \A n \in ids : n \in Seq(Nat)
  BY <1>5, <1>8
<1> QED BY <1>1, <1>3, <1>5, <1>6, <1>7, <1>9 DEF all

\* Front undoes Append.
LEMMA FrontOfAppend ==
  ASSUME NEW n \in Seq(Nat), NEW x \in Nat
  PROVE  /\ Front(Append(n, x)) = n /\ Append(n, x) \in Seq(Nat)
         /\ Len(Append(n, x)) = Len(n) + 1 /\ Len(n) \in Nat /\ Append(n, x)[Len(n) + 1] = x
<1> DEFINE all == Append(n, x)
<1>1. /\ all \in Seq(Nat) /\ Len(all) = Len(n) + 1 /\ Len(n) \in Nat
      /\ \A i \in 1..Len(n) : all[i] = n[i]
      /\ all[Len(n) + 1] = x
  BY AppendProperties, LenProperties
<1>2. Front(all) = n
  <2>1. Front(all) = SubSeq(all, 1, Len(n))
    BY <1>1 DEF Front
  <2>2. /\ SubSeq(all, 1, Len(n)) \in Seq(Nat) /\ Len(SubSeq(all, 1, Len(n))) = Len(n)
        /\ \A i \in 1..Len(n) : SubSeq(all, 1, Len(n))[i] = n[i]
    BY <1>1
  <2> HIDE DEF all
  <2> QED BY <2>1, <2>2, SeqEqual
<1> QED BY <1>1, <1>2

\* The seeds that the chare n sends, and the name of the child it sends seed i.
SeedsOf(n) == Constructed(Msg(n)).seeds
Child(n, i) == Append(n, i - 1)

\* The children of a chare are those it creates.
LEMMA ChildrenAre ==
  /\ Parent \in [Node \ {Root} -> Node]
  /\ \A n \in Node :
       LET I == 1..Len(SeedsOf(n))
       IN /\ Len(SeedsOf(n)) \in Nat
          /\ Children(n) = {Child(n, i) : i \in I}
          /\ \A i, j \in I : Child(n, i) = Child(n, j) => i = j
          /\ \A i \in I : Child(n, i) \in Node /\ Msg(Child(n, i)) = ChildMessage(Msg(n), i)
<1> DEFINE all == Messages[RootMessage]
           I(n) == 1..Len(SeedsOf(n))
<1>1. /\ \A k \in all : Sent(k) \subseteq all
      /\ \A k \in all : k = RootMessage \/ \E p \in all : k \in Sent(p)
  BY RootGood, GoodSpans DEF Spans
<1> HIDE DEF all
<1>2. ASSUME NEW n \in Node
      PROVE  /\ Msg(n) \in all /\ Msg(n).id = n /\ Len(SeedsOf(n)) \in Nat
             /\ Sent(Msg(n)) = {ChildMessage(Msg(n), i) : i \in I(n)}
             /\ \A i \in I(n) : ChildMessage(Msg(n), i).id = Child(n, i)
  BY NodesAre, SentAre DEF all, SeedsOf, Child
<1>3. ASSUME NEW n \in Node, NEW i \in I(n)
      PROVE  /\ Child(n, i) \in Node \ {Root} /\ Msg(Child(n, i)) = ChildMessage(Msg(n), i)
             /\ Front(Child(n, i)) = n /\ Child(n, i)[Len(n) + 1] = i - 1
  <2>1. ChildMessage(Msg(n), i) \in all /\ ChildMessage(Msg(n), i).id = Child(n, i)
    BY <1>1, <1>2
  <2>2. Child(n, i) \in Node /\ Msg(Child(n, i)) = ChildMessage(Msg(n), i)
    BY <2>1, NodesAre DEF all
  <2>3. n \in Seq(Nat) /\ i - 1 \in Nat /\ Begins(Root, n)
    BY <1>2, NodesAre
  <2> DEFINE x == i - 1
  <2> HIDE DEF x
  <2>4. /\ Front(Child(n, i)) = n /\ Len(Child(n, i)) = Len(n) + 1
        /\ Child(n, i)[Len(n) + 1] = x /\ Len(n) \in Nat
    BY <2>3, FrontOfAppend DEF Child, x
  <2>5. Len(n) >= 1 /\ Len(Root) = 1
    <3>1. Len(Root) = 1
      BY DEF Root
    <3> QED BY <2>3, <2>4, <3>1 DEF Begins
  <2>6. Child(n, i) # Root
    <3>1. Len(Child(n, i)) # Len(Root)
      BY <2>4, <2>5
    <3> QED BY <3>1, Zenon
  <2> QED BY <2>2, <2>4, <2>6 DEF x
<1>4. ASSUME NEW k \in Node \ {Root}
      PROVE  \E n \in Node : \E i \in I(n) : k = Child(n, i)
  <2>1. Msg(k) \in all /\ Msg(k) # RootMessage /\ Msg(k).id = k
    BY NodesAre, RootGood DEF all
  <2>2. PICK p \in all : Msg(k) \in Sent(p)
    BY <1>1, <2>1
  <2>3. p.id \in Node /\ Msg(p.id) = p
    BY <2>2, NodesAre DEF all
  <2>4. \E i \in I(p.id) : k = Child(p.id, i)
    <3>1. PICK i \in I(p.id) : Msg(k) = ChildMessage(Msg(p.id), i)
      BY <1>2, <2>2, <2>3
    <3> QED BY <1>2, <2>1, <2>3, <3>1
  <2> QED BY <2>3, <2>4
<1>5. Parent = [k \in Node \ {Root} |-> Front(k)]
  BY DEF Parent
<1>6. ASSUME NEW n \in Node
      PROVE  Children(n) = {Child(n, i) : i \in I(n)}
  <2>1. \A k \in Node \ {Root} : Parent[k] = n => \E i \in I(n) : k = Child(n, i)
    BY <1>3, <1>4, <1>5
  <2>2. \A i \in I(n) : Child(n, i) \in Node \ {Root} /\ Parent[Child(n, i)] = n
    BY <1>3, <1>5
  <2> HIDE DEF I
  <2> QED BY <2>1, <2>2 DEF Children
<1>7. Parent \in [Node \ {Root} -> Node]
  <2>1. \A k \in Node \ {Root} : Front(k) \in Node
    BY <1>3, <1>4
  <2> QED BY <1>5, <2>1
<1>8. \A n \in Node : \A i, j \in I(n) : Child(n, i) = Child(n, j) => i = j
  <2>1. TAKE n \in Node
  <2>2. TAKE i, j \in I(n)
  <2>3. i - 1 = j - 1 => i = j
    BY <1>2
  <2> HIDE DEF I
  <2> QED BY <1>3, <2>3
<1> QED BY <1>2, <1>3, <1>6, <1>7, <1>8

-----------------------------------------------------------------------------
(* What a chare answers, if it has its answer without children. *)

\* Solutions are about colours.
LEMMA SolvableColors ==
  ASSUME NEW seed, NEW s, NEW t, s.color = t.color
  PROVE  Solvable(seed, s) <=> Solvable(seed, t)
BY DEF Solvable, Solves, IsColored

\* What a seed can be coloured with, the chare that removes vertices from it can
\* use.
LEMMA RemovalSolvable ==
  ASSUME NEW m \in Creation, Good(m), Solvable(m.seed, m.seed)
  PROVE  Solvable(Constructed(m).state, Constructed(m).state)
<1> DEFINE s == Constructed(m).state
<1>1. s.color = m.seed.color /\ InScope(s) \subseteq InScope(m.seed) /\ s \in State /\ m.seed \in State
  BY ConstructedRight DEF Sound, Good
<1> HIDE DEF s
<1> QED BY <1>1, ScopeNarrows DEF s

\* The parts of Chare.
LEMMA ChareParts ==
  ASSUME NEW m \in Creation
  PROVE  LET h == Chare(m)
             c == Constructed(m)
             local == ColorLocally(c.state, c.left)
         IN /\ h.seed = m.seed /\ h.state = c.state /\ h.left = c.left
            /\ h.deletedV = c.deletedV /\ h.kind = c.kind
            /\ c.kind # "leaf" => ~h.found /\ h.iterations = 0 /\ (h.trips <=> c.stuck)
            /\ c.kind = "leaf" =>
                 /\ h.found <=> local.outcome = "found"
                 /\ h.iterations = local.iterations
                 /\ h.answer = IF h.found THEN MergeRemovedVerticesBack(c.deletedV, local.state)
                               ELSE MergeRemovedVerticesBack(c.deletedV, c.state)
                 /\ h.trips <=> local.outcome = "tripped" \/ ~MergedBack(c.deletedV, h.answer)
            /\ h.found \in BOOLEAN /\ h.trips \in BOOLEAN
<1> DEFINE c      == Constructed(m)
           search == ColorLocally(c.state, c.left)
           local  == IF c.kind = "leaf" THEN search ELSE [outcome |-> "none", iterations |-> 0]
           found  == local.outcome = "found"
           merged == IF found THEN MergeRemovedVerticesBack(c.deletedV, local.state)
                     ELSE MergeRemovedVerticesBack(c.deletedV, c.state)
           trips  == \/ c.stuck
                     \/ local.outcome = "tripped"
                     \/ c.kind = "leaf" /\ ~MergedBack(c.deletedV, merged)
           h      == Chare(m)
<1>1. h = [seed |-> m.seed, state |-> c.state, left |-> c.left, deletedV |-> c.deletedV,
           kind |-> c.kind, found |-> found, iterations |-> local.iterations, trips |-> trips,
           answer |-> merged]
  BY DEF Chare
<1>2. c.stuck => c.kind = "or"
  BY ConstructedParts
<1>3. c.kind # "leaf" => local.outcome = "none" /\ local.iterations = 0
  OBVIOUS
<1>4. c.kind = "leaf" => local = search
  OBVIOUS
<1> HIDE DEF local, search
<1>5. c.kind # "leaf" => ~found /\ (trips <=> c.stuck)
  BY <1>3
<1>6. found \in BOOLEAN /\ trips \in BOOLEAN
  OBVIOUS
<1>7. c.kind = "leaf" => (trips <=> local.outcome = "tripped" \/ ~MergedBack(c.deletedV, merged))
  BY <1>2
<1>8. c.kind = "leaf" =>
        /\ found <=> search.outcome = "found"
        /\ local.iterations = search.iterations
        /\ merged = IF found THEN MergeRemovedVerticesBack(c.deletedV, search.state)
                    ELSE MergeRemovedVerticesBack(c.deletedV, c.state)
        /\ trips <=> search.outcome = "tripped" \/ ~MergedBack(c.deletedV, merged)
  BY <1>4, <1>7
<1> HIDE DEF h, merged, trips, found, c
<1>9. /\ h.seed = m.seed /\ h.state = c.state /\ h.left = c.left /\ h.deletedV = c.deletedV
      /\ h.kind = c.kind /\ h.found = found /\ h.iterations = local.iterations /\ h.trips = trips
      /\ h.answer = merged
  BY <1>1
<1> QED BY <1>3, <1>5, <1>6, <1>8, <1>9 DEF h, c, search

\* What a leaf answers, and a chare without a colour left.
LEMMA ChareRight ==
  ASSUME NEW m \in Creation, Good(m)
  PROVE  LET h == Chare(m)
         IN /\ h.iterations \in Nat
            /\ h.kind = "leaf" /\ ~h.trips =>
                 IF h.found THEN Finished(m.seed, h.answer) ELSE ~Solvable(m.seed, m.seed)
            /\ h.kind = "leaf" => h.answer \in State
            /\ h.kind = "dead" => ~Solvable(m.seed, m.seed)
            /\ Counted(m) /\ grainSize >= 0 => ~h.trips
<1> DEFINE h == Chare(m)
           c == Constructed(m)
           s == c.state
           d == c.deletedV
           seed == m.seed
           local == ColorLocally(s, c.left)
           v == GetNextConstraintVertex(s)
<1>1. /\ Sound(seed) /\ seed \in State /\ Sound(s) /\ s \in State
      /\ d \in Seq(Vertex) /\ c.left \in Int
      /\ s = VertexRemoval(seed).state /\ d = VertexRemoval(seed).deleted
      /\ s.color = seed.color
      /\ Wide(seed, d, [state |-> s, uncolored |-> c.left, removed |-> <<>>])
      /\ Counted(m) => c.left = Cardinality(LiveVertices(s))
  BY ConstructedRight, ConstructedType DEF Good, Sound
<1>2. /\ c.kind = KindOf(s, c.left, v, SubgraphSeeds(s))
      /\ c.stuck <=> c.kind = "or" /\ v = -1
  BY ConstructedParts
<1>3. /\ h.kind = c.kind
      /\ c.kind # "leaf" => ~h.found /\ h.iterations = 0 /\ (h.trips <=> c.stuck)
      /\ c.kind = "leaf" =>
           /\ h.found <=> local.outcome = "found"
           /\ h.iterations = local.iterations
           /\ h.answer = IF h.found THEN MergeRemovedVerticesBack(d, local.state)
                         ELSE MergeRemovedVerticesBack(d, s)
           /\ h.trips <=> local.outcome = "tripped" \/ ~MergedBack(d, h.answer)
  BY ChareParts
<1>4. /\ local.iterations \in Nat
      /\ \/ local.outcome = "found" /\ FoundOK(seed, d, local.state)
         \/ local.outcome = "failed" /\ ~Solvable(seed, s)
         \/ local.outcome = "tripped" /\ c.left # Cardinality(LiveVertices(s))
  <2> HIDE DEF c, s, d, seed
  <2> QED BY <1>1, ColorLocallyRight
<1>5. Solvable(seed, s) <=> Solvable(seed, seed)
  BY <1>1, SolvableColors
<1>6. Solvable(seed, seed) => Solvable(s, s)
  BY RemovalSolvable
<1>7. /\ MergedBack(d, MergeRemovedVerticesBack(d, s))
      /\ MergeRemovedVerticesBack(d, s) \in State
  <2>1. Grown(VertexRemoval(seed).state, s)
    BY <1>1 DEF Grown
  <2> HIDE DEF s, d, seed
  <2> QED BY <1>1, <2>1, GrownAnswers
<1> HIDE DEF h, c, s, d, seed, local
<1>8. local.outcome = "found" =>
        /\ Finished(seed, MergeRemovedVerticesBack(d, local.state))
        /\ MergedBack(d, MergeRemovedVerticesBack(d, local.state))
  BY <1>1, <1>4, FoundFinishes
<1>9. h.iterations \in Nat
  BY <1>3, <1>4
<1>10. h.kind = "leaf" /\ ~h.trips =>
         IF h.found THEN Finished(seed, h.answer) ELSE ~Solvable(seed, seed)
  BY <1>3, <1>4, <1>5, <1>8
<1>11. h.kind = "leaf" => h.answer \in State
  BY <1>3, <1>7, <1>8 DEF Finished, Sound
<1>12. h.kind = "dead" => ~Solvable(seed, seed)
  <2> SUFFICES ASSUME c.kind = "dead" PROVE ~Solvable(seed, seed)
    BY <1>3
  <2>1. v # -1 /\ s.poss[v] = {}
    <3> HIDE DEF v
    <3> QED BY <1>2 DEF KindOf
  <2>2. v \in Vertex /\ Live(s, v)
    BY <1>1, <2>1, NextVertexLive DEF LiveVertices
  <2> HIDE DEF v
  <2> QED BY <1>1, <1>6, <2>1, <2>2, DeadUnsolvable
<1>13. Counted(m) /\ grainSize >= 0 => ~h.trips
  <2> SUFFICES ASSUME Counted(m), grainSize >= 0 PROVE ~h.trips
    OBVIOUS
  <2>1. CASE c.kind = "leaf"
    <3>1. local.outcome # "tripped"
      BY <1>1, <1>4
    <3>2. MergedBack(d, h.answer)
      BY <1>3, <1>7, <1>8, <2>1
    <3> QED BY <1>3, <2>1, <3>1, <3>2
  <2>2. CASE c.kind # "leaf"
    <3> SUFFICES ASSUME c.kind = "or", v = -1 PROVE FALSE
      BY <1>2, <1>3, <2>2
    <3>1. c.left > grainSize
      <4>1. ~(c.left <= grainSize)
        BY <1>2, KindMeans
      <4> QED BY <1>1, <4>1, OptionAssumption
    <3>2. LiveVertices(s) # {}
      <4>1. Cardinality(LiveVertices(s)) > 0
        BY <1>1, <3>1, OptionAssumption
      <4> QED BY <4>1, FS_EmptySet
    <3>3. v \in LiveVertices(s)
      BY <1>1, <3>2, NextVertexLive
    <3>4. -1 \notin Vertex
      BY Basics DEF Vertex
    <3> QED BY <3>3, <3>4 DEF LiveVertices
  <2> QED BY <2>1, <2>2
<1> QED BY <1>9, <1>10, <1>11, <1>12, <1>13 DEF h, seed

-----------------------------------------------------------------------------
(* The tree is one that SearchTree can search. *)

\* The numbers of the sequences in q, one after the other.
LEMMA Flattened ==
  ASSUME NEW q \in Seq(Seq(Nat)), Len(q) > 0
  PROVE  FlattenSeq(q) \in Seq(Nat)
<1> DEFINE L == Len(q)
           step == [a \in (1..L) \X Seq(Nat) |-> IF a[1] = 1 THEN q[1] ELSE a[2] \o q[a[1]]]
           g == CHOOSE g : g = [i \in 1..L |-> IF i = 1 THEN q[i] ELSE g[i - 1] \o q[i]]
<1>1. L \in Nat /\ \A i \in 1..L : q[i] \in Seq(Nat)
  BY LenProperties, ElementOfSeq
<1>2. 1 \in 1..L /\ L \in 1..L /\ L # 0
  BY <1>1
<1>3. step \in [(1..L) \X Seq(Nat) -> Seq(Nat)]
  <2>1. \A a \in (1..L) \X Seq(Nat) : a[1] \in 1..L /\ a[2] \in Seq(Nat)
    OBVIOUS
  <2>2. \A a \in (1..L) \X Seq(Nat) : a[2] \o q[a[1]] \in Seq(Nat)
    BY <1>1, <2>1, ConcatProperties
  <2> HIDE DEF L
  <2> QED BY <1>1, <1>2, <2>2
<1>4. PICK f : StepByStep(f, L, Seq(Nat), <<>>, step)
  <2>1. <<>> \in Seq(Nat)
    OBVIOUS
  <2> HIDE DEF L, step
  <2> QED BY <1>1, <1>3, <2>1, PrefixRecursion
<1>5. /\ f \in [0..L -> Seq(Nat)]
      /\ \A i \in 1..L : f[i] = IF i = 1 THEN q[1] ELSE f[i - 1] \o q[i]
  <2>1. f \in [0..L -> Seq(Nat)] /\ \A i \in 1..L : f[i] = step[<<i, f[i - 1]>>]
    BY <1>4 DEF StepByStep
  <2>2. \A i \in 1..L : i - 1 \in 0..L
    BY <1>1
  <2>3. \A i \in 1..L : <<i, f[i - 1]>> \in (1..L) \X Seq(Nat)
    BY <2>1, <2>2
  <2>4. \A i \in 1..L : step[<<i, f[i - 1]>>] = IF i = 1 THEN q[1] ELSE f[i - 1] \o q[i]
    BY <2>3
  <2> HIDE DEF step
  <2> QED BY <2>1, <2>4
<1> DEFINE h == [i \in 1..L |-> f[i]]
<1>6. \A i \in 1..L : h[i] = IF i = 1 THEN q[i] ELSE h[i - 1] \o q[i]
  <2>1. \A i \in 1..L : i # 1 => i - 1 \in 1..L
    BY <1>1
  <2> HIDE DEF L
  <2> QED BY <1>5, <2>1
<1>7. h = [i \in 1..L |-> IF i = 1 THEN q[i] ELSE h[i - 1] \o q[i]]
  <2> DEFINE k == [i \in 1..L |-> IF i = 1 THEN q[i] ELSE h[i - 1] \o q[i]]
  <2>1. DOMAIN h = 1..L /\ DOMAIN k = 1..L /\ \A i \in 1..L : h[i] = k[i]
    <3>1. \A i \in 1..L : k[i] = IF i = 1 THEN q[i] ELSE h[i - 1] \o q[i]
      <4> HIDE DEF L, h
      <4> QED OBVIOUS
    <3>2. DOMAIN h = 1..L /\ DOMAIN k = 1..L
      <4> HIDE DEF L
      <4> QED OBVIOUS
    <3>3. \A i \in 1..L : h[i] = IF i = 1 THEN q[i] ELSE h[i - 1] \o q[i]
      BY <1>6
    <3> HIDE DEF h, k, L
    <3>4. \A i \in 1..L : h[i] = k[i]
      BY <3>1, <3>3
    <3> QED BY <3>2, <3>4
  <2>2. h = [i \in DOMAIN h |-> h[i]] /\ k = [i \in DOMAIN k |-> k[i]]
    OBVIOUS
  <2> HIDE DEF h, k
  <2>3. h = k
    BY <2>1, <2>2
  <2> QED BY <2>3 DEF k
<1>8. g = [i \in 1..L |-> IF i = 1 THEN q[i] ELSE g[i - 1] \o q[i]]
  <2> HIDE DEF h
  <2> QED BY <1>7
<1>9. \A i \in 1..L : g[i] = IF i = 1 THEN q[i] ELSE g[i - 1] \o q[i]
  <2> HIDE DEF g
  <2> QED BY <1>8
<1> DEFINE Numbered == {i \in 0..L : i = 0 \/ g[i] \in Seq(Nat)}
<1>10. L \in Numbered
  <2> HIDE DEF g
  <2>1. Numbered \in SUBSET (0..L) /\ 0 \in Numbered
    BY <1>1
  <2>2. ASSUME NEW i \in 1..L, i - 1 \in Numbered
        PROVE  i \in Numbered
    <3>1. i = 1 \/ g[i - 1] \in Seq(Nat)
      BY <1>1, <2>2
    <3>2. g[i] \in Seq(Nat)
      <4>1. CASE i = 1
        BY <1>1, <1>2, <1>9, <4>1
      <4>2. CASE i # 1
        <5>1. g[i - 1] \in Seq(Nat) /\ q[i] \in Seq(Nat) /\ g[i] = g[i - 1] \o q[i]
          BY <1>1, <1>9, <3>1, <4>2
        <5> QED BY <5>1, ConcatProperties
      <4> QED BY <4>1, <4>2
    <3>3. i \in 0..L
      BY <1>1
    <3> QED BY <3>2, <3>3
  <2> HIDE DEF Numbered, L
  <2>3. \A i \in 0..L : i \in Numbered
    BY <1>1, <2>1, <2>2, Upward
  <2>4. L \in 0..L
    BY <1>1
  <2> QED BY <2>3, <2>4
<1>11. FlattenSeq(q) = g[L]
  <2>1. Len(q) # 0
    BY <1>2
  <2> QED BY <2>1 DEF FlattenSeq
<1> QED BY <1>2, <1>10, <1>11

\* A tenth of a number.
LEMMA Tenth ==
  ASSUME NEW k \in Nat
  PROVE  k \div 10 \in Nat /\ k % 10 \in Nat /\ (k # 0 => k \div 10 < k)
OBVIOUS

\* Significant satisfies its equation.
LEMMA SignificantEquation ==
  /\ Significant \in [Nat -> Seq(Nat)]
  /\ \A k \in Nat :
       Significant[k] = IF k = 0 THEN <<>> ELSE Append(Significant[k \div 10], k % 10)
<1> DEFINE next == [k \in Nat |-> k \div 10]
           step == [p \in Nat \X Seq(Nat) |-> Append(p[2], p[1] % 10)]
           Equation(f) ==
             f = [k \in Nat |-> IF k = 0 THEN <<>> ELSE Append(f[k \div 10], k % 10)]
<1>1. next \in [Nat -> Nat] /\ step \in [Nat \X Seq(Nat) -> Seq(Nat)]
  <2>1. next \in [Nat -> Nat]
    BY Tenth
  <2>2. ASSUME NEW p \in Nat \X Seq(Nat)
        PROVE  Append(p[2], p[1] % 10) \in Seq(Nat)
    <3>1. p[2] \in Seq(Nat) /\ p[1] \in Nat
      OBVIOUS
    <3>2. p[1] % 10 \in Nat
      BY <3>1, Tenth
    <3> QED BY <3>1, <3>2, AppendProperties
  <2> QED BY <2>1, <2>2
<1>2. \E m \in [Nat -> Nat] : \A x \in Nat \ {0} : m[next[x]] < m[x]
  <2> DEFINE m == [k \in Nat |-> k]
  <2>1. m \in [Nat -> Nat] /\ \A x \in Nat \ {0} : m[next[x]] < m[x]
    BY Tenth
  <2> HIDE DEF m, next
  <2> QED BY <2>1
<1>3. PICK f : StepDown(f, Nat, Seq(Nat), {0}, <<>>, next, step)
  <2>1. {0} \in SUBSET Nat /\ <<>> \in Seq(Nat)
    OBVIOUS
  <2> HIDE DEF next, step
  <2> QED BY <1>1, <1>2, <2>1, DownwardRecursion
<1>4. /\ f \in [Nat -> Seq(Nat)]
      /\ \A k \in Nat : f[k] = IF k \in {0} THEN <<>> ELSE step[<<k, f[next[k]]>>]
  BY <1>3 DEF StepDown
<1>5. \A k \in Nat : f[k] = IF k = 0 THEN <<>> ELSE Append(f[k \div 10], k % 10)
  <2> TAKE k \in Nat
  <2>1. k \div 10 \in Nat /\ f[k \div 10] \in Seq(Nat)
    BY <1>4, Tenth
  <2>2. next[k] = k \div 10 /\ step[<<k, f[k \div 10]>>] = Append(f[k \div 10], k % 10)
    BY <2>1
  <2> HIDE DEF next, step
  <2> QED BY <1>4, <2>2
<1>6. Equation(f)
  BY <1>4, <1>5
<1>7. Equation(Significant)
  BY <1>6 DEF Significant
<1>8. \A k \in Nat :
        Significant[k] = IF k = 0 THEN <<>> ELSE Append(Significant[k \div 10], k % 10)
  BY <1>7
<1> DEFINE Wrong == {k \in Nat : Significant[k] \notin Seq(Nat)}
<1>9. ASSUME Wrong # {}
      PROVE  FALSE
  <2>1. PICK k \in Wrong : \A l \in Wrong : k <= l
    BY <1>9, LeastElement
  <2>2. k \in Nat /\ k \div 10 \in Nat /\ k % 10 \in Nat /\ (k # 0 => k \div 10 < k)
    BY Tenth
  <2>3. k # 0 => Significant[k \div 10] \in Seq(Nat)
    BY <2>1, <2>2
  <2>4. Significant[k] \notin Seq(Nat)
    OBVIOUS
  <2>5. k # 0 => Append(Significant[k \div 10], k % 10) \in Seq(Nat)
    BY <2>2, <2>3, AppendProperties
  <2>6. k = 0 => Significant[k] = <<>> /\ <<>> \in Seq(Nat)
    BY <1>8, <2>2
  <2>7. k # 0 => Significant[k] = Append(Significant[k \div 10], k % 10)
    BY <1>8, <2>2
  <2> HIDE DEF Wrong
  <2> QED BY <2>4, <2>5, <2>6, <2>7
<1> QED BY <1>7, <1>8, <1>9

\* The names are strings of digits.
LEMMA NamesAre == nodeID \in [Node -> Seq(Nat)]
<1>1. \A k \in Nat : to_string(k) \in Seq(Nat)
  <2> TAKE k \in Nat
  <2>1. Significant[k] \in Seq(Nat) /\ <<0>> \in Seq(Nat)
    BY SignificantEquation
  <2> QED BY <2>1 DEF to_string
<1> DEFINE digits(n) == [i \in DOMAIN n |-> to_string(n[i])]
<1>2. ASSUME NEW n \in Node
      PROVE  FlattenSeq(digits(n)) \in Seq(Nat)
  <2>1. n \in Seq(Nat) /\ Begins(Root, n)
    BY NodesAre
  <2>2. Len(n) \in Nat /\ DOMAIN n = 1..Len(n) /\ \A i \in 1..Len(n) : n[i] \in Nat
    BY <2>1, LenProperties, ElementOfSeq
  <2>3. Len(n) > 0
    <3>1. Len(Root) = 1
      BY DEF Root
    <3> QED BY <2>1, <2>2, <3>1 DEF Begins
  <2>4. digits(n) \in Seq(Seq(Nat)) /\ Len(digits(n)) = Len(n)
    <3> DEFINE d(i) == to_string(n[i])
    <3>1. \A i \in 1..Len(n) : d(i) \in Seq(Nat)
      BY <1>1, <2>2
    <3>2. digits(n) = [i \in 1..Len(n) |-> d(i)]
      BY <2>2
    <3> HIDE DEF d, digits
    <3>3. [i \in 1..Len(n) |-> d(i)] \in Seq(Seq(Nat))
      BY <2>2, <3>1, IsASeq
    <3>4. Len([i \in 1..Len(n) |-> d(i)]) = Len(n)
      BY <2>2, <3>3, LenProperties
    <3> QED BY <3>2, <3>3, <3>4
  <2> HIDE DEF digits
  <2> QED BY <2>3, <2>4, Flattened
<1>3. nodeID = [n \in Node |-> FlattenSeq(digits(n))]
  BY DEF nodeID
<1> HIDE DEF digits
<1> QED BY <1>2, <1>3

-----------------------------------------------------------------------------
\* What Tree holds of a chare.
LEMMA TreeParts ==
  ASSUME NEW n \in Node
  PROVE  /\ Kind[n] = Tree[n].kind /\ Kind[n] = Constructed(Msg(n)).kind
         /\ Kind[n] \in {"leaf", "and", "or", "dead"}
         /\ Tree[n].found \in BOOLEAN
         /\ n \in Trips <=> Tree[n].trips
<1>1. Msg(n) \in Creation /\ Tree[n] = Chare(Msg(n))
  BY NodesAre
<1>2. Tree[n].kind = Constructed(Msg(n)).kind /\ Tree[n].found \in BOOLEAN
  BY <1>1, ChareParts
<1>3. Constructed(Msg(n)).kind \in {"leaf", "and", "or", "dead"}
  BY <1>1, ConstructedType
<1>4. Kind[n] = Tree[n].kind
  BY DEF Kind
<1> QED BY <1>2, <1>3, <1>4 DEF Trips

\* n has a colouring below it if just the chares in W have.
Holds(W, n) ==
  \/ Kind[n] = "leaf" /\ Tree[n].found
  \/ Kind[n] = "and" /\ \A k \in Children(n) : k \in W
  \/ Kind[n] = "or" /\ \E k \in Children(n) : k \in W

\* The equation of Value.
LEMMA ValueEquation ==
  /\ Value \in [Node -> BOOLEAN]
  /\ \A n \in Node :
       /\ Kind[n] = "leaf" => Value[n] = Tree[n].found
       /\ Kind[n] = "and"  => Value[n] = (\A k \in Children(n) : Value[k])
       /\ Kind[n] = "or"   => Value[n] = (\E k \in Children(n) : Value[k])
       /\ Kind[n] = "dead" => ~Value[n]
<1> DEFINE F == [W \in SUBSET Node |-> {n \in Node : Holds(W, n)}]
           Below(f, n) == \/ Kind[n] = "leaf" /\ Tree[n].found
                          \/ Kind[n] = "and" /\ \A k \in Children(n) : f[k]
                          \/ Kind[n] = "or" /\ \E k \in Children(n) : f[k]
           Eq(f) == f = [n \in Node |-> Below(f, n)]
<1>1. PICK W \in SUBSET Node : F[W] = W
  <2>1. F \in [SUBSET Node -> SUBSET Node]
    OBVIOUS
  <2>2. \A X, Y \in SUBSET Node : X \subseteq Y => F[X] \subseteq F[Y]
    BY DEF Holds
  <2> HIDE DEF F
  <2> QED BY <2>1, <2>2, FixedPoint
<1>2. \A n \in Node : n \in W <=> Holds(W, n)
  <2>1. F[W] = {n \in Node : Holds(W, n)}
    OBVIOUS
  <2> HIDE DEF F
  <2> QED BY <1>1, <2>1
<1> HIDE DEF F
<1> DEFINE g == [n \in Node |-> n \in W]
<1>3. \A n \in Node : Children(n) \subseteq Node
  BY DEF Children
<1>4. ASSUME NEW n \in Node
      PROVE  g[n] = Below(g, n)
  <2>1. \A k \in Node : g[k] = (k \in W)
    OBVIOUS
  <2> HIDE DEF g
  <2>2. /\ (\A k \in Children(n) : g[k]) <=> (\A k \in Children(n) : k \in W)
        /\ (\E k \in Children(n) : g[k]) <=> (\E k \in Children(n) : k \in W)
    BY <1>3, <2>1, Zenon
  <2>3. n \in W <=> Below(g, n)
    BY <1>2, <2>2, Zenon DEF Holds
  <2>4. Below(g, n) \in BOOLEAN
    OBVIOUS
  <2>5. g[n] \in BOOLEAN /\ (g[n] <=> n \in W)
    <3>1. g[n] = (n \in W)
      BY <2>1
    <3>2. (n \in W) \in BOOLEAN
      OBVIOUS
    <3>3. g[n] \in BOOLEAN
      BY <3>1, <3>2, Zenon
    <3>4. g[n] <=> n \in W
      BY <3>1, Zenon
    <3> QED BY <3>3, <3>4
  <2> HIDE DEF Below
  <2> QED BY <2>3, <2>4, <2>5
<1>5. g = [n \in Node |-> Below(g, n)]
  <2> DEFINE h == [n \in Node |-> Below(g, n)]
  <2>1. DOMAIN g = Node /\ DOMAIN h = Node /\ \A n \in Node : h[n] = Below(g, n)
    OBVIOUS
  <2>2. g = [n \in DOMAIN g |-> g[n]] /\ h = [n \in DOMAIN h |-> h[n]]
    OBVIOUS
  <2>3. \A n \in Node : g[n] = Below(g, n)
    BY <1>4
  <2> HIDE DEF g, h, Below
  <2>4. \A n \in Node : g[n] = h[n]
    BY <2>1, <2>3
  <2>5. g = h
    BY <2>1, <2>2, <2>4
  <2> QED BY <2>5 DEF h
<1> DEFINE e == CHOOSE f : Eq(f)
<1>6. Value = e
  BY DEF Value
<1>7. e = [n \in Node |-> Below(e, n)]
  <2>1. Eq(g)
    BY <1>5
  <2> HIDE DEF g, Eq
  <2>2. Eq(e)
    BY <2>1
  <2> QED BY <2>2 DEF Eq
<1> HIDE DEF e
<1>8. \A n \in Node : e[n] = Below(e, n) /\ e[n] \in BOOLEAN
  <2>1. \A n \in Node : Below(e, n) \in BOOLEAN
    OBVIOUS
  <2> HIDE DEF Below
  <2> QED BY <1>7, <2>1
<1>9. e \in [Node -> BOOLEAN]
  <2>1. \A n \in Node : Below(e, n) \in BOOLEAN
    OBVIOUS
  <2> HIDE DEF Below
  <2> QED BY <1>7, <2>1
<1>10. ASSUME NEW n \in Node
       PROVE  /\ Kind[n] = "leaf" => (e[n] <=> Tree[n].found)
              /\ Kind[n] = "and"  => (e[n] <=> \A k \in Children(n) : e[k])
              /\ Kind[n] = "or"   => (e[n] <=> \E k \in Children(n) : e[k])
              /\ Kind[n] = "dead" => ~e[n]
  <2>1. e[n] <=> Below(e, n)
    BY <1>8
  <2> QED BY <2>1
<1>11. \A n \in Node :
         /\ Kind[n] = "leaf" => e[n] = Tree[n].found
         /\ Kind[n] = "and"  => e[n] = (\A k \in Children(n) : e[k])
         /\ Kind[n] = "or"   => e[n] = (\E k \in Children(n) : e[k])
         /\ Kind[n] = "dead" => ~e[n]
  <2> TAKE n \in Node
  <2>1. e[n] \in BOOLEAN /\ Tree[n].found \in BOOLEAN
    BY <1>8, TreeParts
  <2> QED BY <1>10, <2>1
<1> QED BY <1>6, <1>9, <1>11

-----------------------------------------------------------------------------
(* What SearchTree assumes of its tree. *)

TP == INSTANCE SearchTreeProofs

\* The iterations of a leaf are a natural number, up to the bound.
LEMMA WorkIs == Work \in [Node -> Nat]
<1>1. ASSUME NEW n \in Node
      PROVE  Min({Tree[n].iterations, MaxWork}) \in Nat
  <2> DEFINE a == Tree[n].iterations
  <2>1. a \in Nat /\ MaxWork \in Nat
    BY NodesAre, ChareRight, OptionAssumption
  <2> HIDE DEF a
  <2>2. {a, MaxWork} \in SUBSET Nat /\ {a, MaxWork} # {}
    BY <2>1
  <2>3. Min({a, MaxWork}) \in {a, MaxWork}
    BY <2>2, MinLeast
  <2> QED BY <2>1, <2>3 DEF a
<1> QED BY <1>1 DEF Work

\* A chare takes the way of KindOf.
LEMMA RootAlive == Kind[Root] # "dead"
<1> DEFINE m == RootMessage
           s == Constructed(m).state
           v == GetNextConstraintVertex(s)
<1>1. m \in Creation /\ Good(m) /\ Msg(Root) = m /\ Root \in Node
  BY NodesAre, RootGood
<1>2. Kind[Root] = Constructed(m).kind
  BY <1>1, TreeParts
<1>3. /\ Constructed(m).kind = KindOf(s, Constructed(m).left, v, SubgraphSeeds(s))
      /\ s = VertexRemoval(InitialState).state
  BY <1>1, ConstructedParts DEF RootMessage
<1>4. s.poss = InitialState.poss /\ s \in State
  BY <1>1, InitialSound, StateParts, VertexRemovalRemoves, <1>3 DEF Sound
<1> SUFFICES ASSUME Kind[Root] = "dead" PROVE FALSE
  OBVIOUS
<1>5. v # -1 /\ s.poss[v] = {}
  <2> HIDE DEF v, s
  <2> QED BY <1>2, <1>3 DEF KindOf
<1>6. v \in Vertex
  BY <1>4, <1>5, NextVertexLive DEF LiveVertices
<1>7. InitialState.poss[v] = Color
  <2> HIDE DEF v
  <2> QED BY <1>6 DEF InitialState
<1>8. 0 \in Color
  BY OptionAssumption, GraphAssumption DEF Color
<1> QED BY <1>4, <1>5, <1>7, <1>8

\* The chares of the search make a tree that SearchTree can search.
LEMMA TreeGiven == TP!TreeAssumption /\ TP!ValueAssumption
<1>1. TP!TreeAssumption
  <2>1. Kind \in [Node -> {"leaf", "and", "or", "dead"}]
    BY TreeParts DEF Kind
  <2>2. Trips \subseteq Node
    BY DEF Trips
  <2>3. IsFiniteSet(Node) /\ Root \in Node
    BY NodesAre
  <2>4. Parent \in [Node \ {Root} -> Node]
    BY ChildrenAre
  <2>5. timeout \in Nat /\ PE # {}
    BY OptionAssumption
  <2>6. TP!IsFiniteSet(Node)
    BY <2>3 DEF IsFiniteSet, TP!IsFiniteSet
  <2> QED BY <2>1, <2>2, <2>3, <2>4, <2>5, <2>6, RootAlive, WorkIs, NamesAre DEF TP!TreeAssumption
<1>2. TP!ValueAssumption
  <2>1. \A n : TP!Kids(n) = Children(n)
    BY DEF TP!Kids, Children
  <2> QED BY <2>1, ValueEquation DEF TP!ValueAssumption
<1> QED BY <1>1, <1>2

\* SearchTree, as GraphColor and as the proofs about it know it, is the same.
LEMMA SameOperators ==
  /\ \A n : T!Kids(n) = Children(n) /\ TP!Kids(n) = Children(n)
  /\ \A S : T!Cardinality(S) = Cardinality(S) /\ TP!Cardinality(S) = Cardinality(S)
BY Zenon DEF T!Kids, TP!Kids, Children, Cardinality, T!Cardinality, TP!Cardinality

LEMMA SameActions ==
  /\ T!Init <=> TP!Init
  /\ T!vars = TP!vars
  /\ \A n, p : T!Construct(n, p) <=> TP!Construct(n, p)
  /\ \A n : T!Rerun(n) <=> TP!Rerun(n)
  /\ \A m : T!Finish(m) <=> TP!Finish(m)
  /\ \A m : T!SendCounts(m) <=> TP!SendCounts(m)
  /\ \A m : T!AndFailed(m) <=> TP!AndFailed(m)
  /\ T!Halt <=> TP!Halt
  /\ T!Over <=> TP!Over
<1>1. T!Init <=> TP!Init
  BY DEF T!Init, TP!Init, T!Unprinted, TP!Unprinted
<1>2. T!vars = TP!vars
  BY DEF T!vars, TP!vars, T!treeVars, TP!treeVars, T!groupVars, TP!groupVars
<1>3. \A n : T!Search(n) <=> TP!Search(n)
  BY Zenon DEF T!Search, TP!Search, T!Answer, TP!Answer, T!Abort, TP!Abort, T!LeafAnswer,
      TP!LeafAnswer, T!Closed, TP!Closed, T!SendCountsToAll, TP!SendCountsToAll, T!treeVars,
      TP!treeVars
<1>4. \A n, p : T!Construct(n, p) <=> TP!Construct(n, p)
  <2> TAKE n, p
  <2>1. T!Admit(n, p) <=> TP!Admit(n, p)
    BY Zenon DEF T!Admit, TP!Admit, T!MayRegister, TP!MayRegister, T!Occurs, TP!Occurs, T!Up, TP!Up
  <2>2. T!Refuse(n, p) <=> TP!Refuse(n, p)
    BY Zenon DEF T!Refuse, TP!Refuse, T!MayRegister, TP!MayRegister, T!Occurs, TP!Occurs, T!Up, TP!Up,
      T!groupVars, TP!groupVars
  <2>3. T!StartLeaf(n, p) <=> TP!StartLeaf(n, p)
    BY <1>3, <2>1, Zenon DEF T!StartLeaf, TP!StartLeaf
  <2>4. T!StartDead(n, p) <=> TP!StartDead(n, p)
    BY <2>1, Zenon DEF T!StartDead, TP!StartDead, T!Answer, TP!Answer, T!Closed, TP!Closed,
      T!SendCountsToAll, TP!SendCountsToAll
  <2>5. T!StartInternal(n, p) <=> TP!StartInternal(n, p)
    BY <2>1, Zenon DEF T!StartInternal, TP!StartInternal, T!Kids, TP!Kids
  <2>6. T!TripInternal(n, p) <=> TP!TripInternal(n, p)
    BY <2>1, Zenon DEF T!TripInternal, TP!TripInternal, T!Abort, TP!Abort, T!treeVars, TP!treeVars
  <2> QED BY <2>2, <2>3, <2>4, <2>5, <2>6, Zenon DEF T!Construct, TP!Construct
<1>5. \A n : T!Rerun(n) <=> TP!Rerun(n)
  BY <1>3, Zenon DEF T!Rerun, TP!Rerun, T!Up, TP!Up
<1>6. \A m : T!Finish(m) <=> TP!Finish(m)
  BY Zenon DEF T!Finish, TP!Finish, T!Up, TP!Up, T!Succeeded, TP!Succeeded, T!Failed, TP!Failed,
      T!Success, TP!Success, T!Decided, TP!Decided, T!AndFailedToAll, TP!AndFailedToAll,
      T!Answer, TP!Answer, T!Closed, TP!Closed, T!SendCountsToAll, TP!SendCountsToAll,
      T!Kids, TP!Kids, T!Cardinality, TP!Cardinality
<1>7. \A m : T!SendCounts(m) <=> TP!SendCounts(m)
  BY Zenon DEF T!SendCounts, TP!SendCounts, T!Up, TP!Up, T!Closed, TP!Closed, T!treeVars, TP!treeVars
<1>8. \A m : T!AndFailed(m) <=> TP!AndFailed(m)
  BY Zenon DEF T!AndFailed, TP!AndFailed, T!Up, TP!Up, T!treeVars, TP!treeVars
<1>9. T!Halt <=> TP!Halt
  BY Zenon DEF T!Halt, TP!Halt, T!treeVars, TP!treeVars, T!groupVars, TP!groupVars
<1>10. T!Over <=> TP!Over
  BY Zenon DEF T!Over, TP!Over, T!Up, TP!Up, T!vars, TP!vars, T!treeVars, TP!treeVars,
               T!groupVars, TP!groupVars
<1> QED BY <1>1, <1>2, <1>4, <1>5, <1>6, <1>7, <1>8, <1>9, <1>10

-----------------------------------------------------------------------------
(* The chares of the tree, and what they send. *)

\* Every chare begins soundly, and a leaf ends rightly.
LEMMA ChareIs ==
  ASSUME NEW n \in Node
  PROVE  LET h == Tree[n]
         IN /\ Sound(h.seed) /\ h.seed \in State /\ Sound(h.state) /\ h.state \in State
            /\ h.state = VertexRemoval(h.seed).state /\ h.deletedV = VertexRemoval(h.seed).deleted
            /\ h.state.color = h.seed.color
            /\ Solvable(h.seed, h.seed) => Solvable(h.state, h.state)
            /\ Counted(Msg(n)) <=> h.left = Cardinality(LiveVertices(h.state))
            /\ chromaticNum_ > 1 => Forced(h.seed) = {}
            /\ Kind[n] = "leaf" => h.answer \in State
            /\ Kind[n] = "leaf" /\ n \notin Trips =>
                 IF Value[n] THEN Finished(h.seed, h.answer) ELSE ~Solvable(h.seed, h.seed)
            /\ Kind[n] = "dead" => ~Solvable(h.seed, h.seed)
            /\ Counted(Msg(n)) /\ grainSize >= 0 => n \notin Trips
            /\ h.seed = Msg(n).seed /\ h.state = Constructed(Msg(n)).state
<1> DEFINE h == Tree[n]
           m == Msg(n)
           c == Constructed(m)
<1>1. m \in Creation /\ Good(m) /\ h = Chare(m)
  BY NodesAre
<1>2. h.seed = m.seed /\ h.state = c.state /\ h.left = c.left /\ h.deletedV = c.deletedV
  BY <1>1, ChareParts
<1>3. Kind[n] = h.kind /\ (n \in Trips <=> h.trips)
  BY TreeParts
<1>4. /\ h.kind = "leaf" /\ ~h.trips =>
           IF h.found THEN Finished(m.seed, h.answer) ELSE ~Solvable(m.seed, m.seed)
      /\ h.kind = "leaf" => h.answer \in State
      /\ h.kind = "dead" => ~Solvable(m.seed, m.seed)
      /\ Counted(m) /\ grainSize >= 0 => ~h.trips
  BY <1>1, ChareRight
<1>5. Kind[n] = "leaf" => Value[n] = h.found
  BY ValueEquation
<1>6. Solvable(m.seed, m.seed) => Solvable(c.state, c.state)
  BY <1>1, RemovalSolvable
<1>7. /\ Sound(c.state) /\ c.state.color = m.seed.color
      /\ Counted(m) <=> c.left = Cardinality(LiveVertices(c.state))
      /\ c.state = VertexRemoval(m.seed).state /\ c.deletedV = VertexRemoval(m.seed).deleted
  BY <1>1, ConstructedRight
<1>8. Sound(m.seed) /\ (chromaticNum_ > 1 => Forced(m.seed) = {})
  BY <1>1 DEF Good
<1>9. m.seed \in State /\ c.state \in State
  BY <1>7, <1>8 DEF Sound
<1> HIDE DEF h, c, m
<1> QED BY <1>2, <1>3, <1>4, <1>5, <1>6, <1>7, <1>8, <1>9 DEF h, c, m

\* The seeds of a chare, as its children know them.
LEMMA ChildSeed ==
  ASSUME NEW n \in Node
  PROVE  /\ Len(SeedsOf(n)) \in Nat
         /\ Children(n) = {Child(n, i) : i \in 1..Len(SeedsOf(n))}
         /\ \A i, j \in 1..Len(SeedsOf(n)) : Child(n, i) = Child(n, j) => i = j
         /\ \A i \in 1..Len(SeedsOf(n)) : Child(n, i) \in Node /\ Tree[Child(n, i)].seed = SeedsOf(n)[i].seed
<1>1. /\ Len(SeedsOf(n)) \in Nat
      /\ Children(n) = {Child(n, i) : i \in 1..Len(SeedsOf(n))}
      /\ \A i, j \in 1..Len(SeedsOf(n)) : Child(n, i) = Child(n, j) => i = j
      /\ \A i \in 1..Len(SeedsOf(n)) : Child(n, i) \in Node /\ Msg(Child(n, i)) = ChildMessage(Msg(n), i)
  BY ChildrenAre
<1>2. ASSUME NEW i \in 1..Len(SeedsOf(n))
      PROVE  Tree[Child(n, i)].seed = SeedsOf(n)[i].seed
  <2>1. Child(n, i) \in Node /\ Msg(Child(n, i)) = ChildMessage(Msg(n), i)
    BY <1>1
  <2>2. Tree[Child(n, i)].seed = Msg(Child(n, i)).seed
    BY <2>1, ChareIs
  <2>3. ChildMessage(Msg(n), i).seed = SeedsOf(n)[i].seed
    BY DEF ChildMessage, SeedsOf
  <2> QED BY <2>1, <2>2, <2>3
<1> QED BY <1>1, <1>2

\* The vertices that the chare k is to colour or to keep coloured.
Part(k) == InScope(Tree[k].seed)

\* The children of an AND chare share its vertices out among them.
LEMMA AndChildren ==
  ASSUME NEW n \in Node, Kind[n] = "and"
  PROVE  LET s == Tree[n].state
         IN /\ \A k \in Children(n) :
                 /\ k \in Node /\ Part(k) \subseteq InScope(s) /\ Closed(Part(k), InScope(s))
                 /\ Tree[k].seed = Narrowed(s, Part(k))
                 /\ Solvable(Tree[n].seed, Tree[n].seed) => Solvable(Tree[k].seed, Tree[k].seed)
            /\ \A k, l \in Children(n) : Part(k) \cap Part(l) # {} => k = l
            /\ \A v \in InScope(s) : \E k \in Children(n) : v \in Part(k)
<1> DEFINE s == Tree[n].state
           parts == Subgraphs(InScope(s))
           I == 1..Len(SeedsOf(n))
           K(i) == Child(n, i)
<1>1. Constructed(Msg(n)).kind = "and" /\ Msg(n) \in Creation
  BY TreeParts, NodesAre
<1>2. /\ s \in State /\ s = Constructed(Msg(n)).state
      /\ Solvable(Tree[n].seed, Tree[n].seed) => Solvable(s, s)
  BY ChareIs
<1>3. SeedsOf(n) = SubgraphSeeds(s)
  <2> DEFINE r == VertexRemoval(Msg(n).seed).state
  <2>1. Constructed(Msg(n)).state = r /\ Constructed(Msg(n)).seeds = SubgraphSeeds(r)
    BY <1>1, ConstructedParts
  <2> HIDE DEF r
  <2> QED BY <1>2, <2>1 DEF SeedsOf
<1> HIDE DEF s
<1>4. /\ Splits(parts, InScope(s)) /\ Len(SeedsOf(n)) = Len(parts)
      /\ \A i \in 1..Len(parts) : SeedsOf(n)[i].seed = Narrowed(s, parts[i])
  BY <1>2, <1>3, SubgraphSeedsAre
<1>5. /\ Children(n) = {K(i) : i \in I}
      /\ \A i, j \in I : K(i) = K(j) => i = j
      /\ \A i \in I : K(i) \in Node /\ Tree[K(i)].seed = SeedsOf(n)[i].seed
  BY ChildSeed
<1> HIDE DEF K, parts
<1>6. /\ \A i \in I : parts[i] \subseteq InScope(s) /\ Closed(parts[i], InScope(s))
      /\ \A i, j \in I : parts[i] \cap parts[j] # {} => i = j
      /\ \A v \in InScope(s) : \E i \in I : v \in parts[i]
  BY <1>4 DEF Splits
<1>7. ASSUME NEW i \in I
      PROVE  /\ K(i) \in Node /\ Part(K(i)) = parts[i]
             /\ Tree[K(i)].seed = Narrowed(s, Part(K(i)))
             /\ Solvable(Tree[n].seed, Tree[n].seed) => Solvable(Tree[K(i)].seed, Tree[K(i)].seed)
  <2> DEFINE p == parts[i]
             t == Narrowed(s, p)
  <2>1. Tree[K(i)].seed = t /\ p \in SUBSET InScope(s)
    BY <1>4, <1>5, <1>6
  <2> HIDE DEF p
  <2>2. InScope(t) = p /\ (Solvable(s, s) => Solvable(t, t))
    BY <1>2, <2>1, NarrowedParts
  <2> HIDE DEF t
  <2> QED BY <1>2, <1>5, <2>1, <2>2 DEF Part, p, t
<1> HIDE DEF I
<1> QED BY <1>5, <1>6, <1>7 DEF s

\* The children of an OR chare try the colours that may be left.
LEMMA OrChildren ==
  ASSUME NEW n \in Node, Kind[n] = "or", n \notin Trips
  PROVE  /\ \A k \in Children(n) : k \in Node /\ Grown(Tree[n].state, Tree[k].seed)
         /\ Solvable(Tree[n].seed, Tree[n].seed) => \E k \in Children(n) : Solvable(Tree[k].seed, Tree[k].seed)
<1> DEFINE s == Tree[n].state
           v == GetNextConstraintVertex(s)
           colours == GetValueOrderingOfColors(s, v)
           left == Constructed(Msg(n)).left
           I == 1..Len(SeedsOf(n))
           K(i) == Child(n, i)
           Tried(i) == UpdateState(s, v, colours[i], TRUE)
<1>1. Constructed(Msg(n)).kind = "or" /\ Msg(n) \in Creation
  BY TreeParts, NodesAre
<1>2. /\ s \in State /\ Sound(s) /\ s = Constructed(Msg(n)).state
      /\ Solvable(Tree[n].seed, Tree[n].seed) => Solvable(s, s)
  BY ChareIs
<1>3. v # -1 /\ SeedsOf(n) = ColorSeeds(s, left, v) /\ left \in Int
  <2> DEFINE r == VertexRemoval(Msg(n).seed).state
             w == GetNextConstraintVertex(r)
             c == Constructed(Msg(n))
  <2>1. /\ c.state = r /\ (c.stuck <=> w = -1)
        /\ w # -1 => c.seeds = ColorSeeds(r, c.left, w)
    BY <1>1, ConstructedParts
  <2>2. ~c.stuck
    <3>1. Tree[n] = Chare(Msg(n)) /\ ~Tree[n].trips
      BY NodesAre, TreeParts
    <3> QED BY <1>1, <3>1, ChareParts
  <2>3. c.left \in Int
    BY <1>1, ConstructedType
  <2> HIDE DEF r
  <2> QED BY <1>2, <2>1, <2>2, <2>3 DEF SeedsOf
<1> HIDE DEF s, left
<1>4. /\ v \in Vertex /\ Live(s, v)
      /\ Len(SeedsOf(n)) = Len(colours)
      /\ Range(colours) = {colours[i] : i \in 1..Len(colours)}
      /\ \A i \in 1..Len(colours) : colours[i] \in s.poss[v] /\ SeedsOf(n)[i].seed = Tried(i)
  <2> DEFINE seeds == ColorSeeds(s, left, v)
  <2>1. /\ v \in Vertex /\ Live(s, v)
        /\ Len(seeds) = Len(colours)
        /\ Range(colours) = {colours[i] : i \in 1..Len(colours)}
        /\ \A i \in 1..Len(colours) : colours[i] \in s.poss[v] /\ seeds[i].seed = Tried(i)
    BY <1>2, <1>3, ColorSeedsAre
  <2>2. SeedsOf(n) = seeds
    BY <1>3
  <2> HIDE DEF seeds, Tried, colours, v
  <2> QED BY <2>1, <2>2
<1>5. /\ Children(n) = {K(i) : i \in I}
      /\ \A i \in I : K(i) \in Node /\ Tree[K(i)].seed = SeedsOf(n)[i].seed
  BY ChildSeed
<1>6. \A i \in I : Tree[K(i)].seed = Tried(i)
  BY <1>4, <1>5
<1>7. Solvable(s, s) => \E c \in Range(colours) : Solvable(UpdateState(s, v, c, TRUE), UpdateState(s, v, c, TRUE))
  BY <1>2, <1>4, OrKeepsSolution
<1> HIDE DEF v, colours, K
<1>8. ASSUME NEW i \in I
      PROVE  Grown(s, Tried(i))
  BY <1>2, <1>4, UpdateStateFollows
<1>9. Solvable(s, s) => \E i \in I : Solvable(Tried(i), Tried(i))
  BY <1>4, <1>7
<1> HIDE DEF Tried, I
<1>10. \A k \in Children(n) : k \in Node /\ Grown(s, Tree[k].seed)
  <2> TAKE k \in Children(n)
  <2>1. PICK i \in I : k = K(i)
    BY <1>5
  <2> QED BY <1>5, <1>6, <1>8, <2>1
<1>11. Solvable(s, s) => \E k \in Children(n) : Solvable(Tree[k].seed, Tree[k].seed)
  <2> SUFFICES ASSUME Solvable(s, s) PROVE \E k \in Children(n) : Solvable(Tree[k].seed, Tree[k].seed)
    OBVIOUS
  <2>1. PICK i \in I : Solvable(Tried(i), Tried(i))
    BY <1>9
  <2>2. Tree[K(i)].seed = Tried(i) /\ K(i) \in Children(n)
    BY <1>5, <1>6
  <2> QED BY <2>1, <2>2
<1> QED BY <1>2, <1>10, <1>11 DEF s

\* If no coloured vertex is in a graph that is split, every count is right: the
\* root's is, an OR chare hands on a right count if it has one, and an AND chare
\* counts all that it hands on.
LEMMA CountsInherited ==
  ASSUME SplitsUncolored
  PROVE  \A n \in Node : Counted(Msg(n))
<1> DEFINE D == Node
           size == [n \in D |-> Len(n)]
           Wrong == {n \in D : ~Counted(Msg(n))}
<1>1. size \in [D -> Nat] /\ Wrong \in SUBSET D
  BY NodesAre, LenProperties
<1>2. SUFFICES ASSUME Wrong # {} PROVE FALSE
  OBVIOUS
<1>3. PICK k : Least(k, Wrong, size)
  <2> HIDE DEF D, Wrong, size
  <2> QED BY <1>1, <1>2, LeastMeasure
<1>4. /\ k \in Node /\ ~Counted(Msg(k))
      /\ \A n \in Node : Len(n) < Len(k) => Counted(Msg(n))
  BY <1>3 DEF Least
<1> HIDE DEF D, Wrong, size
<1>5. k # Root
  BY <1>4, NodesAre, RootGood
<1>6. PICK n \in Node : \E i \in 1..Len(SeedsOf(n)) : k = Child(n, i)
  <2>1. Parent[k] \in Node /\ k \in Children(Parent[k])
    BY <1>4, <1>5, ChildrenAre DEF Children
  <2> QED BY <2>1, ChildrenAre
<1>7. PICK i \in 1..Len(SeedsOf(n)) : k = Child(n, i)
  BY <1>6
<1>8. Len(n) < Len(k)
  <2> DEFINE x == i - 1
  <2>1. n \in Seq(Nat) /\ x \in Nat
    BY <1>7, ChildrenAre, NodesAre
  <2> HIDE DEF x
  <2>2. Len(Append(n, x)) = Len(n) + 1 /\ Len(n) \in Nat
    BY <2>1, FrontOfAppend
  <2> QED BY <1>7, <2>2 DEF Child, x
<1>9. Counted(Msg(n))
  BY <1>4, <1>8
<1>10. /\ Msg(n) \in Creation /\ Good(Msg(n)) /\ Constructed(Msg(n)).kind = Kind[n]
       /\ Counted(Msg(k)) <=> Counted(SeedsOf(n)[i])
       /\ Tree[k].seed = SeedsOf(n)[i].seed
  <2>1. Msg(k) = ChildMessage(Msg(n), i)
    BY <1>7, ChildrenAre
  <2>2. Msg(k).seed = SeedsOf(n)[i].seed /\ Msg(k).uncolored = SeedsOf(n)[i].uncolored
    BY <2>1 DEF ChildMessage, SeedsOf
  <2> QED BY <1>7, <2>2, NodesAre, TreeParts, ChildSeed DEF Counted
<1>11. /\ Kind[n] = "and" =>
            (Counted(SeedsOf(n)[i]) <=> LiveVertices(SeedsOf(n)[i].seed) = InScope(SeedsOf(n)[i].seed))
       /\ Kind[n] # "and" => Counted(SeedsOf(n)[i])
  BY <1>7, <1>9, <1>10, SeedsRight DEF SeedsOf, Counted
<1>12. CASE Kind[n] = "and"
  <2> DEFINE s == Tree[n].state
  <2>1. k \in Children(n)
    BY <1>7, ChildSeed
  <2>2. Tree[k].seed = Narrowed(s, Part(k)) /\ Part(k) \in SUBSET InScope(s) /\ s \in State
    BY <1>12, <2>1, AndChildren, ChareIs
  <2>3. InScope(s) = LiveVertices(s)
    BY <1>12 DEF SplitsUncolored
  <2> HIDE DEF s
  <2>4. /\ InScope(Narrowed(s, Part(k))) = Part(k)
        /\ LiveVertices(Narrowed(s, Part(k))) = LiveVertices(s) \cap Part(k)
    BY <2>2, NarrowedParts
  <2>5. LiveVertices(Tree[k].seed) = InScope(Tree[k].seed)
    BY <2>2, <2>3, <2>4
  <2> QED BY <1>4, <1>10, <1>11, <1>12, <2>5 DEF Counted
<1>13. CASE Kind[n] # "and"
  BY <1>4, <1>10, <1>11, <1>13 DEF Counted
<1> QED BY <1>12, <1>13

\* And if every count is right, there is none: the subgraph with the coloured
\* vertex would count it.
LEMMA CountsTellSplits ==
  ASSUME \A n \in Node : Counted(Msg(n))
  PROVE  SplitsUncolored
<1> SUFFICES ASSUME NEW n \in Node, Kind[n] = "and", NEW v \in InScope(Tree[n].state)
             PROVE  v \in LiveVertices(Tree[n].state)
  BY LiveScope, ChareIs DEF SplitsUncolored
<1> DEFINE s == Tree[n].state
<1>1. v \in InScope(s) /\ s \in State
  BY ChareIs
<1>2. PICK k \in Children(n) : v \in Part(k)
  BY <1>1, AndChildren
<1>3. PICK i \in 1..Len(SeedsOf(n)) : k = Child(n, i)
  BY ChildSeed
<1>4. /\ Msg(n) \in Creation /\ Good(Msg(n)) /\ Constructed(Msg(n)).kind = "and"
      /\ Counted(SeedsOf(n)[i]) /\ Tree[k].seed = SeedsOf(n)[i].seed
  <2>1. Msg(k) = ChildMessage(Msg(n), i) /\ k \in Node
    BY <1>3, ChildrenAre
  <2>2. Msg(k).seed = SeedsOf(n)[i].seed /\ Msg(k).uncolored = SeedsOf(n)[i].uncolored
    BY <2>1 DEF ChildMessage, SeedsOf
  <2>3. Counted(Msg(k))
    BY <2>1
  <2> QED BY <1>3, <2>2, <2>3, NodesAre, TreeParts, ChildSeed DEF Counted
<1>5. LiveVertices(Tree[k].seed) = InScope(Tree[k].seed)
  BY <1>3, <1>4, SeedsRight DEF SeedsOf
<1>6. /\ Tree[k].seed = Narrowed(s, Part(k)) /\ Part(k) \in SUBSET InScope(s)
  BY <1>2, AndChildren
<1> HIDE DEF s
<1>7. /\ InScope(Narrowed(s, Part(k))) = Part(k)
      /\ LiveVertices(Narrowed(s, Part(k))) = LiveVertices(s) \cap Part(k)
  BY <1>1, <1>6, NarrowedParts
<1>8. v \in LiveVertices(s)
  BY <1>2, <1>5, <1>6, <1>7
<1> QED BY <1>8 DEF s

-----------------------------------------------------------------------------
(* The merge of a subgraph. *)

\* What a finished child has coloured fits what its parent has made, and the
\* merge loses nothing: what is next to the subgraph and not in it was coloured,
\* or out of reach, before the split.
LEMMA MergeGrows ==
  ASSUME NEW s0, Sound(s0), NEW p \in SUBSET InScope(s0), Closed(p, InScope(s0)),
         NEW t, Finished(Narrowed(s0, p), t),
         NEW s, Sound(s), Grown(s0, s), \A v \in p : s.color[v] = s0.color[v]
  PROVE  LET r == MergeSubgraph(s, t)
         IN /\ SubgraphFits(s, t)
            /\ Sound(r) /\ Grown(s0, r)
            /\ \A v \in Vertex : r.color[v] = IF v \in p THEN t.color[v] ELSE s.color[v]
            /\ \A v \in p : IsColored(r, v)
<1> DEFINE r == MergeSubgraph(s, t)
           k == Narrowed(s0, p)
           taken == {v \in LiveVertices(s) : IsOperationPermissible(t, v)}
<1>1. s0 \in State /\ s \in State /\ t \in State /\ Sound(t)
  BY DEF Sound, Finished
<1>2. /\ k.color = s0.color /\ InScope(k) = p /\ p \in SUBSET Vertex
      /\ LiveVertices(k) = LiveVertices(s0) \cap p
  BY <1>1, NarrowedParts, LiveScope
<1>3. Grown(k, t) /\ LiveVertices(t) = {} /\ InScope(t) = p
  BY <1>2, GrownScope DEF Finished
<1> HIDE DEF k
<1>4. InScope(s) = InScope(s0) /\ s.onStack = s0.onStack /\ s.out = s0.out
  BY GrownScope DEF Grown
<1>5. \A v \in Vertex : IsOperationPermissible(t, v) <=> v \in p
  BY <1>3 DEF InScope
<1>6. \A v \in p : IsColored(t, v)
  BY <1>2, <1>3, <1>5 DEF LiveVertices, Live
<1>7. taken = {v \in p : ~IsColored(s, v)} /\ taken \subseteq Vertex
  <2>1. \A v \in p : v \in InScope(s)
    BY <1>4
  <2> QED BY <1>2, <1>5, <2>1 DEF LiveVertices, Live, InScope
<1>8. \A v \in Vertex : (IsColored(s0, v) \/ v \notin p) => t.color[v] = s0.color[v]
  <2>1. \A v \in Vertex : t.color[v] # k.color[v] => v \in LiveVertices(k)
    BY <1>3 DEF Grown, LiveVertices
  <2> QED BY <1>2, <2>1 DEF LiveVertices, Live
<1>9. \A v \in Vertex : v \notin InScope(s0) => s.color[v] = s0.color[v]
  <2>1. \A v \in Vertex : s.color[v] # s0.color[v] => v \in LiveVertices(s0)
    BY DEF Grown, LiveVertices
  <2> QED BY <2>1, LiveScope
<1>10. \A v \in p : IsColored(s, v) => s.color[v] = t.color[v]
  BY <1>2, <1>8 DEF IsColored
<1>11. s.color \in Assignment /\ t.color \in Assignment /\ s.poss \in [Vertex -> SUBSET Color]
  BY <1>1, StateParts
<1>12. /\ r.onStack = s.onStack /\ r.out = s.out
       /\ r.color = [v \in Vertex |-> IF v \in taken THEN t.color[v] ELSE s.color[v]]
       /\ r.poss = [v \in Vertex |->
                      IF v \in taken THEN {}
                      ELSE IF IsColored(s, v) THEN s.poss[v]
                      ELSE s.poss[v] \ {t.color[u] : u \in taken \cap Ngbrs(v)}]
       /\ r \in State
  <2> DEFINE color == [v \in Vertex |-> IF v \in taken THEN t.color[v] ELSE s.color[v]]
             poss == [v \in Vertex |->
                        IF v \in taken THEN {}
                        ELSE IF IsColored(s, v) THEN s.poss[v]
                        ELSE s.poss[v] \ {t.color[u] : u \in taken \cap Ngbrs(v)}]
  <2>1. r = [s EXCEPT !.color = color, !.poss = poss]
    BY DEF MergeSubgraph
  <2> HIDE DEF r, taken
  <2>2. color \in Assignment
    BY <1>11 DEF Assignment
  <2>3. poss \in [Vertex -> SUBSET Color]
    BY <1>11
  <2> HIDE DEF color, poss
  <2>4. r.onStack = s.onStack /\ r.out = s.out /\ r.color = color /\ r.poss = poss /\ r \in State
    BY <1>1, <2>1, <2>2, <2>3 DEF State, Assignment
  <2> QED BY <2>4 DEF color, poss
<1> HIDE DEF r, taken
<1>13. \A v \in Vertex : r.color[v] = IF v \in p THEN t.color[v] ELSE s.color[v]
  BY <1>7, <1>10, <1>12
<1>14. \A v \in p : IsColored(r, v)
  BY <1>2, <1>6, <1>13 DEF IsColored
<1>15. Exact(r)
  <2> SUFFICES ASSUME NEW v \in Vertex
               PROVE  r.poss[v] = IF IsColored(r, v) THEN {} ELSE Color \ {r.color[u] : u \in Ngbrs(v)}
    BY DEF Exact
  <2>1. s.poss[v] = IF IsColored(s, v) THEN {} ELSE Color \ {s.color[u] : u \in Ngbrs(v)}
    BY DEF Sound, Exact
  <2>2. CASE v \in taken
    BY <1>7, <1>12, <1>14, <2>2
  <2>3. CASE v \notin taken /\ IsColored(s, v)
    BY <1>12, <2>1, <2>3 DEF IsColored
  <2>4. CASE v \notin taken /\ ~IsColored(s, v)
    <3>1. /\ r.poss[v] = (Color \ {s.color[u] : u \in Ngbrs(v)}) \ {t.color[u] : u \in taken \cap Ngbrs(v)}
          /\ ~IsColored(r, v)
      BY <1>12, <2>1, <2>4 DEF IsColored
    <3>2. \A u \in Ngbrs(v) : /\ u \in Vertex
                              /\ r.color[u] = IF u \in taken THEN t.color[u] ELSE s.color[u]
                              /\ u \in taken => s.color[u] \notin Color
      BY <1>1, <1>7, <1>12, Basics, ColoredMeans
    <3>3. \A c \in Color : c \in r.poss[v] <=> c \notin {r.color[u] : u \in Ngbrs(v)}
      BY <3>1, <3>2
    <3>4. r.poss[v] \subseteq Color
      BY <3>1
    <3> QED BY <3>1, <3>3, <3>4
  <2> QED BY <2>2, <2>3, <2>4
<1>16. Proper(r)
  <2> SUFFICES ASSUME NEW v \in Vertex, IsColored(r, v), NEW u \in Ngbrs(v)
               PROVE  r.color[u] # r.color[v]
    BY DEF Proper
  <2>1. u \in Vertex /\ v \in Ngbrs(u)
    BY Basics
  <2>2. \A w \in Vertex : \A x \in p : w \in Ngbrs(x) => r.color[w] = t.color[w]
    <3> SUFFICES ASSUME NEW w \in Vertex, NEW x \in p, w \in Ngbrs(x)
                 PROVE  r.color[w] = t.color[w]
      OBVIOUS
    <3>1. w \in p \/ w \notin InScope(s0)
      BY DEF Closed
    <3> QED BY <1>8, <1>9, <1>13, <3>1
  <2>3. CASE v \in p \/ u \in p
    <3>1. r.color[v] = t.color[v] /\ r.color[u] = t.color[u]
      BY <1>13, <2>1, <2>2, <2>3
    <3>2. IsColored(t, v)
      BY <3>1 DEF IsColored
    <3> QED BY <1>1, <3>1, <3>2 DEF Sound, Proper
  <2>4. CASE v \notin p /\ u \notin p
    <3>1. r.color[v] = s.color[v] /\ r.color[u] = s.color[u]
      BY <1>13, <2>1, <2>4
    <3>2. IsColored(s, v)
      BY <3>1 DEF IsColored
    <3> QED BY <3>1, <3>2 DEF Sound, Proper
  <2> QED BY <2>3, <2>4
<1>17. Grown(s0, r)
  <2> SUFFICES ASSUME NEW v \in Vertex, r.color[v] # s0.color[v]
               PROVE  Live(s0, v) /\ IsColored(r, v)
    BY <1>4, <1>12 DEF Grown
  <2>1. CASE v \in p
    <3>1. v \in InScope(s0) /\ IsColored(r, v) /\ ~IsColored(s0, v)
      BY <1>8, <1>13, <1>14, <2>1
    <3> QED BY <3>1 DEF Live, InScope
  <2>2. CASE v \notin p
    <3>1. r.color[v] = s.color[v]
      BY <1>13, <2>2
    <3> QED BY <3>1 DEF Grown, IsColored
  <2> QED BY <2>1, <2>2
<1>18. SubgraphFits(s, t)
  <2> SUFFICES ASSUME NEW v \in Vertex, v \in p
               PROVE  IF IsColored(s, v) THEN s.color[v] = t.color[v] ELSE t.color[v] \in Color /\ Live(s, v)
    BY <1>5 DEF SubgraphFits
  <2>1. t.color[v] \in Color
    BY <1>1, <1>6, ColoredMeans
  <2>2. v \in InScope(s)
    BY <1>4
  <2> QED BY <1>10, <2>1, <2>2 DEF Live, InScope
<1> QED BY <1>12, <1>13, <1>14, <1>15, <1>16, <1>17, <1>18 DEF Sound, r

-----------------------------------------------------------------------------
(* What a chare makes of its answers. *)

\* What node_state_ of a waiting chare n is when it has merged the answers of
\* the children in S.
Waiting(n, S, s) ==
  /\ Kind[n] = "or" => s = Tree[n].state /\ \A k \in S : ~Value[k]
  /\ Kind[n] = "and" =>
       /\ Sound(s) /\ Grown(Tree[n].state, s)
       /\ \A k \in Children(n) \cap S : Value[k] => \A v \in Part(k) : IsColored(s, v)
       /\ \A k \in Children(n) \ S : \A v \in Part(k) : s.color[v] = Tree[n].state.color[v]

\* What it is when n has answered.
Answered(n, s) ==
  IF Value[n] THEN Finished(Tree[n].seed, s) ELSE ~Solvable(Tree[n].seed, Tree[n].seed)

\* A chare that begins to wait has merged nothing.
LEMMA WaitBegins ==
  ASSUME NEW n \in Node
  PROVE  Waiting(n, {}, Tree[n].state)
<1>1. Sound(Tree[n].state)
  BY ChareIs
<1>2. Grown(Tree[n].state, Tree[n].state)
  BY DEF Grown
<1> QED BY <1>1, <1>2 DEF Waiting

\* The removed vertices of a chare can be put back into what its state has
\* grown to.
LEMMA RemovedPutBack ==
  ASSUME NEW n \in Node, NEW t, Sound(t), Grown(Tree[n].state, t)
  PROVE  LET r == MergeRemovedVerticesBack(Tree[n].deletedV, t)
         IN /\ MergedBack(Tree[n].deletedV, r) /\ r \in State
            /\ LiveVertices(t) = {} => Finished(Tree[n].seed, r)
<1> DEFINE seed == Tree[n].seed
           d == VertexRemoval(seed).deleted
<1>1. Sound(seed) /\ Tree[n].deletedV = d /\ Grown(VertexRemoval(seed).state, t)
  BY ChareIs
<1> HIDE DEF seed
<1>2. /\ MergedBack(d, MergeRemovedVerticesBack(d, t)) /\ MergeRemovedVerticesBack(d, t) \in State
      /\ LiveVertices(t) = {} => Finished(seed, MergeRemovedVerticesBack(d, t))
  BY <1>1, GrownAnswers
<1> HIDE DEF d
<1>3. /\ MergedBack(Tree[n].deletedV, MergeRemovedVerticesBack(Tree[n].deletedV, t))
      /\ MergeRemovedVerticesBack(Tree[n].deletedV, t) \in State
      /\ LiveVertices(t) = {} => Finished(seed, MergeRemovedVerticesBack(Tree[n].deletedV, t))
  BY <1>1, <1>2
<1> QED BY <1>3 DEF seed

\* An OR chare takes over the state of a child that has succeeded.
LEMMA OrTakes ==
  ASSUME NEW n \in Node, Kind[n] = "or", n \notin Trips,
         NEW k \in Children(n), NEW t, Finished(Tree[k].seed, t)
  PROVE  Sound(t) /\ Grown(Tree[n].state, t) /\ LiveVertices(t) = {}
<1>1. Sound(t) /\ Grown(Tree[k].seed, t) /\ LiveVertices(t) = {}
  BY DEF Finished
<1>2. Grown(Tree[n].state, Tree[k].seed)
  BY OrChildren
<1> QED BY <1>1, <1>2, GrowsOn

\* An AND chare merges a child that has succeeded.
LEMMA AndTakes ==
  ASSUME NEW n \in Node, Kind[n] = "and", NEW S, NEW s, Waiting(n, S, s),
         NEW k \in Children(n), k \notin S, NEW t, Finished(Tree[k].seed, t)
  PROVE  SubgraphFits(s, t) /\ Waiting(n, S \cup {k}, MergeSubgraph(s, t))
<1> DEFINE s0 == Tree[n].state
           p == Part(k)
           r == MergeSubgraph(s, t)
<1>1. /\ Sound(s) /\ Grown(s0, s)
      /\ \A l \in Children(n) \cap S : Value[l] => \A v \in Part(l) : IsColored(s, v)
      /\ \A l \in Children(n) \ S : \A v \in Part(l) : s.color[v] = s0.color[v]
  BY DEF Waiting
<1>2. /\ p \in SUBSET InScope(s0) /\ Closed(p, InScope(s0))
      /\ Finished(Narrowed(s0, p), t)
      /\ \A l \in Children(n) : Part(l) \subseteq InScope(s0) /\ (Part(l) \cap p # {} => l = k)
  BY AndChildren
<1>3. Sound(s0) /\ InScope(s0) \subseteq Vertex
  BY ChareIs, LiveScope
<1> HIDE DEF s0, p
<1>4. \A v \in p : s.color[v] = s0.color[v]
  BY <1>1 DEF p
<1>5. /\ SubgraphFits(s, t) /\ Sound(r) /\ Grown(s0, r)
      /\ \A v \in Vertex : r.color[v] = IF v \in p THEN t.color[v] ELSE s.color[v]
      /\ \A v \in p : IsColored(r, v)
  BY <1>1, <1>2, <1>3, <1>4, MergeGrows
<1> HIDE DEF r
<1>6. ASSUME NEW l \in Children(n), l # k, NEW v \in Part(l)
      PROVE  r.color[v] = s.color[v]
  BY <1>2, <1>3, <1>5, <1>6
<1>7. ASSUME NEW l \in Children(n) \cap (S \cup {k}), Value[l], NEW v \in Part(l)
      PROVE  IsColored(r, v)
  <2>1. CASE l = k
    BY <1>5, <1>7, <2>1 DEF p
  <2>2. CASE l # k
    <3>1. IsColored(s, v) /\ r.color[v] = s.color[v]
      BY <1>1, <1>6, <1>7, <2>2
    <3> QED BY <3>1 DEF IsColored
  <2> QED BY <2>1, <2>2
<1>8. ASSUME NEW l \in Children(n) \ (S \cup {k}), NEW v \in Part(l)
      PROVE  r.color[v] = s0.color[v]
  BY <1>1, <1>6, <1>8
<1>9. Waiting(n, S \cup {k}, r)
  BY <1>5, <1>7, <1>8 DEF Waiting, s0
<1> QED BY <1>5, <1>9 DEF r

\* An AND chare all of whose children have succeeded has all coloured.
LEMMA AndDone ==
  ASSUME NEW n \in Node, Kind[n] = "and", NEW S, Children(n) \subseteq S, NEW s, Waiting(n, S, s),
         \A k \in Children(n) : Value[k]
  PROVE  LiveVertices(s) = {}
<1>1. InScope(s) = InScope(Tree[n].state)
  BY GrownScope DEF Waiting
<1> SUFFICES ASSUME NEW v \in LiveVertices(s) PROVE FALSE
  OBVIOUS
<1>2. v \in InScope(Tree[n].state)
  BY <1>1, LiveScope
<1>3. PICK k \in Children(n) : v \in Part(k)
  BY <1>2, AndChildren
<1>4. IsColored(s, v)
  BY <1>3 DEF Waiting
<1> QED BY <1>4 DEF LiveVertices, Live

-----------------------------------------------------------------------------
(* The inductive invariant. *)

LEMMA SameCounting ==
  /\ \A n, f, s : T!Decided(n, f, s) <=> TP!Decided(n, f, s)
  /\ \A n, s : T!Success(n, s) <=> TP!Success(n, s)
  /\ \A n, r : T!Succeeded(n, r) = TP!Succeeded(n, r)
BY Zenon DEF T!Decided, TP!Decided, T!Success, TP!Success, T!Succeeded, TP!Succeeded,
             T!Kids, TP!Kids, T!Cardinality, TP!Cardinality

\* What node_state_ of every chare has come to.
StatesRight ==
  /\ node_state_ \in [Node -> State]
  /\ \A n \in Node :
       /\ mode[n] = "rerun" => Kind[n] = "leaf"
       /\ mode[n] = "wait" => Kind[n] \in {"and", "or"} /\ n \notin Trips
       /\ mode[n] \notin {"wait", "done"} => node_state_[n] = Tree[n].state
       /\ mode[n] = "wait" => Waiting(n, TP!Merged(n), node_state_[n])
       /\ mode[n] = "done" => Answered(n, node_state_[n])

Inv == TP!TypeOK /\ TP!Invariant /\ StatesRight

\* What the parent knows of an answer, and what the counts will be.
LEMMA Arrives ==
  ASSUME Inv, NEW m \in finishMsgs, mode[Parent[m.from]] = "wait"
  PROVE  LET n        == Parent[m.from]
             finished == child_finished_[n] + 1
             succeed  == T!Succeeded(n, m.res)
             S        == TP!Merged(n) \cup {m.from}
             decided  == T!Decided(n, finished, succeed)
         IN /\ n \in Node /\ m.from \in Node /\ m.from \in Children(n) /\ n # m.from
            /\ m.from \notin TP!Merged(n) /\ S \in SUBSET Children(n)
            /\ mode[m.from] = "done" /\ m.res = Value[m.from] /\ m.res \in BOOLEAN
            /\ Kind[n] \in {"and", "or"} /\ n \notin Trips
            /\ Kind[n] = "and" /\ decided /\ Value[n] => S = Children(n) /\ \A k \in S : Value[k]
            /\ Kind[n] = "and" /\ decided /\ ~Value[n] => \E k \in S : ~Value[k]
            /\ Kind[n] = "or" /\ decided /\ Value[n] => \E k \in S : Value[k]
            /\ Kind[n] = "or" /\ decided /\ ~Value[n] => S = Children(n) /\ \A k \in S : ~Value[k]
            /\ Kind[n] = "or" /\ ~decided => \A k \in S : ~Value[k]
            /\ decided => (T!Success(n, succeed) <=> Value[n])
<1> DEFINE n        == Parent[m.from]
           finished == child_finished_[n] + 1
           succeed  == TP!Succeeded(n, m.res)
           S        == TP!Merged(n) \cup {m.from}
           decided  == TP!Decided(n, finished, succeed)
<1>1. TP!TypeOK /\ TP!Invariant
  BY DEF Inv
<1>2. /\ m.from \in Node /\ m.res = Value[m.from] /\ mode[m.from] = "done"
      /\ n \in Node /\ m.from \in TP!Kids(n) /\ n # m.from
      /\ Kind[n] \in {"and", "or"}
      /\ m.from \notin TP!Merged(n) /\ S \in SUBSET TP!Kids(n)
  BY <1>1, TreeGiven, TP!AnswerCounts
<1>3. /\ Kind[n] = "and" /\ decided /\ Value[n] => S = TP!Kids(n) /\ \A k \in S : Value[k]
      /\ Kind[n] = "and" /\ decided /\ ~Value[n] => \E k \in S : ~Value[k]
      /\ Kind[n] = "or" /\ decided /\ Value[n] => \E k \in S : Value[k]
      /\ Kind[n] = "or" /\ decided /\ ~Value[n] => S = TP!Kids(n) /\ \A k \in S : ~Value[k]
      /\ Kind[n] = "or" /\ ~decided => \A k \in S : ~Value[k]
      /\ decided => (TP!Success(n, succeed) <=> Value[n])
  BY <1>1, TreeGiven, TP!AnswerTells
<1>4. TP!Kids(n) = Children(n)
  BY SameOperators
<1>5. /\ T!Succeeded(n, m.res) = succeed
      /\ T!Decided(n, finished, succeed) <=> decided
      /\ T!Success(n, succeed) <=> TP!Success(n, succeed)
  BY SameCounting, Zenon
<1>6. n \notin Trips
  BY <1>2 DEF Inv, StatesRight
<1>7. Value[m.from] \in BOOLEAN
  BY <1>2, ValueEquation
<1> HIDE DEF S, finished, decided, succeed, n
<1> QED BY <1>2, <1>3, <1>4, <1>5, <1>6, <1>7 DEF S, finished, decided, succeed, n

\* The root begins with the whole graph, and what finishes that is a colouring.
LEMMA RootColors ==
  /\ Tree[Root].seed = InitialState
  /\ \A t : Finished(InitialState, t) => IsColoringValid(t)
<1>1. Tree[Root].seed = InitialState
  BY NodesAre, ChareIs DEF RootMessage
<1>2. Sound(InitialState) /\ InScope(InitialState) = Vertex
  BY InitialSound DEF InScope, IsOperationPermissible, InitialState
<1>3. ASSUME NEW t, Finished(InitialState, t) PROVE IsColoringValid(t)
  <2>1. CompletesSeed(InitialState, t)
    BY <1>2, <1>3, FinishedCompletes
  <2>2. \A v \in Vertex : Ngbrs(v) \subseteq Vertex
    BY Basics
  <2> QED BY <1>2, <2>1, <2>2 DEF CompletesSeed, IsColoringValid
<1> QED BY <1>1, <1>3

\* mergeToParent does what it should with an answer, and its assertions hold.
LEMMA Settles ==
  ASSUME Inv, NEW m \in finishMsgs, mode[Parent[m.from]] = "wait"
  PROVE  LET n       == Parent[m.from]
             S       == TP!Merged(n) \cup {m.from}
             decided == T!Decided(n, child_finished_[n] + 1, T!Succeeded(n, m.res))
         IN /\ Asserts(m)
            /\ Settled(m) \in State
            /\ decided => Answered(n, Settled(m))
            /\ ~decided => Waiting(n, S, Settled(m))
<1> DEFINE k       == m.from
           n       == Parent[m.from]
           succeed == T!Succeeded(n, m.res)
           success == T!Success(n, succeed)
           S       == TP!Merged(n) \cup {m.from}
           decided == T!Decided(n, child_finished_[n] + 1, succeed)
           s       == node_state_[n]
           t       == node_state_[k]
           g       == Merged(m)
           r       == Settled(m)
           back    == MergeRemovedVerticesBack(Tree[n].deletedV, g)
<1>1. /\ n \in Node /\ k \in Node /\ k \in Children(n) /\ n # k
      /\ k \notin TP!Merged(n) /\ S \in SUBSET Children(n)
      /\ mode[k] = "done" /\ m.res = Value[k] /\ m.res \in BOOLEAN
      /\ Kind[n] \in {"and", "or"} /\ n \notin Trips
      /\ Kind[n] = "and" /\ decided /\ Value[n] => S = Children(n) /\ \A l \in S : Value[l]
      /\ Kind[n] = "and" /\ decided /\ ~Value[n] => \E l \in S : ~Value[l]
      /\ Kind[n] = "or" /\ decided /\ Value[n] => \E l \in S : Value[l]
      /\ Kind[n] = "or" /\ decided /\ ~Value[n] => S = Children(n) /\ \A l \in S : ~Value[l]
      /\ Kind[n] = "or" /\ ~decided => \A l \in S : ~Value[l]
      /\ decided => (success <=> Value[n])
  BY Arrives
<1>2. Waiting(n, TP!Merged(n), s) /\ Answered(k, t) /\ s \in State /\ t \in State
  BY <1>1 DEF Inv, StatesRight
<1>3. \A l \in TP!Merged(n) : l \in Node /\ mode[l] = "done"
  BY SameOperators DEF TP!Merged, Children
<1>4. \A l \in S : l \in Node /\ ~Value[l] => ~Solvable(Tree[l].seed, Tree[l].seed)
  <2>1. \A l \in S : l \in Node => mode[l] = "done"
    BY <1>1, <1>3
  <2> QED BY <2>1 DEF Inv, StatesRight, Answered
<1>5. Value[k] => Finished(Tree[k].seed, t)
  BY <1>2 DEF Answered
<1>6. g = IF ~Value[k] THEN s ELSE IF Kind[n] = "and" THEN MergeSubgraph(s, t) ELSE t
  BY <1>1 DEF Merged
<1>7. /\ r = IF decided /\ (n = Root => success) THEN back ELSE g
      /\ Asserts(m) <=>
           /\ Kind[n] = "and" /\ m.res => SubgraphFits(s, t)
           /\ decided /\ (n = Root => success) => MergedBack(Tree[n].deletedV, r)
           /\ decided /\ n = Root /\ success => IsColoringValid(r)
  BY DEF Settled, Asserts
<1>8. \A l \in Children(n) : l \in Node
  BY DEF Children
<1> HIDE DEF S, decided, success, succeed, s, t, g, r, k, n, back

<1>9. Sound(Tree[n].state) /\ Grown(Tree[n].state, Tree[n].state) /\ Value[n] \in BOOLEAN
  BY <1>1, ChareIs, ValueEquation DEF Grown
<1>10. S = TP!Merged(n) \cup {k}
  BY DEF S, k
<1>11. ASSUME Kind[n] = "and"
       PROVE  /\ Sound(g) /\ Grown(Tree[n].state, g) /\ Waiting(n, S, g)
              /\ Value[k] => SubgraphFits(s, t)
              /\ decided /\ Value[n] => LiveVertices(g) = {}
              /\ decided /\ ~Value[n] => ~Solvable(Tree[n].seed, Tree[n].seed)
  <2>1. ASSUME Value[k]
        PROVE  Waiting(n, S, g) /\ SubgraphFits(s, t)
    <3>1. g = MergeSubgraph(s, t)
      BY <1>6, <1>11, <2>1
    <3>2. SubgraphFits(s, t) /\ Waiting(n, S, MergeSubgraph(s, t))
      BY <1>1, <1>2, <1>5, <1>10, <1>11, <2>1, AndTakes
    <3> QED BY <3>1, <3>2
  <2>2. ASSUME ~Value[k]
        PROVE  Waiting(n, S, g)
    <3>1. g = s
      BY <1>6, <2>2
    <3>2. Waiting(n, S, s)
      BY <1>2, <1>10, <1>11, <2>2 DEF Waiting
    <3> QED BY <3>1, <3>2
  <2>3. Waiting(n, S, g) /\ (Value[k] => SubgraphFits(s, t))
    BY <1>5, <2>1, <2>2
  <2>4. ASSUME decided, Value[n]
        PROVE  LiveVertices(g) = {}
    <3>1. Children(n) \subseteq S /\ \A l \in Children(n) : Value[l]
      BY <1>1, <1>11, <2>4
    <3> QED BY <1>1, <1>11, <2>3, <3>1, AndDone
  <2>5. ASSUME decided, ~Value[n]
        PROVE  ~Solvable(Tree[n].seed, Tree[n].seed)
    <3>1. PICK l \in S : ~Value[l]
      BY <1>1, <1>11, <2>5
    <3>2. l \in Children(n) /\ ~Solvable(Tree[l].seed, Tree[l].seed)
      BY <1>1, <1>4, <1>8, <3>1
    <3> QED BY <1>1, <1>11, <3>2, AndChildren
  <2>6. Sound(g) /\ Grown(Tree[n].state, g)
    BY <1>11, <2>3 DEF Waiting
  <2> QED BY <2>3, <2>4, <2>5, <2>6
<1>12. ASSUME Kind[n] = "or"
       PROVE  /\ Sound(g) /\ Grown(Tree[n].state, g)
              /\ ~decided => Waiting(n, S, g)
              /\ decided /\ Value[n] => LiveVertices(g) = {}
              /\ decided /\ ~Value[n] => ~Solvable(Tree[n].seed, Tree[n].seed)
  <2>1. s = Tree[n].state /\ \A l \in TP!Merged(n) : ~Value[l]
    BY <1>2, <1>12 DEF Waiting
  <2>2. ASSUME Value[k]
        PROVE  /\ Sound(g) /\ Grown(Tree[n].state, g)
               /\ ~decided => Waiting(n, S, g)
               /\ decided /\ Value[n] => LiveVertices(g) = {}
    <3>1. g = t
      BY <1>6, <1>12, <2>2
    <3>2. Sound(t) /\ Grown(Tree[n].state, t) /\ LiveVertices(t) = {}
      BY <1>1, <1>5, <1>12, <2>2, OrTakes
    <3>3. decided
      BY <1>1, <1>10, <1>12, <2>2
    <3> QED BY <3>1, <3>2, <3>3
  <2>3. ASSUME ~Value[k]
        PROVE  /\ Sound(g) /\ Grown(Tree[n].state, g)
               /\ ~decided => Waiting(n, S, g)
               /\ decided /\ Value[n] => LiveVertices(g) = {}
    <3>1. g = s
      BY <1>6, <2>3
    <3>2. \A l \in S : ~Value[l]
      BY <1>10, <2>1, <2>3
    <3>3. Waiting(n, S, s)
      BY <1>12, <2>1, <3>2 DEF Waiting
    <3>4. ~(decided /\ Value[n])
      BY <1>1, <1>12, <3>2
    <3> QED BY <1>9, <2>1, <3>1, <3>3, <3>4
  <2>4. ASSUME decided, ~Value[n]
        PROVE  ~Solvable(Tree[n].seed, Tree[n].seed)
    <3>1. \A l \in Children(n) : ~Solvable(Tree[l].seed, Tree[l].seed)
      BY <1>1, <1>4, <1>8, <1>12, <2>4
    <3> QED BY <1>1, <1>12, <3>1, OrChildren
  <2> QED BY <2>2, <2>3, <2>4
<1>13. /\ Sound(g) /\ Grown(Tree[n].state, g)
       /\ ~decided => Waiting(n, S, g)
       /\ decided /\ Value[n] => LiveVertices(g) = {}
       /\ decided /\ ~Value[n] => ~Solvable(Tree[n].seed, Tree[n].seed)
       /\ Kind[n] = "and" /\ Value[k] => SubgraphFits(s, t)
  BY <1>1, <1>11, <1>12
<1>14. /\ MergedBack(Tree[n].deletedV, back) /\ back \in State
       /\ LiveVertices(g) = {} => Finished(Tree[n].seed, back)
  BY <1>1, <1>13, RemovedPutBack DEF back
<1>15. r \in State
  BY <1>7, <1>13, <1>14 DEF Sound
<1>16. ~decided => Waiting(n, S, r)
  BY <1>7, <1>13
<1>17. decided => Answered(n, r)
  <2>1. ASSUME decided, Value[n] PROVE Finished(Tree[n].seed, r)
    <3>1. r = back
      BY <1>1, <1>7, <2>1
    <3> QED BY <1>13, <1>14, <2>1, <3>1
  <2> QED BY <1>13, <2>1 DEF Answered
<1>18. Asserts(m)
  <2>1. decided /\ n = Root /\ success => IsColoringValid(r)
    <3> SUFFICES ASSUME decided, n = Root, success PROVE IsColoringValid(r)
      OBVIOUS
    <3>1. Finished(InitialState, r)
      BY <1>1, <1>17, RootColors DEF Answered
    <3> QED BY <3>1, RootColors
  <2> QED BY <1>1, <1>7, <1>13, <1>14, <2>1
<1> QED BY <1>15, <1>16, <1>17, <1>18 DEF n, S, r, decided, succeed

\* Every step is a step of SearchTree.
LEMMA StepsOfTree == [Next]_vars => [T!Next]_(T!vars) /\ [TP!Next]_(TP!vars)
<1> SUFFICES ASSUME [Next]_vars PROVE [T!Next]_(T!vars) /\ [TP!Next]_(TP!vars)
  OBVIOUS
<1>1. T!Next \/ UNCHANGED T!vars
  BY DEF Next, vars, Construct, Rerun, Finish, Other, T!Next
<1>2. TP!Next \/ UNCHANGED TP!vars
  <2>1. CASE UNCHANGED T!vars
    BY <2>1 DEF T!vars, T!treeVars, T!groupVars, TP!vars, TP!treeVars, TP!groupVars
  <2>2. CASE T!Next
    <3>1. \/ \E n \in Node, p \in PE : TP!Construct(n, p)
          \/ \E n \in Node : TP!Rerun(n)
          \/ \E m \in finishMsgs : TP!Finish(m)
          \/ \E m \in groupMsgs : TP!SendCounts(m) \/ TP!AndFailed(m)
          \/ TP!Halt
          \/ TP!Over
      BY <2>2, SameActions DEF T!Next
    <3> QED BY <3>1 DEF TP!Next
  <2> QED BY <1>1, <2>1, <2>2
<1> QED BY <1>1, <1>2

LEMMA InvBegins == Init => Inv
<1> SUFFICES ASSUME Init PROVE Inv
  OBVIOUS
<1>1. TP!Init /\ node_state_ = [n \in Node |-> Tree[n].state]
  BY SameActions DEF Init
<1>2. TP!TypeOK /\ TP!Invariant
  BY <1>1, TreeGiven, TP!TypingBegins, TP!InitInvariant
<1>3. \A n \in Node : mode[n] \in {"seed", "unborn"}
  BY <1>1 DEF TP!Init
<1>4. \A n \in Node : Tree[n].state \in State
  BY ChareIs
<1>5. node_state_ \in [Node -> State]
  BY <1>1, <1>4
<1> QED BY <1>1, <1>2, <1>3, <1>5 DEF Inv, StatesRight

\* The construction of a chare or a turn of its search.
LEMMA WorkKeeps ==
  ASSUME Inv, NEW n \in Node, Rerun(n) \/ \E p \in PE : Construct(n, p)
  PROVE  StatesRight'
<1>1. TP!TypeOK /\ TP!Invariant /\ (mode[n] = "rerun" => Kind[n] = "leaf")
  BY DEF Inv, StatesRight
<1>2. TP!Rerun(n) \/ \E p \in PE : TP!Construct(n, p)
  BY SameActions DEF Rerun, Construct
<1>3. /\ mode[n] \in {"seed", "rerun"}
      /\ \A q \in Node \ {n} : mode'[q] = mode[q] \/ (mode[q] = "unborn" /\ mode'[q] = "seed")
      /\ \A q \in Node : TP!Merged(q)' = TP!Merged(q)
      /\ \/ mode'[n] \in {"seed", "denied"}
         \/ mode'[n] = "rerun" /\ Kind[n] = "leaf"
         \/ mode'[n] = "done" /\ (Kind[n] = "dead" \/ (Kind[n] = "leaf" /\ n \notin Trips))
         \/ mode'[n] = "wait" /\ Kind[n] \in {"and", "or"} /\ n \notin Trips /\ TP!Merged(n) = {}
  BY <1>1, <1>2, TreeGiven, TP!WorkMeans
<1>4. LocalStep(n)
  BY DEF Rerun, Construct
<1>5. node_state_ \in [Node -> State]
  BY DEF Inv, StatesRight
<1>6. /\ node_state_' \in [Node -> State]
      /\ \A q \in Node \ {n} : node_state_'[q] = node_state_[q]
      /\ node_state_'[n] = IF Kind[n] = "leaf" /\ mode'[n] = "done" THEN Tree[n].answer ELSE node_state_[n]
  <2>1. Kind[n] = "leaf" => Tree[n].answer \in State
    BY ChareIs
  <2> QED BY <1>4, <1>5, <2>1 DEF LocalStep
<1>7. node_state_[n] = Tree[n].state
  BY <1>3 DEF Inv, StatesRight
<1> DEFINE Fine(q) ==
             /\ mode'[q] = "rerun" => Kind[q] = "leaf"
             /\ mode'[q] = "wait" => Kind[q] \in {"and", "or"} /\ q \notin Trips
             /\ mode'[q] \notin {"wait", "done"} => node_state_'[q] = Tree[q].state
             /\ mode'[q] = "wait" => Waiting(q, TP!Merged(q)', node_state_'[q])
             /\ mode'[q] = "done" => Answered(q, node_state_'[q])
<1>8. ASSUME NEW q \in Node, q # n
      PROVE  Fine(q)
  <2>1. /\ mode[q] = "rerun" => Kind[q] = "leaf"
        /\ mode[q] = "wait" => Kind[q] \in {"and", "or"} /\ q \notin Trips
        /\ mode[q] \notin {"wait", "done"} => node_state_[q] = Tree[q].state
        /\ mode[q] = "wait" => Waiting(q, TP!Merged(q), node_state_[q])
        /\ mode[q] = "done" => Answered(q, node_state_[q])
    BY DEF Inv, StatesRight
  <2>2. TP!Merged(q)' = TP!Merged(q) /\ node_state_'[q] = node_state_[q]
    BY <1>3, <1>6, <1>8
  <2>3. mode'[q] = mode[q] \/ (mode[q] = "unborn" /\ mode'[q] = "seed")
    BY <1>3, <1>8
  <2> QED BY <2>1, <2>2, <2>3
<1>9. Fine(n)
  <2>1. CASE mode'[n] \in {"seed", "denied"} \/ (mode'[n] = "rerun" /\ Kind[n] = "leaf")
    BY <1>6, <1>7, <2>1
  <2>2. CASE mode'[n] = "done" /\ (Kind[n] = "dead" \/ (Kind[n] = "leaf" /\ n \notin Trips))
    <3>1. Kind[n] = "dead" => ~Value[n] /\ ~Solvable(Tree[n].seed, Tree[n].seed)
      BY ChareIs, ValueEquation
    <3>2. Kind[n] = "leaf" => Answered(n, Tree[n].answer)
      BY <2>2, ChareIs DEF Answered
    <3>3. Answered(n, node_state_'[n])
      BY <1>6, <2>2, <3>1, <3>2 DEF Answered
    <3> QED BY <2>2, <3>3
  <2>3. CASE mode'[n] = "wait" /\ Kind[n] \in {"and", "or"} /\ n \notin Trips /\ TP!Merged(n) = {}
    <3>1. Waiting(n, TP!Merged(n)', node_state_'[n])
      BY <1>3, <1>6, <1>7, <2>3, WaitBegins
    <3> QED BY <2>3, <3>1
  <2> QED BY <1>3, <2>1, <2>2, <2>3
<1>10. \A q \in Node : Fine(q)
  <2> HIDE DEF Fine
  <2> QED BY <1>8, <1>9
<1> QED BY <1>6, <1>10 DEF StatesRight

\* The merge of an answer.
LEMMA FinishKeeps ==
  ASSUME Inv, NEW m \in finishMsgs, Finish(m)
  PROVE  StatesRight'
<1> DEFINE n       == Parent[m.from]
           S       == TP!Merged(n) \cup {m.from}
           decided == T!Decided(n, child_finished_[n] + 1, T!Succeeded(n, m.res))
           r       == Settled(m)
<1>1. TP!TypeOK /\ TP!Invariant
  BY DEF Inv
<1>2. TP!Finish(m) /\ node_state_' = [node_state_ EXCEPT ![n] = r]
  BY SameActions DEF Finish
<1>3. /\ mode[n] = "wait"
      /\ \A x \in Node : mode'[x] = IF x = n /\ decided THEN "done" ELSE mode[x]
      /\ \A q \in Node : TP!Merged(q)' = IF q = n THEN S ELSE TP!Merged(q)
  <2> DEFINE told == TP!Decided(n, child_finished_[n] + 1, TP!Succeeded(n, m.res))
  <2>1. /\ mode[n] = "wait"
        /\ \A x \in Node : mode'[x] = IF x = n /\ told THEN "done" ELSE mode[x]
        /\ \A q \in Node : TP!Merged(q)' = IF q = n THEN S ELSE TP!Merged(q)
    BY <1>1, <1>2, TreeGiven, TP!FinishMeans
  <2>2. decided <=> told
    BY SameCounting, Zenon
  <2> HIDE DEF told, decided, S, n
  <2> QED BY <2>1, <2>2
<1>4. /\ r \in State
      /\ decided => Answered(n, r)
      /\ ~decided => Waiting(n, S, r)
  BY <1>3, Settles
<1>5. n \in Node /\ Kind[n] \in {"and", "or"} /\ n \notin Trips
  BY <1>3, Arrives
<1> HIDE DEF n, S, decided, r
<1>6. node_state_ \in [Node -> State]
  BY DEF Inv, StatesRight
<1>7. /\ node_state_' \in [Node -> State]
      /\ \A q \in Node : node_state_'[q] = IF q = n THEN r ELSE node_state_[q]
  BY <1>2, <1>4, <1>5, <1>6
<1> DEFINE Fine(q) ==
             /\ mode'[q] = "rerun" => Kind[q] = "leaf"
             /\ mode'[q] = "wait" => Kind[q] \in {"and", "or"} /\ q \notin Trips
             /\ mode'[q] \notin {"wait", "done"} => node_state_'[q] = Tree[q].state
             /\ mode'[q] = "wait" => Waiting(q, TP!Merged(q)', node_state_'[q])
             /\ mode'[q] = "done" => Answered(q, node_state_'[q])
<1>8. ASSUME NEW q \in Node, q # n
      PROVE  Fine(q)
  <2>1. /\ mode[q] = "rerun" => Kind[q] = "leaf"
        /\ mode[q] = "wait" => Kind[q] \in {"and", "or"} /\ q \notin Trips
        /\ mode[q] \notin {"wait", "done"} => node_state_[q] = Tree[q].state
        /\ mode[q] = "wait" => Waiting(q, TP!Merged(q), node_state_[q])
        /\ mode[q] = "done" => Answered(q, node_state_[q])
    BY DEF Inv, StatesRight
  <2>2. TP!Merged(q)' = TP!Merged(q) /\ node_state_'[q] = node_state_[q] /\ mode'[q] = mode[q]
    BY <1>3, <1>7, <1>8
  <2> QED BY <2>1, <2>2
<1>9. Fine(n)
  <2>1. TP!Merged(n)' = S /\ node_state_'[n] = r /\ mode'[n] = IF decided THEN "done" ELSE "wait"
    BY <1>3, <1>5, <1>7
  <2> QED BY <1>4, <1>5, <2>1
<1>10. \A q \in Node : Fine(q)
  <2> HIDE DEF Fine
  <2> QED BY <1>8, <1>9
<1> QED BY <1>7, <1>10 DEF StatesRight

\* What concerns no chare's search.
LEMMA OtherKeeps ==
  ASSUME Inv, UNCHANGED <<mode, finishMsgs, node_state_>>
  PROVE  StatesRight'
<1>1. \A q \in Node : TP!Merged(q)' = TP!Merged(q)
  BY DEF TP!Merged
<1> QED BY <1>1 DEF Inv, StatesRight

\* Every step keeps the invariant.
LEMMA InvKept == Inv /\ [Next]_vars => Inv'
<1> SUFFICES ASSUME Inv, [Next]_vars PROVE Inv'
  OBVIOUS
<1>1. TP!TypeOK' /\ TP!Invariant'
  BY StepsOfTree, TreeGiven, TP!TypingStep, TP!NextInvariant DEF Inv
<1>2. StatesRight'
  <2>1. CASE \E n \in Node : Rerun(n) \/ \E p \in PE : Construct(n, p)
    BY <2>1, WorkKeeps
  <2>2. CASE \E m \in finishMsgs : Finish(m)
    BY <2>2, FinishKeeps
  <2>3. CASE Other
    <3>1. UNCHANGED <<mode, finishMsgs, node_state_>>
      BY <2>3 DEF Other, T!SendCounts, T!AndFailed, T!Halt, T!Over, T!vars, T!treeVars
    <3> QED BY <3>1, OtherKeeps
  <2>4. CASE UNCHANGED vars
    <3>1. UNCHANGED <<mode, finishMsgs, node_state_>>
      BY <2>4 DEF vars, T!vars, T!treeVars
    <3> QED BY <3>1, OtherKeeps
  <2> QED BY <2>1, <2>2, <2>3, <2>4 DEF Next
<1> QED BY <1>1, <1>2 DEF Inv

LEMMA InvAlways == Spec => []Inv
BY InvBegins, InvKept, PTL DEF Spec

-----------------------------------------------------------------------------
\* Every step of the program is a step of SearchTree on the tree of its chares:
\* what is proved of SearchTree holds for every graph (Node.cpp:49-65, 700-767).
THEOREM SearchesTree == Spec => T!Spec
<1>1. Init => T!Init
  BY DEF Init
<1>2. [Next]_vars => [T!Next]_(T!vars)
  BY StepsOfTree
<1> QED BY <1>1, <1>2, PTL DEF Spec, T!Spec

\* The value below a chare that is done is whether its seed can be completed, and
\* the state of one that has a value completes it.
LEMMA DoneRight ==
  ASSUME Inv, NEW n \in Node, mode[n] = "done"
  PROVE  Value[n] = CompletableSeed[n] /\ (Value[n] => CompletesSeed(Tree[n].seed, node_state_[n]))
<1>1. Answered(n, node_state_[n])
  BY DEF Inv, StatesRight
<1>2. Sound(Tree[n].seed)
  BY ChareIs
<1>3. Value[n] <=> Solvable(Tree[n].seed, Tree[n].seed)
  BY <1>1, <1>2, FinishedCompletes DEF Answered
<1>4. Completable(Tree[n].seed, Tree[n].seed) <=> Solvable(Tree[n].seed, Tree[n].seed)
  BY <1>2, CompletableSolvable
<1>5. CompletableSeed[n] = Completable(Tree[n].seed, Tree[n].seed)
  BY DEF CompletableSeed
<1>6. Value[n] \in BOOLEAN /\ CompletableSeed[n] \in BOOLEAN
  BY <1>5, ValueEquation DEF Completable
<1>7. Value[n] => CompletesSeed(Tree[n].seed, node_state_[n])
  BY <1>1, <1>2, FinishedCompletes DEF Answered
<1> QED BY <1>3, <1>4, <1>5, <1>6, <1>7, Zenon

\* A finish message carries the value below its sender, which is done.
LEMMA AnswerOf ==
  ASSUME Inv, NEW m \in finishMsgs
  PROVE  m.from \in Node /\ mode[m.from] = "done" /\ m.res = Value[m.from]
BY DEF Inv, TP!TypeOK, TP!Invariant, TP!SendersDone, TP!RepliesRight

\* The verdict is the value below the root, which is done.
LEMMA VerdictOf ==
  ASSUME Inv, verdict # "none"
  PROVE  mode[Root] = "done" /\ (verdict = "success" <=> Value[Root]) /\ Root \in Node
<1>1. verdict \in {"none", "success", "failure"}
  BY DEF Inv, TP!TypeOK
<1> QED BY <1>1, NodesAre DEF Inv, TP!Invariant, TP!VerdictLast, TP!VerdictRight

\* What a chare answers, and what the root prints, is whether the state it was
\* created with can be completed: removal, forced moves, impossibility testing, the
\* split into subgraphs and the early exits of mergeToParent lose no colouring and
\* invent none (Node.cpp:87-125, 235-306, 421-480, 498-639, 703-764).
THEOREM AnswersExact == Spec => []RepliesExact
<1>1. Inv => RepliesExact
  <2> SUFFICES ASSUME Inv PROVE RepliesExact
    OBVIOUS
  <2>1. \A m \in finishMsgs : m.res = CompletableSeed[m.from]
    BY AnswerOf, DoneRight
  <2>2. ASSUME verdict # "none"
        PROVE  (verdict = "success") = CompletableSeed[Root]
    <3>1. (verdict = "success" <=> Value[Root]) /\ Value[Root] = CompletableSeed[Root]
      BY <2>2, VerdictOf, DoneRight
    <3>2. CompletableSeed[Root] \in BOOLEAN
      BY NodesAre DEF CompletableSeed, Completable
    <3> QED BY <3>1, <3>2, Zenon
  <2> QED BY <2>1, <2>2 DEF RepliesExact
<1> QED BY <1>1, InvAlways, PTL

\* The state that travels with a success, or that the root prints, colours all that
\* the sender was to colour, properly, and keeps the colours it was created with
\* (Node.cpp:712-764, 769-782).
THEOREM AnswersProper == Spec => []RepliesProper
<1>1. Inv => RepliesProper
  <2> SUFFICES ASSUME Inv PROVE RepliesProper
    OBVIOUS
  <2>1. \A m \in finishMsgs : m.res => CompletesSeed(Tree[m.from].seed, node_state_[m.from])
    BY AnswerOf, DoneRight
  <2>2. verdict = "success" => CompletesSeed(Tree[Root].seed, node_state_[Root])
    BY VerdictOf, DoneRight
  <2> QED BY <2>1, <2>2 DEF RepliesProper
<1> QED BY <1>1, InvAlways, PTL

\* The verdict is right about the input graph, for every graph, every number of
\* colours and every schedule (Node.cpp:748-760).
THEOREM VerdictsExact == Spec => []VerdictExact
<1>1. Inv => VerdictExact
  <2> SUFFICES ASSUME Inv, verdict # "none"
               PROVE  (verdict = "success") = Colorable
    BY DEF VerdictExact
  <2>1. mode[Root] = "done" /\ (verdict = "success" <=> Value[Root])
    BY VerdictOf
  <2>2. Answered(Root, node_state_[Root]) /\ Tree[Root].seed = InitialState /\ Sound(InitialState)
    BY <2>1, NodesAre, RootColors, InitialSound DEF Inv, StatesRight
  <2>3. Value[Root] <=> Solvable(InitialState, InitialState)
    BY <2>2, FinishedCompletes DEF Answered
  <2>4. Colorable <=> Solvable(InitialState, InitialState)
    BY <2>2, CompletableSolvable DEF Colorable
  <2>5. Colorable \in BOOLEAN
    BY DEF Colorable, Completable
  <2> QED BY <2>1, <2>3, <2>4, <2>5, Zenon
<1> QED BY <1>1, InvAlways, PTL

\* updateState leaves no forced move undone: with two colours or more no live
\* vertex of a new chare has exactly one colour left (Node.cpp:294-304).
THEOREM ForcedMovesMade == Spec => []NoForcedMoveLeft
<1>1. NoForcedMoveLeft
  BY ChareIs DEF NoForcedMoveLeft, Forced
<1> QED BY <1>1, PTL

\* No assertion of mergeToParent fails, in whatever order the answers arrive
\* (Node.cpp:590, 729-735, 754, 776).
THEOREM AnswersFit == Spec => []MergesFit
<1>1. Inv => MergesFit
  BY Settles DEF MergesFit
<1> QED BY <1>1, InvAlways, PTL

\* uncolored_num_ is the number of vertices that are left to every chare if and
\* only if no graph is split in which a vertex is coloured (Node.cpp:576).
THEOREM OnlySplitsMiscount ==
  SplitsUncolored <=> \A n \in Node : Tree[n].left = Cardinality(LiveVertices(Tree[n].state))
<1>1. \A n \in Node : Counted(Msg(n)) <=> Tree[n].left = Cardinality(LiveVertices(Tree[n].state))
  BY ChareIs
<1>2. SplitsUncolored => \A n \in Node : Counted(Msg(n))
  BY CountsInherited
<1>3. (\A n \in Node : Counted(Msg(n))) => SplitsUncolored
  BY CountsTellSplits
<1> QED BY <1>1, <1>2, <1>3

\* If so, it is right whenever a chare has been created (graphColor.h:82).
THEOREM CountsExact == SplitsUncolored => (Spec => []UncoloredCountExact)
<1> SUFFICES ASSUME SplitsUncolored PROVE Spec => []UncoloredCountExact
  OBVIOUS
<1>1. UncoloredCountExact
  BY OnlySplitsMiscount DEF UncoloredCountExact
<1> QED BY <1>1, PTL

\* And then, with a grain size that is no negative number, no assertion fails at
\* all (Node.cpp:457, 590, 729-735, 754, 776).
THEOREM NoAssertionFails ==
  SplitsUncolored /\ grainSize >= 0 => (Spec => []AssertionsHold)
<1> SUFFICES ASSUME SplitsUncolored, grainSize >= 0 PROVE Spec => []AssertionsHold
  OBVIOUS
<1>1. Trips = {}
  BY CountsInherited, ChareIs DEF Trips
<1> DEFINE Going == phase # "aborted"
<1>2. Init => Going
  BY DEF Init, T!Init
<1>3. Going /\ [Next]_vars => Going'
  BY <1>1, StepsOfTree, TreeGiven, TP!AbortsTrip
<1>4. Going /\ MergesFit => AssertionsHold
  BY DEF AssertionsHold
<1> HIDE DEF Going
<1> QED BY <1>2, <1>3, <1>4, AnswersFit, PTL DEF Spec

\* The ID of an AND chare occurs in no ID but its own and those below it if only
\* the root splits its graph: all chares are below the root.
LEMMA RootSplitsNest == OnlyRootSplits => T!NestedIDs
<1> DEFINE Wrong == {n \in Node \ {Root} : Root \notin TP!Ancestors[n]}
           size == [n \in Node |-> Len(n)]
<1>1. ASSUME Wrong # {}
      PROVE  FALSE
  <2>1. Wrong \in SUBSET Node /\ size \in [Node -> Nat]
    BY NodesAre, LenProperties
  <2>2. PICK n : Least(n, Wrong, size)
    <3> HIDE DEF Wrong, size
    <3> QED BY <1>1, <2>1, LeastMeasure
  <2>3. n \in Node \ {Root} /\ Root \notin TP!Ancestors[n] /\ \A k \in Wrong : ~(size[k] < size[n])
    BY <2>2 DEF Least
  <2>4. Parent[n] \in Node /\ Parent[n] = Front(n)
    BY <2>3, ChildrenAre DEF Parent
  <2>5. size[Parent[n]] < size[n]
    <3>1. PICK i \in 1..Len(SeedsOf(Parent[n])) : n = Child(Parent[n], i)
      <4>1. n \in Children(Parent[n])
        BY <2>3 DEF Children
      <4> QED BY <2>4, <4>1, ChildrenAre
    <3> DEFINE x == i - 1
    <3>2. Parent[n] \in Seq(Nat) /\ x \in Nat
      BY <2>4, ChildrenAre, NodesAre
    <3> HIDE DEF x
    <3>3. Len(Append(Parent[n], x)) = Len(Parent[n]) + 1 /\ Len(Parent[n]) \in Nat
      BY <3>2, FrontOfAppend
    <3> QED BY <2>3, <2>4, <3>1, <3>3 DEF Child, x
  <2>6. TP!Ancestors[n] = {Parent[n]} \cup TP!Ancestors[Parent[n]]
    BY <2>3, TreeGiven, TP!AncestorsOfChild
  <2>7. Parent[n] # Root /\ Root \notin TP!Ancestors[Parent[n]]
    BY <2>3, <2>6
  <2> QED BY <2>3, <2>4, <2>5, <2>7
<1>2. T!Ancestors = TP!Ancestors
  BY DEF T!Ancestors, TP!Ancestors
<1> HIDE DEF Wrong
<1>3. \A n \in Node : n = Root \/ Root \in T!Ancestors[n]
  BY <1>1, <1>2 DEF Wrong
<1> QED BY <1>3 DEF OnlyRootSplits, T!NestedIDs

\* While the job has no verdict, registerMe refuses only what a failed AND chare
\* has doomed, for every graph on which the ID of no AND chare occurs in the ID of
\* a chare elsewhere (graphColor.h:201-203).
THEOREM RefusalsJustified == T!NestedIDs => (Spec => []RefusedOnlyDoomed)
<1> SUFFICES ASSUME T!NestedIDs PROVE Spec => []RefusedOnlyDoomed
  OBVIOUS
<1>1. T!Ancestors = TP!Ancestors
  BY DEF T!Ancestors, TP!Ancestors
<1>2. TP!NestedIDs
  BY <1>1, Zenon DEF T!NestedIDs, TP!NestedIDs, T!Occurs, TP!Occurs
<1>3. TP!Spec => []TP!RefusedOnlyDoomed
  BY <1>2, TreeGiven, TP!RefusalsJustified
<1>4. TP!RefusedOnlyDoomed => RefusedOnlyDoomed
  BY <1>1, Zenon DEF RefusedOnlyDoomed, T!RefusedOnlyDoomed, TP!RefusedOnlyDoomed, T!Doomed, TP!Doomed,
                     T!Falsified, TP!Falsified
<1>5. Init => TP!Init
  BY SameActions DEF Init
<1>6. [Next]_vars => [TP!Next]_(TP!vars)
  BY StepsOfTree
<1> QED BY <1>3, <1>4, <1>5, <1>6, PTL DEF Spec, TP!Spec

\* With two colours or more every AND and OR chare has a child: as no vertex of
\* it is forced, impossibility testing rejects none of the colours that are left
\* to the vertex it branches on (Node.cpp:206-269, 294-304).
THEOREM ChildlessNeedsOneColor == chromaticNum_ > 1 => T!NoneChildless
<1> SUFFICES ASSUME chromaticNum_ > 1, NEW n \in Node \ Trips, Kind[n] \in {"and", "or"}
             PROVE  Children(n) # {}
  BY SameOperators DEF T!NoneChildless
<1> DEFINE s == Tree[n].state
           m == Msg(n)
           c == Constructed(m)
           v == GetNextConstraintVertex(s)
<1>1. /\ s \in State /\ s = c.state /\ m \in Creation /\ Good(m) /\ c.kind = Kind[n]
      /\ s = VertexRemoval(m.seed).state
  BY ChareIs, NodesAre, TreeParts
<1>2. Forced(s) = {}
  BY <1>1, ConstructedRight DEF Good
<1>3. /\ c.kind = KindOf(s, c.left, v, SubgraphSeeds(s))
      /\ c.kind = "and" => c.seeds = SubgraphSeeds(s)
      /\ c.kind = "or" /\ v # -1 => c.seeds = ColorSeeds(s, c.left, v)
      /\ c.stuck <=> c.kind = "or" /\ v = -1
      /\ c.left \in Int
  BY <1>1, ConstructedParts, ConstructedType
<1>4. ASSUME 1 \in 1..Len(c.seeds)
      PROVE  Children(n) # {}
  <2>1. n \in Node /\ 1 \in 1..Len(SeedsOf(n))
    BY <1>4 DEF SeedsOf
  <2>2. Child(n, 1) \in Children(n)
    BY <2>1, ChildSeed
  <2> QED BY <2>2
<1>5. Tree[n] = Chare(m) /\ ~Tree[n].trips
  BY NodesAre, TreeParts
<1>6. c.kind # "leaf" => ~c.stuck
  BY <1>1, <1>5, ChareParts
<1> HIDE DEF s, c, m
<1>7. CASE Kind[n] = "and"
  <2>1. Len(SubgraphSeeds(s)) \in Nat
    BY <1>1, SubgraphSeedsAre
  <2>2. Len(SubgraphSeeds(s)) > 1
    <3> HIDE DEF v
    <3> QED BY <1>1, <1>3, <1>7 DEF KindOf
  <2>3. 1 \in 1..Len(c.seeds)
    <3>1. c.seeds = SubgraphSeeds(s)
      BY <1>1, <1>3, <1>7
    <3> QED BY <2>1, <2>2, <3>1
  <2> QED BY <1>4, <2>3
<1>8. CASE Kind[n] = "or"
  <2>1. v # -1
    BY <1>1, <1>3, <1>6, <1>8
  <2>2. s.poss[v] # {}
    <3> HIDE DEF v
    <3> QED BY <1>1, <1>3, <1>8, <2>1 DEF KindOf
  <2> DEFINE colours == GetValueOrderingOfColors(s, v)
  <2>3. Range(colours) # {}
    BY <1>1, <1>2, <2>1, <2>2, UnforcedTries
  <2>4. /\ Len(c.seeds) = Len(colours) /\ Len(colours) \in Nat
        /\ Range(colours) = {colours[i] : i \in 1..Len(colours)}
    BY <1>1, <1>3, <1>8, <2>1, ColorSeedsAre
  <2> HIDE DEF colours
  <2>5. 1 \in 1..Len(c.seeds)
    BY <2>3, <2>4
  <2> QED BY <1>4, <2>5
<1> QED BY <1>7, <1>8

\* So nobody waits in vain if IDs nest as the tree does and there are two colours
\* or more (graphColor.ci:57-78).
THEOREM NobodyWaitsInVain ==
  chromaticNum_ > 1 /\ T!NestedIDs => (Spec => []WaitHasReason)
<1> SUFFICES ASSUME chromaticNum_ > 1, T!NestedIDs PROVE Spec => []WaitHasReason
  OBVIOUS
<1>1. T!Ancestors = TP!Ancestors
  BY DEF T!Ancestors, TP!Ancestors
<1>2. TP!NestedIDs
  BY <1>1, Zenon DEF T!NestedIDs, TP!NestedIDs, T!Occurs, TP!Occurs
<1>3. TP!NoneChildless
  BY ChildlessNeedsOneColor, SameOperators DEF T!NoneChildless, TP!NoneChildless
<1>4. TP!Spec => []TP!WaitHasReason
  BY <1>2, <1>3, TreeGiven, TP!NobodyWaitsInVain
<1>5. TP!WaitHasReason => WaitHasReason
  BY <1>1, SameOperators, Zenon DEF WaitHasReason, T!WaitHasReason, TP!WaitHasReason, T!Doomed, TP!Doomed,
                                    T!Falsified, TP!Falsified
<1>6. Init => TP!Init
  BY SameActions DEF Init
<1>7. [Next]_vars => [TP!Next]_(TP!vars)
  BY StepsOfTree
<1> QED BY <1>4, <1>5, <1>6, <1>7, PTL DEF Spec, TP!Spec
=============================================================================
