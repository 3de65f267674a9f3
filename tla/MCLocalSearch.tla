----------------------------- MODULE MCLocalSearch -----------------------------
(***************************************************************************)
(* Input graphs for LocalSearch, drawn and read as the code does it.       *)
(***************************************************************************)
EXTENDS LocalSearch

\* Which of two equal colours a std::priority_queue pops first: the younger one if
\* all ranks are even, else the older one; but of four, 0, 2, 1 and then 3, as a
\* binary heap pops four that are equal.
HeapTies(rank, a, b) ==
  LET turn == <<1, 3, 2, 4>>
  IN IF DOMAIN rank = 0..3 THEN turn[a + 1] < turn[b + 1]
     ELSE IF \A c \in DOMAIN rank : rank[c] % 2 = 0 THEN a > b ELSE a < b

\* The pairs of E in lexical order.
InOrder(E) ==
  LET n == vertices_ + 1
  IN SelectSeq([i \in 1..(n * n) |-> <<(i - 1) \div n, (i - 1) % n>>], LAMBDA e : e \in E)

Flip(e) == <<e[2], e[1]>>

\* What draws the given edges: each is drawn again before the next, the other way
\* round, and a pair of equal vertices comes between.
Drawn(edges) ==
  [edges |-> Len(edges),
   pairs |-> FlattenSeq([i \in DOMAIN edges |->
               <<edges[i], Flip(edges[i]), <<edges[i][1], edges[i][1]>>>>])]

\* Every simple graph whose edges join the first five vertices, with the lists
\* of neighbours in ascending and in descending order.
SmallGraphs ==
  LET Pairs == {e \in (0..4) \X (0..4) : e[1] < e[2]}
  IN UNION {{Drawn(InOrder(E)), Drawn(Reverse(InOrder(E)))} : E \in SUBSET Pairs}

\* A graph of eight vertices and three colours on which what looks like the best
\* choice is a dead end: the search has to go back to find the colouring.
DeadEnd ==
  Drawn(InOrder({<<2, 3>>, <<1, 4>>, <<2, 4>>, <<3, 4>>, <<1, 5>>, <<2, 5>>, <<3, 5>>,
                 <<5, 6>>, <<1, 7>>, <<3, 7>>, <<5, 7>>}))

\* A file that lists every edge both ways: a cycle of eight vertices with some
\* chords.
RingFile ==
  LET E == {<<v, v + 1>> : v \in 1..7} \cup {<<8, 1>>, <<1, 5>>, <<2, 6>>, <<1, 3>>, <<2, 5>>}
  IN InOrder(E \cup {Flip(e) : e \in E})

LocalDraws == SmallGraphs \cup {DeadEnd}
LocalFiles == {RingFile}
=============================================================================
