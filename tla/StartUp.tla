-------------------------------- MODULE StartUp --------------------------------
(***************************************************************************)
(* What Main does before it creates the root chare: the input graph, read  *)
(* from a DIMACS file (Utils.cpp) or drawn at random by the python scripts *)
(* (scripts/graphClass.py, graphGenClass.py), and the estimate of the      *)
(* number of colours it needs (Main.cpp). A graph maps a vertex to the     *)
(* sequence of its neighbours, as adjList_ does.                           *)
(***************************************************************************)
EXTENDS Integers, FiniteSets, Sequences, Functions

\* Mutant of insertHelper: a vertex seen before starts its list again.
insertHelperOver(adj, u, v) ==
  [w \in DOMAIN adj \cup {u} |-> IF w = u THEN <<v>> ELSE adj[w]]

\* v joins the neighbours of u; a vertex becomes a key when it is first seen.
insertHelper(adj, u, v) ==
  [w \in DOMAIN adj \cup {u} |->
     IF w # u THEN adj[w] ELSE IF u \in DOMAIN adj THEN Append(adj[u], v) ELSE <<v>>]

\* The graph of a file whose lines "e u v" are lines. Files count from 1.
parseInputFile(lines) ==
  LET read[i \in 0..Len(lines)] ==
        IF i = 0 THEN [v \in {} |-> <<>>]
        ELSE insertHelper(read[i - 1], lines[i][1] - 1, lines[i][2] - 1)
  IN read[Len(lines)]

\* Mutant of addEdge: an edge drawn again is added again.
addEdgeTwice(adj, u, v) == [adj EXCEPT ![u] = Append(@, v), ![v] = Append(@, u)]

\* graph.addEdge: an edge that is there already is left alone.
addEdge(adj, u, v) ==
  IF v \in Range(adj[u]) THEN adj
  ELSE [adj EXCEPT ![u] = Append(@, v), ![v] = Append(@, u)]

\* One turn of the loop of graphGen.generate: the pair e is drawn. Pairs of equal
\* vertices are passed over, and with the given number of edges the loop is over.
Draw(acc, e, edges) ==
  IF acc.edgeCount = edges \/ e[1] = e[2] THEN acc
  ELSE LET adj == addEdge(acc.adj, e[1], e[2])
       IN [adj |-> adj, edgeCount |-> IF adj = acc.adj THEN acc.edgeCount ELSE acc.edgeCount + 1]

\* The graph of n vertices that it makes of the pairs it draws.
generate(n, edges, pairs) ==
  LET drawn[i \in 0..Len(pairs)] ==
        IF i = 0 THEN [adj |-> [v \in 0..(n - 1) |-> <<>>], edgeCount |-> 0]
        ELSE Draw(drawn[i - 1], pairs[i], edges)
  IN drawn[Len(pairs)].adj

-----------------------------------------------------------------------------
\* Mutant of Resized: the table is never resized.
ResizedNever(size, bestColor) == size

\* The size of colorsUsedByNgh after a vertex has got bestColor.
Resized(size, bestColor) == IF bestColor = size - 2 THEN 2 * size ELSE size

\* The loop of getConservativeChromaticNum on vertex v: it takes the first free
\* colour of the table, and the one of the vertex before it if none is free.
TakeBestColor(adj, acc, v) ==
  LET used == {acc.colors[u] : u \in Range(adj[v])}
      free == {c \in 1..(acc.size - 1) : c \notin used}
      best == IF free = {} THEN acc.bestColor ELSE CHOOSE c \in free : \A d \in free : c <= d
  IN [colors |-> [acc.colors EXCEPT ![v] = best], bestColor |-> best,
      size |-> Resized(acc.size, best)]

\* The number of colours Main tries if the command line names none: the largest
\* that a greedy colouring in the order of the vertices takes. The table of
\* colours has init_s entries at first.
getConservativeChromaticNum(adj, init_s) ==
  LET n == Cardinality(DOMAIN adj)
      colored[i \in 0..n] ==
        IF i = 0 THEN [colors |-> [v \in 0..(n - 1) |-> 0], bestColor |-> 0, size |-> init_s]
        ELSE TakeBestColor(adj, colored[i - 1], i - 1)
      used == Range(colored[n].colors)
  IN CHOOSE m \in used \cup {-1} : \A c \in used : c <= m
=============================================================================
