----------------------------- MODULE MCGraphColor -----------------------------
(***************************************************************************)
(* Small input graphs for GraphColor, as their adjacency lists: the list   *)
(* of vertex v is element v + 1 of the graph, in ascending order.          *)
(***************************************************************************)
EXTENDS GraphColor

CONSTANT Graph

\* What to_string makes of a number can be read as that number again.
ASSUME \A k \in 0..1200 : FoldLeft(LAMBDA value, digit : 10 * value + digit, 0, to_string(k)) = k

\* Two ways in which a std::priority_queue may pop equal elements of ages a and b.
OldestFirst(rank, a, b) == a < b
YoungestFirst(rank, a, b) == a > b

MCVertices == Len(Graph)
MCAdjList == [v \in 0..(MCVertices - 1) |-> Graph[v + 1]]

\* Two vertices that one colour cannot colour.
Edge == <<<<1>>, <<0>>>>

\* Two squares, one with a pendant path that vertex removal takes off.
Squares ==
  <<<<1, 3>>, <<0, 2>>, <<1, 3>>, <<0, 2>>, <<5, 7>>, <<4, 6>>, <<5, 7>>,
    <<4, 6, 8>>, <<7, 9>>, <<8>>>>

\* A square, and two cliques that two colours cannot colour.
SquareAndCliques ==
  <<<<1, 3>>, <<0, 2>>, <<1, 3>>, <<0, 2>>, <<5, 6, 7>>, <<4, 6, 7>>,
    <<4, 5, 7>>, <<4, 5, 6>>, <<9, 10>>, <<8, 10>>, <<8, 9>>>>

\* Two triangles joined by a matching, and a pendant vertex.
Prism ==
  <<<<1, 2, 3>>, <<0, 2, 4>>, <<0, 1, 5>>, <<0, 4, 5>>, <<1, 3, 5>>,
    <<2, 3, 4, 6>>, <<5>>>>

\* K33 hangs on a diamond whose tips are tied: all of it takes three colours.
DiamondAndK33 ==
  <<<<1, 2, 4>>, <<0, 2, 3>>, <<0, 1, 3>>, <<1, 2, 4>>, <<0, 3, 5>>,
    <<4, 8, 9, 10>>, <<8, 9, 10>>, <<8, 9, 10>>, <<5, 6, 7>>, <<5, 6, 7>>,
    <<5, 6, 7>>>>

\* K33 hangs on a clique of five that lacks one edge.
CliqueAndK33 ==
  <<<<1, 2, 3, 5>>, <<0, 2, 3, 4>>, <<0, 1, 3, 4>>, <<0, 1, 2, 4>>,
    <<1, 2, 3, 5>>, <<0, 4, 6>>, <<5, 9, 10, 11>>, <<9, 10, 11>>,
    <<9, 10, 11>>, <<6, 7, 8>>, <<6, 7, 8>>, <<6, 7, 8>>>>
=============================================================================
