----------------------------- MODULE GreedyColoring -----------------------------
(***************************************************************************)
(* What a parallel greedy colouring promises: some independent vertices at *)
(* a time take the least colour that none of their neighbours has, and     *)
(* keep it. JonesPlassmann implements it.                                  *)
(***************************************************************************)
EXTENDS Integers

CONSTANT Vertex

VARIABLES
  graph,  \* the neighbours of each vertex
  color   \* the colour of each vertex, 0 for none

\* c is the least colour free at v.
IsLeast(c, v) ==
  /\ c >= 1
  /\ \A u \in graph[v] : color[u] # c
  /\ \A d \in 1..(c - 1) : \E u \in graph[v] : color[u] = d

Init == color = [v \in Vertex |-> 0]

\* The vertices of S are coloured at once.
Paint(S) ==
  /\ \A u, v \in S : v \notin graph[u]
  /\ \A v \in Vertex :
       IF v \in S THEN color[v] = 0 /\ IsLeast(color'[v], v) ELSE color'[v] = color[v]
  /\ DOMAIN color' = Vertex
  /\ UNCHANGED graph

Next == \E S \in SUBSET Vertex : Paint(S)

Spec == Init /\ [][Next]_<<graph, color>>
=============================================================================
