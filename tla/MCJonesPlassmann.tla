--------------------------- MODULE MCJonesPlassmann ---------------------------
(***************************************************************************)
(* Small graphs for JonesPlassmann.                                        *)
(***************************************************************************)
EXTENDS JonesPlassmann

\* The graph with the edges E.
GraphOf(E) == [v \in Vertex |-> {u \in Vertex : {u, v} \in E}]

Complete == [v \in Vertex |-> Vertex \ {v}]
Path == GraphOf({{v, v + 1} : v \in Vertex})

\* A triangle with a path of two more vertices at one corner.
Kite == GraphOf({{0, 1}, {0, 2}, {1, 2}, {2, 3}, {3, 4}})

KiteOnly == {Kite}
CompleteOnly == {Complete}
PathOnly == {Path}

\* A file that states no degree, and one that does.
FileDegrees == {-1, 3}
NoDegree == {-1}
=============================================================================
