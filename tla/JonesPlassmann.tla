----------------------------- MODULE JonesPlassmann -----------------------------
(***************************************************************************)
(* The MPI program (MpiVersion/graphcoloring.c): the root reads a graph    *)
(* and deals its rows out; then, round after round, every process colours  *)
(* those of its vertices whose weight is the largest among their           *)
(* uncoloured neighbours, and the root gathers and broadcasts the colours. *)
(*                                                                         *)
(* A process runs alone between two collective calls, so one action takes  *)
(* it from one call to the next. MPI matches the n-th call of one process  *)
(* with the n-th of the others: messages carry the round they belong to.   *)
(***************************************************************************)
EXTENDS Integers, FiniteSets

CONSTANTS
  V,           \* how many vertices the graph has
  npes,        \* how many processes run
  Graphs,      \* the graphs the file may hold: the neighbours of each vertex
  MaxDegrees,  \* the max_degree the file may state, -1 if it states none
  Weight       \* the weights rand() may draw

Vertex == 0..(V - 1)
Proc == 0..(npes - 1)
root == 0

ASSUME InputAssumption ==
  /\ V \in Nat \ {0} /\ npes \in Nat \ {0}
  /\ Graphs \subseteq [Vertex -> SUBSET Vertex]
  /\ \A g \in Graphs : \A u, v \in Vertex : u \notin g[u] /\ (u \in g[v] <=> v \in g[u])
  /\ MaxDegrees \subseteq Nat \cup {-1}
  /\ Weight \subseteq Nat

-----------------------------------------------------------------------------
\* The vertices of process i: as many as V and npes allow to all, and one more
\* if the remainder reaches i.
num_v_per_p == V \div npes
remainder_v_per_p(i) == (V + i) % npes

first_v(i) ==
  num_v_per_p * i + (IF remainder_v_per_p(i) < i THEN remainder_v_per_p(i) ELSE 0)

last_v(i) ==
  num_v_per_p * (i + 1) + (IF remainder_v_per_p(i) < i THEN remainder_v_per_p(i) + 1 ELSE 0) - 1

range(i) == last_v(i) - first_v(i) + 1

\* Where the vertices of process i lie for MPI_Scatterv and MPI_Gatherv.
vertex_offsets[i \in Proc] == IF i = 0 THEN 0 ELSE vertex_offsets[i - 1] + range(i - 1)

\* The indices j of the vertices of p, in its own arrays.
Local(p) == 0..(range(p) - 1)

\* chromaticity_upper, the number of rounds, by what the file states.
ChromaticityUpper(max_degree) ==
  IF max_degree # -1 THEN max_degree ELSE IF V % 2 = 0 THEN V - 1 ELSE V

-----------------------------------------------------------------------------
VARIABLES
  graph,               \* the matrix the root has read, row by row
  pc,                  \* the collective call a process has come to, see Calls
  chromaticity_upper,  \* the rounds a process will do
  weights,             \* the weights of all vertices, as a process knows them
  p_graph,             \* the rows of its own vertices
  colors,              \* the colours of all vertices, 0 for none, as it knows them
  j_colors,            \* the colours of its own vertices
  round,               \* i of jones_plassmann
  msgs                 \* the messages of the collective calls under way

setup == <<chromaticity_upper, weights, p_graph>>
vars == <<graph, pc, setup, colors, j_colors, round, msgs>>

(* start: before the broadcasts of main    round: at the head of the loop   *)
(* gather: the root, in MPI_Gatherv        bcast: in MPI_Bcast of colors    *)
(* reduce: in MPI_Allreduce                finished: before MPI_Finalize    *)
Calls == {"start", "round", "gather", "bcast", "reduce", "finished"}

Coloring == [Vertex -> Nat]

Init ==
  /\ graph \in Graphs
  /\ pc = [p \in Proc |-> "start"]
  /\ chromaticity_upper = [p \in Proc |-> -1]
  /\ weights = [p \in Proc |-> [v \in Vertex |-> 0]]
  /\ p_graph = [p \in Proc |-> [j \in Local(p) |-> {}]]
  /\ colors = [p \in Proc |-> [v \in Vertex |-> 0]]
  /\ j_colors = [p \in Proc |-> [j \in Local(p) |-> 0]]
  /\ round = [p \in Proc |-> 0]
  /\ msgs = {}

\* Mutant of Rows: everyone gets the rows of the root.
RowsOfRoot(p) == [j \in Local(root) |-> graph[j]]

\* The rows that MPI_Scatterv sends to p.
Rows(p) == [j \in Local(p) |-> graph[vertex_offsets[p] + j]]

\* Mutant of Setup: chromaticity_upper is not broadcast.
SetupNoUpper(p, upper, w) ==
  [type |-> "setup", to |-> p, upper |-> -1, weights |-> w, rows |-> Rows(p)]

\* What the root sends p before the rounds begin.
Setup(p, upper, w) ==
  [type |-> "setup", to |-> p, upper |-> upper, weights |-> w, rows |-> Rows(p)]

\* The root reads the file, draws the weights and sends it all out.
RootStart ==
  /\ pc[root] = "start"
  /\ \E max_degree \in MaxDegrees, w \in [Vertex -> Weight] :
       /\ chromaticity_upper' =
            [chromaticity_upper EXCEPT ![root] = ChromaticityUpper(max_degree)]
       /\ weights' = [weights EXCEPT ![root] = w]
       /\ msgs' = {Setup(p, ChromaticityUpper(max_degree), w) : p \in Proc \ {root}}
  /\ p_graph' = [p_graph EXCEPT ![root] = Rows(root)]
  /\ pc' = [pc EXCEPT ![root] = "round"]
  /\ UNCHANGED <<graph, colors, j_colors, round>>

\* The other processes receive their part.
Start(p) ==
  /\ pc[p] = "start"
  /\ \E m \in msgs :
       /\ m.type = "setup" /\ m.to = p
       /\ chromaticity_upper' = [chromaticity_upper EXCEPT ![p] = m.upper]
       /\ weights' = [weights EXCEPT ![p] = m.weights]
       /\ p_graph' = [p_graph EXCEPT ![p] = m.rows]
       /\ msgs' = msgs \ {m}
  /\ pc' = [pc EXCEPT ![p] = "round"]
  /\ UNCHANGED <<graph, colors, j_colors, round>>

-----------------------------------------------------------------------------
\* Mutant of Beats: the tie-break is left out.
BeatsByWeight(p, k, j) == weights[p][k] > weights[p][first_v(p) + j]

\* The uncoloured neighbour k keeps vertex j of p from being the maximum. The
\* tie-break compares k, an index of the graph, with j, an index of the process.
Beats(p, k, j) ==
  LET j_weight == weights[p][first_v(p) + j]
  IN weights[p][k] > j_weight \/ (weights[p][k] = j_weight /\ k > j)

\* Mutant of IsMax: coloured neighbours are compared, too.
IsMaxOfAll(p, j) ==
  /\ colors[p][first_v(p) + j] = 0
  /\ \A k \in p_graph[p][j] : ~Beats(p, k, j)

\* Vertex j of p is coloured in this round.
IsMax(p, j) ==
  /\ colors[p][first_v(p) + j] = 0
  /\ \A k \in p_graph[p][j] : colors[p][k] = 0 => ~Beats(p, k, j)

\* Mutant of MinColor: a gap below the colours in use is never filled.
MinColorNoGap(S) ==
  IF 1 \notin S THEN 1 ELSE 1 + CHOOSE c \in S : \A d \in S : d <= c

\* The colour for a vertex whose neighbours have the colours S, from S in
\* ascending order: 1 if it is free, else the one after the first gap begins.
MinColor(S) ==
  IF 1 \notin S THEN 1
  ELSE 1 + CHOOSE c \in S : c + 1 \notin S /\ \A d \in S : d + 1 \notin S => c <= d

neighbor_colors(p, j) == {colors[p][k] : k \in p_graph[p][j]} \ {0}

\* j_colors of p after its loop over its vertices.
NewColors(p) ==
  [j \in Local(p) |-> IF IsMax(p, j) THEN MinColor(neighbor_colors(p, j)) ELSE j_colors[p][j]]

\* The contribution of p to the MPI_Gatherv of its round.
Part(p, c) == [type |-> "gather", from |-> p, call |-> round[p], colors |-> c]

\* One turn of the loop, up to the collective calls. Any process but the root
\* has only its colours to send in MPI_Gatherv: it waits in MPI_Bcast.
Color(p) ==
  /\ pc[p] = "round"
  /\ round[p] < chromaticity_upper[p]
  /\ j_colors' = [j_colors EXCEPT ![p] = NewColors(p)]
  /\ msgs' = msgs \cup {Part(p, NewColors(p))}
  /\ pc' = [pc EXCEPT ![p] = IF p = root THEN "gather" ELSE "bcast"]
  /\ UNCHANGED <<graph, setup, colors, round>>

\* Mutant of Gathered: the parts are placed as if all were of the same size.
GatheredEven(parts) ==
  [v \in Vertex |->
     LET own == {m \in parts : v - num_v_per_p * m.from \in Local(m.from)}
     IN IF own = {} THEN colors[root][v]
        ELSE LET m == CHOOSE m \in own : TRUE IN m.colors[v - num_v_per_p * m.from]]

\* The colours of all vertices, put together by MPI_Gatherv from the parts.
Gathered(parts) ==
  [v \in Vertex |->
     LET own == {m \in parts : v - vertex_offsets[m.from] \in Local(m.from)}
     IN IF own = {} THEN colors[root][v]
        ELSE LET m == CHOOSE m \in own : TRUE IN m.colors[v - vertex_offsets[m.from]]]

\* Mutant of Sent: the colours that are sent round are those of the round before.
SentOld(c) == colors[root]

\* What MPI_Bcast sends when colors of the root is c.
Sent(c) == c

\* The root has the parts of all processes: it broadcasts the colours.
Gather ==
  LET parts == {m \in msgs : m.type = "gather" /\ m.call = round[root]}
  IN /\ pc[root] = "gather"
     /\ \A p \in Proc : \E m \in parts : m.from = p
     /\ colors' = [colors EXCEPT ![root] = Gathered(parts)]
     /\ msgs' = (msgs \ parts) \cup
          {[type |-> "bcast", to |-> p, call |-> round[root], colors |-> Sent(Gathered(parts))] :
             p \in Proc \ {root}}
     /\ round' = [round EXCEPT ![root] = @ + 1]
     /\ pc' = [pc EXCEPT ![root] = "round"]
     /\ UNCHANGED <<graph, setup, j_colors>>

\* The colours arrive at p.
Bcast(p) ==
  /\ pc[p] = "bcast"
  /\ \E m \in msgs :
       /\ m.type = "bcast" /\ m.to = p /\ m.call = round[p]
       /\ colors' = [colors EXCEPT ![p] = m.colors]
       /\ msgs' = msgs \ {m}
  /\ round' = [round EXCEPT ![p] = @ + 1]
  /\ pc' = [pc EXCEPT ![p] = "round"]
  /\ UNCHANGED <<graph, setup, j_colors>>

\* The rounds are over: p enters MPI_Allreduce ...
EndLoop(p) ==
  /\ pc[p] = "round"
  /\ round[p] >= chromaticity_upper[p]
  /\ pc' = [pc EXCEPT ![p] = "reduce"]
  /\ UNCHANGED <<graph, setup, colors, j_colors, round, msgs>>

\* ... and leaves it when all have entered, to print and write colors.
Finish(p) ==
  /\ pc[p] = "reduce"
  /\ \A q \in Proc : pc[q] \in {"reduce", "finished"}
  /\ pc' = [pc EXCEPT ![p] = "finished"]
  /\ UNCHANGED <<graph, setup, colors, j_colors, round, msgs>>

Finished == \A p \in Proc : pc[p] = "finished"

\* The job is over; without this step TLC would report it as a deadlock.
Over == Finished /\ UNCHANGED vars

Next ==
  \/ RootStart
  \/ \E p \in Proc : Start(p) \/ Color(p) \/ Bcast(p) \/ EndLoop(p) \/ Finish(p)
  \/ Gather
  \/ Over

Spec == Init /\ [][Next]_vars

\* Processes run and MPI delivers: as long as some step can be taken, one is.
FairSpec == Spec /\ WF_vars(Next)
-----------------------------------------------------------------------------
\* Process p has what the root has sent it.
Started(p) == pc[p] # "start"

\* What is under way: the root's setup, parts for the root, colours from the root.
MessageOK(m) ==
  \/ /\ m.type = "setup" /\ m.to \in Proc \ {root}
     /\ m = Setup(m.to, chromaticity_upper[root], weights[root])
  \/ /\ m.type = "gather" /\ m.from \in Proc
     /\ m.call \in Nat /\ m.colors \in [Local(m.from) -> Nat]
  \/ /\ m.type = "bcast" /\ m.to \in Proc \ {root}
     /\ m.call \in Nat /\ m.colors \in Coloring

TypeOK ==
  /\ graph \in Graphs
  /\ pc \in [Proc -> Calls]
  /\ chromaticity_upper \in [Proc -> Nat \cup {-1}]
  /\ weights \in [Proc -> Coloring]
  /\ \A p \in Proc : p_graph[p] \in [Local(p) -> SUBSET Vertex]
  /\ colors \in [Proc -> Coloring]
  /\ \A p \in Proc : j_colors[p] \in [Local(p) -> Nat]
  /\ round \in [Proc -> Nat]
  /\ \A m \in msgs : MessageOK(m)

\* No process ever sees two neighbours of the same colour, although those that
\* are coloured in one round know nothing of each other (graphcoloring.c:181).
ViewsProper ==
  \A p \in Proc : \A u \in Vertex : \A v \in graph[u] :
    colors[p][u] # 0 => colors[p][u] # colors[p][v]

\* Processes that have done the same number of rounds know the same colours
\* ("root synchronizes colors on all processes", graphcoloring.c:230).
ViewsAgree == \A p, q \in Proc : round[p] = round[q] => colors[p] = colors[q]

\* The colour a process has given to a vertex is the one that comes back to it:
\* first_v and vertex_offsets place its vertices alike (graphcoloring.c:157-159
\* and 330-343).
OwnWorkKept ==
  \A p \in Proc : pc[p] \in {"round", "reduce", "finished"} =>
    \A j \in Local(p) : colors[p][first_v(p) + j] = j_colors[p][j]

\* No two neighbours have drawn the same weight.
DistinctWeights ==
  \A u \in Vertex : \A v \in graph[u] : weights[root][u] # weights[root][v]

\* How many vertices the longest path from v has along which weights rise.
Height[v \in Vertex] ==
  LET above == {Height[k] : k \in {k \in graph[v] : weights[root][k] > weights[root][v]}}
  IN IF above = {} THEN 1 ELSE 1 + CHOOSE h \in above : \A g \in above : g <= h

\* If neighbours differ in weight, a vertex is coloured in the round that its
\* height tells, not earlier and not later (graphcoloring.c:172-190).
ColoredOnTime ==
  DistinctWeights =>
    \A p \in Proc : Started(p) =>
      \A v \in Vertex : colors[p][v] # 0 <=> Height[v] <= round[p]

\* The colours the root holds are those of a parallel greedy colouring: least
\* colours for independent vertices, never taken back.
Promise == INSTANCE GreedyColoring WITH color <- colors[root]
KeepsPromise == Promise!Spec

\* Every process comes to MPI_Finalize: no collective call waits for ever.
AllFinish == <>Finished

\* "The minimum number of colors, i.e. the chromaticity of the graph can not be
\* larger than chromaticity_upper so only iterate that many times"
\* (graphcoloring.c:149-150): if no two weights are equal, all are coloured.
RoundsSuffice ==
  DistinctWeights /\ Finished => \A v \in Vertex : colors[root][v] # 0

\* "if the weights match, solve conflict by looking at the vertices ids and
\* taking the vertex with higher id as the max" (graphcoloring.c:179-180): some
\* vertex is the maximum in every round, until all are coloured.
EveryRoundColors ==
  \A p \in Proc :
    \/ \A v \in Vertex : colors[p][v] # 0
    \/ Cardinality({v \in Vertex : colors[p][v] # 0}) >= round[p]
=============================================================================
