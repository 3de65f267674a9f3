------------------------------ MODULE ColorState ------------------------------
(***************************************************************************)
(* The colouring state of a chare or of a stack node (class vertex in      *)
(* vertex.h, node_state_ in graphColor.h and stackNode.h) and the          *)
(* algorithms on it. Node.cpp and stackNode.cpp hold two copies of the     *)
(* same algorithms; they are modelled once.                                *)
(***************************************************************************)
EXTENDS Integers, SequencesExt

CONSTANTS
  vertices_,      \* how many vertices the input graph has
  chromaticNum_,  \* how many colours may be used
  adjList_,       \* the neighbours of each vertex, in the order of its list
  PopsFirst(_, _, _)  \* how a std::priority_queue breaks ties, see PopOrder

Vertex == 0..(vertices_ - 1)
Color == 0..(chromaticNum_ - 1)
Ngbrs(v) == Range(adjList_[v])

\* adjList_ as Main leaves it: no loop, no edge twice, every edge both ways.
ASSUME GraphAssumption ==
  /\ vertices_ \in Nat /\ chromaticNum_ \in Nat
  /\ adjList_ \in [Vertex -> Seq(Vertex)]
  /\ \A v \in Vertex : IsInjective(adjList_[v]) /\ v \notin Ngbrs(v)
  /\ \A u, v \in Vertex : u \in Ngbrs(v) <=> v \in Ngbrs(u)

\* color_, possible_colors_, is_onStack and is_out_of_subgraph of all vertices.
State ==
  [color : [Vertex -> Color \cup {-1}], poss : [Vertex -> SUBSET Color],
   onStack : SUBSET Vertex, out : SUBSET Vertex]

\* The node_state_ of the root chare before the search.
InitialState ==
  [color |-> [v \in Vertex |-> -1], poss |-> [v \in Vertex |-> Color],
   onStack |-> {}, out |-> {}]

IsColored(s, v) == s.color[v] >= 0
IsOperationPermissible(s, v) == v \notin s.onStack /\ v \notin s.out

\* The test almost every loop of the code begins with.
Live(s, v) == ~IsColored(s, v) /\ IsOperationPermissible(s, v)
LiveVertices(s) == {v \in Vertex : Live(s, v)}
Uncolored(s) == {v \in Vertex : ~IsColored(s, v)}

-----------------------------------------------------------------------------
\* Mutant of Paint: the colour stays possible for the last neighbour.
PaintOffByOne(s, v, c) ==
  LET told == {adjList_[v][i] : i \in 1..(Len(adjList_[v]) - 1)}
  IN [s EXCEPT !.color[v] = c,
               !.poss = [u \in Vertex |->
                  IF u = v THEN {} ELSE IF u \in told THEN @[u] \ {c} ELSE @[u]]]

\* setColor(c) of v, then removePossibleColor(c) of its neighbours.
Paint(s, v, c) ==
  [s EXCEPT !.color[v] = c,
            !.poss = [u \in Vertex |->
               IF u = v THEN {} ELSE IF u \in Ngbrs(v) THEN @[u] \ {c} ELSE @[u]]]

\* Where the recursion of updateState stands: the neighbours still to be looked
\* at, those of the vertex coloured last in front.
Forcing == [state : State, agenda : Seq(Vertex)]

\* It looks at the next neighbour, and colours it if one colour is left to it.
LookAt(q) ==
  LET v == Head(q.agenda)
      s == q.state
  IN IF Cardinality(s.poss[v]) = 1 /\ Live(s, v)
     THEN [state  |-> Paint(s, v, CHOOSE c \in s.poss[v] : TRUE),
           agenda |-> adjList_[v] \o Tail(q.agenda)]
     ELSE [state |-> s, agenda |-> Tail(q.agenda)]

ForcedMoves[q \in Forcing] == IF q.agenda = <<>> THEN q.state ELSE ForcedMoves[LookAt(q)]

\* Mutant of UpdateState: forced moves are left out.
UpdateStateOnly(s, v, c, doForcedMove) == IF Live(s, v) THEN Paint(s, v, c) ELSE s

\* updateState; it returns how many vertices it coloured, see VerticesColored.
UpdateState(s, v, c, doForcedMove) ==
  IF ~Live(s, v) THEN s
  ELSE IF doForcedMove THEN ForcedMoves[[state |-> Paint(s, v, c), agenda |-> adjList_[v]]]
  ELSE Paint(s, v, c)

\* Mutant of VerticesColored: the forced moves are not counted.
VerticesColoredOne(s, t) == 1

VerticesColored(s, t) == Cardinality(Uncolored(s)) - Cardinality(Uncolored(t))

-----------------------------------------------------------------------------
GetUncoloredNgbr(s, v) == Cardinality({u \in Ngbrs(v) : Live(s, u)})

\* Mutant of Removable: >= for >.
RemovableOffByOne(s, v) == Cardinality(s.poss[v]) >= GetUncoloredNgbr(s, v)

\* A vertex that keeps a colour whatever its neighbours take.
Removable(s, v) == Cardinality(s.poss[v]) > GetUncoloredNgbr(s, v)

\* Where vertexRemoval stands: its worklist is a std::set, popped at its least
\* element, deleted what it has pushed on the removal stack.
Removal == [state : State, worklist : SUBSET Vertex, deleted : Seq(Vertex)]

\* One turn of its loop.
PopWorklist(q) ==
  LET v == Min(q.worklist)
      t == [q.state EXCEPT !.onStack = @ \cup {v}]
  IN IF Removable(q.state, v)
     THEN [state |-> t, worklist |-> (q.worklist \ {v}) \cup {u \in Ngbrs(v) : Live(t, u)},
           deleted |-> Append(q.deleted, v)]
     ELSE [q EXCEPT !.worklist = @ \ {v}]

RemovalLoop[q \in Removal] == IF q.worklist = {} THEN q ELSE RemovalLoop[PopWorklist(q)]

\* vertexRemoval: the state, and the vertices it pushed on the removal stack.
VertexRemoval(s) ==
  RemovalLoop[[state |-> s, worklist |-> LiveVertices(s), deleted |-> <<>>]]

\* One turn of mergeRemovedVerticesBack. A vertex without a possible colour
\* fails CkAssert(c != npos); it stays on the stack to show it.
PutBack(v, s) ==
  IF s.poss[v] = {} THEN s
  ELSE UpdateState([s EXCEPT !.onStack = @ \ {v}], v, Min(s.poss[v]), FALSE)

\* Where mergeRemovedVerticesBack stands: the vertices still to be put back, the
\* one on top last.
Merging == [state : State, deleted : Seq(Vertex)]

MergeLoop[q \in Merging] ==
  IF q.deleted = <<>> THEN q.state
  ELSE MergeLoop[[state |-> PutBack(Last(q.deleted), q.state), deleted |-> Front(q.deleted)]]

MergeRemovedVerticesBack(deleted, s) == MergeLoop[[state |-> s, deleted |-> deleted]]

\* Every CkAssert(c != npos) of the merge has held.
MergedBack(deleted, s) == Range(deleted) \cap s.onStack = {}

-----------------------------------------------------------------------------
\* getNextConstraintVertex: the first live vertex with the fewest colours, or -1.
GetNextConstraintVertex(s) ==
  LET least == {v \in LiveVertices(s) : \A u \in LiveVertices(s) :
                  Cardinality(s.poss[v]) <= Cardinality(s.poss[u])}
  IN IF least = {} THEN -1 ELSE Min(least)

\* The colours left to the live neighbour u of a vertex that takes c.
LeftTo(s, u, c) == Cardinality(s.poss[u] \ {c})

\* Mutant of Possible: the impossibility test is off by one.
PossibleOffByOne(s, v, c) == \A u \in Ngbrs(v) : Live(s, u) => LeftTo(s, u, c) > 1

\* Impossibility testing: c leaves every live neighbour of v a colour.
Possible(s, v, c) == \A u \in Ngbrs(v) : Live(s, u) => LeftTo(s, u, c) > 0

\* A set popped from a priority_queue, into which it was pushed by age: higher
\* rank first. In which turn elements of one rank come is up to the heap and may
\* depend on all that it holds; where PopsFirst leaves that open, by age.
PopOrder(S, rank, age) ==
  LET turn(a) == Cardinality({b \in S : PopsFirst(rank, age[b], age[a])})
      Before(a, b) ==
        \/ rank[a] > rank[b]
        \/ rank[a] = rank[b] /\ turn(a) < turn(b)
        \/ rank[a] = rank[b] /\ turn(a) = turn(b) /\ age[a] < age[b]
  IN [i \in 1..Cardinality(S) |->
        CHOOSE a \in S : Cardinality({b \in S : Before(b, a)}) = i - 1]

\* getValueOrderingOfColors: the colours to try on v, best first. The rank of c
\* is how many colours it leaves to the live neighbours of v, all together.
GetValueOrderingOfColors(s, v) ==
  LET colours == {c \in s.poss[v] : Possible(s, v, c)}
      left(c) == {e \in Ngbrs(v) \X Color : Live(s, e[1]) /\ e[2] \in s.poss[e[1]] \ {c}}
  IN PopOrder(colours, [c \in colours |-> Cardinality(left(c))], [c \in colours |-> c])

-----------------------------------------------------------------------------
\* The vertices of S reachable from v inside S.
Component(v, S) ==
  LET Reach[reached \in SUBSET Vertex] ==
        LET next == reached \cup {u \in S : \E w \in reached : u \in Ngbrs(w)}
        IN IF next = reached THEN reached ELSE Reach[next]
  IN Reach[{v}]

\* detectAndCreateSubgraphs: the connected components of S, largest first.
Subgraphs(S) ==
  LET parts == {Component(v, S) : v \in S}
  IN PopOrder(parts, [p \in parts |-> Cardinality(p)], [p \in parts |-> Min(p)])

\* isColoringValid, of the final state.
IsColoringValid(s) ==
  \A v \in Vertex : s.color[v] \in Color /\ \A u \in Ngbrs(v) : s.color[u] # s.color[v]

-----------------------------------------------------------------------------
\* A node of the sequential search: node_state_, uncolored_num_ and the removal
\* stack that is pushed beside it.
StackNode == [state : State, uncolored : Int, removed : Seq(Vertex)]

(***************************************************************************)
(* One iteration of the loop of sequentialColoringHelper on the node at    *)
(* the top of the stack: it finds a colouring, trips over                  *)
(* CkAssert(vIndex != -1), or leaves the nodes to be pushed, best first.   *)
(***************************************************************************)
SearchStep(top) ==
  LET r        == VertexRemoval(top.state)
      removed  == top.removed \o r.deleted
      left     == top.uncolored - Len(r.deleted)
      merged   == MergeRemovedVerticesBack(removed, r.state)
      v        == GetNextConstraintVertex(r.state)
      child(c) == LET t == UpdateState(r.state, v, c, TRUE)
                  IN [state |-> t, uncolored |-> left - VerticesColored(r.state, t),
                      removed |-> removed]
      colours  == GetValueOrderingOfColors(r.state, v)
  IN IF left = 0
     THEN [outcome |-> IF MergedBack(removed, merged) THEN "found" ELSE "tripped",
           state |-> merged]
     ELSE IF v = -1
     THEN [outcome |-> "tripped", state |-> r.state]
     ELSE [outcome |-> "pushed",
           nodes |-> [i \in 1..Len(colours) |-> child(colours[i])]]

-----------------------------------------------------------------------------
(***************************************************************************)
(* What a search should find, for use by the properties only: the vertices *)
(* of todo can be coloured one after the other, with no regard to the      *)
(* possible colours the algorithms keep.                                   *)
(***************************************************************************)
Completes[q \in [color : [Vertex -> Color \cup {-1}], todo : SUBSET Vertex]] ==
  q.todo = {} \/
  LET v == Min(q.todo)
  IN \E c \in Color :
       /\ \A u \in Ngbrs(v) : q.color[u] # c
       /\ Completes[[color |-> [q.color EXCEPT ![v] = c], todo |-> q.todo \ {v}]]

\* The vertices a chare created with state seed is to colour or keep coloured.
InScope(seed) == {v \in Vertex : IsOperationPermissible(seed, v)}

\* The colours of s are proper and can be completed in the scope of seed.
Completable(seed, s) ==
  LET S == InScope(seed)
  IN /\ \A v \in S : \A u \in Ngbrs(v) \cap S : IsColored(s, v) => s.color[u] # s.color[v]
     /\ Completes[[color |-> s.color, todo |-> {v \in S : ~IsColored(s, v)}]]

\* s completes seed: it is proper and total there and keeps the colours of seed.
CompletesSeed(seed, s) ==
  LET S == InScope(seed)
  IN \A v \in S :
       /\ s.color[v] \in Color
       /\ IsColored(seed, v) => s.color[v] = seed.color[v]
       /\ \A u \in Ngbrs(v) \cap S : s.color[u] # s.color[v]
=============================================================================
