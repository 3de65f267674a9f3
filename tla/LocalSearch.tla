------------------------------ MODULE LocalSearch ------------------------------
(***************************************************************************)
(* One chare that colours locally: colorLocally, sequentialColoring,       *)
(* sequentialColoringHelper and rerun of Node.cpp, one action per turn of  *)
(* the loop, on each of a set of graphs that Main has read. The chare is   *)
(* the root or is reached from it through any number of OR chares.         *)
(***************************************************************************)
EXTENDS Integers, Sequences, FiniteSets, StartUp

CONSTANTS
  vertices_,   \* how many vertices the input graph has
  Draws,       \* what a new graph may be drawn from: edges, and pairs of vertices
  Files,       \* the files a graph may be read from, each the sequence of its lines
  ColorNums,   \* the numbers of colours tried
  PopsFirst(_, _, _),  \* how a std::priority_queue breaks ties, see ColorState
  timeout,     \* seconds the search may take before rerun() is sent
  init_s       \* the first size of the table in getConservativeChromaticNum

\* A file lists every edge once in each direction, and leaves no vertex out.
ASSUME InputAssumption ==
  /\ vertices_ \in Nat
  /\ \A d \in Draws :
       d.edges \in Nat /\ d.pairs \in Seq((0..(vertices_ - 1)) \X (0..(vertices_ - 1)))
  /\ \A lines \in Files :
       LET E == {lines[i] : i \in DOMAIN lines}
       IN /\ lines \in Seq((1..vertices_) \X (1..vertices_))
          /\ \A i, j \in DOMAIN lines : lines[i] = lines[j] => i = j
          /\ \A e \in E : e[1] # e[2] /\ <<e[2], e[1]>> \in E
          /\ \A v \in 1..vertices_ : \E e \in E : e[1] = v
ASSUME OptionAssumption == ColorNums \subseteq Nat /\ timeout \in Nat /\ init_s \in Nat /\ init_s >= 3

Graphs ==
  {generate(vertices_, d.edges, d.pairs) : d \in Draws} \cup {parseInputFile(lines) : lines \in Files}

VARIABLES
  adjList_,            \* the input graph, never changed
  chromaticNum_,       \* the number of colours, never changed
  seed,                \* the state in the chare's creation message
  node_state_,         \* its colouring state
  uncolored_num_,
  deletedV,            \* the vertices its constructor removed
  stackForSequential,  \* nodes of the search, the top one first
  fresh,               \* no iteration since the clock was reset
  phase                \* see Phases

input == <<adjList_, chromaticNum_>>

vars == <<input, seed, node_state_, uncolored_num_, deletedV,
          stackForSequential, fresh, phase>>

INSTANCE ColorState

(* created: run() is about to start   searching: in the loop               *)
(* waiting: rerun() is in flight      found, failed: it has answered       *)
(* tripped: a CkAssert has failed                                          *)
Phases == {"created", "searching", "waiting", "found", "failed", "tripped"}

\* Mutant of Constructed: the removed vertices are subtracted twice.
ConstructedTwice(s, n) ==
  LET r == VertexRemoval(s)
  IN [state |-> r.state, deleted |-> r.deleted, left |-> n - 2 * Len(r.deleted)]

\* A chare constructed with state s and n uncoloured vertices.
Constructed(s, n) ==
  LET r == VertexRemoval(s)
  IN [state |-> r.state, deleted |-> r.deleted, left |-> n - Len(r.deleted)]

\* What the models tell of a creation message.
Creation == [seed : State, uncolored : Int]

\* The creation messages that chare c sends as an OR chare.
OrSent(c) ==
  LET v == GetNextConstraintVertex(c.state)
      next(k) == UpdateState(c.state, v, k, TRUE)
  IN IF v = -1 THEN {}
     ELSE {[seed |-> next(k), uncolored |-> c.left - VerticesColored(c.state, next(k))] :
             k \in Range(GetValueOrderingOfColors(c.state, v))}

\* The creation message m, and those sent by the chare it creates and its children.
OrMessages[m \in Creation] ==
  {m} \cup UNION {OrMessages[k] : k \in OrSent(Constructed(m.seed, m.uncolored))}

Init ==
  /\ adjList_ \in Graphs
  /\ chromaticNum_ \in ColorNums
  /\ \E m \in OrMessages[[seed |-> InitialState, uncolored |-> vertices_]] :
       \E c \in {Constructed(m.seed, m.uncolored)} :
          /\ seed = m.seed
          /\ node_state_ = c.state
          /\ deletedV = c.deleted
          /\ uncolored_num_ = c.left
  /\ stackForSequential = <<>>
  /\ fresh = TRUE
  /\ phase = "created"

\* The search has ended with a colouring: the chare's own removed vertices
\* follow those of the search.
Found(s) ==
  /\ node_state_' = MergeRemovedVerticesBack(deletedV, s)
  /\ phase' = IF MergedBack(deletedV, node_state_') THEN "found" ELSE "tripped"

\* colorLocally: nothing is left to colour, or the search begins.
ColorLocally ==
  /\ phase = "created"
  /\ \/ /\ uncolored_num_ = 0
        /\ Found(node_state_)
        /\ UNCHANGED <<stackForSequential, fresh>>
     \/ /\ uncolored_num_ # 0
        /\ stackForSequential' =
             <<[state |-> node_state_, uncolored |-> uncolored_num_, removed |-> <<>>]>>
        /\ fresh' = TRUE
        /\ phase' = "searching"
        /\ UNCHANGED node_state_
  /\ UNCHANGED <<input, seed, deletedV, uncolored_num_>>

\* Mutant of Push: the best colour is pushed over the rest of the stack.
PushOver(nodes, rest) == nodes

\* tmp turns the order of the priority queue: the best colour ends on top.
Push(nodes, rest) == nodes \o rest

\* One turn of the loop in sequentialColoringHelper.
Iterate ==
  LET step == SearchStep(Head(stackForSequential))
      rest == Tail(stackForSequential)
  IN /\ phase = "searching"
     /\ stackForSequential # <<>>
     /\ fresh' = FALSE
     /\ \/ /\ step.outcome = "pushed"
           /\ stackForSequential' = Push(step.nodes, rest)
           /\ UNCHANGED <<node_state_, phase>>
        \/ /\ step.outcome = "found"
           /\ stackForSequential' = rest
           /\ Found(step.state)
        \/ /\ step.outcome = "tripped"
           /\ phase' = "tripped"
           /\ UNCHANGED <<stackForSequential, node_state_>>
     /\ UNCHANGED <<input, seed, deletedV, uncolored_num_>>

\* The clock, read at the head of the loop, is past the timeout: rerun() is
\* sent. It is reset before the loop, so a positive timeout lets one turn pass.
TimeOut ==
  /\ phase = "searching"
  /\ stackForSequential # <<>>
  /\ timeout > 0 => ~fresh
  /\ phase' = "waiting"
  /\ UNCHANGED <<input, seed, node_state_, deletedV, uncolored_num_>>
  /\ UNCHANGED <<stackForSequential, fresh>>

\* Mutant of Rerun: the search starts again from the chare's own state.
RerunAfresh ==
  /\ phase = "waiting"
  /\ phase' = "searching"
  /\ fresh' = TRUE
  /\ stackForSequential' =
       <<[state |-> node_state_, uncolored |-> uncolored_num_, removed |-> <<>>]>>
  /\ UNCHANGED <<input, seed, node_state_, deletedV, uncolored_num_>>

\* Node::rerun(): the search goes on where it was.
Rerun ==
  /\ phase = "waiting"
  /\ phase' = "searching"
  /\ fresh' = TRUE
  /\ UNCHANGED <<input, seed, node_state_, deletedV, uncolored_num_>>
  /\ UNCHANGED stackForSequential

\* The stack is empty. The root prints that it has failed, any other chare
\* answers with its own state, put back together.
Fail ==
  /\ phase = "searching"
  /\ stackForSequential = <<>>
  /\ \/ /\ seed = InitialState
        /\ phase' = "failed"
        /\ UNCHANGED node_state_
     \/ /\ seed # InitialState
        /\ node_state_' = MergeRemovedVerticesBack(deletedV, node_state_)
        /\ phase' = IF MergedBack(deletedV, node_state_') THEN "failed" ELSE "tripped"
  /\ UNCHANGED <<input, seed, deletedV, uncolored_num_, stackForSequential, fresh>>

Next ==
  \/ ColorLocally
  \/ Iterate
  \/ TimeOut
  \/ Rerun
  \/ Fail

Spec == Init /\ [][Next]_vars

\* The chare runs, and a rerun() it has sent is delivered: WF_vars(Next), with
\* ENABLED <<Next>>_vars spelled out, for TLC would search through every step to
\* find out that one can be taken.
FairSpec ==
  /\ Spec
  /\ \/ []<>(phase \in {"found", "failed", "tripped"})
     \/ []<><<TRUE>>_vars
-----------------------------------------------------------------------------
\* The nodes of the search that are still to be visited.
Nodes == {stackForSequential[i] : i \in DOMAIN stackForSequential}

TypeOK ==
  /\ adjList_ \in [Vertex -> Seq(Vertex)]
  /\ chromaticNum_ \in ColorNums
  /\ seed \in State /\ node_state_ \in State
  /\ uncolored_num_ \in Nat
  /\ deletedV \in Seq(Vertex)
  /\ stackForSequential \in Seq(StackNode)
  /\ fresh \in BOOLEAN
  /\ phase \in Phases

\* The input graph is what every algorithm takes for granted: no loop, no edge
\* twice, every edge both ways, from a file that lists edges both ways and from
\* the random generator (Utils.cpp:60-70, scripts/graphClass.py:29-39).
GraphRead ==
  \A v \in Vertex :
    /\ IsInjective(adjList_[v]) /\ v \notin Ngbrs(v)
    /\ \A u \in Ngbrs(v) : v \in Ngbrs(u)

\* The root does not fail with as many colours as Main estimates, however often
\* the table of colours had to grow (Main.cpp:253-278).
EstimateSuffices ==
  phase = "failed" /\ seed = InitialState =>
    chromaticNum_ < getConservativeChromaticNum(adjList_, init_s)

\* The colouring a chare answers with is proper, total, and keeps the colours
\* it was given.
AnswerProper == phase = "found" => CompletesSeed(seed, node_state_)

\* No CkAssert fails: the search never misses a vertex to colour while it
\* counts one, and every removed vertex finds a colour (stackNode.cpp:147).
NeverTrips == phase # "tripped"

\* uncolored_num_ of every node on the stack counts its live vertices: forced
\* moves and removals are all accounted for (Node.cpp:445, 468-470).
CountsExact ==
  /\ phase = "created" => uncolored_num_ = Cardinality(LiveVertices(node_state_))
  /\ \A n \in Nodes : n.uncolored = Cardinality(LiveVertices(n.state))

\* As long as the chare can be coloured, some node on the stack can: removal,
\* forced moves and impossibility testing lose no colouring, over any timeout.
StackKeepsSolution ==
  phase \in {"searching", "waiting"} /\ Completable(seed, seed) =>
    \E n \in Nodes : Completable(seed, n.state)

\* The promise, seen from the chare that gave it.
Promise == INSTANCE ColoringPromise WITH
  colorable <- Completable(seed, seed),
  answer <- CASE phase = "found" -> "success" [] phase = "failed" -> "failure"
              [] OTHER -> "none"

\* The chare implements the promise of a search: it answers once, and rightly.
KeepsPromise == Promise!Spec

\* It does answer: the timeouts never starve the search (Node.cpp:925).
Answers == <>(phase \in {"found", "failed"})
=============================================================================
