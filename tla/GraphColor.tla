------------------------------ MODULE GraphColor ------------------------------
(***************************************************************************)
(* The parallel colouring program: the protocol of SearchTree on the tree  *)
(* of chares that the algorithms of ColorState span for one input graph,   *)
(* and the colourings that travel with the finish messages.                *)
(*                                                                         *)
(* What a chare does with the state in its creation message is             *)
(* deterministic, so the tree is computed once. Which answer an OR chare   *)
(* adopts, and in which order an AND chare merges its subgraphs, depends   *)
(* on the schedule: node_state_ is a variable.                             *)
(***************************************************************************)
EXTENDS ColorState

CONSTANTS
  grainSize,   \* a chare with no more uncoloured vertices searches locally
  baseline,    \* the root searches locally whatever the grain size
  doSubgraph,  \* split a graph into its connected components
  timeout,     \* see SearchTree
  MaxWork,     \* bound on the loop iterations of a leaf the model tells apart
  chares,      \* the chares of the search, see ChareAssumption
  PE           \* the processing elements

-----------------------------------------------------------------------------
\* Where that loop stands, and how many iterations it has taken.
Searching == [stack : Seq(StackNode), iterations : Nat]

\* The loop of sequentialColoringHelper, run to its end without a timeout.
SearchLoop[q \in Searching] ==
  IF q.stack = <<>> THEN [outcome |-> "failed", iterations |-> q.iterations]
  ELSE LET step == SearchStep(Head(q.stack))
       IN IF step.outcome = "pushed"
          THEN SearchLoop[[stack      |-> step.nodes \o Tail(q.stack),
                           iterations |-> q.iterations + 1]]
          ELSE [outcome |-> step.outcome, state |-> step.state,
                iterations |-> q.iterations + 1]

\* The search begins with one node, the state of the chare.
SearchFrom(s, left) ==
  [stack |-> <<[state |-> s, uncolored |-> left, removed |-> <<>>]>>, iterations |-> 0]

\* Mutant of ColorLocally: one vertex left to colour counts as none.
ColorLocallyOffByOne(s, left) ==
  IF left <= 1 THEN [outcome |-> "found", state |-> s, iterations |-> 0]
  ELSE SearchLoop[SearchFrom(s, left)]

\* What colorLocally makes of state s with left uncoloured vertices.
ColorLocally(s, left) ==
  IF left = 0 THEN [outcome |-> "found", state |-> s, iterations |-> 0]
  ELSE SearchLoop[SearchFrom(s, left)]

\* uncolored_num_ of the chare created for the component part of s.
SubgraphUncolored(s, part) == Cardinality(part)

\* What colorRemotely creates for each subgraph: the other ones are marked
\* out_of_subgraph, and the whole component counts as uncoloured.
SubgraphSeeds(s) ==
  LET inGraph == {v \in Vertex : IsOperationPermissible(s, v)}
      parts   == Subgraphs(inGraph)
  IN [i \in 1..Len(parts) |->
        [seed |-> [s EXCEPT !.out = @ \cup (inGraph \ parts[i])],
         uncolored |-> SubgraphUncolored(s, parts[i])]]

\* What colorRemotely creates for each colour of the vertex v.
ColorSeeds(s, left, v) ==
  LET colours == GetValueOrderingOfColors(s, v)
  IN [i \in 1..Len(colours) |->
        LET t == UpdateState(s, v, colours[i], TRUE)
        IN [seed |-> t, uncolored |-> left - VerticesColored(s, t)]]

\* Which way run() takes with state s and left uncoloured vertices: it colours
\* locally, splits the graph, or branches on the vertex v if a colour is left.
KindOf(s, left, v, parts) ==
  IF left <= grainSize \/ baseline THEN "leaf"
  ELSE IF doSubgraph /\ Len(parts) > 1 THEN "and"
  ELSE IF v # -1 /\ s.poss[v] = {} THEN "dead"
  ELSE "or"

\* A creation message, and the name of the chare it creates.
Creation == [id : Seq(Nat), seed : State, uncolored : Int]

\* The chare created by m when run() starts: its node_state_, deletedV and
\* uncolored_num_, what run() does, and what it sends to its children.
Constructed(m) ==
  LET r     == VertexRemoval(m.seed)
      s     == r.state
      left  == m.uncolored - Len(r.deleted)
      v     == GetNextConstraintVertex(s)
      parts == SubgraphSeeds(s)
      kind  == KindOf(s, left, v, parts)
  IN [state |-> s, deletedV |-> r.deleted, left |-> left, kind |-> kind,
      stuck |-> kind = "or" /\ v = -1,
      seeds |-> CASE kind = "and" -> parts
                  [] kind = "or" /\ v # -1 -> ColorSeeds(s, left, v)
                  [] OTHER -> <<>>]

\* The creation messages it sends: child i is named after it and i.
Sent(m) ==
  LET seeds == Constructed(m).seeds
  IN {[id |-> Append(m.id, i - 1), seed |-> seeds[i].seed, uncolored |-> seeds[i].uncolored] :
        i \in DOMAIN seeds}

\* m, and the messages sent by the chare it creates and those below it.
Messages[m \in Creation] == {m} \cup UNION {Messages[k] : k \in Sent(m)}

\* The chare created by m, with the result of its local search.
Chare(m) ==
  LET c      == Constructed(m)
      local  == IF c.kind = "leaf" THEN ColorLocally(c.state, c.left)
                ELSE [outcome |-> "none", iterations |-> 0]
      merged == IF local.outcome = "found"
                THEN MergeRemovedVerticesBack(c.deletedV, local.state)
                ELSE MergeRemovedVerticesBack(c.deletedV, c.state)
  IN [seed |-> m.seed, state |-> c.state, left |-> c.left, deletedV |-> c.deletedV,
      kind |-> c.kind, found |-> local.outcome = "found", iterations |-> local.iterations,
      trips |-> \/ c.stuck
                \/ local.outcome = "tripped"
                \/ c.kind = "leaf" /\ ~MergedBack(c.deletedV, merged),
      answer |-> merged]

Root == <<0>>

RootMessage == [id |-> Root, seed |-> InitialState, uncolored |-> vertices_]

\* All chares of the search, by their names.
SearchChares ==
  LET all == Messages[RootMessage]
  IN [n \in {m.id : m \in all} |-> Chare(CHOOSE m \in all : m.id = n)]

ASSUME ChareAssumption == chares = SearchChares

\* Main takes any number of colours, but the root is not to fail for lack of one:
\* it would report to a parent that is not there.
ASSUME OptionAssumption ==
  /\ chromaticNum_ > 0 /\ grainSize \in Int /\ baseline \in BOOLEAN /\ doSubgraph \in BOOLEAN
  /\ timeout \in Nat /\ MaxWork \in Nat /\ PE # {}

\* The function chares, applied to each name: TLC keeps the values.
Tree == [n \in DOMAIN chares |-> chares[n]]
Node == DOMAIN Tree
Parent == [n \in Node \ {Root} |-> Front(n)]
Kind == [n \in Node |-> Tree[n].kind]
Work == [n \in Node |-> Min({Tree[n].iterations, MaxWork})]
Trips == {n \in Node : Tree[n].trips}

\* The decimal digits of a number, without leading zeros: 0 has none.
Significant[k \in Nat] == IF k = 0 THEN <<>> ELSE Append(Significant[k \div 10], k % 10)

\* std::to_string, as a sequence of digits.
to_string(k) == IF k = 0 THEN <<0>> ELSE Significant[k]

\* nodeID_ + std::to_string(child_num_): the decimal digits run together.
nodeID == [n \in Node |-> FlattenSeq([i \in DOMAIN n |-> to_string(n[i])])]

\* The chares that n creates.
Children(n) == {k \in Node \ {Root} : Parent[k] = n}

\* What the answers of the leaves make of the tree below each chare.
Value[n \in Node] ==
  \/ Kind[n] = "leaf" /\ Tree[n].found
  \/ Kind[n] = "and" /\ \A k \in Children(n) : Value[k]
  \/ Kind[n] = "or" /\ \E k \in Children(n) : Value[k]

-----------------------------------------------------------------------------
VARIABLES mode, todo, child_finished_, child_succeed_, finishMsgs,
  acceptRegistration, andStateNodeInfo, nCharesOnMyPe, nLeafCharesOnMyPe,
  printed, groupMsgs, rootPE, verdict, phase

VARIABLE node_state_  \* the colouring state of every chare

T == INSTANCE SearchTree

vars == <<T!vars, node_state_>>

Init == T!Init /\ node_state_ = [n \in Node |-> Tree[n].state]

\* An AND chare in state s takes over what a child has coloured, t.
MergeSubgraph(s, t) ==
  LET taken == {v \in LiveVertices(s) : IsOperationPermissible(t, v)}
  IN [s EXCEPT !.color = [v \in Vertex |-> IF v \in taken THEN t.color[v] ELSE @[v]],
               !.poss = [v \in Vertex |->
                  IF v \in taken THEN {}
                  ELSE IF IsColored(s, v) THEN @[v]
                  ELSE @[v] \ {t.color[u] : u \in taken \cap Ngbrs(v)}]]

\* The assertions of that merge: colours both know agree, all others are news.
SubgraphFits(s, t) ==
  \A v \in Vertex : IsOperationPermissible(t, v) =>
    IF IsColored(s, v) THEN s.color[v] = t.color[v]
    ELSE t.color[v] \in Color /\ Live(s, v)

\* Mutant of Merged: an OR chare keeps its own state.
MergedKept(m) ==
  LET n == Parent[m.from]
  IN IF ~m.res \/ Kind[n] = "or" THEN node_state_[n]
     ELSE MergeSubgraph(node_state_[n], node_state_[m.from])

\* node_state_ of the receiver of m after its merge.
Merged(m) ==
  LET n == Parent[m.from]
  IN IF ~m.res THEN node_state_[n]
     ELSE IF Kind[n] = "and" THEN MergeSubgraph(node_state_[n], node_state_[m.from])
     ELSE node_state_[m.from]

\* ... and after it has put its removed vertices back, if m decides it. The
\* root does that only when it has succeeded.
Settled(m) ==
  LET n        == Parent[m.from]
      finished == child_finished_[n] + 1
      succeed  == T!Succeeded(n, m.res)
  IN IF T!Decided(n, finished, succeed) /\ (n = Root => T!Success(n, succeed))
     THEN MergeRemovedVerticesBack(Tree[n].deletedV, Merged(m))
     ELSE Merged(m)

\* Every CkAssert that mergeToParent evaluates on m holds.
Asserts(m) ==
  LET n        == Parent[m.from]
      finished == child_finished_[n] + 1
      succeed  == T!Succeeded(n, m.res)
      decided  == T!Decided(n, finished, succeed)
      success  == T!Success(n, succeed)
  IN /\ Kind[n] = "and" /\ m.res => SubgraphFits(node_state_[n], node_state_[m.from])
     /\ decided /\ (n = Root => success) => MergedBack(Tree[n].deletedV, Settled(m))
     /\ decided /\ n = Root /\ success => IsColoringValid(Settled(m))

\* A leaf that has its answer also has the state it answers with.
LocalStep(n) ==
  node_state_' = IF Kind[n] = "leaf" /\ mode'[n] = "done"
                 THEN [node_state_ EXCEPT ![n] = Tree[n].answer]
                 ELSE node_state_

Construct(n, p) == T!Construct(n, p) /\ LocalStep(n)
Rerun(n) == T!Rerun(n) /\ LocalStep(n)

\* mergeToParent. A failed assertion would end the job here; AssertionsHold
\* says that none fails.
Finish(m) ==
  /\ Asserts(m)
  /\ T!Finish(m)
  /\ node_state_' = [node_state_ EXCEPT ![Parent[m.from]] = Settled(m)]

\* The entry methods of the counter group, the exit and the end of the job.
Other ==
  /\ \/ \E m \in groupMsgs : T!SendCounts(m) \/ T!AndFailed(m)
     \/ T!Halt
     \/ T!Over
  /\ UNCHANGED node_state_

Next ==
  \/ \E n \in Node, p \in PE : Construct(n, p)
  \/ \E n \in Node : Rerun(n)
  \/ \E m \in finishMsgs : Finish(m)
  \/ Other

Spec == Init /\ [][Next]_vars
FairSpec == Spec /\ WF_vars(Next)
-----------------------------------------------------------------------------
\* Whether the state a chare is created with can be completed to a colouring.
CompletableSeed == [n \in Node |-> Completable(Tree[n].seed, Tree[n].seed)]
Colorable == Completable(InitialState, InitialState)

\* uncolored_num_ is the "number of uncolored vertex" (graphColor.h:82) that
\* are left to the chare, in every chare that is created.
UncoloredCountExact ==
  \A n \in Node : mode[n] # "unborn" =>
    Tree[n].left = Cardinality(LiveVertices(Tree[n].state))

\* No vertex is coloured in a graph that colorRemotely splits. The code does not
\* see to it below an OR chare, see AssertionsHold.
SplitsUncolored ==
  \A n \in Node : Kind[n] = "and" => LiveVertices(Tree[n].state) = InScope(Tree[n].state)

\* Only the root splits its graph, as when it falls apart at once or not at all.
OnlyRootSplits == \A n \in Node : Kind[n] = "and" => n = Root

\* No CkAssert of mergeToParent fails, in whatever order the answers arrive: what
\* a subgraph has coloured fits its parent, every removed vertex finds a colour,
\* and the root prints a colouring (Node.cpp:590, 729-735, 754, 776).
MergesFit == \A m \in finishMsgs : mode[Parent[m.from]] = "wait" => Asserts(m)

\* ... and none fails in a search either (Node.cpp:457, 776).
AssertionsHold == phase # "aborted" /\ MergesFit

\* updateState leaves no forced move undone: with two colours or more no live
\* vertex of a new chare has exactly one colour left (Node.cpp:294-304).
NoForcedMoveLeft ==
  chromaticNum_ > 1 =>
    \A n \in Node : mode[n] # "unborn" =>
      \A v \in LiveVertices(Tree[n].seed) : Cardinality(Tree[n].seed.poss[v]) # 1

\* The state that travels with a success colours all that the sender was to
\* colour, properly, and keeps the colours it was created with; so does the state
\* that the root prints (Node.cpp:738, 748-764).
RepliesProper ==
  /\ \A m \in finishMsgs : m.res => CompletesSeed(Tree[m.from].seed, node_state_[m.from])
  /\ verdict = "success" => CompletesSeed(Tree[Root].seed, node_state_[Root])

\* A chare reports success iff the state it was created with can be completed, and
\* the root prints it iff its own can: removal, forced moves, impossibility
\* testing and the split into subgraphs lose no colouring, and no early exit of
\* mergeToParent decides a chare before its answer is certain (Node.cpp:703-764).
RepliesExact ==
  /\ \A m \in finishMsgs : m.res = CompletableSeed[m.from]
  /\ verdict # "none" => (verdict = "success") = CompletableSeed[Root]

\* The verdict is right about the input graph, for every schedule.
VerdictExact == verdict # "none" => (verdict = "success") = Colorable

\* See SearchTree: registerMe refuses only what a failed AND chare has doomed
\* (graphColor.h:201-203).
RefusedOnlyDoomed == T!RefusedOnlyDoomed

\* See SearchTree: whoever is waited for and waits has a child at work or an
\* answer on its way (graphColor.ci:57-78).
WaitHasReason == T!WaitHasReason

\* The job ends with a verdict.
JobEnds == <>(phase = "halted")
=============================================================================
