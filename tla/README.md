# parallel-sudoku: a TLA+ development of the parallel graph colouring program

The program (`src/Source`) decides whether a graph can be coloured with k colours
and prints a colouring. It searches a tree of states with Charm++ *chares*: an
**OR** chare branches on the colours of one vertex, an **AND** chare on the
connected components of what is left, a **leaf** searches on its own with a stack
and a timeout. Beside it the repository keeps a second program, a parallel greedy
colouring with MPI (`src/MpiVersion`). This directory holds the TLA+ modules for
both, what TLC checks about small instances, and what TLAPS proves for every
instance.

- [1. The system](#1-the-system): components, state, operations, hard behaviour
- [2. Modules](#2-modules): which models what, and how it corresponds to the code
- [3. Model checking](#3-model-checking): runs, bounds, fairness
- [4. Disagreements found](#4-disagreements-found)
- [5. Proofs](#5-proofs): theorems, assumptions, the inductive invariants
- [6. What is not covered](#6-what-is-not-covered)
- [7. Plan](#7-plan)

## 1. The system

| component | state | operations | correct if |
|---|---|---|---|
| **AND/OR tree of Node chares** (`Node.cpp`, `graphColor.ci`) | per chare: `node_state_`, `deletedV`, `uncolored_num_`, `child_num_`, `child_finished_`, `child_succeed_`, `is_and_node_`, `parent_` | constructor (removal, registration, `run()`), `finish` → `mergeToParent`, `rerun` | one verdict, the right one; no answer lost or counted twice; everybody waited for can still answer; the job ends |
| **counter group** (`graphColor.h`), a branch on each PE | `acceptRegistration`, `andStateNodeInfo`, two counts | `registerMe`, `registerMeLeaf`, `registerAndStateNodeStat`, `sendCounts`, `getTotalCount` | refuses only chares nobody needs; printed counts are final |
| **colouring state** (`vertex.h`, and its algorithms in `Node.cpp` and again in `stackNode.cpp`) | per vertex: `color_`, `possible_colors_`, `is_onStack`, `is_out_of_subgraph` | `updateState` with forced moves, `vertexRemoval`, `mergeRemovedVerticesBack`, `getNextConstraintVertex`, `getValueOrderingOfColors`, `detectAndCreateSubgraphs` | no colouring is lost by removal, forced moves, impossibility test or split; what comes out is proper |
| **sequential search** (`Node.cpp:341-480, 921-955`) | `stackForSequential` of (state, count, removal stack) | `colorLocally`, `sequentialColoringHelper`, `rerun` | finds a colouring iff there is one, over any pattern of timeouts |
| **start-up** (`Main.cpp`, `Utils.cpp`, `scripts/graphGenClass.py`) | globals `adjList_`, `vertices_`, `chromaticNum_`, `grainSize`, options | command line, reading a file, drawing a graph at random, `getConservativeChromaticNum` | leaves a symmetric graph without double edges, and enough colours |
| **priorities** (`Node.cpp:641-689, 832-840`) | bit vector in each creation message | `getPriorityInfo`, `_log` | the order of bit vectors is that of the tree, left to right |
| **pre-colouring** (`Node.cpp:134-189`) | – | `preColor`, `colorClique3` | dead code: the call is commented out |
| **Jones-Plassmann with MPI** (`MpiVersion/graphcoloring.c`) | on each process: `colors`, `weights`, its rows of the graph, `j_colors`, the round | `main`'s broadcasts and `MPI_Scatterv`, rounds of local choice with `MPI_Gatherv` and `MPI_Bcast`, `MPI_Allreduce` | proper at all times, one view for all, least colours, every vertex coloured in the end |
| **scripts, pup patch, vendored python** | – | generators, viewer, serialisation | – |

**Interaction.** `Main` creates the counter group and the root chare. A chare that
is constructed removes vertices, asks the branch of its PE for permission
(`registerMe`), and runs: it becomes a leaf (`uncolored_num_ <= grainSize`), or
creates children by messages that carry a whole colouring state and may be
constructed on any PE, any time later. A child answers with `finish(res, state)`.
The parent merges each answer and, as soon as it is decided, answers in its turn;
later answers find nobody listening. An AND chare that fails broadcasts its ID to
all branches, which from then on refuse chares whose ID contains it. The root
prints the verdict, broadcasts `sendCounts` (which closes registration) and calls
`CkExit`. The MPI program shares nothing with that one but its input files; its
processes meet in collective calls only.

**Hard behaviour.** Answers that race with each other and with the kill chase; a
kill list that is matched by substring; a chare that is refused and silent; counts
kept by hand beside the state they count; vertices that are taken out of the graph
at three levels and put back in reverse order; early exits with children still
running; a timeout between any two turns of a search; shifts at the edge of a word;
two processes that colour neighbours without knowing of each other. `PROJECT.json`, "hazards",
lists each at its line with the properties that watch it.

## 2. Modules

| module | models |
|---|---|
| `ColoringPromise` | the abstract specification: a search answers once, and rightly |
| `SearchTree` | the tree of chares and the counter group, as a protocol over an arbitrary AND/OR tree |
| `SearchTreeProofs` | its theorems |
| `ColorState` | the colouring state and the algorithms on it, as operators and recursive functions |
| `LocalSearch` | the stack search of one chare, one action per turn; implements `ColoringPromise` |
| `Recursion` | facts about naturals and recursive functions that stand in for induction |
| `ColorStateProofs`, `StartUpProofs` | lemmas: what the algorithms of `ColorState` and of `StartUp` do, for every graph |
| `LocalSearchProofs` | the theorems about `LocalSearch`, from those lemmas |
| `GraphColor` | composes the two: the tree that `ColorState` spans for an input graph, run by the protocol of `SearchTree`, with the colourings in the messages |
| `GraphColorProofs` | the theorems about `GraphColor`, from those about `SearchTree` and the lemmas about `ColorState` |
| `StartUp` | what `Main` does first: input graphs and the estimate of colours, as operators; `LocalSearch` takes its graphs and colours through them |
| `Priority` | the priorities of two chares on their way down the tree |
| `PriorityProofs` | its theorems |
| `GreedyColoring` | the abstract specification of a parallel greedy colouring |
| `JonesPlassmann` | the MPI program; implements `GreedyColoring` |
| `JonesPlassmannProofs` | its theorems |
| `MCSearchTree`, `MCLocalSearch`, `MCGraphColor`, `MCPriority`, `MCJonesPlassmann` | input trees and graphs for TLC |

### SearchTree

Every entry method of Charm++ runs to its end on its PE, so each is one action.
What a chare does with its creation message is deterministic; here it is a
constant (`Kind`, `Parent`, `Work`, `Trips`, `Value`), which keeps the protocol
separate from the colouring and makes it provable for *every* tree.

| action | code |
|---|---|
| `StartLeaf`, `StartDead`, `StartInternal`, `TripInternal` (with `Admit`) | the constructor, `registerMe`, `run()` and all it calls: `colorLocally`; the empty-colour dead end; `colorRemotely`, for an AND and an OR chare; its assertion |
| `Refuse` | the constructor when `registerMe` says no: silence |
| `Rerun` | `rerun()`: `Search` goes on where it stopped |
| `Finish` | `mergeToParent`: counting, decision, kill broadcast, verdict or answer |
| `SendCounts`, `AndFailed` | the broadcasts arriving at one branch |
| `Halt`, `Over` | `CkExit` takes effect; the job is over |

`Search` chooses how many of the leaf's `Work` turns are done before the timeout.
The clock is reset before the loop, so a positive timeout lets one turn pass; with
0 even the first turn may not happen. A chare is denied by `Occurs`, which is
`std::string::find`, on IDs as sequences of digits.

Two readings of the runtime are built in. A `return` inside a `serial` block
abandons the rest of the entry method, on which the code relies at
`graphColor.ci:51` and `:76`: a decided chare takes no further answers. Messages
are neither lost nor duplicated (Charm++ delivers each once, in any order), so
they are sets, told apart by their sender.

### ColorState, LocalSearch, GraphColor

`ColorState` has one operator per function of the code. `Node.cpp` and
`stackNode.cpp` hold two copies of the algorithms, compared line by line and
modelled once; `map` in `PROJECT.json` names sometimes one and sometimes the
other. Loops and recursion (`RemovalLoop`, `ForcedMoves`, `Reach`) are recursive
functions that follow the order of the code: the worklist of removal is popped at
its least vertex, forced moves go depth first in the order of the adjacency list.
`PopsFirst`, a constant operator, leaves open which of equal elements a
`std::priority_queue` pops first; it may depend on all that the queue holds and so
stands for any heap. The ASSUME on `adjList_` (no loops, no double edges, symmetric) is what the
input must provide.

`LocalSearch` starts from every creation message reachable through OR chares and
steps the loop of `sequentialColoringHelper` one turn at a time, with `TimeOut`
possible between any two. Its input is what the program is given: `Draws`, each a
number of edges and the pairs the generator happens to draw, and `Files`, each a
sequence of lines; `InputAssumption` asks only that pairs name vertices and that a
file lists every edge once in each direction and leaves no vertex out. `adjList_`
is what `generate` and `parseInputFile` make of them.

`GraphColor` spans the tree of chares from the root's creation message:
`Constructed` is what the constructor and `run()` make of a message, `Sent` the
messages that chare sends, `Messages` all that descend from one, `Chare` a chare with
the result of its local search. It feeds the tree (`SearchChares`) to
`T == INSTANCE SearchTree`, and adds `node_state_`: which answer an OR chare adopts and
in which order an AND chare merges its subgraphs depend on the schedule. Its `Finish`
requires the assertions of the merge; the invariant `MergesFit` says that they never
fail, so the guard hides nothing. The search of a leaf (`SearchLoop`) is run to its end
in one step; its turns are `LocalSearch`'s subject. The tree
enters as a constant, `chares`, only so that TLC computes it once; `ChareAssumption`,
evaluated on every run, says that it is the tree of the input graph.

### StartUp

`parseInputFile` folds `insertHelper` over the lines of a file, `generate` folds
`addEdge` over the pairs that the python script draws, `getConservativeChromaticNum`
folds `TakeBestColor` over the vertices, table and resizing included. The graphs of
run `local` are made by these operators and by nothing else, so `GraphRead` tests
the input code against the ASSUME on `adjList_`.

### Priority

A word is the set of the positions of its bits that are 1, so a shift is a shift of
positions and an `|=` a union. A shift by a negative amount, or by the width of the
word, is undefined in C++; it yields a bit that no word has, which `TypeOK` refuses.
The state is a pair of chares: the same one while they go down together, and from
where they part two chares in different branches, `left` created first. A property
of the pair is thus one of any two branches of any tree. `Encoded` and `Urgent`
are the reference: the bits a path stands for, and the lexical order by which
Charm++ (external) takes messages.

### JonesPlassmann

A process runs alone between two collective calls, so an action goes from one call
to the next:

| action | code |
|---|---|
| `RootStart`, `Start` | `main`: reading the graph, drawing `weights`, `MPI_Bcast`s and `MPI_Scatterv` |
| `Color` | one turn of the loop of `jones_plassmann`: own vertices compared with their neighbours, least colours chosen, `MPI_Gatherv` entered |
| `Gather` | the root has all parts and broadcasts `colors` |
| `Bcast` | `MPI_Bcast` returns elsewhere |
| `EndLoop`, `Finish` | the loop ends, `MPI_Allreduce` |

MPI asks for less than a barrier in each call. In `MPI_Gatherv` only the root waits
for others, and a process other than the root sends its part and is on in
`MPI_Bcast`; the root leaves `MPI_Bcast` once its message is under way. So the root
may be a round ahead of the others, and they of each other. Messages carry the
round, as MPI matches the n-th call of one process with the n-th of the others. The
rows are scattered and the colours gathered by `vertex_offsets`, the loop uses
`first_v`: two computations of the same partition that have to agree when `npes`
does not divide `V`. The comparison `k > j`, of a global index with a local one, is
modelled as it stands.

## 3. Model checking

| run | instance | shows |
|---|---|---|
| `kill` | a tree of 8 chares (AND below OR, a dead end, a leaf of 2 turns, two chares that may fail an assertion and abort the job), 2 PEs, timeout > 0, fair; 56,964 states | type, answers, verdict, accounting, kill chase, final counts, nobody waits in vain, refinement of `ColoringPromise`, termination |
| `squares` | 10 vertices in two components with a pendant path, 2 colours, fair; 298 states | counts exact, all assertions, proper replies, termination of the composed program |
| `cliques` | 11 vertices in three components, two of them not 2-colourable; 7,925 states | every answer is exact about the state of its sender; what is merged fits, also into a chare that is going to fail; nobody waits in vain |
| `prism` | 7 vertices, 3 colours, grain size 3: OR chares and leaves that time out, racing; 68,993 states | assertions, forced moves, proper replies, verdict against the graph |
| `local` | all 1,024 graphs of 5 vertices with 3 isolated ones, neighbours in either order, a graph of 8 whose best first choice is a dead end, a ring of 8 read from a file; 1–4 colours, ties as a heap breaks them, every starting chare, fair; 55,495 states | input and estimate; the search of a leaf: type, proper answer, no assertion fails, counts, no solution lost, refinement, it answers |
| `priority` | words of 4 bits, 1, 2 or 6 children, 3 levels; 149,012 states | the encoding, no undefined shift, the order of the tree |
| `jones` | a triangle with a tail, 5 vertices on 3 processes, weights 0–3, degree stated or not, fair; 198,657 states | type, proper and equal views, own work, rounds, refinement of `GreedyColoring`, termination |
| `overcount`, `collision`, `childless`, `rounds`, `tie` | see section 4 | violations |

**The properties in a sentence each.** `RepliesRight`: a reply is
the value of the subtree. `AccountedFor`: counters against the set
of merged children. `KillOnlyFalsified`, `RefusedOnlyDoomed`: the kill chase hits
only what a failed AND chare has doomed. `WaitHasReason`: whoever is waited for and
waits has a child at work or an answer in flight. `PrintedCountsFinal`: statistics.
`KeepsPromise`: refinement. `CountsExact`, `UncoloredCountExact`: the count kept by
hand against the state. `NeverTrips`, `AssertionsHold`: no `CkAssert` fails;
`MergesFit`: none of those of `mergeToParent`, which hold on every graph.
`StackKeepsSolution`: pruning loses no colouring. `AnswerProper`, `RepliesProper`:
the state that travels with a success, or is printed, is a proper colouring.
`RepliesExact`, `VerdictExact`: the answers in flight and the verdict against a
brute-force definition (`Completes`) that knows nothing of removal, forced moves,
pruning or early exits.
`NoForcedMoveLeft`: forced moves are exhaustive. `GraphRead`: what is read or drawn
is a graph the search can rely on. `EstimateSuffices`: the graph has a colouring
with as many colours as `getConservativeChromaticNum` says. `PathEncoded`: a
priority is the numbers of the children along the path, wherever words end.
`TreeOrder`: of two branches all of the one created first is taken first.
`ViewsProper`: no process ever sees two neighbours of one colour. `ViewsAgree`: same
round, same colours. `OwnWorkKept`: what a process chose comes back to it.
`ColoredOnTime`: a vertex is coloured in exactly the round that its height in the
order of weights tells. `JobEnds`, `Answers`, `AllFinish`: liveness.

**Bounds.** In `SearchTree` the trees are finite by nature; those of the runs have
all four kinds of chare, an AND and an OR root, a chare under a failed AND chare,
and one more level than a kill needs to overtake a creation. Two PEs make a branch
know what the other does not yet. `MaxWork` bounds the turns of a leaf that
`GraphColor` tells apart: timeouts of long searches are `LocalSearch`'s subject.
Five vertices are the least with which removal, forced moves, impossibility and
more than one component occur together; no graph of five vertices makes the search
back out of a choice and then succeed, so `local` has one of eight that does. It
starts the table of colours with `init_s` = 3 entries in place of 10, so that small
graphs make it grow. With three colours the first two choices of an OR tree
are symmetric, so an OR chare with both failing and succeeding children needs 22
chares, too many for the composed run: mixed OR chares are checked in `kill`, in
`LocalSearch`, and by the proofs.

In `Priority` `MaxDepth` bounds the tree and `CkIntbits` = 4 replaces 32: a child
then takes 0, 1 or 3 bits, and in three levels a number begins, ends or straddles
every border of a word. A child number of `CkIntbits` bits (2^31 children) is the
one case the code would shift wrongly. The number of bits is a `UShort` and wraps at
`UShortRange` (65,536; 16 in the run); `DepthAssumption` bounds `MaxDepth` so that
it does not, which with 32 bits allows 2,114 levels. In `JonesPlassmann` five vertices on three
processes give shares of 1, 2 and 2: the least instance in which the remainder
matters and three processes can be in three places. Four weights make ties and
chains of any length up to the rounds done.

**Fairness.** `WF_vars(Next)`: as long as some message can be delivered, the
Charm++ scheduler delivers one; nothing is assumed about which. Termination
follows since every delivery makes progress: creations are finite, a rerun with a
positive timeout does a turn. `LocalSearch` spells out the same formula, with
ENABLED replaced by the phases in which a step exists. In `JonesPlassmann` the
same formula says that processes run and MPI delivers; every step is progress,
since rounds are bounded. `CHECK_DEADLOCK FALSE` is
set only where an answered chare does nothing more, in `priority`, whose tree ends
at `MaxDepth`, and in `childless`, whose point is that the job hangs.

Each property of each passing run has a mutant: an operator marked "Mutant of" in
the modules, a plausible slip in the code, under which TLC finds the property
violated.

## 4. Disagreements found

1. **`overcount`** – `Node.cpp:576` hands a subgraph's chare the number of *all* its
   vertices as `uncolored_num_`. Below an OR chare some of them, or all, are
   coloured. The chare branches, finds no vertex and fails `CkAssert(vIndex != -1)`
   on a colourable graph: three colours, a diamond tied at its tips and a K33. With
   an AND root (`squares`, `cliques`) nothing is coloured yet and the count is
   exact.
2. **`collision`** – `registerMe` looks for the ID of a failed AND chare *anywhere*
   in the ID of the new chare. IDs are digit strings: the failed `"001"` occurs in
   `"0001"`, a child of its sibling `"000"`. The chare is refused with "And
   ancestor falsified", which is untrue, and never answers. `RefusalsJustified`
   proves the converse: if IDs nest as the tree does, the kill chase is exact. Child
   numbers of several digits break that further (`"0"+"10"` and `"0"+"1"+"0"`).
3. **`childless`** – when impossibility testing rejects every colour, `colorRemotely`
   creates no child and sends nothing; `graphColor.ci:57` promises that a dead end
   notifies its parent. One colour and a single edge make the root wait for ever.
   With two colours or more it cannot happen (`ChildlessNeedsOneColor`): forced moves
   leave no vertex with a single colour, so none that a neighbour could take.
4. **`rounds`** – the MPI program does `chromaticity_upper` rounds. Without a degree
   in the file that is V - 1 for an even V (`graphcoloring.c:107`), on the ground
   that the chromaticity cannot be larger (`:101-104`, `:149-150`). That holds for
   the *edges* of a complete graph; its vertices need V colours, and K4 is left with
   an uncoloured vertex. `Main.cpp:45-50` picks the number of colours for a file by
   the same rule.
5. **`tie`** – the comment at `graphcoloring.c:179-180` says that of two neighbours
   of equal weight the one with the higher id wins; line 181 compares the id of the
   one with the *local index* of the other. On any process but the first both may
   give way, and a round colours nothing. Both can never win, which is why the
   colouring stays proper (`ViewsProper`).

Three more have no run: a file of fewer than ten vertices makes `grainSize`
negative (`Main.cpp:43`), so that no chare is ever a leaf and the one that has
nothing left fails its assertion; the report (`Report/Final`, section on subgraphs) gives
smaller subtrees a higher priority while `compareSubgraphRank` pops the largest
first; and validity check, output and statistics happen inside a `CkAssert`, which
a production build drops.

## 5. Proofs

### The tree of chares

`SearchTreeProofs` proves about `SearchTree`, for every tree, every assignment of
kinds and values that obeys `TreeAssumption` and `ValueAssumption`, every timeout,
set of assertion failures and set of PEs:

| theorem | statement |
|---|---|
| `Typing` | `Spec => []TypeOK` |
| `AnswersAccounted` | `Spec => []AccountedFor` |
| `KillsJustified` | `Spec => []KillOnlyFalsified` |
| `PromiseKept` | `Spec => KeepsPromise`: the tree implements `ColoringPromise` |
| `CountsFinal` | `Spec => []PrintedCountsFinal` |
| `RepliesCorrect` | `Spec => []RepliesRight` |
| `RefusalsJustified` | `NestedIDs` and `Spec` imply `[]RefusedOnlyDoomed` |
| `NobodyWaitsInVain` | `NestedIDs`, `NoneChildless` and `Spec` imply `[]WaitHasReason` |

**Assumptions.** `Node` is finite, `Parent` is a function into `Node`; `Value` is
consistent with the kinds (an AND chare's value is the conjunction of its
children's, an OR chare's the disjunction, a dead end's FALSE). TLC evaluates them
on every run of `SearchTree`. `NestedIDs` (the ID of an AND chare occurs in those
below it only) and `NoneChildless` (every AND or OR chare whose assertion holds
creates a child) are hypotheses of the two theorems that need them. The code ensures
neither: findings 2 and, with one colour, 3. As far as the protocol goes, these two defects are the
only ways to wait in vain or to be refused without reason. Both hypotheses hold in
the tree of `kill`.

**The inductive invariant.** That the verdict is right (`VerdictRight`, and with it
`PromiseKept`) is not inductive: that an early exit is right needs the counters to be right, and these are right only if no child can
answer twice. `Invariant` adds to `TypeOK`

- `Born` – a chare exists only below one that has spawned its children;
- `WaitersHaveKids` – only AND and OR chares wait;
- `SendersDone` – whoever has an answer in flight is done (a set of messages then
  holds one from each sender, since a chare that is done answers no more);
- `RepliesRight`, `AccountedFor` – answers are values; the counters are the
  cardinalities of `Merged`;
- `KillOnlyFalsified`, and `VerdictLast` (the verdict is the answer of the root),
  `VerdictRight`.

The central lemma is `CountsDecide`: given exact counters over a *finite* set of
children, "all finished" and the two early exits each imply that `Success` equals
`Value` – by comparing a set of merged children with the set of all children
through their cardinalities. `AnswerStep` treats the answer of any chare, the root
included, once for all actions that end in one. `NextInvariant` has a step for each
action. The refinement uses the same invariant on both sides of a step: `verdict`
changes only in `AnswerStep`, from "none", to the value of the root. The counts and
the refusals have small invariants of their own: a printed branch is closed; a
branch lists falsified chares only, and a falsified chare stays so.

`NobodyWaitsInVain` adds two more: who waits has created its children (`Spawned`)
and has not heard from all of them (`Undecided`). If then no child is at work and no
answer in flight, a child has been refused, and by `RefusalsJustified` the chare
that waits is doomed itself. That an ancestor of a child is the parent or one of its
ancestors (`AncestorsOfChild`) is shown by giving the recursive definition a
solution, the chares reached through `Parent`.

### The sequential search

`LocalSearchProofs` proves about `LocalSearch`, for every number of vertices, every
graph that can be drawn or read, every number of colours, any order of equal
elements, any timeout, and every chare that is root or below OR chares:

| theorem | statement |
|---|---|
| `TypeCorrect` | `Spec => []TypeOK` |
| `GraphIsRead` | `Spec => []GraphRead` |
| `CountsAreExact` | `Spec => []CountsExact` |
| `AnswersAreProper` | `Spec => []AnswerProper` |
| `NoAssertionFails` | `Spec => []NeverTrips` |
| `StackKeeps` | `Spec => []StackKeepsSolution` |
| `EstimateIsEnough` | `Spec => []EstimateSuffices` |
| `PromiseKept` | `Spec => KeepsPromise`: the search implements `ColoringPromise` |

**Assumptions.** `InputAssumption` and `OptionAssumption` of `LocalSearch`, which TLC
evaluates on run `local`: see section 2 for the input; `init_s` is 3 or more (10 in
the code).

**The argument** goes in four layers.

- *Recursion* (`Recursion`). The provers have no induction over data and do not know
  that a recursive definition has a solution. Both come from the well-foundedness of
  inclusion on finite sets: `LeastElement` finds the first number for which
  something fails; `TailRecursion`, `PrefixRecursion` and `TreeRecursion` give a
  function that satisfies the equation of a loop, of a fold and of a tree of calls.
  With the equation, "for all inputs" is shown by the least counterexample in a
  measure (`LeastMeasure`, `LeastPair`). For this the loops are written as functions of
  one argument, a record of where the loop stands (`Forcing`, `Removal`, `Merging`),
  each a step from one such record to the next (`LookAt`, `PopWorklist`, `PutBack`).
- *The algorithms* (`ColorStateProofs`). A state is `Sound` if its colouring is proper
  and what is possible for an uncoloured vertex is exactly what its neighbours do not
  have. Forced moves, although depth first and overlapping, lead from sound to sound
  states, end, and keep every solution (`UpdateStateFollows`): the measure is the
  number of uncoloured vertices and then the length of the agenda. Removal ends and
  leaves a stack that is `Held` (`RemovalLoopRemoves`): a vertex on it has more colours
  than neighbours that are live *or above it on the stack*. This is what must be kept
  while others are coloured, for `CkAssert(c != npos)` never to fail when the stack is
  emptied in reverse (`MergeLoopMerges`), however much later. `PopOrder` pops
  each element once whatever the ties (`PopOrderAll`), so that no colour is tried twice
  or forgotten. `SearchStepRight` puts this together for one turn of the loop: the
  nodes it pushes are well-formed, and if the top node can be solved then one of them
  can.
- *The input* (`StartUpProofs`). What is drawn or read is symmetric, without loops and
  double edges (`GeneratedSimple`, `FileSimple`, each by an invariant of a fold over the
  pairs or lines); the colouring by which `getConservativeChromaticNum` counts is
  proper (`EstimateProper`), its table never indexed beyond its size.
- *The steps* (`LocalSearchProofs`). The inductive invariant `IInv` is

  - `InputInv` – the graph is one that was drawn or read;
  - `ChareInv` – seed and state are sound, the chare's own removed vertices are held,
    and its count is exact;
  - `StackInv` – the same for every node of the stack together with the chare's
    removal stack below it (`NodeOK`), and if the seed can be solved some node can;
  - `AnswerInv` – a success completes the seed, a failure means that nothing does.

`CountsExact` alone is not inductive, since a turn that counts what it has coloured
must know that no vertex is coloured twice; `AnswerProper` needs the stack to be held
from the moment a vertex is removed; `StackKeepsSolution` is stated with `Completable`,
which colours vertices in ascending order and knows nothing of removal: it is equal
to the existence of a solution (`CompletableSolvable`, `SeedCompletable`), with which
one can reason. TLC checked `IInv` on the instance of run `local` before it was proved.
`LocalSearch` and `ColorStateProofs` each have an instance of `ColorState`;
`SameSets`, `SameAlgorithms` and `SameInput` carry facts from one to the other.

### The composed program

`GraphColorProofs` proves about `GraphColor`, for every graph, number of colours, grain
size, order of equal elements, timeout and set of PEs:

| theorem | statement |
|---|---|
| `SearchesTree` | `Spec => T!Spec`: the program implements `SearchTree` on the tree its graph spans |
| `AnswersExact` | `Spec => []RepliesExact` |
| `AnswersProper` | `Spec => []RepliesProper` |
| `VerdictsExact` | `Spec => []VerdictExact` |
| `AnswersFit` | `Spec => []MergesFit` |
| `ForcedMovesMade` | `Spec => []NoForcedMoveLeft` |
| `OnlySplitsMiscount` | all counts are exact iff `SplitsUncolored` |
| `CountsExact` | `SplitsUncolored` and `Spec` imply `[]UncoloredCountExact` |
| `NoAssertionFails` | `SplitsUncolored`, `grainSize >= 0` and `Spec` imply `[]AssertionsHold` |
| `RefusalsJustified` | `NestedIDs` and `Spec` imply `[]RefusedOnlyDoomed` |
| `ChildlessNeedsOneColor` | `chromaticNum_ > 1` implies `NoneChildless` |
| `NobodyWaitsInVain` | `chromaticNum_ > 1`, `NestedIDs` and `Spec` imply `[]WaitHasReason` |

**Assumptions.** `GraphAssumption` of `ColorState` (a symmetric graph without loops and
double edges; `StartUpProofs` proves it of what is drawn or read). `ChareAssumption`:
`chares` is the tree of the input graph. `OptionAssumption`: `chromaticNum_ > 0`, as a root
without any colour would report its dead end to a parent that is not there. TLC
evaluates them on every run of `GraphColor`. The hypotheses of single theorems are what
the findings are about: `SplitsUncolored` (no coloured vertex in a graph that
`colorRemotely` splits) is finding 1, and holds in `squares`, `cliques` and `prism` but not
in `overcount`; a negative grain size is what small files get; `NestedIDs` is finding 2, and
is about the IDs that the code makes, `std::to_string` of each child number behind the other
whatever its length (`Significant`, `to_string`); one colour is finding 3. The lemma
`RootSplitsNest` gives `NestedIDs` when no chare but the root splits its graph
(`OnlyRootSplits`, as in `squares` and `cliques`). Where a colouring is concerned no hypothesis is needed: a
miscount may end the job with an assertion, but never makes an answer wrong.

**The argument** has five parts.

- *The local search, with counts that are too high.* Below a split `uncolored_num_` may
  exceed the number of vertices left. `Wide` says of a node that it is right but for
  that. `LoopDrops` shows that from a wide node on top of the stack the loop finds
  a proper colouring, or comes to the rest of the stack and there was none, or trips, and
  that only if the count was wrong (`ColorLocallyRight`). It follows the nesting
  of the search, by the least number of uncoloured vertices for which it fails.
- *The tree.* Every message is `Good`: its state is sound, its count not too low. A
  chare sends good messages of less `Weight` (vertices in scope and vertices left), so
  what descends from a message is a finite tree in which each chare has a name of its
  own (`GoodSpans`, `NodesAre`, `ChildrenAre`), and `Value`, defined by recursion over
  it, satisfies its equation (`ValueEquation`). These are the assumptions of
  `SearchTree` (`TreeGiven`), so all of `SearchTreeProofs` holds. The program's instance `T`
  and the instance `TP` of the theorems are shown to be the same by `SameActions`,
  `SameOperators` and `SameCounting`.
- *What children are worth.* `AndChildren`: the parts of a split are disjoint, closed under
  neighbours in scope, cover what is left, and each can be coloured if the whole can.
  `OrChildren`: if the state can be completed, so can that of a child.
- *The merge.* `MergeGrows`: an answer coloured in one part fits what the parent has made
  of the others, whatever came first; the result is sound and only has grown. `AndDone`
  and `RemovedPutBack`: when all are in, everything is coloured, and vertices
  removed before the split still find a colour.
- *The steps.* `Inv` is `SearchTree`'s inductive invariant together with `StatesRight`: a
  chare that has not begun has the state it was constructed with; one that waits
  has merged just the answers its counters count (`Waiting`: an OR chare failures only, an
  AND chare those parts that are coloured in it and no others); one that is done has a
  proper and complete colouring, or its seed has none (`Answered`). `RepliesExact` is
  not inductive, since what a merge makes depends on all merges before it. `Settles`
  is the step of `mergeToParent`: from `Inv`, its assertions hold and its result is as
  `Inv` says.

`SplitsUncolored` is carried from chare to chare by `CountsInherited`, an induction over
the length of names: the root's count is right, an OR chare hands on a right count if
it has one, an AND chare counts all it hands on. `CountsTellSplits` is the
converse. `UnforcedTries` is why an OR chare has a child: the vertex it branches on has
the fewest colours of all, so if it has any and no vertex has exactly one, then
all neighbours have two, and no colour takes away the last.

### Priorities

`PriorityProofs` proves about `Priority`, for words of every width, trees of every
depth up to that bound and every number of children on the way:

| theorem | statement |
|---|---|
| `WordsFit` | `Spec => []TypeOK`: as many words as bits need, and no undefined shift |
| `WordsHoldThePath` | `Spec => []PathEncoded` |
| `BranchesInOrder` | `Spec => []TreeOrder` |

**Assumptions.** `KidAssumption`: the number of a child takes less than a word. In the
code the number of children is an `int`, at most 2^31 - 1, whose numbers take at most
31 bits of a word of 32; with as many bits as a word `getPriorityInfo` would shift by
the width of the word. `DepthAssumption`: `1 + MaxDepth * (CkIntbits - 1) < UShortRange`.
The invariant keeps count (`FewBits`, `RoomBelow`), so that the reduction modulo
`UShortRange` in `getPriorityInfo` is proved to change nothing (`NoWrap`); a deeper tree,
whose count would wrap, is not covered. TLC evaluates both on run `priority`.

**The invariant.** `ChareOK` of either chare: its words `Spells` the bits of its path.
`TreeOrder` is not inductive, as words do not tell where bits end; `Apart` says that
the *bits* of the two chares differ at some position, first in favour of `left`. What
is appended to either keeps that (`BeforeKept`), and `ChildrenApart` is where it
begins: of two numbers the greater has the highest bit in which they differ
(`HighestBit`), and both are written with the bits that the number of siblings takes.
`LaterChild` goes through the cases of `getPriorityInfo`: with u bits of the last word
in use, the k bits of a number fit behind them, or begin a new word, or are split by
two shifts whose distances depend on both; in each case every bit of the old words, of
the split word and of the new one is compared with the path. `BeforeIsUrgent` goes back
from bits to the order of words by which messages are taken.

### The MPI program

`JonesPlassmannProofs` proves about `JonesPlassmann`, for every graph, every number
of vertices and processes, all weights, equal ones included, and any number of
rounds (`InputAssumption`: the graph is symmetric and without loops):

| theorem | statement |
|---|---|
| `Typing` | `Spec => []TypeOK` |
| `AlwaysProper` | `Spec => []ViewsProper` |
| `OneView` | `Spec => []ViewsAgree` |
| `OwnWork` | `Spec => []OwnWorkKept` |
| `OnTheirTurn` | `Spec => []ColoredOnTime` |
| `Greedy` | `Spec => KeepsPromise`: the program implements `GreedyColoring` |

The argument has four parts.

- *The partition.* `first_v` and `last_v` are written by cases on a remainder; both
  are one function `Begin` that rises from 0 to V (`FirstAndLast`, `BeginRises`).
  `Offsets` shows that the recursively defined `vertex_offsets` is `first_v`, by the
  least process at which they differ. Hence no vertex has two owners (`Partition`).
- *The least colour.* `MinColor` looks for the first gap in a set of colours;
  `LeastColor` shows that what it returns is free and that all less is taken, for
  every finite set (least and greatest elements come from the well-foundedness of
  inclusion on finite sets).
- *The round.* `ViewsProper` is not inductive: the colours of a round are chosen by
  processes that know nothing of each other and are on their way when it ends.
  `Invariant` says where they are (`WorkFits`: chosen, sent, or come back), that the
  root is at most a round ahead (`InStep`), that all decide by the same weights and
  graph (`SameInput`), and that what is in flight belongs to the present round
  (`MessagesFit`). `RoundOutcome` then tells what the root gathers, `MaximaIndependent`
  that no two neighbours win, and `RoundPaints` that the round is a step of
  `GreedyColoring`, from which properness and the refinement both follow.
- *The turn of a vertex.* `Height` is defined by recursion over the graph along rising
  weights. `CountsExist` builds such a function from the heaviest vertices down, so
  that `Height` satisfies its equation (`HeightCounts`). If neighbours differ in weight,
  a vertex is then a maximum just in the round after the last of those above it was
  coloured (`GatherOnTime`). A process that has not started knows no colour
  (`Unstarted`), which makes `ColoredOnTime` inductive.

## 6. What is not covered

- *Only model-checked:* liveness (`JobEnds`, `Answers`, `AllFinish`: the provers have no
  ENABLED); `UncoloredCountExact` and `AssertionsHold` on graphs that are split below an
  OR chare, where finding 1 makes them fail; `RefusedOnlyDoomed` and `WaitHasReason`
  where IDs do not nest, for the same reason (finding 2).
- *Abstracted:* time (a timeout may strike whenever the code looks at the clock);
  the placement of chares and the order in which messages are taken (any PE, any
  order: priorities only narrow that, and nothing else depends on them); messages'
  contents beyond the state; statistics of a vertex, printing, `coloredGraph.txt`.
- *Taken from Charm++ and MPI as used:* exactly-once delivery, entry methods run to
  completion, `CkExit` takes effect some time later, a failed `CkAssert` ends the
  job, n-th collective call matched with n-th. `CkAssert` is modelled as in a build
  with assertions. With a timeout of 0 only safety is covered, and by the proofs.

### Not modelled

- *Command line, transfer of the python object, output files:* input and output.
  Options are constants.
- *Pup of the colouring state:* a round trip of fields; the models send the state.
- *`subgraphGen`, JSON files, viewer:* imported by nothing, or drawing.
- *`preColor`, `colorClique3`:* dead code, the only call is commented out.
- *`python_kit` and `graph_files/translate`:* vendored headers of Python and
  translators of DIMACS files. They are the larger part of the repository's lines of
  code by far and contain nothing of the program.

## 7. Plan

Done: the tree protocol, the colouring algorithms, the sequential search, the
composition, start-up, priorities and the MPI program, and the proofs of all of them,
with the IDs that `std::to_string` makes and any order of equal elements in a queue.
Left open: priorities of trees so deep that their bits wrap, files that list an edge in
one direction only, and liveness beyond the instances of the runs.
