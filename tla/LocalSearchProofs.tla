---------------------------- MODULE LocalSearchProofs ----------------------------
(***************************************************************************)
(* The search of one chare, for every graph it may be given, every number  *)
(* of colours, every timeout: it keeps count of what is left, never trips  *)
(* over an assertion, loses no colouring, and answers rightly.             *)
(***************************************************************************)
EXTENDS LocalSearch, StartUpProofs, TLAPS

\* What ColorStateProofs shows of the algorithms, on the graph of the chare.
C == INSTANCE ColorStateProofs

-----------------------------------------------------------------------------
(* LocalSearch and ColorStateProofs each have an instance of ColorState, on *)
(* the same graph: its operators are the same in both.                     *)

\* The sets, and what is asked of a state.
LEMMA SameSets ==
  /\ \A S : C!Cardinality(S) = Cardinality(S)
  /\ C!Vertex = Vertex /\ C!Color = Color /\ C!State = State /\ C!StackNode = StackNode
  /\ C!InitialState = InitialState
  /\ \A v : C!Ngbrs(v) = Ngbrs(v)
  /\ \A s : C!LiveVertices(s) = LiveVertices(s)
  /\ \A s, t : C!VerticesColored(s, t) = VerticesColored(s, t)
  /\ \A s : C!GetNextConstraintVertex(s) = GetNextConstraintVertex(s)
  /\ \A r, s : C!CompletesSeed(r, s) <=> CompletesSeed(r, s)
<1>1. \A S : C!Cardinality(S) = Cardinality(S)
  BY DEF Cardinality, C!Cardinality
<1>2. C!Vertex = Vertex /\ C!Color = Color
  BY DEF Vertex, C!Vertex, Color, C!Color
<1>3. C!State = State /\ C!StackNode = StackNode
  BY DEF State, Vertex, Color, StackNode, C!State, C!Vertex, C!Color, C!StackNode
<1>4. C!InitialState = InitialState
  BY DEF InitialState, Vertex, Color, C!InitialState, C!Vertex, C!Color
<1>5. \A v : C!Ngbrs(v) = Ngbrs(v)
  BY DEF Ngbrs, Range, C!Ngbrs, C!Range
<1>6. \A s : C!LiveVertices(s) = LiveVertices(s)
  BY DEF LiveVertices, Live, IsColored, IsOperationPermissible, Vertex,
         C!LiveVertices, C!Live, C!IsColored, C!IsOperationPermissible, C!Vertex
<1>7. \A s, t : C!VerticesColored(s, t) = VerticesColored(s, t)
  BY DEF VerticesColored, Uncolored, Vertex, IsColored, Cardinality,
         C!VerticesColored, C!Uncolored, C!Vertex, C!IsColored, C!Cardinality
<1>8. \A s : C!GetNextConstraintVertex(s) = GetNextConstraintVertex(s)
  BY DEF GetNextConstraintVertex, Cardinality, LiveVertices, Live, IsColored,
         IsOperationPermissible, Vertex, Min,
         C!GetNextConstraintVertex, C!Cardinality, C!LiveVertices, C!Live, C!IsColored,
         C!IsOperationPermissible, C!Vertex, C!Min
<1>9. \A r, s : C!CompletesSeed(r, s) <=> CompletesSeed(r, s)
  BY DEF CompletesSeed, InScope, Vertex, IsOperationPermissible, Color, IsColored, Ngbrs, Range,
         C!CompletesSeed, C!InScope, C!Vertex, C!IsOperationPermissible, C!Color, C!IsColored,
         C!Ngbrs, C!Range
<1> QED BY <1>1, <1>2, <1>3, <1>4, <1>5, <1>6, <1>7, <1>8, <1>9

\* The algorithms.
LEMMA SameAlgorithms ==
  /\ \A s : C!VertexRemoval(s) = VertexRemoval(s)
  /\ \A s, v, c : C!UpdateState(s, v, c, TRUE) = UpdateState(s, v, c, TRUE)
  /\ \A s, v : C!GetValueOrderingOfColors(s, v) = GetValueOrderingOfColors(s, v)
  /\ \A d, s : C!MergeRemovedVerticesBack(d, s) = MergeRemovedVerticesBack(d, s)
  /\ \A d, s : C!MergedBack(d, s) <=> MergedBack(d, s)
  /\ \A n : C!SearchStep(n) = SearchStep(n)
  /\ \A r, s : C!Completable(r, s) <=> Completable(r, s)
<1>1. \A s : C!VertexRemoval(s) = VertexRemoval(s)
  BY DEF VertexRemoval, RemovalLoop, Removal, State, Vertex, Color, PopWorklist, Min, Removable,
         GetUncoloredNgbr, Ngbrs, Range, Live, IsColored, IsOperationPermissible, Cardinality,
         LiveVertices, C!VertexRemoval, C!RemovalLoop, C!Removal, C!State, C!Vertex, C!Color,
         C!PopWorklist, C!Min, C!Removable, C!GetUncoloredNgbr, C!Ngbrs, C!Range, C!Live,
         C!IsColored, C!IsOperationPermissible, C!Cardinality, C!LiveVertices
<1>2. \A s, v, c : C!UpdateState(s, v, c, TRUE) = UpdateState(s, v, c, TRUE)
  BY DEF UpdateState, Live, IsColored, IsOperationPermissible, ForcedMoves, Forcing, State,
         Vertex, Color, LookAt, Paint, Ngbrs, Range, Cardinality, C!UpdateState, C!Live,
         C!IsColored, C!IsOperationPermissible, C!ForcedMoves, C!Forcing, C!State, C!Vertex,
         C!Color, C!LookAt, C!Paint, C!Ngbrs, C!Range, C!Cardinality
<1>3. \A s, v : C!GetValueOrderingOfColors(s, v) = GetValueOrderingOfColors(s, v)
  BY DEF GetValueOrderingOfColors, Possible, Ngbrs, Range, Live, IsColored,
         IsOperationPermissible, LeftTo, Cardinality, PopOrder, Color,
         C!GetValueOrderingOfColors, C!Possible, C!Ngbrs, C!Range, C!Live, C!IsColored,
         C!IsOperationPermissible, C!LeftTo, C!Cardinality, C!PopOrder, C!Color
<1>4. \A d, s : C!MergeRemovedVerticesBack(d, s) = MergeRemovedVerticesBack(d, s)
  BY DEF MergeRemovedVerticesBack, MergeLoop, Merging, State, Vertex, Color, PutBack, Min,
         UpdateState, Live, IsColored, IsOperationPermissible, ForcedMoves, Forcing, LookAt,
         Paint, Ngbrs, Range, Cardinality, Last, Front, C!MergeRemovedVerticesBack,
         C!MergeLoop, C!Merging, C!State, C!Vertex, C!Color, C!PutBack, C!Min, C!UpdateState,
         C!Live, C!IsColored, C!IsOperationPermissible, C!ForcedMoves, C!Forcing, C!LookAt,
         C!Paint, C!Ngbrs, C!Range, C!Cardinality, C!Last, C!Front
<1>5. \A d, s : C!MergedBack(d, s) <=> MergedBack(d, s)
  BY DEF MergedBack, Range, C!MergedBack, C!Range
<1>6. \A n : C!SearchStep(n) = SearchStep(n)
  BY <1>1, <1>2, <1>3, <1>4, <1>5, SameSets DEF SearchStep, C!SearchStep
<1>7. \A r, s : C!Completable(r, s) <=> Completable(r, s)
  BY DEF Completable, InScope, Vertex, IsOperationPermissible, Ngbrs, Range, IsColored,
         Completes, Color, Min, C!Completable, C!InScope, C!Vertex, C!IsOperationPermissible,
         C!Ngbrs, C!Range, C!IsColored, C!Completes, C!Color, C!Min
<1> QED BY <1>1, <1>2, <1>3, <1>4, <1>5, <1>6, <1>7

\* The input does not change, and what is said of states is about nothing else.
LEMMA SameInput ==
  ASSUME UNCHANGED input
  PROVE  /\ State' = State /\ StackNode' = StackNode /\ InitialState' = InitialState
         /\ C!GraphAssumption' <=> C!GraphAssumption
         /\ \A s : C!Sound(s)' <=> C!Sound(s)
         /\ \A s, t : C!Solvable(s, t)' <=> C!Solvable(s, t)
         /\ \A s, t : CompletesSeed(s, t)' <=> CompletesSeed(s, t)
         /\ \A s, t : Completable(s, t)' = Completable(s, t)
         /\ \A s, b, n : C!NodeOK(s, b, n)' <=> C!NodeOK(s, b, n)
<1>1. State' = State /\ StackNode' = StackNode /\ InitialState' = InitialState
  BY DEF input, State, StackNode, Vertex, Color, InitialState
<1>2. C!GraphAssumption' <=> C!GraphAssumption
  BY DEF input, C!GraphAssumption, C!Vertex, C!Ngbrs, C!Range, C!IsInjective
<1>3. \A s : C!Sound(s)' <=> C!Sound(s)
  BY DEF input, C!State, C!Vertex, C!Color, C!Sound, C!Exact, C!Proper, C!IsColored, C!Ngbrs,
         C!Range
<1>4. \A s, t : C!Solvable(s, t)' <=> C!Solvable(s, t)
  BY DEF input, C!Solvable, C!Solves, C!InScope, C!IsOperationPermissible, C!Vertex, C!Color,
         C!IsColored, C!Ngbrs, C!Range, C!Assignment
<1>5. \A s, t : CompletesSeed(s, t)' <=> CompletesSeed(s, t)
  BY DEF input, CompletesSeed, InScope, IsOperationPermissible, Vertex, Color, IsColored, Ngbrs,
         Range
<1>6. ASSUME NEW s, NEW b, NEW n
      PROVE  C!NodeOK(s, b, n)' <=> C!NodeOK(s, b, n)
  <2>1. C!Held(s.onStack, n.state, b \o n.removed)' <=> C!Held(s.onStack, n.state, b \o n.removed)
    BY DEF input, C!Held, C!Vertex, C!IsColored, C!Ngbrs, C!Range, C!IsInjective, C!Rivals
  <2>2. C!LiveVertices(n.state)' = C!LiveVertices(n.state)
    BY DEF C!LiveVertices, C!Vertex, C!Live, C!IsColored, C!IsOperationPermissible
  <2> QED BY <1>3, <2>1, <2>2 DEF C!NodeOK, C!Keeps, C!Live, C!IsOperationPermissible, C!Vertex, C!IsColored
<1>7. \A s, t : Completable(s, t)' = Completable(s, t)
  BY DEF input, Completable, Completes, InScope, IsColored, IsOperationPermissible, Vertex, Color,
         Ngbrs, Range, Min
<1> QED BY <1>1, <1>2, <1>3, <1>4, <1>5, <1>6, <1>7

-----------------------------------------------------------------------------
(* The graph. *)

\* Every graph that is drawn or read is simple.
LEMMA GraphsSimple ==
  ASSUME NEW adj \in Graphs
  PROVE  SimpleGraph(vertices_, adj)
<1>1. ASSUME NEW d \in Draws
      PROVE  SimpleGraph(vertices_, generate(vertices_, d.edges, d.pairs))
  BY InputAssumption, GeneratedSimple DEF Keys
<1>2. ASSUME NEW lines \in Files
      PROVE  SimpleGraph(vertices_, parseInputFile(lines))
  <2> DEFINE E == {lines[i] : i \in DOMAIN lines}
  <2>1. /\ vertices_ \in Nat /\ lines \in Seq((1..vertices_) \X (1..vertices_))
        /\ \A i, j \in DOMAIN lines : lines[i] = lines[j] => i = j
        /\ \A e \in E : e[1] # e[2] /\ <<e[2], e[1]>> \in E
        /\ \A v \in 1..vertices_ : \E e \in E : e[1] = v
    BY InputAssumption
  <2>2. \A i \in DOMAIN lines : /\ lines[i][1] # lines[i][2]
                                /\ \E j \in DOMAIN lines : lines[j] = <<lines[i][2], lines[i][1]>>
    <3> TAKE i \in DOMAIN lines
    <3>1. lines[i] \in E
      OBVIOUS
    <3>2. lines[i][1] # lines[i][2] /\ <<lines[i][2], lines[i][1]>> \in E
      BY <2>1, <3>1
    <3>3. \E j \in DOMAIN lines : lines[j] = <<lines[i][2], lines[i][1]>>
      BY <3>2
    <3> QED BY <3>2, <3>3
  <2>3. \A v \in 1..vertices_ : \E i \in DOMAIN lines : lines[i][1] = v
    BY <2>1
  <2> QED BY <2>1, <2>2, <2>3, FileSimple
<1> QED BY <1>1, <1>2 DEF Graphs

\* So the graph of the chare is as all the algorithms take it to be.
LEMMA InputGraph ==
  ASSUME adjList_ \in Graphs, chromaticNum_ \in ColorNums
  PROVE  C!GraphAssumption /\ GraphRead /\ adjList_ \in [Vertex -> Seq(Vertex)]
<1>1. SimpleGraph(vertices_, adjList_)
  BY GraphsSimple
<1>2. /\ adjList_ \in [Vertex -> Seq(Vertex)]
      /\ \A v \in Vertex : IsInjective(adjList_[v]) /\ v \notin Ngbrs(v)
      /\ \A u, v \in Vertex : u \in Ngbrs(v) <=> v \in Ngbrs(u)
  BY <1>1 DEF SimpleGraph, Keys, Vertex, Ngbrs
<1>3. C!GraphAssumption
  BY <1>2, InputAssumption, OptionAssumption
     DEF C!GraphAssumption, C!Vertex, C!Ngbrs, C!Range, C!IsInjective, Vertex, Ngbrs, Range, IsInjective
<1>4. GraphRead
  <2>1. \A v \in Vertex : Ngbrs(v) \subseteq Vertex
    BY <1>2, ElementOfSeq DEF Ngbrs, Range
  <2> QED BY <1>2, <2>1 DEF GraphRead
<1> QED BY <1>2, <1>3, <1>4

-----------------------------------------------------------------------------
(* The creation messages that reach a chare. *)

\* What OrMessages[m] steps through next.
SentNext(m) == OrSent(Constructed(m.seed, m.uncolored))

\* A message whose state is sound, and which counts its live vertices.
MessageOK(m) ==
  m \in Creation /\ C!Sound(m.seed) /\ m.uncolored = Cardinality(LiveVertices(m.seed))

\* Messages lead to messages, sound or not.
LEMMA SentNextType ==
  ASSUME C!GraphAssumption, NEW m \in Creation
  PROVE  SentNext(m) \subseteq Creation
<1> DEFINE c == Constructed(m.seed, m.uncolored)
           v == GetNextConstraintVertex(c.state)
           sent(k) == [seed |-> UpdateState(c.state, v, k, TRUE),
                       uncolored |-> c.left - VerticesColored(c.state, UpdateState(c.state, v, k, TRUE))]
<1>1. m.seed \in State /\ m.uncolored \in Int
  BY DEF Creation
<1>2. c.state \in C!State /\ c.left \in Int
  <2> DEFINE r == C!VertexRemoval(m.seed)
  <2>1. r.state \in C!State /\ r.deleted \in Seq(C!Vertex)
    BY <1>1, SameSets, C!VertexRemovalRemoves
  <2>2. c.state = r.state /\ c.left = m.uncolored - Len(r.deleted)
    BY SameAlgorithms DEF Constructed
  <2> HIDE DEF r, c
  <2>3. Len(r.deleted) \in Nat
    BY <2>1, LenProperties
  <2> QED BY <1>1, <2>1, <2>2, <2>3
<1>3. SentNext(m) = IF v = -1 THEN {} ELSE {sent(k) : k \in Range(GetValueOrderingOfColors(c.state, v))}
  BY DEF SentNext, OrSent
<1> HIDE DEF c
<1>4. ASSUME v # -1, NEW k \in Range(GetValueOrderingOfColors(c.state, v))
      PROVE  sent(k) \in Creation
  <2> DEFINE s == c.state
             n == c.left
             w == C!GetNextConstraintVertex(s)
             t == C!UpdateState(s, w, k, TRUE)
  <2>1. w = v /\ t = UpdateState(s, v, k, TRUE) /\ C!VerticesColored(s, t) = VerticesColored(s, t)
    BY SameSets, SameAlgorithms
  <2>2. k \in C!Range(C!GetValueOrderingOfColors(s, w)) /\ w # -1
    BY <1>4, <2>1, SameAlgorithms DEF Range, C!Range
  <2>3. s \in C!State /\ n \in Int
    BY <1>2
  <2> HIDE DEF s, n
  <2>4. t \in C!State /\ n - C!VerticesColored(s, t) \in Int
    BY <2>2, <2>3, C!SentType
  <2> QED BY <2>1, <2>4, SameSets DEF Creation, s, n
<1> HIDE DEF sent, v
<1> QED BY <1>3, <1>4

\* The equation of OrMessages.
LEMMA OrMessagesEquation ==
  ASSUME C!GraphAssumption
  PROVE  \A m \in Creation : OrMessages[m] = {m} \cup UNION {OrMessages[k] : k \in SentNext(m)}
<1> DEFINE next == [m \in Creation |-> SentNext(m)]
<1>1. next \in [Creation -> SUBSET Creation]
  BY SentNextType
<1>2. PICK f : Branching(f, Creation, next)
  <2> HIDE DEF next
  <2> QED BY <1>1, TreeRecursion
<1>3. \A m \in Creation : f[m] = {m} \cup UNION {f[k] : k \in SentNext(m)}
  BY <1>2 DEF Branching
<1>4. f = [m \in Creation |-> {m} \cup UNION {f[k] : k \in SentNext(m)}]
  BY <1>2, <1>3 DEF Branching
<1> DEFINE g == CHOOSE g : g = [m \in Creation |-> {m} \cup UNION {g[k] : k \in SentNext(m)}]
<1>5. OrMessages = g
  BY DEF OrMessages, SentNext
<1>6. g = [m \in Creation |-> {m} \cup UNION {g[k] : k \in SentNext(m)}]
  BY <1>4
<1> HIDE DEF g
<1>7. \A m \in Creation : g[m] = {m} \cup UNION {g[k] : k \in SentNext(m)}
  BY <1>6
<1> QED BY <1>5, <1>7

\* What a chare is constructed with, from a message that counts its live vertices.
LEMMA ConstructedRight ==
  ASSUME C!GraphAssumption, NEW m, MessageOK(m)
  PROVE  LET c == Constructed(m.seed, m.uncolored)
         IN /\ C!NodeOK(m.seed, c.deleted, [state |-> c.state, uncolored |-> c.left, removed |-> <<>>])
            /\ c.state.color = m.seed.color /\ c.state \in State /\ c.deleted \in Seq(Vertex)
            /\ c.left = Cardinality(LiveVertices(c.state))
            /\ Cardinality(LiveVertices(c.state)) <= Cardinality(LiveVertices(m.seed))
<1> DEFINE c == Constructed(m.seed, m.uncolored)
           r == C!VertexRemoval(m.seed)
           left == C!Cardinality(C!LiveVertices(m.seed)) - Len(r.deleted)
           n == [state |-> r.state, uncolored |-> left, removed |-> <<>>]
<1>1. C!Sound(m.seed) /\ m.uncolored = C!Cardinality(C!LiveVertices(m.seed))
  BY SameSets DEF MessageOK
<1>2. /\ C!NodeOK(m.seed, r.deleted, n)
      /\ r.state.color = m.seed.color /\ r.state \in C!State /\ r.deleted \in Seq(C!Vertex)
      /\ C!Cardinality(C!LiveVertices(r.state)) <= C!Cardinality(C!LiveVertices(m.seed))
  BY <1>1, C!ConstructedNode
<1>3. c.state = r.state /\ c.deleted = r.deleted /\ c.left = left
  BY <1>1, SameAlgorithms DEF Constructed
<1>4. left = C!Cardinality(C!LiveVertices(r.state))
  <2>1. n.state = r.state /\ n.uncolored = left
    OBVIOUS
  <2> HIDE DEF n, left, r
  <2> QED BY <1>2, <2>1 DEF C!NodeOK
<1> HIDE DEF c, r, left
<1> QED BY <1>2, <1>3, <1>4, SameSets DEF c

\* A chare that counts its live vertices sends messages that do, and they have
\* fewer.
LEMMA SentNextRight ==
  ASSUME C!GraphAssumption, NEW m, MessageOK(m), NEW k \in SentNext(m)
  PROVE  MessageOK(k) /\ Cardinality(LiveVertices(k.seed)) < Cardinality(LiveVertices(m.seed))
<1> DEFINE c == Constructed(m.seed, m.uncolored)
           s == c.state
           v == C!GetNextConstraintVertex(s)
           t(x) == C!UpdateState(s, v, x, TRUE)
           n == [state |-> s, uncolored |-> c.left, removed |-> <<>>]
<1>1. /\ C!NodeOK(m.seed, c.deleted, n) /\ s \in State
      /\ c.left = Cardinality(LiveVertices(s))
      /\ Cardinality(LiveVertices(s)) <= Cardinality(LiveVertices(m.seed))
  BY ConstructedRight
<1>2. C!Sound(s)
  <2>1. n.state = s
    OBVIOUS
  <2> HIDE DEF n, s
  <2> QED BY <1>1, <2>1 DEF C!NodeOK
<1>3. PICK x \in C!Range(C!GetValueOrderingOfColors(s, v)) :
        v # -1 /\ k.seed = t(x) /\ k.uncolored = c.left - C!VerticesColored(s, t(x))
  <2>1. v = GetNextConstraintVertex(s) /\ \A x : t(x) = UpdateState(s, v, x, TRUE)
    BY SameSets, SameAlgorithms
  <2>2. \A x : C!VerticesColored(s, t(x)) = VerticesColored(s, t(x))
    BY SameSets
  <2>3. C!Range(C!GetValueOrderingOfColors(s, v)) = Range(GetValueOrderingOfColors(s, v))
    BY SameAlgorithms DEF Range, C!Range
  <2>4. PICK x \in Range(GetValueOrderingOfColors(s, GetNextConstraintVertex(s))) :
          /\ GetNextConstraintVertex(s) # -1
          /\ k = [seed |-> UpdateState(s, GetNextConstraintVertex(s), x, TRUE),
                  uncolored |-> c.left - VerticesColored(s, UpdateState(s, GetNextConstraintVertex(s), x, TRUE))]
    <3> HIDE DEF c
    <3> QED BY DEF SentNext, OrSent, c
  <2> HIDE DEF s, v, t, c
  <2> QED BY <2>1, <2>2, <2>3, <2>4
<1> HIDE DEF s, c, n
<1>4. /\ C!Sound(t(x))
      /\ C!Cardinality(C!LiveVertices(s)) - C!VerticesColored(s, t(x)) = C!Cardinality(C!LiveVertices(t(x)))
      /\ C!Cardinality(C!LiveVertices(t(x))) < C!Cardinality(C!LiveVertices(s))
  BY <1>2, <1>3, C!SentOn
<1> HIDE DEF t
<1>5. /\ k.uncolored = Cardinality(LiveVertices(k.seed)) /\ C!Sound(k.seed)
      /\ Cardinality(LiveVertices(k.seed)) < Cardinality(LiveVertices(s))
  BY <1>1, <1>3, <1>4, SameSets
<1>6. k \in Creation
  BY SentNextType DEF MessageOK
<1>7. /\ Cardinality(LiveVertices(s)) \in Nat /\ Cardinality(LiveVertices(m.seed)) \in Nat
      /\ Cardinality(LiveVertices(k.seed)) \in Nat
  <2>1. \A q : LiveVertices(q) \in SUBSET C!Vertex
    BY SameSets DEF LiveVertices
  <2> QED BY <2>1, SameSets, C!FiniteParts
<1> QED BY <1>1, <1>5, <1>6, <1>7 DEF MessageOK

\* All messages that descend from one that counts its live vertices do.
LEMMA OrMessagesRight ==
  ASSUME C!GraphAssumption, NEW m, MessageOK(m), NEW k \in OrMessages[m]
  PROVE  MessageOK(k)
<1> DEFINE size == [q \in Creation |-> Cardinality(LiveVertices(q.seed))]
           Wrong == {q \in Creation : MessageOK(q) /\ \E l \in OrMessages[q] : ~MessageOK(l)}
<1>1. size \in [Creation -> Nat]
  <2>1. \A q : LiveVertices(q) \in SUBSET C!Vertex
    BY SameSets DEF LiveVertices
  <2> QED BY <2>1, SameSets, C!FiniteParts
<1> SUFFICES ASSUME Wrong # {} PROVE FALSE
  BY DEF MessageOK
<1>2. PICK q : Least(q, Wrong, size)
  <2>1. Wrong \in SUBSET Creation /\ Wrong # {}
    OBVIOUS
  <2> HIDE DEF Wrong, size
  <2> QED BY <1>1, <2>1, LeastMeasure
<1>3. q \in Creation /\ MessageOK(q)
  BY <1>2 DEF Least
<1>4. PICK l \in OrMessages[q] : ~MessageOK(l)
  BY <1>2 DEF Least
<1>5. PICK p \in SentNext(q) : l \in OrMessages[p]
  BY <1>3, <1>4, OrMessagesEquation
<1>6. MessageOK(p) /\ p \in Creation /\ size[p] < size[q]
  BY <1>3, SentNextRight DEF MessageOK
<1>7. p \in Wrong
  BY <1>4, <1>5, <1>6
<1> QED BY <1>2, <1>6, <1>7 DEF Least

\* The root's message.
LEMMA RootMessage ==
  ASSUME C!GraphAssumption
  PROVE  MessageOK([seed |-> InitialState, uncolored |-> vertices_])
<1>1. C!Sound(InitialState) /\ Cardinality(LiveVertices(InitialState)) = vertices_
  BY C!InitialSound, SameSets
<1>2. InitialState \in State
  BY <1>1, SameSets DEF C!Sound
<1> QED BY <1>1, <1>2, InputAssumption DEF MessageOK, Creation

-----------------------------------------------------------------------------
(* The inductive invariant. *)

\* The input is one that Main may have read.
InputInv == adjList_ \in Graphs /\ chromaticNum_ \in ColorNums

\* The chare's own colouring state, as a node of its search.
OwnNode == [state |-> node_state_, uncolored |-> uncolored_num_, removed |-> <<>>]

\* Until the chare answers, its own state is the seed, and the vertices that its
\* constructor removed can all be put back.
ChareInv ==
  /\ C!Sound(seed)
  /\ node_state_ \in State /\ uncolored_num_ \in Nat /\ deletedV \in Seq(Vertex)
  /\ phase \in {"created", "searching", "waiting"} =>
       C!NodeOK(seed, deletedV, OwnNode) /\ node_state_.color = seed.color

\* What is on the stack can be searched, and what solves the seed solves some
\* node of it.
StackInv ==
  /\ stackForSequential \in Seq(StackNode)
  /\ \A n \in Nodes : C!NodeOK(seed, deletedV, n)
  /\ phase = "created" => stackForSequential = <<>>
  /\ phase \in {"searching", "waiting"} /\ C!Solvable(seed, seed) =>
       \E n \in Nodes : C!Solvable(seed, n.state)

\* The answer is right.
AnswerInv ==
  /\ fresh \in BOOLEAN /\ phase \in Phases \ {"tripped"}
  /\ phase = "found" => CompletesSeed(seed, node_state_) /\ C!Solvable(seed, seed)
  /\ phase = "failed" => ~C!Solvable(seed, seed)

IInv == InputInv /\ ChareInv /\ StackInv /\ AnswerInv

\* The invariant says that the graph is what the algorithms take it to be.
LEMMA InvariantGraph ==
  ASSUME InputInv
  PROVE  C!GraphAssumption /\ GraphRead
BY InputGraph DEF InputInv

\* It holds when the chare is created.
LEMMA InitInv == Init => IInv
<1> SUFFICES ASSUME Init PROVE IInv
  OBVIOUS
<1>1. InputInv
  BY DEF Init, InputInv
<1>2. C!GraphAssumption
  BY <1>1, InvariantGraph
<1> DEFINE root == [seed |-> InitialState, uncolored |-> vertices_]
<1>3. PICK m \in OrMessages[root] :
        LET c == Constructed(m.seed, m.uncolored)
        IN seed = m.seed /\ node_state_ = c.state /\ deletedV = c.deleted /\ uncolored_num_ = c.left
  BY DEF Init
<1>4. MessageOK(m)
  BY <1>2, <1>3, RootMessage, OrMessagesRight
<1>5. /\ C!NodeOK(seed, deletedV, OwnNode)
      /\ node_state_.color = seed.color /\ node_state_ \in State /\ deletedV \in Seq(Vertex)
      /\ uncolored_num_ = Cardinality(LiveVertices(node_state_))
  BY <1>2, <1>3, <1>4, ConstructedRight DEF OwnNode
<1>6. uncolored_num_ \in Nat
  <2>1. LiveVertices(node_state_) \in SUBSET C!Vertex
    BY SameSets DEF LiveVertices
  <2> QED BY <1>2, <1>5, <2>1, SameSets, C!FiniteParts
<1>7. C!Sound(seed)
  BY <1>3, <1>4 DEF MessageOK
<1>8. stackForSequential = <<>> /\ fresh = TRUE /\ phase = "created" /\ Nodes = {}
  BY DEF Init, Nodes
<1>9. stackForSequential \in Seq(StackNode)
  BY <1>8
<1> QED BY <1>1, <1>5, <1>6, <1>7, <1>8, <1>9 DEF IInv, ChareInv, StackInv, AnswerInv, Phases

\* An answer that the search has found is right, and no vertex is left over.
LEMMA FoundRight ==
  ASSUME C!GraphAssumption, ChareInv, NEW s \in State, C!FoundOK(seed, deletedV, s), Found(s)
  PROVE  /\ node_state_' \in State /\ phase' = "found"
         /\ CompletesSeed(seed, node_state_') /\ C!Solvable(seed, seed)
<1>1. C!Sound(seed) /\ seed \in C!State /\ deletedV \in Seq(C!Vertex) /\ s \in C!State
  BY SameSets DEF ChareInv, C!Sound
<1>2. node_state_' = C!MergeRemovedVerticesBack(deletedV, s)
  BY SameAlgorithms DEF Found
<1>3. /\ C!CompletesSeed(seed, node_state_') /\ C!MergedBack(deletedV, node_state_')
      /\ node_state_' \in C!State
  BY <1>1, <1>2, C!FoundCompletes
<1>4. phase' = "found"
  BY <1>3, SameAlgorithms DEF Found
<1>5. C!Solvable(seed, seed)
  BY <1>1, C!FoundSolvable
<1> QED BY <1>3, <1>4, <1>5, SameSets

\* What a step leaves alone, and what it keeps of the invariant.
LEMMA Frame ==
  ASSUME IInv, UNCHANGED <<input, seed, deletedV, uncolored_num_>>
  PROVE  /\ InputInv' /\ C!Sound(seed)' /\ (uncolored_num_ \in Nat)' /\ (deletedV \in Seq(Vertex))'
         /\ \A n : C!NodeOK(seed, deletedV, n)' <=> C!NodeOK(seed, deletedV, n)
         /\ \A s : C!Solvable(seed, s)' <=> C!Solvable(seed, s)
         /\ \A s : CompletesSeed(seed, s)' <=> CompletesSeed(seed, s)
<1>1. UNCHANGED input
  OBVIOUS
<1>2. InputInv'
  BY DEF IInv, InputInv, input
<1> QED BY <1>1, <1>2, SameInput DEF IInv, ChareInv, Vertex

-----------------------------------------------------------------------------
(* It is kept by every step. *)

\* colorLocally.
LEMMA ColorLocallyInv == IInv /\ ColorLocally => IInv'
<1> SUFFICES ASSUME IInv, ColorLocally PROVE IInv'
  OBVIOUS
<1>1. C!GraphAssumption /\ UNCHANGED <<input, seed, deletedV, uncolored_num_>>
  BY InvariantGraph DEF IInv, ColorLocally
<1>2. phase = "created" /\ ChareInv /\ StackInv /\ AnswerInv
  BY DEF IInv, ColorLocally
<1>3. /\ C!NodeOK(seed, deletedV, OwnNode) /\ node_state_.color = seed.color
      /\ OwnNode.state = node_state_ /\ OwnNode.removed = <<>> /\ OwnNode.uncolored = uncolored_num_
      /\ node_state_ \in State /\ stackForSequential = <<>>
  BY <1>2 DEF ChareInv, StackInv, OwnNode
<1>4. CASE uncolored_num_ = 0 /\ Found(node_state_) /\ UNCHANGED <<stackForSequential, fresh>>
  <2>1. seed \in C!State /\ deletedV \in Seq(C!Vertex)
    BY <1>2, SameSets DEF ChareInv, C!Sound
  <2>2. C!FoundOK(seed, deletedV, OwnNode.state)
    BY <1>1, <1>3, <1>4, <2>1, C!NothingLeft
  <2>3. /\ node_state_' \in State /\ phase' = "found"
        /\ CompletesSeed(seed, node_state_') /\ C!Solvable(seed, seed)
    BY <1>1, <1>2, <1>3, <1>4, <2>2, FoundRight
  <2>4. ChareInv'
    BY <1>1, <2>3, Frame, SameInput DEF ChareInv
  <2>5. StackInv'
    BY <1>1, <1>2, <1>4, <2>3, Frame, SameInput DEF StackInv, Nodes
  <2>6. AnswerInv'
    BY <1>1, <1>2, <1>4, <2>3, Frame DEF AnswerInv, Phases
  <2> QED BY <1>1, <2>4, <2>5, <2>6, Frame DEF IInv
<1>5. CASE /\ uncolored_num_ # 0 /\ fresh' = TRUE /\ phase' = "searching" /\ UNCHANGED node_state_
           /\ stackForSequential' = <<OwnNode>>
  <2>1. OwnNode \in StackNode
    BY <1>2, <1>3 DEF OwnNode, StackNode, ChareInv
  <2>2. stackForSequential' \in Seq(StackNode) /\ Nodes' = {OwnNode}
    BY <1>5, <2>1 DEF Nodes
  <2>3. C!Solvable(seed, seed) => C!Solvable(seed, OwnNode.state)
    BY <1>3 DEF C!Solvable, C!Solves, C!IsColored
  <2>4. OwnNode' = OwnNode
    BY <1>1, <1>5 DEF OwnNode
  <2>5. ChareInv'
    BY <1>1, <1>2, <1>3, <1>5, <2>4, Frame, SameInput DEF ChareInv
  <2>6. StackInv'
    BY <1>1, <1>3, <1>5, <2>2, <2>3, Frame, SameInput DEF StackInv
  <2>7. AnswerInv'
    BY <1>5 DEF AnswerInv, Phases
  <2> QED BY <1>1, <2>5, <2>6, <2>7, Frame DEF IInv
<1> QED BY <1>4, <1>5 DEF ColorLocally, OwnNode

\* A turn of the loop.
LEMMA IterateInv == IInv /\ Iterate => IInv'
<1> SUFFICES ASSUME IInv, Iterate PROVE IInv'
  OBVIOUS
<1> DEFINE top == Head(stackForSequential)
           rest == Tail(stackForSequential)
           step == SearchStep(top)
<1>1. C!GraphAssumption /\ UNCHANGED <<input, seed, deletedV, uncolored_num_>>
  BY InvariantGraph DEF IInv, Iterate
<1>2. phase = "searching" /\ ChareInv /\ StackInv /\ AnswerInv /\ fresh' = FALSE
  BY DEF IInv, Iterate
<1>3. /\ top \in StackNode /\ rest \in Seq(StackNode)
      /\ stackForSequential # <<>> /\ stackForSequential \in Seq(StackNode)
  BY <1>2, HeadTailProperties DEF StackInv, Iterate
<1>4. Nodes = {top} \cup {rest[i] : i \in DOMAIN rest}
  <2>1. DOMAIN stackForSequential = 1..Len(stackForSequential) /\ Len(stackForSequential) \in Nat
    BY <1>3, LenProperties
  <2>2. DOMAIN rest = 1..(Len(stackForSequential) - 1) /\ top = stackForSequential[1]
        /\ \A i \in DOMAIN rest : rest[i] = stackForSequential[i + 1]
    BY <1>3, <2>1, HeadTailProperties, LenProperties
  <2>3. Len(stackForSequential) >= 1
    BY <1>3, <2>1, EmptySeq
  <2>4. ASSUME NEW i \in 1..Len(stackForSequential)
        PROVE  stackForSequential[i] \in {top} \cup {rest[j] : j \in DOMAIN rest}
    <3>1. CASE i = 1
      BY <2>2, <3>1
    <3>2. CASE i # 1
      <4>1. i - 1 \in DOMAIN rest /\ stackForSequential[i] = rest[i - 1]
        BY <2>1, <2>2, <3>2
      <4> QED BY <4>1
    <3> QED BY <3>1, <3>2
  <2>5. ASSUME NEW j \in DOMAIN rest
        PROVE  rest[j] \in Nodes
    <3>1. j + 1 \in 1..Len(stackForSequential) /\ rest[j] = stackForSequential[j + 1]
      BY <2>1, <2>2
    <3> QED BY <2>1, <3>1 DEF Nodes
  <2>6. top \in Nodes
    BY <2>1, <2>2, <2>3 DEF Nodes
  <2> HIDE DEF top, rest
  <2> QED BY <2>1, <2>4, <2>5, <2>6 DEF Nodes
<1>5. seed \in C!State /\ deletedV \in Seq(C!Vertex) /\ C!NodeOK(seed, deletedV, top)
  BY <1>2, <1>4, SameSets DEF ChareInv, StackInv, C!Sound
<1>6. \/ step.outcome = "found" /\ C!FoundOK(seed, deletedV, step.state)
      \/ /\ step.outcome = "pushed" /\ step.nodes \in Seq(StackNode)
         /\ \A i \in 1..Len(step.nodes) : C!NodeOK(seed, deletedV, step.nodes[i])
         /\ C!Solvable(seed, top.state) => \E i \in 1..Len(step.nodes) : C!Solvable(seed, step.nodes[i].state)
  <2>1. step = C!SearchStep(top)
    BY SameAlgorithms
  <2> HIDE DEF step, top
  <2> QED BY <1>1, <1>5, <2>1, C!SearchStepRight, SameSets
<1>7. \/ step.outcome = "pushed" /\ stackForSequential' = step.nodes \o rest /\ UNCHANGED <<node_state_, phase>>
      \/ step.outcome = "found" /\ stackForSequential' = rest /\ Found(step.state)
      \/ step.outcome = "tripped"
  BY DEF Iterate, Push
<1> HIDE DEF step, top, rest
<1>8. CASE step.outcome = "pushed"
  <2>1. /\ step.nodes \in Seq(StackNode) /\ stackForSequential' = step.nodes \o rest
        /\ \A i \in 1..Len(step.nodes) : C!NodeOK(seed, deletedV, step.nodes[i])
        /\ C!Solvable(seed, top.state) => \E i \in 1..Len(step.nodes) : C!Solvable(seed, step.nodes[i].state)
        /\ UNCHANGED <<node_state_, phase>>
    BY <1>6, <1>7, <1>8
  <2>2. /\ stackForSequential' \in Seq(StackNode)
        /\ Nodes' = {step.nodes[i] : i \in 1..Len(step.nodes)} \cup {rest[i] : i \in DOMAIN rest}
    <3> DEFINE a == step.nodes
               d == rest
    <3>1. a \in Seq(StackNode) /\ d \in Seq(StackNode) /\ stackForSequential' = a \o d
      BY <1>3, <2>1
    <3> HIDE DEF a, d
    <3>2. a \o d \in Seq(StackNode)
      BY <3>1, ConcatProperties
    <3>3. Nodes' = Range(a \o d)
      BY <3>1 DEF Nodes, Range
    <3>4. Range(a \o d) = Range(a) \cup Range(d)
      BY <3>1, RangeConcatenation
    <3>5. Range(a) = {a[i] : i \in 1..Len(a)} /\ Range(d) = {d[i] : i \in DOMAIN d}
      BY <3>1, RangeEquality DEF Range
    <3> QED BY <3>1, <3>2, <3>3, <3>4, <3>5 DEF a, d
  <2>3. OwnNode' = OwnNode
    BY <1>1, <2>1 DEF OwnNode
  <2>4. ChareInv'
    BY <1>1, <1>2, <2>1, <2>3, Frame, SameInput DEF ChareInv
  <2>5. \A n \in Nodes' : C!NodeOK(seed, deletedV, n)
    BY <1>2, <1>4, <2>1, <2>2 DEF StackInv
  <2>6. C!Solvable(seed, seed) => \E n \in Nodes' : C!Solvable(seed, n.state)
    <3> SUFFICES ASSUME C!Solvable(seed, seed)
                 PROVE  \E n \in Nodes' : C!Solvable(seed, n.state)
      OBVIOUS
    <3>1. PICK n \in Nodes : C!Solvable(seed, n.state)
      BY <1>2 DEF StackInv
    <3>2. CASE n = top
      BY <2>1, <2>2, <3>1, <3>2
    <3>3. CASE n # top
      BY <1>4, <2>2, <3>1, <3>3
    <3> QED BY <3>2, <3>3
  <2>7. StackInv'
    BY <1>1, <1>2, <2>1, <2>2, <2>5, <2>6, Frame, SameInput DEF StackInv
  <2>8. AnswerInv'
    BY <1>2, <2>1 DEF AnswerInv, Phases
  <2> QED BY <1>1, <2>4, <2>7, <2>8, Frame DEF IInv
<1>9. CASE step.outcome = "found"
  <2>1. C!FoundOK(seed, deletedV, step.state) /\ stackForSequential' = rest /\ Found(step.state)
    BY <1>6, <1>7, <1>9
  <2>2. step.state \in State
    BY <2>1, SameSets DEF C!FoundOK, C!Sound
  <2>3. /\ node_state_' \in State /\ phase' = "found"
        /\ CompletesSeed(seed, node_state_') /\ C!Solvable(seed, seed)
    BY <1>1, <1>2, <2>1, <2>2, FoundRight
  <2>4. ChareInv'
    BY <1>1, <2>3, Frame, SameInput DEF ChareInv
  <2>5. Nodes' \subseteq Nodes
    BY <1>4, <2>1 DEF Nodes
  <2>6. StackInv'
    BY <1>1, <1>2, <1>3, <2>1, <2>3, <2>5, Frame, SameInput DEF StackInv
  <2>7. AnswerInv'
    BY <1>1, <1>2, <2>3, Frame DEF AnswerInv, Phases
  <2> QED BY <1>1, <2>4, <2>6, <2>7, Frame DEF IInv
<1> QED BY <1>6, <1>8, <1>9

\* The clock, and rerun().
LEMMA TimeOutInv == IInv /\ (TimeOut \/ Rerun) => IInv'
<1> SUFFICES ASSUME IInv, TimeOut \/ Rerun PROVE IInv'
  OBVIOUS
<1>1. /\ UNCHANGED <<input, seed, deletedV, uncolored_num_, node_state_, stackForSequential>>
      /\ phase \in {"searching", "waiting"} /\ phase' \in {"searching", "waiting"}
      /\ fresh' \in {fresh, TRUE}
  BY DEF TimeOut, Rerun
<1>2. ChareInv /\ StackInv /\ AnswerInv
  BY DEF IInv
<1>3. OwnNode' = OwnNode /\ Nodes' = Nodes
  BY <1>1 DEF OwnNode, Nodes
<1>4. ChareInv'
  BY <1>1, <1>2, <1>3, Frame, SameInput DEF ChareInv
<1>5. StackInv'
  BY <1>1, <1>2, <1>3, Frame, SameInput DEF StackInv
<1>6. AnswerInv'
  BY <1>1, <1>2 DEF AnswerInv, Phases
<1> QED BY <1>1, <1>4, <1>5, <1>6, Frame DEF IInv

\* The stack is empty: the seed cannot be solved.
LEMMA FailInv == IInv /\ Fail => IInv'
<1> SUFFICES ASSUME IInv, Fail PROVE IInv'
  OBVIOUS
<1>1. /\ UNCHANGED <<input, seed, deletedV, uncolored_num_, stackForSequential, fresh>>
      /\ phase = "searching" /\ stackForSequential = <<>>
  BY DEF Fail
<1>2. C!GraphAssumption /\ ChareInv /\ StackInv /\ AnswerInv
  BY InvariantGraph DEF IInv
<1>3. /\ C!NodeOK(seed, deletedV, OwnNode)
      /\ OwnNode.state = node_state_ /\ OwnNode.removed = <<>>
      /\ seed \in C!State /\ deletedV \in Seq(C!Vertex)
  BY <1>1, <1>2, SameSets DEF ChareInv, OwnNode, C!Sound
<1>4. Nodes = {} /\ Nodes' = {}
  BY <1>1 DEF Nodes
<1>5. ~C!Solvable(seed, seed)
  BY <1>1, <1>2, <1>4 DEF StackInv
<1>6. node_state_' \in State /\ phase' = "failed"
  <2>1. CASE seed = InitialState
    BY <1>2, <2>1 DEF Fail, ChareInv
  <2>2. CASE seed # InitialState
    <3>1. node_state_' = C!MergeRemovedVerticesBack(deletedV, OwnNode.state)
      BY <1>3, <2>2, SameAlgorithms DEF Fail
    <3>2. C!MergedBack(deletedV, node_state_') /\ node_state_' \in C!State
      BY <1>2, <1>3, <3>1, C!GivesUp
    <3> QED BY <2>2, <3>2, SameSets, SameAlgorithms DEF Fail
  <2> QED BY <2>1, <2>2
<1>7. ChareInv'
  BY <1>1, <1>6, Frame, SameInput DEF ChareInv
<1>8. StackInv'
  BY <1>1, <1>2, <1>4, <1>6, SameInput DEF StackInv
<1>9. AnswerInv'
  BY <1>1, <1>2, <1>5, <1>6, Frame DEF AnswerInv, Phases
<1> QED BY <1>1, <1>7, <1>8, <1>9, Frame DEF IInv

\* Every step keeps the invariant.
LEMMA NextInv == IInv /\ [Next]_vars => IInv'
<1>1. IInv /\ UNCHANGED vars => IInv'
  <2> SUFFICES ASSUME IInv, UNCHANGED vars PROVE IInv'
    OBVIOUS
  <2>1. /\ UNCHANGED <<input, seed, deletedV, uncolored_num_, node_state_, stackForSequential, fresh, phase>>
        /\ ChareInv /\ StackInv /\ AnswerInv
    BY DEF vars, IInv
  <2>2. OwnNode' = OwnNode /\ Nodes' = Nodes
    BY <2>1 DEF OwnNode, Nodes
  <2>3. ChareInv' /\ StackInv' /\ AnswerInv'
    BY <2>1, <2>2, Frame, SameInput DEF ChareInv, StackInv, AnswerInv
  <2> QED BY <2>1, <2>3, Frame DEF IInv
<1> QED BY <1>1, ColorLocallyInv, IterateInv, TimeOutInv, FailInv DEF Next

-----------------------------------------------------------------------------
(* What follows. *)

\* The invariant holds in every state, with a search on one graph from its start
\* to its answer.
THEOREM Invariant == Spec => []IInv
BY InitInv, NextInv, PTL DEF Spec

\* The chare's state and the nodes of its search are well-formed.
THEOREM TypeCorrect == Spec => []TypeOK
<1>1. IInv => TypeOK
  <2> SUFFICES ASSUME IInv PROVE TypeOK
    OBVIOUS
  <2>1. adjList_ \in [Vertex -> Seq(Vertex)]
    BY InputGraph DEF IInv, InputInv
  <2>2. seed \in State
    BY SameSets DEF IInv, ChareInv, C!Sound
  <2> QED BY <2>1, <2>2 DEF TypeOK, IInv, InputInv, ChareInv, StackInv, AnswerInv
<1> QED BY <1>1, Invariant, PTL

\* Whatever graph is drawn or read, it has no loop, no edge twice, and every edge
\* both ways (Utils.cpp:60-70, scripts/graphClass.py:29-39).
THEOREM GraphIsRead == Spec => []GraphRead
<1>1. IInv => GraphRead
  BY InvariantGraph DEF IInv
<1> QED BY <1>1, Invariant, PTL

\* uncolored_num_ is exact, for the chare and on every node of the stack.
THEOREM CountsAreExact == Spec => []CountsExact
<1>1. IInv => CountsExact
  <2> SUFFICES ASSUME IInv PROVE CountsExact
    OBVIOUS
  <2>1. ASSUME phase = "created"
        PROVE  uncolored_num_ = Cardinality(LiveVertices(node_state_))
    <3>1. C!NodeOK(seed, deletedV, OwnNode)
      BY <2>1 DEF IInv, ChareInv
    <3>2. OwnNode.state = node_state_ /\ OwnNode.uncolored = uncolored_num_
      BY DEF OwnNode
    <3> QED BY <3>1, <3>2, SameSets DEF C!NodeOK
  <2>2. ASSUME NEW n \in Nodes
        PROVE  n.uncolored = Cardinality(LiveVertices(n.state))
    BY SameSets DEF IInv, StackInv, C!NodeOK
  <2> QED BY <2>1, <2>2 DEF CountsExact
<1> QED BY <1>1, Invariant, PTL

\* A colouring that is found is proper, total, and keeps the colours of the seed.
THEOREM AnswersAreProper == Spec => []AnswerProper
<1>1. IInv => AnswerProper
  BY DEF IInv, AnswerInv, AnswerProper
<1> QED BY <1>1, Invariant, PTL

\* No CkAssert of the search or of the merges ever fails.
THEOREM NoAssertionFails == Spec => []NeverTrips
<1>1. IInv => NeverTrips
  BY DEF IInv, AnswerInv, NeverTrips
<1> QED BY <1>1, Invariant, PTL

\* The reference definition of a colouring that can be completed says that the
\* seed can be solved.
LEMMA SeedCompletable ==
  ASSUME IInv
  PROVE  Completable(seed, seed) <=> C!Solvable(seed, seed)
<1>1. C!GraphAssumption /\ C!Sound(seed)
  BY InvariantGraph DEF IInv, ChareInv
<1> QED BY <1>1, C!CompletableSolvable, SameAlgorithms

\* As long as the seed can be completed, some node on the stack can, over any
\* number of timeouts.
THEOREM StackKeeps == Spec => []StackKeepsSolution
<1>1. IInv => StackKeepsSolution
  <2> SUFFICES ASSUME IInv, phase \in {"searching", "waiting"}, Completable(seed, seed)
               PROVE  \E n \in Nodes : Completable(seed, n.state)
    BY DEF StackKeepsSolution
  <2>1. C!GraphAssumption /\ \A n \in Nodes : C!Sound(n.state)
    BY InvariantGraph DEF IInv, StackInv, C!NodeOK
  <2>2. PICK n \in Nodes : C!Solvable(seed, n.state)
    BY SeedCompletable DEF IInv, StackInv
  <2>3. Completable(seed, n.state)
    BY <2>1, <2>2, C!CompletableSolvable, SameAlgorithms
  <2> QED BY <2>3
<1> QED BY <1>1, Invariant, PTL

\* The root never fails with as many colours as Main estimates.
THEOREM EstimateIsEnough == Spec => []EstimateSuffices
<1>1. IInv => EstimateSuffices
  <2> SUFFICES ASSUME IInv, phase = "failed", seed = InitialState,
                      ~(chromaticNum_ < getConservativeChromaticNum(adjList_, init_s))
               PROVE  FALSE
    BY DEF EstimateSuffices
  <2> DEFINE k == getConservativeChromaticNum(adjList_, init_s)
  <2>1. C!GraphAssumption /\ SimpleGraph(vertices_, adjList_) /\ vertices_ \in Nat
        /\ chromaticNum_ \in Nat
    BY InvariantGraph, GraphsSimple, InputAssumption, OptionAssumption DEF IInv, InputInv
  <2>2. PICK f : ColorsGraph(f, vertices_, adjList_, k)
    BY <2>1, OptionAssumption, EstimateProper
  <2>3. k \in Int /\ k <= chromaticNum_
    BY <2>1, <2>2 DEF ColorsGraph
  <2> HIDE DEF k
  <2>4. /\ f \in [C!Vertex -> Nat]
        /\ \A v \in C!Vertex : f[v] \in 1..k /\ \A u \in C!Ngbrs(v) : f[u] # f[v]
    BY <2>2 DEF ColorsGraph, Keys, C!Vertex, C!Ngbrs, C!Range, Range
  <2> DEFINE g == [v \in C!Vertex |-> f[v] - 1]
  <2>5. g \in [C!Vertex -> C!Color]
    BY <2>1, <2>3, <2>4 DEF C!Color
  <2>6. \A v \in C!Vertex : \A u \in C!Ngbrs(v) : g[u] # g[v]
    <3> TAKE v \in C!Vertex
    <3> TAKE u \in C!Ngbrs(v)
    <3>1. u \in C!Vertex
      BY <2>1, C!Basics
    <3> QED BY <2>4, <3>1
  <2> HIDE DEF g
  <2>7. C!Solvable(C!InitialState, C!InitialState)
    BY <2>1, <2>5, <2>6, C!ColoringSolves
  <2> QED BY <2>7, SameSets DEF IInv, AnswerInv
<1> QED BY <1>1, Invariant, PTL

\* The chare implements the promise of a search: it answers at most once, with a
\* success if and only if its seed can be completed.
THEOREM PromiseKept == Spec => KeepsPromise
<1> DEFINE colorable == Completable(seed, seed)
           answer == CASE phase = "found" -> "success" [] phase = "failed" -> "failure"
                       [] OTHER -> "none"
<1>1. Init => Promise!Init
  BY DEF Init, Promise!Init, Completable
<1>2. IInv => (colorable <=> C!Solvable(seed, seed))
  BY SeedCompletable
<1>3. ASSUME IInv, IInv', (colorable <=> C!Solvable(seed, seed))', [Next]_vars
      PROVE  [Promise!Reply]_<<colorable, answer>>
  <2>1. UNCHANGED <<input, seed>> /\ colorable' = colorable
    <3>1. UNCHANGED <<input, seed>>
      BY <1>3 DEF Next, vars, ColorLocally, Iterate, TimeOut, Rerun, Fail
    <3> QED BY <3>1, SameInput
  <2>2. phase \in {"found", "failed"} => phase' = phase
    BY <1>3 DEF Next, vars, ColorLocally, Iterate, TimeOut, Rerun, Fail
  <2>3. (phase' = "found" => colorable') /\ (phase' = "failed" => ~colorable')
    BY <1>3 DEF IInv, AnswerInv
  <2> HIDE DEF colorable
  <2>4. CASE phase \in {"found", "failed"}
    <3>1. answer' = answer
      BY <2>2, <2>4
    <3> QED BY <2>1, <3>1
  <2>5. CASE phase \notin {"found", "failed"}
    <3>1. answer = "none"
      BY <2>5
    <3>2. CASE phase' = "found"
      BY <2>1, <2>3, <3>1, <3>2 DEF Promise!Reply, colorable
    <3>3. CASE phase' = "failed"
      BY <2>1, <2>3, <3>1, <3>3 DEF Promise!Reply, colorable
    <3>4. CASE phase' \notin {"found", "failed"}
      <4>1. answer' = "none"
        BY <3>4
      <4> QED BY <2>1, <3>1, <4>1
    <3> QED BY <3>2, <3>3, <3>4
  <2> QED BY <2>4, <2>5
<1>4. IInv /\ (IInv /\ (colorable <=> C!Solvable(seed, seed)))' /\ [Next]_vars
        => [Promise!Reply]_<<colorable, answer>>
  BY <1>3
<1> QED BY <1>1, <1>2, <1>4, Invariant, PTL DEF Spec, KeepsPromise, Promise!Spec

=============================================================================
