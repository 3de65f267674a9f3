---------------------------- MODULE ColorStateProofs ----------------------------
(***************************************************************************)
(* What the algorithms of ColorState do, for every graph and every number  *)
(* of colours: which states they lead to, which colours they keep, and     *)
(* that they lose no colouring.                                            *)
(***************************************************************************)
EXTENDS ColorState, Recursion, SequenceTheorems

-----------------------------------------------------------------------------
(* The states of a search. *)

\* What is possible for an uncoloured vertex is what its neighbours do not have.
Exact(s) ==
  \A v \in Vertex :
    s.poss[v] = IF IsColored(s, v) THEN {} ELSE Color \ {s.color[u] : u \in Ngbrs(v)}

\* Neighbours have different colours.
Proper(s) ==
  \A v \in Vertex : IsColored(s, v) => \A u \in Ngbrs(v) : s.color[u] # s.color[v]

Sound(s) == s \in State /\ Exact(s) /\ Proper(s)

\* t is s with some live vertices coloured.
Grown(s, t) ==
  /\ t.onStack = s.onStack /\ t.out = s.out
  /\ \A v \in Vertex : t.color[v] # s.color[v] => Live(s, v) /\ IsColored(t, v)

\* The colouring f agrees with s, colours all of S, and is proper there.
Solves(f, S, s) ==
  /\ \A v \in Vertex : IsColored(s, v) \/ v \notin S => f[v] = s.color[v]
  /\ \A v \in S : f[v] \in Color /\ \A u \in Ngbrs(v) : f[u] # f[v]

Assignment == [Vertex -> Color \cup {-1}]

\* Whatever solves s inside S solves t, S having all the live vertices of s.
KeepsSolutions(s, t) ==
  \A S \in SUBSET Vertex : \A f \in Assignment :
    LiveVertices(s) \subseteq S /\ Solves(f, S, s) => Solves(f, S, t)

\* t is a sound state that s has grown to, and no solution is lost.
Follows(s, t) == Sound(t) /\ Grown(s, t) /\ KeepsSolutions(s, t)

-----------------------------------------------------------------------------
(* Vertices and colours. *)

\* What every proof below needs to know of vertices and colours.
LEMMA Basics ==
  /\ Vertex \subseteq Int /\ IsFiniteSet(Vertex)
  /\ Color \subseteq Nat /\ IsFiniteSet(Color) /\ -1 \notin Color
  /\ \A v \in Vertex : Ngbrs(v) \subseteq Vertex /\ v \notin Ngbrs(v) /\ adjList_[v] \in Seq(Vertex)
  /\ \A u, v \in Vertex : u \in Ngbrs(v) <=> v \in Ngbrs(u)
<1>1. IsFiniteSet(Vertex) /\ IsFiniteSet(Color)
  BY GraphAssumption, FS_Interval DEF Vertex, Color
<1>2. \A v \in Vertex : adjList_[v] \in Seq(Vertex)
  BY GraphAssumption
<1>3. \A v \in Vertex : Ngbrs(v) \subseteq Vertex
  BY <1>2, ElementOfSeq DEF Ngbrs, Range
<1> QED BY <1>1, <1>2, <1>3, GraphAssumption DEF Vertex, Color

\* The parts of a state.
LEMMA StateParts ==
  ASSUME NEW s \in State
  PROVE  /\ s.color \in Assignment /\ s.poss \in [Vertex -> SUBSET Color]
         /\ s.onStack \in SUBSET Vertex /\ s.out \in SUBSET Vertex
         /\ s = [color |-> s.color, poss |-> s.poss, onStack |-> s.onStack, out |-> s.out]
BY DEF State, Assignment

\* A vertex has a colour or -1.
LEMMA ColoredMeans ==
  ASSUME NEW s \in State, NEW v \in Vertex
  PROVE  IsColored(s, v) <=> s.color[v] \in Color
<1>1. s.color[v] \in Color \cup {-1}
  BY StateParts DEF Assignment
<1> QED BY <1>1, GraphAssumption DEF IsColored, Color

\* Sets of vertices and of colours are finite.
LEMMA FiniteParts ==
  /\ \A S \in SUBSET Vertex : IsFiniteSet(S) /\ Cardinality(S) \in Nat
  /\ \A C \in SUBSET Color : IsFiniteSet(C) /\ Cardinality(C) \in Nat
BY Basics, FS_Subset, FS_CardinalityType

\* Min is the least of a set of numbers.
LEMMA MinLeast ==
  ASSUME NEW S \in SUBSET Nat, S # {}
  PROVE  Min(S) \in S /\ \A x \in S : Min(S) <= x
BY LeastElement DEF Min

-----------------------------------------------------------------------------
(* Colouring one vertex. *)

\* A painted vertex has its colour, and its neighbours have lost it.
LEMMA PaintParts ==
  ASSUME NEW s \in State, NEW v \in Vertex, NEW c \in Color
  PROVE  LET t == Paint(s, v, c)
         IN /\ t \in State
            /\ t.color = [s.color EXCEPT ![v] = c]
            /\ \A u \in Vertex : t.poss[u] = IF u = v THEN {}
                                           ELSE IF u \in Ngbrs(v) THEN s.poss[u] \ {c}
                                           ELSE s.poss[u]
            /\ t.onStack = s.onStack /\ t.out = s.out
<1> Ngbrs(v) \subseteq Vertex
  BY Basics
<1> HIDE DEF Ngbrs
<1>1. Paint(s, v, c) \in State
  <2> DEFINE color == [s.color EXCEPT ![v] = c]
             poss == [u \in Vertex |-> IF u = v THEN {} ELSE IF u \in Ngbrs(v) THEN s.poss[u] \ {c}
                                      ELSE s.poss[u]]
  <2>1. color \in [Vertex -> Color \cup {-1}]
    BY StateParts DEF Assignment
  <2>2. poss \in [Vertex -> SUBSET Color]
    BY StateParts
  <2>3. Paint(s, v, c) = [s EXCEPT !.color = color, !.poss = poss]
    BY DEF Paint
  <2> HIDE DEF color, poss
  <2> QED BY <2>1, <2>2, <2>3 DEF State
<1>2. Paint(s, v, c).color = [s.color EXCEPT ![v] = c]
  BY DEF Paint, State
<1>3. ASSUME NEW u \in Vertex
      PROVE  Paint(s, v, c).poss[u] = IF u = v THEN {} ELSE IF u \in Ngbrs(v) THEN s.poss[u] \ {c}
                                      ELSE s.poss[u]
  BY DEF Paint, State
<1>4. Paint(s, v, c).onStack = s.onStack /\ Paint(s, v, c).out = s.out
  BY DEF Paint, State
<1> QED BY <1>1, <1>2, <1>3, <1>4

\* A colour that is possible for an uncoloured vertex keeps a state sound.
LEMMA PaintSound ==
  ASSUME NEW s, Sound(s), NEW v \in Vertex, ~IsColored(s, v), NEW c \in s.poss[v]
  PROVE  c \in Color /\ Sound(Paint(s, v, c)) /\ IsColored(Paint(s, v, c), v)
<1> DEFINE t == Paint(s, v, c)
<1>1. s \in State /\ Exact(s) /\ Proper(s)
  BY DEF Sound
<1>2. c \in Color /\ \A u \in Ngbrs(v) : s.color[u] # c
  BY <1>1 DEF Exact
<1>3. /\ t \in State
      /\ t.color = [s.color EXCEPT ![v] = c]
      /\ \A u \in Vertex : t.poss[u] = IF u = v THEN {} ELSE IF u \in Ngbrs(v) THEN s.poss[u] \ {c}
                                     ELSE s.poss[u]
  BY <1>1, <1>2, PaintParts
<1> HIDE DEF t
<1>4. \A u \in Vertex : t.color[u] = IF u = v THEN c ELSE s.color[u]
  BY <1>1, <1>3, StateParts DEF Assignment
<1>5. \A u \in Vertex : IsColored(t, u) <=> u = v \/ IsColored(s, u)
  BY <1>1, <1>2, <1>3, <1>4, ColoredMeans
<1>6. s.color[v] \notin Color
  BY <1>1, ColoredMeans
<1>7. Exact(t)
  <2> SUFFICES ASSUME NEW u \in Vertex
               PROVE  t.poss[u] = IF IsColored(t, u) THEN {} ELSE Color \ {t.color[w] : w \in Ngbrs(u)}
    BY DEF Exact
  <2>1. CASE u = v \/ IsColored(s, u)
    BY <1>1, <1>3, <1>5, <2>1 DEF Exact
  <2>2. CASE u # v /\ ~IsColored(s, u)
    <3>1. s.poss[u] = Color \ {s.color[w] : w \in Ngbrs(u)}
      BY <1>1, <2>2 DEF Exact
    <3>2. Ngbrs(u) \subseteq Vertex /\ (u \in Ngbrs(v) <=> v \in Ngbrs(u))
      BY Basics
    <3>3. CASE v \in Ngbrs(u)
      <4>1. \A d \in Color : d \in {t.color[w] : w \in Ngbrs(u)}
                             <=> d = c \/ d \in {s.color[w] : w \in Ngbrs(u)}
        BY <1>4, <1>6, <3>2, <3>3
      <4> QED BY <1>3, <1>5, <2>2, <3>1, <3>2, <3>3, <4>1
    <3>4. CASE v \notin Ngbrs(u)
      <4>1. {t.color[w] : w \in Ngbrs(u)} = {s.color[w] : w \in Ngbrs(u)}
        BY <1>4, <3>2, <3>4
      <4> QED BY <1>3, <1>5, <2>2, <3>1, <3>2, <3>4, <4>1
    <3> QED BY <3>3, <3>4
  <2> QED BY <2>1, <2>2
<1>8. Proper(t)
  <2> SUFFICES ASSUME NEW u \in Vertex, IsColored(t, u), NEW w \in Ngbrs(u)
               PROVE  t.color[w] # t.color[u]
    BY DEF Proper
  <2>1. w \in Vertex /\ w # u /\ u \in Ngbrs(w)
    BY Basics
  <2>2. CASE u = v
    BY <1>2, <1>4, <2>1, <2>2
  <2>3. CASE u # v
    BY <1>1, <1>2, <1>4, <1>5, <2>1, <2>3 DEF Proper
  <2> QED BY <2>2, <2>3
<1> QED BY <1>2, <1>3, <1>5, <1>7, <1>8 DEF Sound, t

\* What a solution gives to a live vertex is possible for it.
LEMMA SolutionPossible ==
  ASSUME NEW s, Sound(s), NEW S \in SUBSET Vertex, NEW f, Solves(f, S, s),
         NEW v \in S, ~IsColored(s, v)
  PROVE  f[v] \in s.poss[v]
<1>1. s \in State /\ v \in Vertex /\ s.poss[v] = Color \ {s.color[u] : u \in Ngbrs(v)}
  BY DEF Sound, Exact
<1>2. f[v] \in Color /\ \A u \in Ngbrs(v) : f[u] # f[v]
  BY DEF Solves
<1>3. ASSUME NEW u \in Ngbrs(v), s.color[u] = f[v]
      PROVE  FALSE
  <2>1. u \in Vertex /\ IsColored(s, u)
    BY <1>1, <1>2, <1>3, Basics, ColoredMeans
  <2> QED BY <1>2, <1>3, <2>1 DEF Solves
<1> QED BY <1>1, <1>2, <1>3

\* Colouring a live vertex loses only the solutions that colour it otherwise.
LEMMA PaintGrows ==
  ASSUME NEW s, Sound(s), NEW v \in Vertex, Live(s, v), NEW c \in s.poss[v]
  PROVE  /\ Sound(Paint(s, v, c)) /\ Grown(s, Paint(s, v, c)) /\ Paint(s, v, c).color[v] = c
         /\ LiveVertices(Paint(s, v, c)) = LiveVertices(s) \ {v}
         /\ \A S \in SUBSET Vertex : \A f \in Assignment :
              LiveVertices(s) \subseteq S /\ Solves(f, S, s) /\ f[v] = c => Solves(f, S, Paint(s, v, c))
<1> DEFINE t == Paint(s, v, c)
<1>1. s \in State /\ c \in Color /\ Sound(t) /\ t \in State /\ IsColored(t, v)
  BY PaintSound DEF Sound, Live
<1>2. t.color = [s.color EXCEPT ![v] = c] /\ t.onStack = s.onStack /\ t.out = s.out
  BY <1>1, PaintParts
<1> HIDE DEF t
<1>3. \A u \in Vertex : t.color[u] = IF u = v THEN c ELSE s.color[u]
  BY <1>1, <1>2, StateParts DEF Assignment
<1>4. Grown(s, t)
  BY <1>1, <1>2, <1>3 DEF Grown
<1>5. LiveVertices(t) = LiveVertices(s) \ {v}
  BY <1>1, <1>2, <1>3 DEF LiveVertices, Live, IsOperationPermissible, IsColored
<1>6. ASSUME NEW S \in SUBSET Vertex, NEW f \in Assignment,
             LiveVertices(s) \subseteq S, Solves(f, S, s), f[v] = c
      PROVE  Solves(f, S, t)
  <2>1. v \in S
    BY <1>6 DEF LiveVertices
  <2>2. \A u \in Vertex : IsColored(t, u) \/ u \notin S => u = v \/ IsColored(s, u) \/ u \notin S
    BY <1>3 DEF IsColored
  <2> QED BY <1>3, <1>6, <2>1, <2>2 DEF Solves
<1> QED BY <1>1, <1>3, <1>4, <1>5, <1>6 DEF t

\* No vertex becomes live when others are coloured.
LEMMA GrownLive ==
  ASSUME NEW s, NEW t, Grown(s, t)
  PROVE  LiveVertices(t) \subseteq LiveVertices(s)
BY DEF Grown, LiveVertices, Live, IsOperationPermissible, IsColored

\* A sound state follows itself.
LEMMA FollowsItself ==
  ASSUME NEW s, Sound(s)
  PROVE  Follows(s, s)
BY DEF Follows, Grown, KeepsSolutions

\* What follows a state that follows another follows that one.
LEMMA FollowsOn ==
  ASSUME NEW r, NEW s, NEW t, Follows(r, s), Follows(s, t)
  PROVE  Follows(r, t)
<1>1. LiveVertices(s) \subseteq LiveVertices(r)
  BY GrownLive DEF Follows
<1>2. KeepsSolutions(r, t)
  BY <1>1 DEF Follows, KeepsSolutions
<1>3. Grown(r, t)
  BY DEF Follows, Grown, Live, IsOperationPermissible, IsColored
<1> QED BY <1>2, <1>3 DEF Follows

-----------------------------------------------------------------------------
(* Forced moves. *)

\* Where the recursion stands next.
LEMMA LookAtNext ==
  ASSUME NEW q \in Forcing, q.agenda # <<>>
  PROVE  /\ LookAt(q) \in Forcing
         /\ \/ LookAt(q) = [state |-> q.state, agenda |-> Tail(q.agenda)]
            \/ \E v \in Vertex : \E c \in Color :
                 Live(q.state, v) /\ q.state.poss[v] = {c} /\ LookAt(q).state = Paint(q.state, v, c)
<1> DEFINE v == Head(q.agenda)
           s == q.state
           c == CHOOSE c \in s.poss[v] : TRUE
<1>1. s \in State /\ q.agenda \in Seq(Vertex)
  BY DEF Forcing
<1>2. v \in Vertex /\ Tail(q.agenda) \in Seq(Vertex)
  BY <1>1, HeadTailProperties
<1>3. s.poss[v] \in SUBSET Color
  BY <1>1, <1>2, StateParts
<1> HIDE DEF v, s
<1>4. CASE Cardinality(s.poss[v]) = 1 /\ Live(s, v)
  <2>1. PICK d : s.poss[v] = {d}
    BY <1>3, <1>4, FiniteParts, FS_Singleton
  <2>2. c = d /\ d \in Color
    BY <1>3, <2>1
  <2> HIDE DEF c
  <2>3. adjList_[v] \o Tail(q.agenda) \in Seq(Vertex)
    BY <1>2, Basics, ConcatProperties
  <2>4. Paint(s, v, c) \in State
    BY <1>1, <1>2, <2>2, PaintParts
  <2>5. LookAt(q) = [state |-> Paint(s, v, c), agenda |-> adjList_[v] \o Tail(q.agenda)]
    BY <1>4 DEF LookAt, v, s, c
  <2>6. LookAt(q) \in Forcing
    BY <2>3, <2>4, <2>5 DEF Forcing
  <2>7. Live(s, v) /\ s.poss[v] = {c} /\ LookAt(q).state = Paint(s, v, c) /\ c \in Color
    BY <1>4, <2>1, <2>2, <2>5
  <2> QED BY <1>2, <2>6, <2>7 DEF s
<1>5. CASE ~(Cardinality(s.poss[v]) = 1 /\ Live(s, v))
  <2>1. LookAt(q) = [state |-> s, agenda |-> Tail(q.agenda)]
    BY <1>5 DEF LookAt, v, s
  <2> QED BY <1>1, <1>2, <2>1 DEF Forcing, s
<1> QED BY <1>4, <1>5

\* The equation of ForcedMoves.
LEMMA ForcedEquation ==
  ForcedMoves = [q \in Forcing |-> IF q.agenda = <<>> THEN q.state ELSE ForcedMoves[LookAt(q)]]
<1> DEFINE stop == {q \in Forcing : q.agenda = <<>>}
           base == [q \in Forcing |-> q.state]
           next == [q \in Forcing |-> IF q \in stop THEN q ELSE LookAt(q)]
<1>1. next \in [Forcing -> Forcing] /\ base \in [Forcing -> State] /\ stop \in SUBSET Forcing
  BY LookAtNext DEF Forcing
<1>2. PICK f \in [Forcing -> State] :
        \A q \in Forcing : f[q] = IF q \in stop THEN base[q] ELSE f[next[q]]
  <2> HIDE DEF next, stop, base
  <2> QED BY <1>1, TailRecursion
<1>3. \A q \in Forcing : f[q] = IF q.agenda = <<>> THEN q.state ELSE f[LookAt(q)]
  BY <1>2
<1>4. f = [q \in Forcing |-> IF q.agenda = <<>> THEN q.state ELSE f[LookAt(q)]]
  BY <1>2, <1>3
<1> HIDE DEF next, stop, base
<1> QED BY <1>4 DEF ForcedMoves

\* A step of the recursion, and what gets smaller in it.
LEMMA LookAtFollows ==
  ASSUME NEW q \in Forcing, Sound(q.state), q.agenda # <<>>
  PROVE  /\ LookAt(q) \in Forcing
         /\ Follows(q.state, LookAt(q).state)
         /\ \/ /\ LookAt(q).state = q.state
               /\ Len(LookAt(q).agenda) < Len(q.agenda)
            \/ Cardinality(LiveVertices(LookAt(q).state)) < Cardinality(LiveVertices(q.state))
<1>1. q.agenda \in Seq(Vertex) /\ q.state \in State
  BY DEF Forcing
<1>2. CASE LookAt(q) = [state |-> q.state, agenda |-> Tail(q.agenda)]
  <2>1. Len(Tail(q.agenda)) < Len(q.agenda)
    BY <1>1
  <2> QED BY <1>2, <2>1, LookAtNext, FollowsItself
<1>3. ASSUME NEW v \in Vertex, NEW c \in Color,
             Live(q.state, v), q.state.poss[v] = {c}, LookAt(q).state = Paint(q.state, v, c)
      PROVE  /\ LookAt(q) \in Forcing
             /\ Follows(q.state, LookAt(q).state)
             /\ Cardinality(LiveVertices(LookAt(q).state)) < Cardinality(LiveVertices(q.state))
  <2> DEFINE s == q.state
             t == Paint(s, v, c)
  <2>1. c \in s.poss[v]
    BY <1>3
  <2>2. /\ Sound(t) /\ Grown(s, t)
        /\ LiveVertices(t) = LiveVertices(s) \ {v}
        /\ \A S \in SUBSET Vertex : \A f \in Assignment :
              LiveVertices(s) \subseteq S /\ Solves(f, S, s) /\ f[v] = c => Solves(f, S, t)
    BY <1>3, <2>1, PaintGrows
  <2> HIDE DEF s, t
  <2>3. ASSUME NEW S \in SUBSET Vertex, NEW f \in Assignment, LiveVertices(s) \subseteq S, Solves(f, S, s)
        PROVE  f[v] = c
    <3>1. v \in S /\ ~IsColored(s, v)
      BY <1>3, <2>3 DEF LiveVertices, Live, s
    <3>2. f[v] \in s.poss[v]
      BY <2>3, <3>1, SolutionPossible DEF s
    <3> QED BY <1>3, <3>2 DEF s
  <2>4. Follows(s, t)
    BY <2>2, <2>3 DEF Follows, KeepsSolutions
  <2>5. v \in LiveVertices(s) /\ LiveVertices(s) \in SUBSET Vertex
    BY <1>3 DEF LiveVertices, s
  <2>6. Cardinality(LiveVertices(t)) < Cardinality(LiveVertices(s))
    <3>1. IsFiniteSet(LiveVertices(s)) /\ Cardinality(LiveVertices(s)) \in Nat
      BY <2>5, FiniteParts
    <3>2. Cardinality(LiveVertices(s) \ {v}) = Cardinality(LiveVertices(s)) - 1
      BY <2>5, <3>1, FS_RemoveElement
    <3> QED BY <2>2, <3>1, <3>2
  <2> QED BY <1>3, <2>4, <2>6, LookAtNext DEF s, t
<1> QED BY <1>2, <1>3, LookAtNext

\* Forced moves lose no solution.
LEMMA ForcedMovesFollow ==
  ASSUME NEW q \in Forcing, Sound(q.state)
  PROVE  Follows(q.state, ForcedMoves[q])
<1> DEFINE m == [x \in Forcing |-> Cardinality(LiveVertices(x.state))]
           n == [x \in Forcing |-> Len(x.agenda)]
           Wrong == {x \in Forcing : Sound(x.state) /\ ~Follows(x.state, ForcedMoves[x])}
<1>1. n \in [Forcing -> Nat]
  BY DEF Forcing
<1>2. m \in [Forcing -> Nat]
  <2>1. \A s : LiveVertices(s) \in SUBSET Vertex
    BY DEF LiveVertices
  <2> QED BY <2>1, FiniteParts
<1> SUFFICES ASSUME Wrong # {} PROVE FALSE
  OBVIOUS
<1>3. PICK x \in Wrong : \A y \in Wrong : ~(m[y] < m[x] \/ (m[y] = m[x] /\ n[y] < n[x]))
  <2>1. Wrong \in SUBSET Forcing
    OBVIOUS
  <2> HIDE DEF Wrong, m, n
  <2> QED BY <1>1, <1>2, <2>1, LeastPair
<1>4. x \in Forcing /\ Sound(x.state) /\ ~Follows(x.state, ForcedMoves[x])
  OBVIOUS
<1>5. ForcedMoves[x] = IF x.agenda = <<>> THEN x.state ELSE ForcedMoves[LookAt(x)]
  BY <1>4, ForcedEquation
<1>6. x.agenda # <<>>
  BY <1>4, <1>5, FollowsItself
<1>7. /\ LookAt(x) \in Forcing /\ Follows(x.state, LookAt(x).state)
      /\ \/ LookAt(x).state = x.state /\ Len(LookAt(x).agenda) < Len(x.agenda)
         \/ Cardinality(LiveVertices(LookAt(x).state)) < Cardinality(LiveVertices(x.state))
  BY <1>4, <1>6, LookAtFollows
<1>8. LookAt(x) \in Wrong
  BY <1>4, <1>5, <1>6, <1>7, FollowsOn DEF Follows
<1> QED BY <1>3, <1>4, <1>7, <1>8

\* Forced moves lead from states to states, sound or not.
LEMMA ForcedMovesType ==
  ASSUME NEW q \in Forcing
  PROVE  ForcedMoves[q] \in State
<1> DEFINE m == [x \in Forcing |-> Cardinality(LiveVertices(x.state))]
           n == [x \in Forcing |-> Len(x.agenda)]
           Wrong == {x \in Forcing : ForcedMoves[x] \notin State}
<1>1. n \in [Forcing -> Nat]
  BY DEF Forcing
<1>2. m \in [Forcing -> Nat]
  <2>1. \A s : LiveVertices(s) \in SUBSET Vertex
    BY DEF LiveVertices
  <2> QED BY <2>1, FiniteParts
<1> SUFFICES ASSUME Wrong # {} PROVE FALSE
  OBVIOUS
<1>3. PICK x \in Wrong : \A y \in Wrong : ~(m[y] < m[x] \/ (m[y] = m[x] /\ n[y] < n[x]))
  <2>1. Wrong \in SUBSET Forcing
    OBVIOUS
  <2>2. ASSUME NEW T \in SUBSET Forcing, NEW f \in [Forcing -> Nat], NEW g \in [Forcing -> Nat], T # {}
        PROVE  \E x \in T : \A y \in T : ~(f[y] < f[x] \/ (f[y] = f[x] /\ g[y] < g[x]))
    BY <2>2, LeastPair
  <2> HIDE DEF Wrong, m, n
  <2> QED BY <1>1, <1>2, <2>1, <2>2
<1>4. x \in Forcing /\ ForcedMoves[x] \notin State /\ x.state \in State /\ x.agenda \in Seq(Vertex)
  BY DEF Forcing
<1>5. ForcedMoves[x] = IF x.agenda = <<>> THEN x.state ELSE ForcedMoves[LookAt(x)]
  BY <1>4, ForcedEquation
<1>6. x.agenda # <<>>
  BY <1>4, <1>5
<1>7. LookAt(x) \in Wrong
  BY <1>4, <1>5, <1>6, LookAtNext
<1>8. CASE LookAt(x) = [state |-> x.state, agenda |-> Tail(x.agenda)]
  <2>1. LookAt(x).state = x.state /\ Len(LookAt(x).agenda) < Len(x.agenda)
    BY <1>4, <1>6, <1>8
  <2> QED BY <1>3, <1>4, <1>7, <2>1
<1>9. ASSUME NEW v \in Vertex, NEW c \in Color, Live(x.state, v), LookAt(x).state = Paint(x.state, v, c)
      PROVE  FALSE
  <2>1. /\ LookAt(x).state.color = [x.state.color EXCEPT ![v] = c]
        /\ LookAt(x).state.onStack = x.state.onStack /\ LookAt(x).state.out = x.state.out
    BY <1>4, <1>9, PaintParts
  <2> DEFINE s == x.state
             t == LookAt(x).state
  <2>2. \A u \in Vertex : t.color[u] = IF u = v THEN c ELSE s.color[u]
    BY <1>4, <2>1, StateParts DEF Assignment
  <2>3. t.onStack = s.onStack /\ t.out = s.out /\ c >= 0
    BY <2>1 DEF Color
  <2>4. Live(s, v)
    BY <1>9
  <2> HIDE DEF s, t
  <2>5. LiveVertices(t) = LiveVertices(s) \ {v} /\ v \in LiveVertices(s) /\ LiveVertices(s) \in SUBSET Vertex
    BY <2>2, <2>3, <2>4 DEF LiveVertices, Live, IsOperationPermissible, IsColored
  <2>6. IsFiniteSet(LiveVertices(s)) /\ Cardinality(LiveVertices(s)) \in Nat
    BY <2>5, FiniteParts
  <2>7. Cardinality(LiveVertices(t)) < Cardinality(LiveVertices(s))
    <3>1. Cardinality(LiveVertices(s) \ {v}) = Cardinality(LiveVertices(s)) - 1
      BY <2>5, <2>6, FS_RemoveElement
    <3> QED BY <2>5, <2>6, <3>1
  <2> QED BY <1>3, <1>4, <1>7, <2>7 DEF s, t
<1> QED BY <1>4, <1>6, <1>8, <1>9, LookAtNext

\* updateState leads from states to states.
LEMMA UpdateStateType ==
  ASSUME NEW s \in State, NEW v \in Vertex, NEW c \in Color, NEW doForcedMove \in BOOLEAN
  PROVE  UpdateState(s, v, c, doForcedMove) \in State
<1> DEFINE q == [state |-> Paint(s, v, c), agenda |-> adjList_[v]]
<1>1. Paint(s, v, c) \in State
  BY PaintParts
<1>2. q \in Forcing
  BY <1>1, Basics DEF Forcing
<1>3. ForcedMoves[q] \in State
  BY <1>2, ForcedMovesType
<1> QED BY <1>1, <1>3 DEF UpdateState

-----------------------------------------------------------------------------
(* updateState. *)

\* Colouring a live vertex with a colour possible for it, forced moves or not,
\* loses only the solutions that colour it otherwise.
LEMMA UpdateStateFollows ==
  ASSUME NEW s, Sound(s), NEW v \in Vertex, Live(s, v), NEW c \in s.poss[v],
         NEW doForcedMove \in BOOLEAN
  PROVE  LET t == UpdateState(s, v, c, doForcedMove)
         IN /\ Sound(t) /\ Grown(s, t) /\ t.color[v] = c
            /\ LiveVertices(t) \subseteq LiveVertices(s) \ {v}
            /\ \A S \in SUBSET Vertex : \A f \in Assignment :
                 LiveVertices(s) \subseteq S /\ Solves(f, S, s) /\ f[v] = c => Solves(f, S, t)
<1> DEFINE r == Paint(s, v, c)
<1>1. /\ Sound(r) /\ Grown(s, r) /\ r.color[v] = c /\ LiveVertices(r) = LiveVertices(s) \ {v}
      /\ \A S \in SUBSET Vertex : \A f \in Assignment :
           LiveVertices(s) \subseteq S /\ Solves(f, S, s) /\ f[v] = c => Solves(f, S, r)
  BY PaintGrows
<1>2. CASE ~doForcedMove
  BY <1>1, <1>2 DEF UpdateState
<1>3. CASE doForcedMove
  <2> DEFINE q == [state |-> r, agenda |-> adjList_[v]]
             t == ForcedMoves[q]
  <2>1. r \in State /\ adjList_[v] \in Seq(Vertex)
    BY <1>1, Basics DEF Sound
  <2> HIDE DEF r
  <2>2. q \in Forcing /\ q.state = r
    BY <2>1 DEF Forcing
  <2> HIDE DEF q
  <2>3. Follows(r, t)
    BY <1>1, <2>2, ForcedMovesFollow
  <2> HIDE DEF t
  <2>4. UpdateState(s, v, c, doForcedMove) = t
    BY <1>3 DEF UpdateState, t, q, r
  <2>5. Sound(t) /\ LiveVertices(t) \subseteq LiveVertices(r)
    BY <2>3, GrownLive DEF Follows
  <2>6. Grown(s, t)
    BY <1>1, <2>3 DEF Follows, Grown, Live, IsOperationPermissible, IsColored
  <2>7. t.color[v] = c
    <3>1. ~Live(r, v)
      BY <1>1 DEF LiveVertices
    <3> QED BY <1>1, <2>3, <3>1 DEF Follows, Grown
  <2>8. \A S \in SUBSET Vertex : \A f \in Assignment :
           LiveVertices(s) \subseteq S /\ Solves(f, S, s) /\ f[v] = c => Solves(f, S, t)
    BY <1>1, <2>3 DEF Follows, KeepsSolutions
  <2> QED BY <1>1, <2>4, <2>5, <2>6, <2>7, <2>8
<1> QED BY <1>2, <1>3

\* What updateState returns is how many live vertices are fewer.
LEMMA VerticesColoredCount ==
  ASSUME NEW s, NEW t, Sound(s), Sound(t), Grown(s, t)
  PROVE  VerticesColored(s, t) = Cardinality(LiveVertices(s)) - Cardinality(LiveVertices(t))
<1> DEFINE painted == {v \in Vertex : t.color[v] # s.color[v]}
<1>1. s \in State /\ t \in State
  BY DEF Sound
<1>2. \A v \in Vertex : t.color[v] # s.color[v] => Live(s, v) /\ IsColored(t, v)
  BY DEF Grown
<1>3. Uncolored(t) = Uncolored(s) \ painted /\ LiveVertices(t) = LiveVertices(s) \ painted
  BY <1>2 DEF Uncolored, LiveVertices, Live, IsOperationPermissible, IsColored, Grown
<1>4. painted \subseteq Uncolored(s) /\ painted \subseteq LiveVertices(s)
  BY <1>2 DEF Uncolored, LiveVertices, Live
<1> HIDE DEF painted
<1>5. LiveVertices(s) \subseteq Vertex /\ Uncolored(s) \subseteq Vertex
  BY DEF LiveVertices, Uncolored
<1>6. /\ IsFiniteSet(Uncolored(s)) /\ IsFiniteSet(LiveVertices(s)) /\ IsFiniteSet(painted)
      /\ Cardinality(Uncolored(s)) \in Nat /\ Cardinality(LiveVertices(s)) \in Nat
      /\ Cardinality(painted) \in Nat
  BY <1>4, <1>5, FiniteParts
<1>7. /\ Cardinality(Uncolored(s) \ painted) = Cardinality(Uncolored(s)) - Cardinality(Uncolored(s) \cap painted)
      /\ Cardinality(LiveVertices(s) \ painted) = Cardinality(LiveVertices(s)) - Cardinality(LiveVertices(s) \cap painted)
  BY <1>6, FS_Difference
<1>8. Uncolored(s) \cap painted = painted /\ LiveVertices(s) \cap painted = painted
  BY <1>4
<1> QED BY <1>3, <1>6, <1>7, <1>8 DEF VerticesColored

-----------------------------------------------------------------------------
(* getNextConstraintVertex and getValueOrderingOfColors. *)

\* A priority queue pops every element once.
LEMMA PopOrderAll ==
  ASSUME NEW S, IsFiniteSet(S), NEW rank \in [S -> Int], NEW age \in [S -> Int],
         \A a, b \in S : age[a] = age[b] => a = b
  PROVE  /\ PopOrder(S, rank, age) \in Seq(S)
         /\ Len(PopOrder(S, rank, age)) = Cardinality(S)
         /\ Range(PopOrder(S, rank, age)) = S
<1> DEFINE turn(a) == Cardinality({b \in S : PopsFirst(rank, age[b], age[a])})
           Before(a, b) ==
             \/ rank[a] > rank[b]
             \/ rank[a] = rank[b] /\ turn(a) < turn(b)
             \/ rank[a] = rank[b] /\ turn(a) = turn(b) /\ age[a] < age[b]
           ahead(a) == {b \in S : Before(b, a)}
           n == Cardinality(S)
           pos == [a \in S |-> Cardinality(ahead(a))]
           order == [i \in 1..n |-> CHOOSE a \in S : Cardinality(ahead(a)) = i - 1]
<1>1. PopOrder(S, rank, age) = order
  BY DEF PopOrder
<1>turns. \A a \in S : turn(a) \in Nat
  <2> TAKE a \in S
  <2>1. {b \in S : PopsFirst(rank, age[b], age[a])} \in SUBSET S
    OBVIOUS
  <2> QED BY <2>1, FS_Subset, FS_CardinalityType
<1> HIDE DEF turn
<1>2. \A a \in S : ~Before(a, a)
  BY <1>turns
<1>3. \A a, b \in S : a # b => Before(a, b) \/ Before(b, a)
  BY <1>turns
<1>4. \A a, b, c \in S : Before(a, b) /\ Before(b, c) => Before(a, c)
  BY <1>turns
<1> HIDE DEF Before
<1>5. n \in Nat
  BY FS_CardinalityType
<1>6. \A a \in S : /\ IsFiniteSet(ahead(a)) /\ Cardinality(ahead(a)) \in Nat
                   /\ Cardinality(ahead(a)) < n
  <2> TAKE a \in S
  <2>1. ahead(a) \in SUBSET (S \ {a})
    BY <1>2
  <2>2. IsFiniteSet(S \ {a}) /\ Cardinality(S \ {a}) = n - 1
    BY FS_RemoveElement
  <2> HIDE DEF ahead
  <2>3. IsFiniteSet(ahead(a)) /\ Cardinality(ahead(a)) <= n - 1
    BY <2>1, <2>2, FS_Subset
  <2> QED BY <1>5, <2>3, FS_CardinalityType
<1>7. \A a, b \in S : Before(a, b) => Cardinality(ahead(a)) < Cardinality(ahead(b))
  <2> SUFFICES ASSUME NEW a \in S, NEW b \in S, Before(a, b)
               PROVE  Cardinality(ahead(a)) < Cardinality(ahead(b))
    OBVIOUS
  <2>1. ahead(a) \subseteq ahead(b) /\ a \in ahead(b) /\ a \notin ahead(a)
    BY <1>2, <1>4
  <2> HIDE DEF ahead
  <2>2. /\ Cardinality(ahead(a)) <= Cardinality(ahead(b))
        /\ Cardinality(ahead(a)) # Cardinality(ahead(b))
    BY <1>6, <2>1, FS_Subset
  <2> QED BY <1>6, <2>2
<1>8. \A a, b \in S : Cardinality(ahead(a)) = Cardinality(ahead(b)) => a = b
  <2> HIDE DEF ahead
  <2> QED BY <1>3, <1>6, <1>7
<1> HIDE DEF ahead
<1>9. pos \in Injection(S, 0..(n - 1))
  <2>1. \A a \in S : pos[a] \in 0..(n - 1)
    BY <1>5, <1>6
  <2> QED BY <1>8, <2>1 DEF Injection, IsInjective
<1>10. IsFiniteSet(0..(n - 1)) /\ Cardinality(0..(n - 1)) = n
  <2> n \in Nat
    BY <1>5
  <2> HIDE DEF n
  <2>1. n - 1 \in Int /\ (0 > n - 1 => n = 0) /\ (~(0 > n - 1) => (n - 1) - 0 + 1 = n)
    OBVIOUS
  <2> QED BY <2>1, FS_Interval
<1>11. pos \in Surjection(S, 0..(n - 1))
  <2> HIDE DEF pos
  <2> QED BY <1>9, <1>10, FS_Injection
<1>12. \A i \in 1..n : \E a \in S : Cardinality(ahead(a)) = i - 1
  <2> TAKE i \in 1..n
  <2>1. i - 1 \in 0..(n - 1)
    BY <1>5
  <2>2. PICK a \in S : pos[a] = i - 1
    <3> HIDE DEF pos
    <3> QED BY <1>11, <2>1 DEF Surjection
  <2> QED BY <2>2
<1>13. \A i \in 1..n : order[i] \in S /\ Cardinality(ahead(order[i])) = i - 1
  BY <1>12
<1>14. \A a \in S : Cardinality(ahead(a)) + 1 \in 1..n /\ order[Cardinality(ahead(a)) + 1] = a
  <2> TAKE a \in S
  <2>1. Cardinality(ahead(a)) + 1 \in 1..n
    BY <1>5, <1>6
  <2> HIDE DEF order
  <2> QED BY <1>6, <1>8, <1>13, <2>1
<1>15. order \in [1..n -> S]
  BY <1>13
<1>16. order \in Seq(S) /\ Len(order) = n
  <2> HIDE DEF order
  <2> QED BY <1>5, <1>15
<1>17. Range(order) = S
  <2>1. DOMAIN order = 1..n
    OBVIOUS
  <2> HIDE DEF order
  <2> QED BY <1>13, <1>14, <2>1 DEF Range
<1> QED BY <1>1, <1>16, <1>17

\* A live vertex is found as long as there is one.
LEMMA NextVertexLive ==
  ASSUME NEW s \in State
  PROVE  IF LiveVertices(s) = {} THEN GetNextConstraintVertex(s) = -1
         ELSE GetNextConstraintVertex(s) \in LiveVertices(s) /\ GetNextConstraintVertex(s) # -1
<1> DEFINE L == LiveVertices(s)
           least == {v \in L : \A u \in L : Cardinality(s.poss[v]) <= Cardinality(s.poss[u])}
<1>1. L \subseteq Vertex /\ Vertex \subseteq Nat
  BY DEF LiveVertices, Vertex
<1>2. GetNextConstraintVertex(s) = IF least = {} THEN -1 ELSE Min(least)
  BY DEF GetNextConstraintVertex
<1> HIDE DEF L
<1>3. CASE L = {}
  BY <1>2, <1>3 DEF L
<1>4. CASE L # {}
  <2> DEFINE sizes == {Cardinality(s.poss[v]) : v \in L}
  <2>1. \A v \in L : Cardinality(s.poss[v]) \in Nat
    BY <1>1, FiniteParts, StateParts
  <2>2. sizes # {} /\ sizes \in SUBSET Nat
    BY <1>4, <2>1
  <2>3. PICK k \in sizes : \A l \in sizes : k <= l
    <3> HIDE DEF sizes
    <3> QED BY <2>2, LeastElement
  <2>4. least # {} /\ least \in SUBSET Nat /\ least \subseteq L
    <3>1. PICK v \in L : Cardinality(s.poss[v]) = k
      OBVIOUS
    <3>2. v \in least
      BY <2>3, <3>1
    <3> QED BY <1>1, <3>2
  <2>5. Min(least) \in L
    <3> HIDE DEF least
    <3> QED BY <2>4, MinLeast
  <2> QED BY <1>1, <1>2, <1>4, <2>4, <2>5 DEF L
<1> QED BY <1>3, <1>4

\* All the colours that impossibility testing leaves are tried.
LEMMA ValueOrderingAll ==
  ASSUME NEW s \in State, NEW v \in Vertex
  PROVE  LET colours == {c \in s.poss[v] : Possible(s, v, c)}
         IN /\ GetValueOrderingOfColors(s, v) \in Seq(colours)
            /\ Range(GetValueOrderingOfColors(s, v)) = colours
<1> DEFINE colours == {c \in s.poss[v] : Possible(s, v, c)}
           left(c) == {e \in Ngbrs(v) \X Color : Live(s, e[1]) /\ e[2] \in s.poss[e[1]] \ {c}}
           rank == [c \in colours |-> Cardinality(left(c))]
           age == [c \in colours |-> c]
<1>1. colours \subseteq Color /\ Color \subseteq Int /\ IsFiniteSet(colours)
  BY StateParts, FiniteParts DEF Color
<1>2. IsFiniteSet(Ngbrs(v) \X Color)
  BY Basics, FiniteParts, FS_Product
<1>3. rank \in [colours -> Int]
  <2>1. \A c \in colours : Cardinality(left(c)) \in Int
    <3> TAKE c \in colours
    <3> DEFINE all == Ngbrs(v) \X Color
    <3>1. left(c) \in SUBSET all
      OBVIOUS
    <3>2. IsFiniteSet(all)
      BY <1>2
    <3> HIDE DEF left, all
    <3>3. IsFiniteSet(left(c))
      BY <3>1, <3>2, FS_Subset
    <3> QED BY <3>3, FS_CardinalityType
  <2> HIDE DEF colours, left
  <2> QED BY <2>1
<1>4. age \in [colours -> Int] /\ \A a, b \in colours : age[a] = age[b] => a = b
  <2> HIDE DEF colours
  <2> QED BY <1>1
<1>5. GetValueOrderingOfColors(s, v) = PopOrder(colours, rank, age)
  BY DEF GetValueOrderingOfColors
<1> HIDE DEF colours, rank, age
<1>6. /\ GetValueOrderingOfColors(s, v) \in Seq(colours)
      /\ Range(GetValueOrderingOfColors(s, v)) = colours
  BY <1>1, <1>3, <1>4, <1>5, PopOrderAll
<1> QED BY <1>6 DEF colours

-----------------------------------------------------------------------------
(* Vertices on the removal stack. *)

\* The neighbours of rem[i] that get a colour before it does, or have one less
\* to choose from: they are put back before it.
Rivals(base, s, rem, i) ==
  {u \in Ngbrs(rem[i]) : /\ ~IsColored(s, u) /\ u \notin base /\ u \notin s.out
                         /\ \A j \in 1..(i - 1) : u # rem[j]}

\* On the stack are those of base, never to be put back here, and those of rem,
\* each of which has more colours left than rivals.
Held(base, s, rem) ==
  /\ IsInjective(rem)
  /\ s.onStack = base \cup Range(rem) /\ base \cap Range(rem) = {}
  /\ \A i \in 1..Len(rem) :
       /\ ~IsColored(s, rem[i]) /\ rem[i] \notin s.out
       /\ Cardinality(s.poss[rem[i]]) > Cardinality(Rivals(base, s, rem, i))

\* The rivals of a vertex are vertices.
LEMMA RivalsFinite ==
  ASSUME NEW s, NEW rem \in Seq(Vertex), NEW i \in 1..Len(rem), NEW base
  PROVE  Rivals(base, s, rem, i) \in SUBSET Vertex
BY Basics, ElementOfSeq DEF Rivals

\* A neighbour that takes a colour takes it from at most one rival.
LEMMA HeldGrown ==
  ASSUME NEW s, NEW t, Sound(s), Sound(t), Grown(s, t),
         NEW base, NEW rem \in Seq(Vertex), Held(base, s, rem)
  PROVE  Held(base, t, rem)
<1>1. /\ s \in State /\ t \in State /\ t.onStack = s.onStack /\ t.out = s.out
      /\ \A v \in Vertex : t.color[v] # s.color[v] => Live(s, v) /\ IsColored(t, v)
  BY DEF Sound, Grown
<1>2. ASSUME NEW i \in 1..Len(rem)
      PROVE  /\ ~IsColored(t, rem[i]) /\ rem[i] \notin t.out
             /\ Cardinality(t.poss[rem[i]]) > Cardinality(Rivals(base, t, rem, i))
  <2> DEFINE v == rem[i]
             P == {u \in Ngbrs(v) : t.color[u] # s.color[u]}
             taken == {t.color[u] : u \in P}
             f == [u \in P |-> t.color[u]]
  <2>1. /\ v \in Vertex /\ v \in s.onStack /\ ~IsColored(s, v) /\ v \notin s.out
        /\ Cardinality(s.poss[v]) > Cardinality(Rivals(base, s, rem, i))
    BY ElementOfSeq, RangeEquality DEF Held
  <2>2. ~IsColored(t, v) /\ v \notin t.out
    BY <1>1, <2>1 DEF Live, IsOperationPermissible, IsColored
  <2>3. Ngbrs(v) \subseteq Vertex
    BY <2>1, Basics
  <2>4. P \subseteq Rivals(base, s, rem, i)
    <3>1. \A j \in 1..(i - 1) : rem[j] \in s.onStack
      BY RangeEquality, LenProperties DEF Held
    <3>2. base \subseteq s.onStack
      BY DEF Held
    <3> QED BY <1>1, <2>3, <3>1, <3>2 DEF Rivals, Live, IsOperationPermissible
  <2>5. Rivals(base, t, rem, i) \subseteq Rivals(base, s, rem, i) \ P
    BY <1>1, <2>3 DEF Rivals, IsColored, Live
  <2>6. s.poss[v] \ taken \subseteq t.poss[v]
    <3>1. s.poss[v] = Color \ {s.color[u] : u \in Ngbrs(v)}
      BY <2>1 DEF Sound, Exact
    <3>2. t.poss[v] = Color \ {t.color[u] : u \in Ngbrs(v)}
      BY <2>1, <2>2 DEF Sound, Exact
    <3> QED BY <3>1, <3>2
  <2>7. /\ IsFiniteSet(Rivals(base, s, rem, i)) /\ Cardinality(Rivals(base, s, rem, i)) \in Nat
        /\ IsFiniteSet(Rivals(base, t, rem, i)) /\ Cardinality(Rivals(base, t, rem, i)) \in Nat
        /\ IsFiniteSet(P) /\ Cardinality(P) \in Nat
    BY <2>3, RivalsFinite, FiniteParts
  <2>8. /\ s.poss[v] \in SUBSET Color /\ t.poss[v] \in SUBSET Color
        /\ IsFiniteSet(s.poss[v]) /\ Cardinality(s.poss[v]) \in Nat
        /\ IsFiniteSet(t.poss[v]) /\ Cardinality(t.poss[v]) \in Nat
    BY <1>1, <2>1, StateParts, FiniteParts
  <2>9. IsFiniteSet(taken) /\ Cardinality(taken) \in Nat /\ Cardinality(taken) <= Cardinality(P)
    <3>1. f \in Surjection(P, taken)
      BY DEF Surjection
    <3> HIDE DEF f, taken, P
    <3> QED BY <2>7, <3>1, FS_Surjection, FS_CardinalityType
  <2> HIDE DEF P, taken, f
  <2>10. Cardinality(Rivals(base, t, rem, i)) <= Cardinality(Rivals(base, s, rem, i)) - Cardinality(P)
    <3> DEFINE R == Rivals(base, s, rem, i)
               Q == Rivals(base, t, rem, i)
    <3>1. Q \in SUBSET (R \ P) /\ R \cap P = P
      BY <2>4, <2>5
    <3> HIDE DEF R, Q
    <3>2. IsFiniteSet(R)
      BY <2>7 DEF R
    <3>3. IsFiniteSet(R \ P) /\ Cardinality(R \ P) = Cardinality(R) - Cardinality(P)
      BY <3>1, <3>2, FS_Difference
    <3>4. Cardinality(Q) <= Cardinality(R \ P)
      BY <3>1, <3>3, FS_Subset
    <3> QED BY <3>3, <3>4 DEF R, Q
  <2>11. Cardinality(t.poss[v]) >= Cardinality(s.poss[v]) - Cardinality(taken)
    <3>1. s.poss[v] \ taken \in SUBSET t.poss[v]
      BY <2>6
    <3>2. Cardinality(s.poss[v] \ taken) = Cardinality(s.poss[v]) - Cardinality(s.poss[v] \cap taken)
      BY <2>8, FS_Difference
    <3>3. Cardinality(s.poss[v] \cap taken) <= Cardinality(taken) /\ IsFiniteSet(s.poss[v] \cap taken)
      BY <2>9, FS_Intersection
    <3>4. Cardinality(s.poss[v] \ taken) <= Cardinality(t.poss[v])
      BY <2>8, <3>1, FS_Subset
    <3>5. Cardinality(s.poss[v] \cap taken) \in Nat
      BY <3>3, FS_CardinalityType
    <3> QED BY <2>8, <2>9, <3>2, <3>3, <3>4, <3>5
  <2>12. Cardinality(t.poss[v]) > Cardinality(Rivals(base, t, rem, i))
    BY <2>1, <2>7, <2>8, <2>9, <2>10, <2>11
  <2> QED BY <2>2, <2>12
<1> QED BY <1>1, <1>2 DEF Held

\* Parts of a stack and of the stack without its top.
LEMMA StackParts ==
  ASSUME NEW rem \in Seq(Vertex), NEW v \in Vertex
  PROVE  /\ Append(rem, v) \in Seq(Vertex) /\ Len(Append(rem, v)) = Len(rem) + 1 /\ Len(rem) \in Nat
         /\ \A i \in 1..Len(rem) : Append(rem, v)[i] = rem[i]
         /\ Append(rem, v)[Len(rem) + 1] = v
         /\ Range(Append(rem, v)) = Range(rem) \cup {v} /\ Range(rem) \subseteq Vertex
         /\ IsInjective(Append(rem, v)) <=> IsInjective(rem) /\ v \notin Range(rem)
         /\ Append(rem, v) # <<>> /\ Last(Append(rem, v)) = v /\ Front(Append(rem, v)) = rem
<1> DEFINE all == Append(rem, v)
<1>1. /\ all \in Seq(Vertex) /\ Len(all) = Len(rem) + 1 /\ Len(rem) \in Nat
      /\ \A i \in 1..Len(rem) : all[i] = rem[i]
      /\ all[Len(rem) + 1] = v /\ all # <<>>
  BY AppendProperties, LenProperties
<1> HIDE DEF all
<1>2. /\ Range(all) = {all[i] : i \in 1..Len(all)} /\ Range(rem) = {rem[i] : i \in 1..Len(rem)}
      /\ DOMAIN all = 1..Len(all) /\ DOMAIN rem = 1..Len(rem)
  BY <1>1, RangeEquality, LenProperties
<1>3. Range(all) = Range(rem) \cup {v} /\ Range(rem) \subseteq Vertex
  <2>1. \A i \in 1..Len(all) : i \in 1..Len(rem) \/ i = Len(rem) + 1
    BY <1>1
  <2>2. 1..Len(rem) \subseteq 1..Len(all) /\ Len(rem) + 1 \in 1..Len(all)
    BY <1>1
  <2>3. Range(all) = Range(rem) \cup {v}
    BY <1>1, <1>2, <2>1, <2>2
  <2> QED BY <2>3, RangeOfSeq
<1>4. IsInjective(all) <=> IsInjective(rem) /\ v \notin Range(rem)
  BY <1>1, <1>2 DEF IsInjective
<1>5. Last(all) = v
  BY <1>1 DEF Last
<1>6. Front(all) = rem
  <2>1. Front(all) = SubSeq(all, 1, Len(rem))
    BY <1>1 DEF Front
  <2>2. /\ SubSeq(all, 1, Len(rem)) \in Seq(Vertex) /\ Len(SubSeq(all, 1, Len(rem))) = Len(rem)
        /\ \A i \in 1..Len(rem) : SubSeq(all, 1, Len(rem))[i] = rem[i]
    BY <1>1
  <2> HIDE DEF all
  <2> QED BY <2>1, <2>2, SeqEqual
<1> QED BY <1>1, <1>3, <1>4, <1>5, <1>6 DEF all

-----------------------------------------------------------------------------
(* vertexRemoval. *)

\* What putting v on the stack does to a state.
LEMMA OnStackParts ==
  ASSUME NEW s \in State, NEW v \in Vertex
  PROVE  LET t == [s EXCEPT !.onStack = @ \cup {v}]
         IN /\ t \in State /\ t.color = s.color /\ t.poss = s.poss /\ t.out = s.out
            /\ t.onStack = s.onStack \cup {v}
BY DEF State

\* Taking a vertex from the removal stack changes nothing else.
LEMMA OffStackParts ==
  ASSUME NEW s \in State, NEW v \in Vertex
  PROVE  LET t == [s EXCEPT !.onStack = @ \ {v}]
         IN /\ t \in State /\ t.color = s.color /\ t.poss = s.poss /\ t.out = s.out
            /\ t.onStack = s.onStack \ {v}
BY DEF State

\* The rivals of the vertices below do not change with what is on top.
LEMMA RivalsBelow ==
  ASSUME NEW base, NEW s, NEW t, s.color = t.color, s.out = t.out,
         NEW rem \in Seq(Vertex), NEW v \in Vertex, NEW i \in 1..Len(rem)
  PROVE  Rivals(base, t, Append(rem, v), i) = Rivals(base, s, rem, i)
<1>1. Append(rem, v)[i] = rem[i] /\ \A j \in 1..(i - 1) : Append(rem, v)[j] = rem[j]
  <2>1. \A j \in 1..(i - 1) : j \in 1..Len(rem)
    BY LenProperties
  <2> QED BY <2>1, StackParts
<1> QED BY <1>1 DEF Rivals, IsColored

\* A removable vertex goes on top of the stack.
LEMMA HeldAppend ==
  ASSUME NEW s \in State, NEW base, NEW rem \in Seq(Vertex), Held(base, s, rem),
         NEW v \in Vertex, Live(s, v), Removable(s, v)
  PROVE  Held(base, [s EXCEPT !.onStack = @ \cup {v}], Append(rem, v))
<1> DEFINE t == [s EXCEPT !.onStack = @ \cup {v}]
           all == Append(rem, v)
           n == Len(rem) + 1
<1>1. t \in State /\ t.color = s.color /\ t.poss = s.poss /\ t.out = s.out /\ t.onStack = s.onStack \cup {v}
  BY OnStackParts
<1>2. /\ all \in Seq(Vertex) /\ Len(all) = n /\ Len(rem) \in Nat
      /\ \A i \in 1..Len(rem) : all[i] = rem[i]
      /\ all[n] = v /\ Range(all) = Range(rem) \cup {v}
      /\ IsInjective(all) <=> IsInjective(rem) /\ v \notin Range(rem)
  BY StackParts
<1> HIDE DEF t
<1>3. ~IsColored(s, v) /\ v \notin s.onStack /\ v \notin s.out
  BY DEF Live, IsOperationPermissible
<1>4. \A u \in Vertex : IsColored(t, u) <=> IsColored(s, u)
  BY <1>1 DEF IsColored
<1>5. Rivals(base, t, all, n) = {u \in Ngbrs(v) : Live(s, u)}
  <2>1. s.onStack = base \cup {rem[i] : i \in 1..Len(rem)}
    BY RangeEquality DEF Held
  <2>2. n - 1 = Len(rem)
    BY <1>2
  <2>3. \A u : (\A j \in 1..(n - 1) : u # all[j]) <=> u \notin {rem[i] : i \in 1..Len(rem)}
    BY <1>2, <2>2
  <2>4. Ngbrs(v) \subseteq Vertex
    BY Basics
  <2> HIDE DEF all, n
  <2> QED BY <1>1, <1>2, <1>4, <2>1, <2>3, <2>4 DEF Rivals, Live, IsOperationPermissible
<1>6. Cardinality(t.poss[v]) > Cardinality(Rivals(base, t, all, n))
  BY <1>1, <1>5 DEF Removable, GetUncoloredNgbr
<1>7. \A i \in 1..Len(rem) :
        /\ ~IsColored(t, rem[i]) /\ rem[i] \notin t.out
        /\ Cardinality(t.poss[rem[i]]) > Cardinality(Rivals(base, t, all, i))
  <2>1. \A i \in 1..Len(rem) : rem[i] \in Vertex /\ Rivals(base, t, all, i) = Rivals(base, s, rem, i)
    BY <1>1, ElementOfSeq, RivalsBelow
  <2> QED BY <1>1, <1>4, <2>1 DEF Held
<1>8. \A i \in 1..n :
        /\ ~IsColored(t, all[i]) /\ all[i] \notin t.out
        /\ Cardinality(t.poss[all[i]]) > Cardinality(Rivals(base, t, all, i))
  <2>1. \A i \in 1..n : i \in 1..Len(rem) \/ i = n
    BY <1>2
  <2>2. ~IsColored(t, v) /\ v \notin t.out
    BY <1>1, <1>3, <1>4
  <2> HIDE DEF all, n
  <2> QED BY <1>2, <1>6, <1>7, <2>1, <2>2
<1>9. /\ IsInjective(all) /\ t.onStack = base \cup Range(all) /\ base \cap Range(all) = {}
  BY <1>1, <1>2, <1>3 DEF Held
<1>10. Held(base, t, all)
  <2> HIDE DEF all, n
  <2> QED BY <1>2, <1>8, <1>9 DEF Held
<1> QED BY <1>10 DEF t

\* From q, removal has come to r.
Removed(q, r) ==
  /\ r.state \in State /\ r.deleted \in Seq(Vertex)
  /\ r.state.color = q.state.color /\ r.state.poss = q.state.poss /\ r.state.out = q.state.out
  /\ Cardinality(LiveVertices(r.state)) + Len(r.deleted) = Cardinality(LiveVertices(q.state)) + Len(q.deleted)
  /\ \A base \in SUBSET Vertex : \A pre \in Seq(Vertex) :
       Held(base, q.state, pre \o q.deleted) => Held(base, r.state, pre \o r.deleted)

\* One turn of the loop, and what gets smaller in it.
LEMMA PopWorklistNext ==
  ASSUME NEW q \in Removal, q.worklist # {}
  PROVE  /\ PopWorklist(q) \in Removal
         /\ q.worklist \subseteq LiveVertices(q.state) =>
              /\ PopWorklist(q).worklist \subseteq LiveVertices(PopWorklist(q).state)
              /\ Removed(q, PopWorklist(q))
              /\ \/ Cardinality(LiveVertices(PopWorklist(q).state)) < Cardinality(LiveVertices(q.state))
                 \/ /\ PopWorklist(q).state = q.state
                    /\ Cardinality(PopWorklist(q).worklist) < Cardinality(q.worklist)
<1> DEFINE v == Min(q.worklist)
           s == q.state
           t == [s EXCEPT !.onStack = @ \cup {v}]
           more == {u \in Ngbrs(v) : Live(t, u)}
           d == q.deleted
<1>1. /\ s \in State /\ q.worklist \in SUBSET Vertex /\ d \in Seq(Vertex)
      /\ q = [state |-> s, worklist |-> q.worklist, deleted |-> d]
  BY DEF Removal
<1>2. v \in q.worklist /\ v \in Vertex
  <2>1. q.worklist \in SUBSET Nat
    BY <1>1 DEF Vertex
  <2> QED BY <1>1, <2>1, MinLeast
<1> HIDE DEF v, s, d
<1>3. t \in State /\ t.color = s.color /\ t.poss = s.poss /\ t.out = s.out /\ t.onStack = s.onStack \cup {v}
  BY <1>1, <1>2, OnStackParts
<1>4. CASE Removable(s, v)
  <2>1. PopWorklist(q) = [state |-> t, worklist |-> (q.worklist \ {v}) \cup more, deleted |-> Append(d, v)]
    BY <1>4 DEF PopWorklist, s, v, d
  <2> HIDE DEF t
  <2>2. more \in SUBSET Vertex
    BY <1>2, Basics
  <2>3. Append(d, v) \in Seq(Vertex) /\ Len(Append(d, v)) = Len(d) + 1 /\ Len(d) \in Nat
    BY <1>1, <1>2, StackParts
  <2> HIDE DEF more
  <2>4. PopWorklist(q) \in Removal
    BY <1>1, <1>3, <2>1, <2>2, <2>3 DEF Removal
  <2>5. ASSUME q.worklist \subseteq LiveVertices(s)
        PROVE  /\ PopWorklist(q).worklist \subseteq LiveVertices(t)
               /\ Removed(q, PopWorklist(q))
               /\ Cardinality(LiveVertices(t)) < Cardinality(LiveVertices(s))
    <3>1. LiveVertices(t) = LiveVertices(s) \ {v}
      BY <1>3 DEF LiveVertices, Live, IsOperationPermissible, IsColored
    <3>2. more \subseteq LiveVertices(t)
      BY <2>2 DEF more, LiveVertices
    <3>3. Live(s, v) /\ v \in LiveVertices(s) /\ LiveVertices(s) \in SUBSET Vertex
      BY <1>2, <2>5 DEF LiveVertices
    <3>4. Cardinality(LiveVertices(t)) = Cardinality(LiveVertices(s)) - 1 /\ Cardinality(LiveVertices(s)) \in Nat
      BY <3>1, <3>3, FiniteParts, FS_RemoveElement
    <3>5. ASSUME NEW base \in SUBSET Vertex, NEW pre \in Seq(Vertex), Held(base, s, pre \o d)
          PROVE  Held(base, t, pre \o Append(d, v))
      <4>1. pre \o d \in Seq(Vertex)
        BY <1>1
      <4>2. pre \o Append(d, v) = Append(pre \o d, v)
        BY <1>1, <1>2
      <4>3. Held(base, t, Append(pre \o d, v))
        <5> HIDE DEF v
        <5> QED BY <1>1, <1>2, <1>4, <3>3, <3>5, <4>1, HeldAppend DEF t
      <4> QED BY <4>2, <4>3
    <3>6. Removed(q, PopWorklist(q))
      <4>1. PopWorklist(q).state = t /\ PopWorklist(q).deleted = Append(d, v)
        BY <2>1
      <4>2. \A base \in SUBSET Vertex : \A pre \in Seq(Vertex) :
              Held(base, s, pre \o d) => Held(base, t, pre \o Append(d, v))
        BY <3>5
      <4>3. Cardinality(LiveVertices(t)) + Len(Append(d, v)) = Cardinality(LiveVertices(s)) + Len(d)
        BY <2>3, <3>4
      <4>4. Removed([state |-> s, worklist |-> q.worklist, deleted |-> d], PopWorklist(q))
        BY <1>3, <2>3, <4>1, <4>2, <4>3 DEF Removed
      <4> QED BY <1>1, <4>4
    <3> QED BY <2>1, <2>5, <3>1, <3>2, <3>4, <3>6
  <2> QED BY <2>1, <2>4, <2>5 DEF s
<1>5. CASE ~Removable(s, v)
  <2>1. PopWorklist(q) = [q EXCEPT !.worklist = @ \ {v}]
    BY <1>5 DEF PopWorklist, s, v
  <2>2. PopWorklist(q) = [state |-> s, worklist |-> q.worklist \ {v}, deleted |-> d]
    BY <2>1 DEF Removal, s, d
  <2>3. PopWorklist(q) \in Removal
    BY <1>1, <2>2 DEF Removal
  <2>4. Cardinality(q.worklist \ {v}) < Cardinality(q.worklist)
    <3>1. IsFiniteSet(q.worklist) /\ Cardinality(q.worklist) \in Nat
      BY <1>1, FiniteParts
    <3>2. Cardinality(q.worklist \ {v}) = Cardinality(q.worklist) - 1
      BY <1>2, <3>1, FS_RemoveElement
    <3> QED BY <3>1, <3>2
  <2>5. Removed(q, PopWorklist(q))
    BY <1>1, <2>2 DEF Removed, s, d
  <2> QED BY <2>2, <2>3, <2>4, <2>5 DEF s
<1> QED BY <1>4, <1>5

\* The equation of RemovalLoop.
LEMMA RemovalEquation ==
  RemovalLoop = [q \in Removal |-> IF q.worklist = {} THEN q ELSE RemovalLoop[PopWorklist(q)]]
<1> DEFINE stop == {q \in Removal : q.worklist = {}}
           base == [q \in Removal |-> q]
           next == [q \in Removal |-> IF q \in stop THEN q ELSE PopWorklist(q)]
           R == Removal
<1>1. next \in [Removal -> Removal] /\ base \in [Removal -> R] /\ stop \in SUBSET Removal
  BY PopWorklistNext
<1>2. PICK f \in [Removal -> R] :
        \A q \in Removal : f[q] = IF q \in stop THEN base[q] ELSE f[next[q]]
  <2> HIDE DEF next, stop, base, R
  <2> QED BY <1>1, TailRecursion
<1>3. \A q \in Removal : f[q] = IF q.worklist = {} THEN q ELSE f[PopWorklist(q)]
  BY <1>2
<1>4. f = [q \in Removal |-> IF q.worklist = {} THEN q ELSE f[PopWorklist(q)]]
  BY <1>2, <1>3
<1> HIDE DEF next, stop, base, R
<1> QED BY <1>4 DEF RemovalLoop

\* The loop ends, and every vertex it has removed can be put back.
LEMMA RemovalLoopRemoves ==
  ASSUME NEW q \in Removal, q.worklist \subseteq LiveVertices(q.state)
  PROVE  Removed(q, RemovalLoop[q])
<1> DEFINE m == [x \in Removal |-> Cardinality(LiveVertices(x.state))]
           n == [x \in Removal |-> Cardinality(x.worklist)]
           Wrong == {x \in Removal : x.worklist \subseteq LiveVertices(x.state) /\ ~Removed(x, RemovalLoop[x])}
<1>1. n \in [Removal -> Nat]
  <2>1. \A x \in Removal : x.worklist \in SUBSET Vertex
    BY DEF Removal
  <2> QED BY <2>1, FiniteParts
<1>2. m \in [Removal -> Nat]
  <2>1. \A s : LiveVertices(s) \in SUBSET Vertex
    BY DEF LiveVertices
  <2> QED BY <2>1, FiniteParts
<1> SUFFICES ASSUME Wrong # {} PROVE FALSE
  OBVIOUS
<1>3. PICK x \in Wrong : \A y \in Wrong : ~(m[y] < m[x] \/ (m[y] = m[x] /\ n[y] < n[x]))
  <2>1. Wrong \in SUBSET Removal
    OBVIOUS
  <2> HIDE DEF Wrong, m, n
  <2> QED BY <1>1, <1>2, <2>1, LeastPair
<1>4. x \in Removal /\ x.worklist \subseteq LiveVertices(x.state) /\ ~Removed(x, RemovalLoop[x])
  OBVIOUS
<1>5. RemovalLoop[x] = IF x.worklist = {} THEN x ELSE RemovalLoop[PopWorklist(x)]
  BY <1>4, RemovalEquation
<1>6. x.worklist # {}
  BY <1>4, <1>5 DEF Removed, Removal
<1> DEFINE y == PopWorklist(x)
<1>7. /\ y \in Removal /\ y.worklist \subseteq LiveVertices(y.state) /\ Removed(x, y)
      /\ \/ Cardinality(LiveVertices(y.state)) < Cardinality(LiveVertices(x.state))
         \/ y.state = x.state /\ Cardinality(y.worklist) < Cardinality(x.worklist)
  BY <1>4, <1>6, PopWorklistNext
<1> HIDE DEF y
<1>8. ~Removed(y, RemovalLoop[y])
  <2>1. RemovalLoop[x] = RemovalLoop[y]
    BY <1>5, <1>6 DEF y
  <2> QED BY <1>4, <1>7, <2>1 DEF Removed
<1>9. y \in Wrong
  BY <1>7, <1>8
<1> QED BY <1>3, <1>4, <1>7, <1>9

\* vertexRemoval removes live vertices that can be put back, and nothing else.
LEMMA VertexRemovalRemoves ==
  ASSUME NEW s \in State
  PROVE  LET r == VertexRemoval(s)
         IN /\ r.state \in State /\ r.deleted \in Seq(Vertex)
            /\ r.state.color = s.color /\ r.state.poss = s.poss /\ r.state.out = s.out
            /\ Cardinality(LiveVertices(r.state)) + Len(r.deleted) = Cardinality(LiveVertices(s))
            /\ \A base \in SUBSET Vertex : \A pre \in Seq(Vertex) :
                 Held(base, s, pre) => Held(base, r.state, pre \o r.deleted)
<1> DEFINE q == [state |-> s, worklist |-> LiveVertices(s), deleted |-> <<>>]
           r == RemovalLoop[q]
<1>1. /\ q \in Removal /\ q.worklist \subseteq LiveVertices(q.state)
      /\ q.state = s /\ q.deleted = <<>> /\ Len(q.deleted) = 0
  BY DEF Removal, LiveVertices
<1>2. VertexRemoval(s) = r
  BY DEF VertexRemoval
<1> HIDE DEF q
<1>3. Removed(q, r)
  BY <1>1, RemovalLoopRemoves
<1> HIDE DEF r
<1>4. \A pre \in Seq(Vertex) : pre \o q.deleted = pre
  BY <1>1, ConcatEmptySeq
<1>5. Cardinality(LiveVertices(s)) \in Nat
  BY FiniteParts DEF LiveVertices
<1>6. Cardinality(LiveVertices(r.state)) + Len(r.deleted) = Cardinality(LiveVertices(s))
  BY <1>1, <1>3, <1>5 DEF Removed
<1> QED BY <1>1, <1>2, <1>3, <1>4, <1>6 DEF Removed

-----------------------------------------------------------------------------
(* mergeRemovedVerticesBack. *)

\* Soundness is about colours only.
LEMMA SoundSame ==
  ASSUME NEW s, Sound(s), NEW r \in State, r.color = s.color, r.poss = s.poss
  PROVE  Sound(r)
<1>1. \A v : IsColored(r, v) <=> IsColored(s, v)
  BY DEF IsColored
<1>2. Exact(r)
  <2> SUFFICES ASSUME NEW v \in Vertex
               PROVE  r.poss[v] = IF IsColored(r, v) THEN {} ELSE Color \ {r.color[u] : u \in Ngbrs(v)}
    BY DEF Exact
  <2>1. s.poss[v] = IF IsColored(s, v) THEN {} ELSE Color \ {s.color[u] : u \in Ngbrs(v)}
    BY DEF Sound, Exact
  <2> QED BY <1>1, <2>1, Zenon
<1>3. Proper(r)
  BY <1>1 DEF Sound, Proper
<1> QED BY <1>2, <1>3 DEF Sound

\* The top of the stack finds a colour, and the rest can still be put back.
LEMMA PutBackHeld ==
  ASSUME NEW s \in State, Sound(s), NEW base \in SUBSET Vertex,
         NEW rem \in Seq(Vertex), NEW v \in Vertex, Held(base, s, Append(rem, v))
  PROVE  LET t == PutBack(v, s)
         IN /\ Sound(t) /\ Held(base, t, rem) /\ t.out = s.out
            /\ IsColored(t, v)
            /\ \A u \in Vertex \ {v} : t.color[u] = s.color[u]
<1> DEFINE all == Append(rem, v)
           n == Len(rem) + 1
           r == [s EXCEPT !.onStack = @ \ {v}]
           c == Min(s.poss[v])
           t == PutBack(v, s)
<1>1. /\ all \in Seq(Vertex) /\ Len(all) = n /\ Len(rem) \in Nat
      /\ \A i \in 1..Len(rem) : all[i] = rem[i]
      /\ all[n] = v /\ Range(all) = Range(rem) \cup {v}
      /\ IsInjective(all) <=> IsInjective(rem) /\ v \notin Range(rem)
  BY StackParts
<1>2. s \in State /\ r \in State /\ r.color = s.color /\ r.poss = s.poss /\ r.out = s.out
      /\ r.onStack = s.onStack \ {v}
  BY OffStackParts DEF Sound
<1>3. /\ IsInjective(all)
      /\ s.onStack = base \cup Range(all) /\ base \cap Range(all) = {}
      /\ \A i \in 1..n :
           /\ ~IsColored(s, all[i]) /\ all[i] \notin s.out
           /\ Cardinality(s.poss[all[i]]) > Cardinality(Rivals(base, s, all, i))
  BY <1>1 DEF Held
<1>4. ~IsColored(s, v) /\ v \notin s.out /\ Cardinality(s.poss[v]) > Cardinality(Rivals(base, s, all, n))
  <2>1. n \in 1..n
    BY <1>1
  <2> HIDE DEF all, n
  <2> QED BY <1>1, <1>3, <2>1
<1>5. s.poss[v] # {} /\ c \in s.poss[v]
  <2>1. Rivals(base, s, all, n) \in SUBSET Vertex
    <3>1. n \in 1..Len(all)
      BY <1>1
    <3> HIDE DEF all, n
    <3> QED BY <1>1, <3>1, RivalsFinite
  <2>2. Cardinality(Rivals(base, s, all, n)) \in Nat
    BY <2>1, FiniteParts
  <2>3. s.poss[v] \in SUBSET Color /\ s.poss[v] \in SUBSET Nat
    BY <1>2, StateParts, Basics
  <2>4. s.poss[v] # {}
    <3>1. IsFiniteSet(s.poss[v]) /\ Cardinality(s.poss[v]) \in Nat
      BY <2>3, FiniteParts
    <3>2. Cardinality(s.poss[v]) # 0
      BY <1>4, <2>2, <3>1
    <3> QED BY <3>1, <3>2, FS_EmptySet
  <2> QED BY <2>3, <2>4, MinLeast
<1> HIDE DEF r, c
<1>6. /\ Live(r, v)
      /\ t = UpdateState(r, v, c, FALSE)
  BY <1>2, <1>4, <1>5 DEF PutBack, r, c, Live, IsOperationPermissible, IsColored
<1>7. Sound(r)
  BY <1>2, SoundSame
<1>8. t = Paint(r, v, c)
  BY <1>6 DEF UpdateState
<1> HIDE DEF t
<1>9. Sound(t) /\ Grown(r, t) /\ t.color[v] = c /\ c \in Color
  <2>1. Sound(Paint(r, v, c)) /\ Grown(r, Paint(r, v, c)) /\ Paint(r, v, c).color[v] = c
    BY <1>2, <1>5, <1>6, <1>7, PaintGrows
  <2>2. c \in Color
    BY <1>2, <1>5, StateParts
  <2> QED BY <1>8, <2>1, <2>2
<1>10. Held(base, r, rem)
  <2>1. IsInjective(rem) /\ r.onStack = base \cup Range(rem) /\ base \cap Range(rem) = {}
    BY <1>1, <1>2, <1>3
  <2>2. \A i \in 1..Len(rem) :
          /\ i \in 1..n /\ rem[i] \in Vertex
          /\ Rivals(base, s, all, i) = Rivals(base, r, rem, i)
    <3>1. \A i \in 1..Len(rem) : Rivals(base, s, all, i) = Rivals(base, r, rem, i)
      BY <1>2, RivalsBelow
    <3> QED BY <1>1, <3>1, ElementOfSeq
  <2>3. \A i \in 1..Len(rem) :
          /\ ~IsColored(r, rem[i]) /\ rem[i] \notin r.out
          /\ Cardinality(r.poss[rem[i]]) > Cardinality(Rivals(base, r, rem, i))
    <3>1. \A u : IsColored(r, u) <=> IsColored(s, u)
      BY <1>2 DEF IsColored
    <3> HIDE DEF all, n
    <3> QED BY <1>1, <1>2, <1>3, <2>2, <3>1
  <2> QED BY <2>1, <2>3 DEF Held
<1>11. Held(base, t, rem)
  BY <1>7, <1>9, <1>10, HeldGrown
<1>12. t.out = s.out
  BY <1>2, <1>9 DEF Grown
<1>13. \A u \in Vertex \ {v} : t.color[u] = s.color[u]
  <2>1. t.color = [r.color EXCEPT ![v] = c]
    BY <1>2, <1>8, <1>9, PaintParts
  <2> QED BY <1>2, <2>1, StateParts DEF Assignment
<1>14. IsColored(t, v)
  BY <1>9, GraphAssumption DEF IsColored, Color
<1> QED BY <1>9, <1>11, <1>12, <1>13, <1>14 DEF t

\* Where the loop stands next.
MergeNext(q) == [state |-> PutBack(Last(q.deleted), q.state), deleted |-> Front(q.deleted)]

\* A turn of the merge keeps the types.
LEMMA MergeNextType ==
  ASSUME NEW q \in Merging, q.deleted # <<>>
  PROVE  MergeNext(q) \in Merging
<1>1. q.state \in State /\ q.deleted \in Seq(Vertex)
  BY DEF Merging
<1>2. PICK d \in Seq(Vertex), v \in Vertex : q.deleted = Append(d, v)
  BY <1>1, SequenceEmptyOrAppend
<1>3. Last(q.deleted) = v /\ Front(q.deleted) = d
  BY <1>2, StackParts
<1>4. PutBack(v, q.state) \in State
  <2> DEFINE s == q.state
             r == [s EXCEPT !.onStack = @ \ {v}]
             c == Min(s.poss[v])
  <2>1. s \in State /\ r \in State /\ s.poss[v] \in SUBSET Color
    BY <1>1, OffStackParts, StateParts
  <2>2. CASE s.poss[v] = {}
    BY <2>1, <2>2 DEF PutBack
  <2>3. CASE s.poss[v] # {}
    <3>1. s.poss[v] \in SUBSET Nat
      BY <2>1, Basics
    <3>2. c \in Color
      BY <2>1, <2>3, <3>1, MinLeast
    <3>3. PutBack(v, s) = UpdateState(r, v, c, FALSE)
      BY <2>3 DEF PutBack
    <3> HIDE DEF r, c
    <3>4. Paint(r, v, c) \in State
      BY <2>1, <3>2, PaintParts
    <3> QED BY <2>1, <3>3, <3>4 DEF UpdateState
  <2> QED BY <2>2, <2>3
<1> QED BY <1>2, <1>3, <1>4 DEF MergeNext, Merging

\* The equation of MergeLoop.
LEMMA MergeEquation ==
  MergeLoop = [q \in Merging |-> IF q.deleted = <<>> THEN q.state ELSE MergeLoop[MergeNext(q)]]
<1> DEFINE stop == {q \in Merging : q.deleted = <<>>}
           base == [q \in Merging |-> q.state]
           next == [q \in Merging |-> IF q \in stop THEN q ELSE MergeNext(q)]
<1>1. next \in [Merging -> Merging] /\ base \in [Merging -> State] /\ stop \in SUBSET Merging
  BY MergeNextType DEF Merging
<1>2. PICK f \in [Merging -> State] :
        \A q \in Merging : f[q] = IF q \in stop THEN base[q] ELSE f[next[q]]
  <2> HIDE DEF next, stop, base
  <2> QED BY <1>1, TailRecursion
<1>3. \A q \in Merging : f[q] = IF q.deleted = <<>> THEN q.state ELSE f[MergeNext(q)]
  BY <1>2
<1>4. f = [q \in Merging |-> IF q.deleted = <<>> THEN q.state ELSE f[MergeNext(q)]]
  BY <1>2, <1>3
<1> HIDE DEF next, stop, base
<1> QED BY <1>4 DEF MergeLoop, MergeNext, Merging

\* From s, with the vertices of a below those of d on the stack, merging d has
\* come to t.
MergedTo(base, a, d, s, t) ==
  /\ Sound(t) /\ Held(base, t, a) /\ t.out = s.out
  /\ \A v \in Vertex : IF v \in Range(d) THEN IsColored(t, v) ELSE t.color[v] = s.color[v]

\* Every removed vertex finds a colour, whatever the others have taken.
LEMMA MergeLoopMerges ==
  ASSUME NEW s, Sound(s), NEW d \in Seq(Vertex), NEW base \in SUBSET Vertex, NEW a \in Seq(Vertex),
         Held(base, s, a \o d)
  PROVE  MergedTo(base, a, d, s, MergeRemovedVerticesBack(d, s))
<1> DEFINE Right(q) == Sound(q.state) /\ Held(base, q.state, a \o q.deleted)
           Wrong == {q \in Merging : Right(q) /\ ~MergedTo(base, a, q.deleted, q.state, MergeLoop[q])}
           m == [q \in Merging |-> Len(q.deleted)]
<1>1. m \in [Merging -> Nat]
  BY DEF Merging
<1>2. Wrong = {}
  <2> SUFFICES ASSUME Wrong # {} PROVE FALSE
    OBVIOUS
  <2>1. PICK x \in Wrong : \A y \in Wrong : ~(m[y] < m[x] \/ (m[y] = m[x] /\ m[y] < m[x]))
    <3>1. Wrong \in SUBSET Merging
      OBVIOUS
    <3> HIDE DEF Wrong, m
    <3> QED BY <1>1, <3>1, LeastPair
  <2>2. x \in Merging /\ Right(x) /\ ~MergedTo(base, a, x.deleted, x.state, MergeLoop[x])
    OBVIOUS
  <2>3. MergeLoop[x] = IF x.deleted = <<>> THEN x.state ELSE MergeLoop[MergeNext(x)]
    BY <2>2, MergeEquation
  <2>4. x.deleted # <<>>
    <3> SUFFICES ASSUME x.deleted = <<>> PROVE FALSE
      OBVIOUS
    <3>1. a \o x.deleted = a /\ Range(x.deleted) = {}
      BY ConcatEmptySeq DEF Range
    <3> QED BY <2>2, <2>3, <3>1 DEF MergedTo
  <2>5. PICK e \in Seq(Vertex), v \in Vertex : x.deleted = Append(e, v)
    BY <2>2, <2>4, SequenceEmptyOrAppend DEF Merging
  <2> DEFINE y == MergeNext(x)
  <2>6. y \in Merging /\ y.state = PutBack(v, x.state) /\ y.deleted = e
    <3>1. Last(x.deleted) = v /\ Front(x.deleted) = e
      BY <2>5, StackParts
    <3>2. y.state = PutBack(v, x.state) /\ y.deleted = e
      BY <3>1 DEF MergeNext
    <3>3. MergeNext(x) \in Merging
      BY <2>2, <2>4, MergeNextType
    <3> QED BY <3>2, <3>3
  <2>7. a \o x.deleted = Append(a \o e, v) /\ a \o e \in Seq(Vertex)
    BY <2>5
  <2>8. /\ Sound(y.state) /\ Held(base, y.state, a \o e) /\ y.state.out = x.state.out
        /\ IsColored(y.state, v)
        /\ \A u \in Vertex \ {v} : y.state.color[u] = x.state.color[u]
    <3> DEFINE r == x.state
               t == y.state
               all == a \o e
    <3>1. Sound(r) /\ Held(base, r, Append(all, v)) /\ all \in Seq(Vertex) /\ t = PutBack(v, r)
      BY <2>2, <2>6, <2>7
    <3>2. r \in State
      BY <2>2 DEF Merging
    <3> HIDE DEF r, t, all
    <3>3. /\ Sound(t) /\ Held(base, t, all) /\ t.out = r.out
          /\ IsColored(t, v)
          /\ \A u \in Vertex \ {v} : t.color[u] = r.color[u]
      BY <3>1, <3>2, PutBackHeld
    <3> QED BY <3>3 DEF r, t, all
  <2>9. m[y] < m[x]
    BY <2>2, <2>5, <2>6, StackParts
  <2>10. y \notin Wrong
    BY <2>1, <2>9
  <2>11. MergedTo(base, a, e, y.state, MergeLoop[y])
    BY <2>6, <2>8, <2>10
  <2> HIDE DEF y, Wrong
  <2>12. Range(x.deleted) = Range(e) \cup {v}
    BY <2>5, StackParts
  <2>13. MergeLoop[x] = MergeLoop[y]
    BY <2>3, <2>4 DEF y
  <2>14. MergedTo(base, a, x.deleted, x.state, MergeLoop[y])
    BY <2>8, <2>11, <2>12 DEF MergedTo, IsColored
  <2> QED BY <2>2, <2>13, <2>14
<1> DEFINE q == [state |-> s, deleted |-> d]
<1>3. q \in Merging /\ q.state = s /\ q.deleted = d
  BY DEF Merging, Sound
<1>4. MergeRemovedVerticesBack(d, s) = MergeLoop[q]
  BY DEF MergeRemovedVerticesBack
<1> HIDE DEF q
<1> QED BY <1>2, <1>3, <1>4

-----------------------------------------------------------------------------
(* What a search should find. *)

Partial == [color : Assignment, todo : SUBSET Vertex]

\* f is what colouring the vertices of todo, in their order, may lead to.
Extends(f, q) ==
  /\ \A v \in Vertex \ q.todo : f[v] = q.color[v]
  /\ \A v \in q.todo :
       /\ f[v] \in Color
       /\ \A u \in Ngbrs(v) : f[v] # IF u \in q.todo /\ u > v THEN q.color[u] ELSE f[u]

\* The partial colouring that gives c to the first vertex of todo.
Given(q, c) == [color |-> [q.color EXCEPT ![Min(q.todo)] = c], todo |-> q.todo \ {Min(q.todo)}]

\* One vertex less is left after the first vertex has a colour.
LEMMA GivenParts ==
  ASSUME NEW q \in Partial, q.todo # {}, NEW c \in Color
  PROVE  /\ Min(q.todo) \in q.todo /\ Min(q.todo) \in Vertex
         /\ \A v \in q.todo : Min(q.todo) <= v
         /\ Given(q, c) \in Partial
         /\ Given(q, c).todo = q.todo \ {Min(q.todo)}
         /\ \A v \in Vertex : Given(q, c).color[v] = IF v = Min(q.todo) THEN c ELSE q.color[v]
         /\ Cardinality(Given(q, c).todo) < Cardinality(q.todo)
<1> DEFINE v == Min(q.todo)
<1>1. q.color \in Assignment /\ q.todo \in SUBSET Vertex /\ q.todo \in SUBSET Nat
  BY DEF Partial, Vertex
<1>2. v \in q.todo /\ \A u \in q.todo : v <= u
  BY <1>1, MinLeast
<1> HIDE DEF v
<1>3. /\ Given(q, c).color = [q.color EXCEPT ![v] = c]
      /\ Given(q, c).todo = q.todo \ {v}
      /\ Given(q, c) = [color |-> [q.color EXCEPT ![v] = c], todo |-> q.todo \ {v}]
  BY DEF Given, v
<1>4. [q.color EXCEPT ![v] = c] \in Assignment
  BY <1>1, <1>2 DEF Assignment
<1>5. Given(q, c) \in Partial
  BY <1>1, <1>3, <1>4 DEF Partial
<1>6. \A u \in Vertex : Given(q, c).color[u] = IF u = v THEN c ELSE q.color[u]
  BY <1>1, <1>3 DEF Assignment
<1>7. Cardinality(q.todo \ {v}) < Cardinality(q.todo)
  <2>1. IsFiniteSet(q.todo) /\ Cardinality(q.todo) \in Nat
    BY <1>1, FiniteParts
  <2>2. Cardinality(q.todo \ {v}) = Cardinality(q.todo) - 1
    BY <1>2, <2>1, FS_RemoveElement
  <2> QED BY <2>1, <2>2
<1> QED BY <1>1, <1>2, <1>3, <1>5, <1>6, <1>7 DEF v

\* Colouring the first vertex of todo and then the others is colouring them all.
LEMMA ExtendsOn ==
  ASSUME NEW q \in Partial, q.todo # {}, NEW f \in Assignment
  PROVE  Extends(f, q) <=> \E c \in Color : /\ \A u \in Ngbrs(Min(q.todo)) : q.color[u] # c
                                            /\ Extends(f, Given(q, c))
<1> DEFINE v == Min(q.todo)
<1>1. /\ v \in q.todo /\ v \in Vertex /\ \A u \in q.todo : v <= u
      /\ \A c \in Color : /\ Given(q, c).todo = q.todo \ {v}
                          /\ \A u \in Vertex : Given(q, c).color[u] = IF u = v THEN c ELSE q.color[u]
  <2>1. \A c \in Color : /\ Given(q, c).todo = q.todo \ {v}
                         /\ \A u \in Vertex : Given(q, c).color[u] = IF u = v THEN c ELSE q.color[u]
    BY GivenParts
  <2>2. q.todo \in SUBSET Nat /\ q.todo \in SUBSET Vertex
    BY DEF Partial, Vertex
  <2> QED BY <2>1, <2>2, MinLeast
<1>2. /\ \A u \in Vertex : u \in Int
      /\ \A w \in Vertex : Ngbrs(w) \subseteq Vertex /\ w \notin Ngbrs(w)
      /\ q.todo \subseteq Vertex
  BY Basics DEF Partial
<1> HIDE DEF v
<1>3. ASSUME Extends(f, q)
      PROVE  /\ f[v] \in Color
             /\ \A u \in Ngbrs(v) : q.color[u] # f[v]
             /\ Extends(f, Given(q, f[v]))
  <2>1. f[v] \in Color
    BY <1>1, <1>3 DEF Extends
  <2>2. \A u \in Ngbrs(v) : q.color[u] # f[v]
    <3> TAKE u \in Ngbrs(v)
    <3>1. u \in Vertex /\ u # v /\ (u \in q.todo => u > v)
      BY <1>1, <1>2
    <3> QED BY <1>1, <1>3, <3>1 DEF Extends
  <2> DEFINE g == Given(q, f[v])
  <2>3. g.todo = q.todo \ {v} /\ \A u \in Vertex : g.color[u] = IF u = v THEN f[v] ELSE q.color[u]
    BY <1>1, <2>1
  <2> HIDE DEF g
  <2>4. \A u \in Vertex \ g.todo : f[u] = g.color[u]
    BY <1>3, <2>3 DEF Extends
  <2>5. ASSUME NEW w \in g.todo, NEW u \in Ngbrs(w)
        PROVE  f[w] # IF u \in g.todo /\ u > w THEN g.color[u] ELSE f[u]
    <3>1. w \in q.todo /\ w \in Vertex /\ u \in Vertex /\ ~(v > w)
      BY <1>1, <1>2, <2>3, <2>5
    <3>2. f[w] # IF u \in q.todo /\ u > w THEN q.color[u] ELSE f[u]
      BY <1>3, <3>1 DEF Extends
    <3> QED BY <2>3, <3>1, <3>2
  <2>6. \A w \in g.todo : f[w] \in Color
    BY <1>3, <2>3 DEF Extends
  <2> QED BY <2>1, <2>2, <2>4, <2>5, <2>6 DEF Extends, g
<1>4. ASSUME NEW c \in Color, \A u \in Ngbrs(v) : q.color[u] # c, Extends(f, Given(q, c))
      PROVE  Extends(f, q)
  <2> DEFINE g == Given(q, c)
  <2>1. g.todo = q.todo \ {v} /\ \A u \in Vertex : g.color[u] = IF u = v THEN c ELSE q.color[u]
    BY <1>1
  <2>2. /\ \A u \in Vertex \ g.todo : f[u] = g.color[u]
        /\ \A w \in g.todo : f[w] \in Color /\ \A u \in Ngbrs(w) :
             f[w] # IF u \in g.todo /\ u > w THEN g.color[u] ELSE f[u]
    BY <1>4 DEF Extends
  <2> HIDE DEF g
  <2>3. f[v] = c
    BY <1>1, <2>1, <2>2
  <2>4. \A u \in Vertex \ q.todo : f[u] = q.color[u]
    BY <1>1, <2>1, <2>2
  <2>5. ASSUME NEW w \in q.todo, NEW u \in Ngbrs(w)
        PROVE  f[w] # IF u \in q.todo /\ u > w THEN q.color[u] ELSE f[u]
    <3>1. w \in Vertex /\ u \in Vertex /\ u # w /\ ~(v > w)
      BY <1>1, <1>2
    <3>2. CASE w = v
      <4>1. u \in q.todo => u > v
        BY <1>1, <1>2, <3>1, <3>2
      <4>2. u \notin q.todo => f[u] = q.color[u]
        BY <2>4, <3>1
      <4> QED BY <1>4, <2>3, <3>2, <4>1, <4>2
    <3>3. CASE w # v
      BY <2>1, <2>2, <3>1, <3>3
    <3> QED BY <3>2, <3>3
  <2>6. \A w \in q.todo : f[w] \in Color
    BY <2>1, <2>2, <2>3
  <2> QED BY <2>4, <2>5, <2>6 DEF Extends
<1> QED BY <1>3, <1>4 DEF v

\* The equation of Completes, and what it says.
LEMMA CompletesExtends ==
  ASSUME NEW q \in Partial
  PROVE  Completes[q] <=> \E f \in Assignment : Extends(f, q)
<1> DEFINE can == [x \in Partial |-> \E f \in Assignment : Extends(f, x)]
           Turn(g) == [x \in Partial |->
                         x.todo = {} \/
                         LET v == Min(x.todo)
                         IN \E c \in Color :
                              /\ \A u \in Ngbrs(v) : x.color[u] # c
                              /\ g[[color |-> [x.color EXCEPT ![v] = c], todo |-> x.todo \ {v}]]]
<1>1. \A x \in Partial : (\E f \in Assignment : Extends(f, x))
        <=> \/ x.todo = {}
            \/ \E c \in Color : /\ \A u \in Ngbrs(Min(x.todo)) : x.color[u] # c
                                /\ \E f \in Assignment : Extends(f, Given(x, c))
  <2> SUFFICES ASSUME NEW x \in Partial
               PROVE  (\E f \in Assignment : Extends(f, x))
                      <=> \/ x.todo = {}
                          \/ \E c \in Color : /\ \A u \in Ngbrs(Min(x.todo)) : x.color[u] # c
                                              /\ \E f \in Assignment : Extends(f, Given(x, c))
    OBVIOUS
  <2>1. CASE x.todo = {}
    <3>1. x.color \in Assignment /\ Extends(x.color, x)
      BY <2>1 DEF Extends, Partial
    <3> QED BY <2>1, <3>1
  <2>2. CASE x.todo # {}
    BY <2>2, ExtendsOn
  <2> QED BY <2>1, <2>2
<1>2. \A x \in Partial : \A c \in Color : x.todo # {} => can[Given(x, c)] = (\E f \in Assignment : Extends(f, Given(x, c)))
  <2>1. \A x \in Partial : \A c \in Color : x.todo # {} => Given(x, c) \in Partial
    BY GivenParts
  <2> QED BY <2>1
<1>3. \A x \in Partial : can[x] <=> Turn(can)[x]
  <2> TAKE x \in Partial
  <2>1. Turn(can)[x] <=> \/ x.todo = {}
                         \/ \E c \in Color : /\ \A u \in Ngbrs(Min(x.todo)) : x.color[u] # c
                                             /\ can[Given(x, c)]
    BY DEF Given
  <2>2. can[x] <=> \E f \in Assignment : Extends(f, x)
    OBVIOUS
  <2> HIDE DEF can
  <2> QED BY <1>1, <1>2, <2>1, <2>2
<1>4. can = Turn(can)
  <2>1. \A x \in Partial : can[x] \in BOOLEAN
    OBVIOUS
  <2>2. \A x \in Partial : Turn(can)[x] \in BOOLEAN
    OBVIOUS
  <2>3. \A x \in Partial : can[x] = Turn(can)[x]
    <3> HIDE DEF can, Turn
    <3> QED BY <1>3, <2>1, <2>2
  <2>4. can = [x \in Partial |-> can[x]] /\ Turn(can) = [x \in Partial |-> Turn(can)[x]]
    OBVIOUS
  <2> HIDE DEF can, Turn
  <2> QED BY <2>3, <2>4
<1>5. Completes = Turn(Completes)
  <2>1. \E g : g = Turn(g)
    <3> HIDE DEF can, Turn
    <3> QED BY <1>4
  <2>2. Completes = CHOOSE g : g = Turn(g)
    BY DEF Completes, Partial, Assignment
  <2> HIDE DEF Turn
  <2> QED BY <2>1, <2>2
<1>6. \A x \in Partial : Completes[x] <=> \/ x.todo = {}
                                      \/ \E c \in Color : /\ \A u \in Ngbrs(Min(x.todo)) : x.color[u] # c
                                                          /\ Completes[Given(x, c)]
  <2> TAKE x \in Partial
  <2>1. Turn(Completes)[x] <=> \/ x.todo = {}
                               \/ \E c \in Color : /\ \A u \in Ngbrs(Min(x.todo)) : x.color[u] # c
                                                   /\ Completes[Given(x, c)]
    BY DEF Given
  <2>2. Completes[x] = Turn(Completes)[x]
    <3> HIDE DEF Turn
    <3> QED BY <1>5
  <2> HIDE DEF Turn
  <2> QED BY <2>1, <2>2
<1> HIDE DEF can, Turn
<1> DEFINE Wrong == {x \in Partial : ~(Completes[x] <=> \E f \in Assignment : Extends(f, x))}
           m == [x \in Partial |-> Cardinality(x.todo)]
<1>7. m \in [Partial -> Nat]
  <2>1. \A x \in Partial : x.todo \in SUBSET Vertex
    BY DEF Partial
  <2> QED BY <2>1, FiniteParts
<1>8. Wrong = {}
  <2> SUFFICES ASSUME Wrong # {} PROVE FALSE
    OBVIOUS
  <2>1. PICK x \in Wrong : \A y \in Wrong : ~(m[y] < m[x] \/ (m[y] = m[x] /\ m[y] < m[x]))
    <3>1. Wrong \in SUBSET Partial
      OBVIOUS
    <3> HIDE DEF Wrong, m
    <3> QED BY <1>7, <3>1, LeastPair
  <2>2. x \in Partial /\ ~(Completes[x] <=> \E f \in Assignment : Extends(f, x))
    OBVIOUS
  <2>3. ASSUME x.todo # {}, NEW c \in Color
        PROVE  Completes[Given(x, c)] <=> \E f \in Assignment : Extends(f, Given(x, c))
    <3>1. Given(x, c) \in Partial /\ Cardinality(Given(x, c).todo) < Cardinality(x.todo)
      BY <2>2, <2>3, GivenParts
    <3>2. Given(x, c) \notin Wrong
      BY <2>1, <2>2, <3>1
    <3> QED BY <3>1, <3>2
  <2> HIDE DEF Wrong
  <2> QED BY <1>1, <1>6, <2>2, <2>3
<1> QED BY <1>8

Solvable(seed, s) == \E f \in Assignment : Solves(f, InScope(seed), s)

\* A sound state can be completed if and only if there is a colouring that
\* solves it: no order of the vertices and no possible colours are about that.
LEMMA CompletableSolvable ==
  ASSUME NEW seed, NEW s, Sound(s)
  PROVE  Completable(seed, s) <=> Solvable(seed, s)
<1> DEFINE S == InScope(seed)
           q == [color |-> s.color, todo |-> {v \in S : ~IsColored(s, v)}]
<1>1. S \in SUBSET Vertex /\ s \in State /\ s.color \in Assignment
  BY StateParts DEF InScope, Sound
<1> HIDE DEF S
<1>2. q \in Partial /\ q.color = s.color /\ q.todo = {v \in S : ~IsColored(s, v)}
  BY <1>1 DEF Partial
<1>3. /\ \A v \in Vertex : IsColored(s, v) <=> s.color[v] \in Color
      /\ \A v \in Vertex : ~IsColored(s, v) => s.color[v] = -1
  BY <1>1, ColoredMeans DEF Assignment
<1>4. \A v \in Vertex : IsColored(s, v) => \A u \in Ngbrs(v) : s.color[u] # s.color[v]
  BY DEF Sound, Proper
<1>5. Completable(seed, s) <=> Completes[q]
  BY <1>1, <1>4 DEF Completable, S
<1> HIDE DEF q
<1>6. ASSUME NEW f \in Assignment
      PROVE  Extends(f, q) <=> Solves(f, S, s)
  <2>1. ASSUME Solves(f, S, s)
        PROVE  Extends(f, q)
    <3>1. \A v \in Vertex \ q.todo : f[v] = q.color[v]
      BY <1>2, <2>1 DEF Solves
    <3>2. ASSUME NEW v \in q.todo, NEW u \in Ngbrs(v)
          PROVE  f[v] \in Color /\ f[v] # IF u \in q.todo /\ u > v THEN q.color[u] ELSE f[u]
      <4>1. f[v] \in Color /\ f[u] # f[v]
        BY <1>2, <2>1, <3>2 DEF Solves
      <4>2. u \in q.todo => q.color[u] # f[v]
        BY <1>1, <1>2, <1>3, <4>1, Basics
      <4> QED BY <4>1, <4>2
    <3>3. \A v \in q.todo : f[v] \in Color
      BY <1>2, <2>1 DEF Solves
    <3> QED BY <3>1, <3>2, <3>3 DEF Extends
  <2>2. ASSUME Extends(f, q)
        PROVE  Solves(f, S, s)
    <3>1. \A v \in Vertex : IsColored(s, v) \/ v \notin S => f[v] = s.color[v]
      BY <1>2, <2>2 DEF Extends
    <3>2. ASSUME NEW v \in S, NEW u \in Ngbrs(v)
          PROVE  f[v] \in Color /\ f[u] # f[v]
      <4>1. /\ v \in Vertex /\ u \in Vertex /\ u # v /\ v \in Ngbrs(u) /\ v \in Int /\ u \in Int
        BY <1>1, Basics
      <4>2. CASE u \in q.todo /\ ~(v \in q.todo /\ v > u)
        <5>1. f[u] # f[v]
          BY <2>2, <4>1, <4>2 DEF Extends
        <5>2. f[v] \in Color
          BY <1>2, <1>3, <2>2, <3>1, <4>1 DEF Extends
        <5> QED BY <5>1, <5>2
      <4>3. CASE v \in q.todo /\ ~(u \in q.todo /\ u > v)
        BY <2>2, <4>1, <4>3 DEF Extends
      <4>4. CASE v \notin q.todo /\ u \notin q.todo
        BY <1>2, <1>3, <1>4, <2>2, <4>1, <4>4 DEF Extends
      <4> QED BY <4>1, <4>2, <4>3, <4>4
    <3>3. \A v \in S : f[v] \in Color
      BY <1>1, <1>2, <1>3, <2>2, <3>1 DEF Extends
    <3> QED BY <3>1, <3>2, <3>3 DEF Solves
  <2> QED BY <2>1, <2>2
<1> QED BY <1>2, <1>5, <1>6, CompletesExtends DEF Solvable, S

-----------------------------------------------------------------------------
(* A turn of the sequential search. *)

\* s differs from seed only in vertices that were live there.
Keeps(seed, s) == \A v \in Vertex : s.color[v] # seed.color[v] => Live(seed, v)

\* A node of the search of a chare created with state seed, which has removed
\* the vertices of below.
NodeOK(seed, below, n) ==
  /\ Sound(n.state) /\ n.removed \in Seq(Vertex)
  /\ Held(seed.onStack, n.state, below \o n.removed) /\ n.state.out = seed.out
  /\ n.uncolored = Cardinality(LiveVertices(n.state))
  /\ Keeps(seed, n.state)

\* No live vertex is out of scope.
LEMMA LiveInScope ==
  ASSUME NEW seed, NEW below, NEW n, NodeOK(seed, below, n)
  PROVE  LiveVertices(n.state) \subseteq InScope(seed)
BY DEF NodeOK, Held, LiveVertices, Live, InScope, IsOperationPermissible

\* Nothing is left to be coloured but the vertices of below.
FoundOK(seed, below, s) ==
  /\ Sound(s) /\ Held(seed.onStack, s, below) /\ s.out = seed.out
  /\ Keeps(seed, s)
  /\ \A v \in InScope(seed) : IsColored(s, v) \/ v \in Range(below)

\* Stacks one on top of the other.
LEMMA StacksApart ==
  ASSUME NEW a \in Seq(Vertex), NEW d \in Seq(Vertex), IsInjective(a \o d)
  PROVE  /\ Range(a \o d) = Range(a) \cup Range(d)
         /\ Range(a) \cap Range(d) = {}
<1>1. Range(a \o d) = Range(a) \cup Range(d)
  BY RangeConcatenation
<1>2. ASSUME NEW i \in 1..Len(a), NEW j \in 1..Len(d), a[i] = d[j]
      PROVE  FALSE
  <2>1. Len(a) \in Nat /\ Len(d) \in Nat /\ Len(a \o d) = Len(a) + Len(d) /\ a \o d \in Seq(Vertex)
    BY LenProperties, ConcatProperties
  <2>2. i \in 1..(Len(a) + Len(d)) /\ Len(a) + j \in 1..(Len(a) + Len(d))
    BY <2>1
  <2>3. (a \o d)[i] = a[i] /\ (a \o d)[Len(a) + j] = d[j]
    BY <2>1, <2>2, ConcatProperties
  <2>4. DOMAIN (a \o d) = 1..(Len(a) + Len(d))
    BY <2>1, LenProperties
  <2>5. i = Len(a) + j
    BY <1>2, <2>2, <2>3, <2>4 DEF IsInjective
  <2> QED BY <2>1, <2>5
<1>3. Range(a) = {a[i] : i \in 1..Len(a)} /\ Range(d) = {d[i] : i \in 1..Len(d)}
  BY RangeEquality
<1> QED BY <1>1, <1>2, <1>3

\* Vertices on the removal stack have no colour.
LEMMA HeldUncolored ==
  ASSUME NEW s, NEW base, NEW rem \in Seq(Vertex), Held(base, s, rem), NEW v \in Range(rem)
  PROVE  ~IsColored(s, v)
BY RangeEquality DEF Held

\* With no live vertex left, the search puts back what it has removed.
LEMMA MergeFinds ==
  ASSUME NEW seed \in State, NEW below \in Seq(Vertex), NEW d \in Seq(Vertex), NEW s \in State,
         Sound(s), Held(seed.onStack, s, below \o d), s.out = seed.out,
         Keeps(seed, s), LiveVertices(s) = {}
  PROVE  /\ FoundOK(seed, below, MergeRemovedVerticesBack(d, s))
         /\ MergedBack(d, MergeRemovedVerticesBack(d, s))
<1> DEFINE t == MergeRemovedVerticesBack(d, s)
<1>1. MergedTo(seed.onStack, below, d, s, t)
  BY StateParts, MergeLoopMerges
<1> HIDE DEF t
<1>2. /\ Sound(t) /\ Held(seed.onStack, t, below) /\ t.out = s.out
      /\ \A v \in Vertex : IF v \in Range(d) THEN IsColored(t, v) ELSE t.color[v] = s.color[v]
  BY <1>1 DEF MergedTo
<1>3. /\ Range(below \o d) = Range(below) \cup Range(d) /\ Range(below) \cap Range(d) = {}
      /\ s.onStack = seed.onStack \cup Range(below \o d) /\ seed.onStack \cap Range(below \o d) = {}
      /\ below \o d \in Seq(Vertex)
  BY StacksApart, ConcatProperties DEF Held
<1>4. t.onStack = seed.onStack \cup Range(below)
  BY <1>2 DEF Held
<1>5. MergedBack(d, t)
  BY <1>3, <1>4 DEF MergedBack
<1>6. ASSUME NEW v \in Vertex, t.color[v] # seed.color[v]
      PROVE  Live(seed, v)
  <2>1. CASE v \in Range(d)
    <3>1. v \in Range(below \o d) /\ ~IsColored(s, v)
      BY <1>3, <2>1, HeldUncolored
    <3>2. \A i \in 1..Len(below \o d) : (below \o d)[i] \notin seed.out
      BY DEF Held
    <3>3. \E i \in 1..Len(below \o d) : v = (below \o d)[i]
      <4>1. Range(below \o d) = {(below \o d)[i] : i \in 1..Len(below \o d)}
        BY <1>3, RangeEquality
      <4> QED BY <3>1, <4>1, Zenon
    <3>4. v \notin seed.onStack /\ v \notin seed.out
      BY <1>3, <3>1, <3>2, <3>3
    <3> QED BY <3>1, <3>4 DEF Keeps, Live, IsColored, IsOperationPermissible
  <2>2. CASE v \notin Range(d)
    BY <1>2, <1>6, <2>2 DEF Keeps
  <2> QED BY <2>1, <2>2
<1>7. ASSUME NEW v \in InScope(seed)
      PROVE  IsColored(t, v) \/ v \in Range(below)
  <2>1. v \in Vertex /\ v \notin seed.onStack /\ v \notin seed.out
    BY DEF InScope, IsOperationPermissible
  <2>2. IsColored(s, v) \/ v \in Range(below) \/ v \in Range(d)
    BY <1>3, <2>1 DEF LiveVertices, Live, IsOperationPermissible
  <2> QED BY <1>2, <2>1, <2>2 DEF IsColored
<1> QED BY <1>2, <1>5, <1>6, <1>7 DEF FoundOK, Keeps, t

\* Then the chare puts back what it has removed itself, and has an answer.
LEMMA FoundCompletes ==
  ASSUME NEW seed \in State, NEW below \in Seq(Vertex), NEW s \in State, FoundOK(seed, below, s)
  PROVE  /\ CompletesSeed(seed, MergeRemovedVerticesBack(below, s))
         /\ MergedBack(below, MergeRemovedVerticesBack(below, s))
         /\ MergeRemovedVerticesBack(below, s) \in State
<1> DEFINE t == MergeRemovedVerticesBack(below, s)
<1>1. <<>> \in Seq(Vertex) /\ <<>> \o below = below
  BY ConcatEmptySeq
<1>2. MergedTo(seed.onStack, <<>>, below, s, t)
  BY <1>1, StateParts, MergeLoopMerges DEF FoundOK
<1> HIDE DEF t
<1>3. /\ Sound(t) /\ t \in State /\ Held(seed.onStack, t, <<>>)
      /\ \A v \in Vertex : IF v \in Range(below) THEN IsColored(t, v) ELSE t.color[v] = s.color[v]
  BY <1>2 DEF MergedTo, Sound
<1>4. t.onStack = seed.onStack /\ seed.onStack \cap Range(below) = {}
  BY <1>3 DEF Held, Range, FoundOK
<1>5. MergedBack(below, t)
  BY <1>4 DEF MergedBack
<1>6. ASSUME NEW v \in InScope(seed)
      PROVE  /\ t.color[v] \in Color
             /\ IsColored(seed, v) => t.color[v] = seed.color[v]
             /\ \A u \in Ngbrs(v) : t.color[u] # t.color[v]
  <2>1. v \in Vertex
    BY DEF InScope
  <2>2. IsColored(t, v)
    BY <1>3, <2>1 DEF FoundOK, IsColored
  <2>3. ASSUME IsColored(seed, v)
        PROVE  t.color[v] = seed.color[v]
    <3>1. s.color[v] = seed.color[v] /\ IsColored(s, v)
      BY <2>1, <2>3 DEF FoundOK, Keeps, Live, IsColored
    <3>2. v \notin Range(below)
      BY <3>1, HeldUncolored DEF FoundOK
    <3> QED BY <1>3, <2>1, <3>1, <3>2
  <2> QED BY <1>3, <2>1, <2>2, <2>3, ColoredMeans DEF Sound, Proper
<1>7. CompletesSeed(seed, t)
  BY <1>6 DEF CompletesSeed
<1> QED BY <1>3, <1>5, <1>7 DEF t

\* A node after vertex removal.
LEMMA RemovalKeepsNode ==
  ASSUME NEW seed \in State, NEW below \in Seq(Vertex), NEW n, NodeOK(seed, below, n)
  PROVE  LET r == VertexRemoval(n.state)
             m == [state |-> r.state, uncolored |-> n.uncolored - Len(r.deleted),
                   removed |-> n.removed \o r.deleted]
         IN /\ NodeOK(seed, below, m)
            /\ r.state.color = n.state.color
            /\ r.state \in State /\ r.deleted \in Seq(Vertex)
<1> DEFINE s == n.state
           r == VertexRemoval(s)
           t == r.state
           d == n.removed \o r.deleted
           m == [state |-> t, uncolored |-> n.uncolored - Len(r.deleted), removed |-> d]
<1>1. /\ Sound(s) /\ s \in State /\ n.removed \in Seq(Vertex)
      /\ Held(seed.onStack, s, below \o n.removed) /\ s.out = seed.out
      /\ n.uncolored = Cardinality(LiveVertices(s))
      /\ Keeps(seed, s)
  BY DEF NodeOK, Sound
<1> HIDE DEF s
<1>2. /\ t \in State /\ r.deleted \in Seq(Vertex)
      /\ t.color = s.color /\ t.poss = s.poss /\ t.out = s.out
      /\ Cardinality(LiveVertices(t)) + Len(r.deleted) = Cardinality(LiveVertices(s))
      /\ \A base \in SUBSET Vertex : \A pre \in Seq(Vertex) :
           Held(base, s, pre) => Held(base, t, pre \o r.deleted)
  BY <1>1, VertexRemovalRemoves
<1> HIDE DEF r
<1>3. d \in Seq(Vertex) /\ below \o n.removed \in Seq(Vertex)
      /\ (below \o n.removed) \o r.deleted = below \o d
  <2> DEFINE e == n.removed
             g == r.deleted
  <2>1. e \in Seq(Vertex) /\ g \in Seq(Vertex)
    BY <1>1, <1>2
  <2> HIDE DEF e, g
  <2>2. e \o g \in Seq(Vertex) /\ below \o e \in Seq(Vertex) /\ (below \o e) \o g = below \o (e \o g)
    BY <2>1, ConcatProperties, ConcatAssociative
  <2> QED BY <2>2 DEF e, g
<1>4. Held(seed.onStack, t, below \o d)
  BY <1>1, <1>2, <1>3, StateParts
<1>5. Sound(t)
  BY <1>1, <1>2, SoundSame
<1>6. n.uncolored - Len(r.deleted) = Cardinality(LiveVertices(t))
  <2>1. Cardinality(LiveVertices(t)) \in Nat
    BY FiniteParts DEF LiveVertices
  <2> QED BY <1>1, <1>2, <2>1
<1>7. m.state = t /\ m.uncolored = n.uncolored - Len(r.deleted) /\ m.removed = d
  OBVIOUS
<1> HIDE DEF m, d, t
<1>8. NodeOK(seed, below, m)
  BY <1>1, <1>2, <1>3, <1>4, <1>5, <1>6, <1>7 DEF NodeOK, Keeps
<1> QED BY <1>1, <1>2, <1>8 DEF m, d, t, r, s

\* Colouring the next vertex makes a node of a node.
LEMMA ChildNode ==
  ASSUME NEW seed \in State, NEW below \in Seq(Vertex), NEW n, NodeOK(seed, below, n),
         NEW v \in Vertex, Live(n.state, v), NEW c \in n.state.poss[v]
  PROVE  LET t == UpdateState(n.state, v, c, TRUE)
         IN NodeOK(seed, below, [state |-> t, uncolored |-> n.uncolored - VerticesColored(n.state, t),
                                 removed |-> n.removed])
<1> DEFINE s == n.state
           t == UpdateState(s, v, c, TRUE)
           m == [state |-> t, uncolored |-> n.uncolored - VerticesColored(s, t), removed |-> n.removed]
<1>1. /\ Sound(s) /\ s \in State /\ n.removed \in Seq(Vertex)
      /\ Held(seed.onStack, s, below \o n.removed) /\ s.out = seed.out
      /\ n.uncolored = Cardinality(LiveVertices(s))
      /\ Keeps(seed, s)
  BY DEF NodeOK, Sound
<1>2. Sound(t) /\ Grown(s, t)
  BY <1>1, UpdateStateFollows
<1> HIDE DEF s, t
<1>3. below \o n.removed \in Seq(Vertex)
  BY <1>1, ConcatProperties
<1>4. Held(seed.onStack, t, below \o n.removed)
  BY <1>1, <1>2, <1>3, HeldGrown
<1>5. n.uncolored - VerticesColored(s, t) = Cardinality(LiveVertices(t))
  <2>1. Cardinality(LiveVertices(s)) \in Nat /\ Cardinality(LiveVertices(t)) \in Nat
    BY FiniteParts DEF LiveVertices
  <2> QED BY <1>1, <1>2, <2>1, VerticesColoredCount
<1>6. Keeps(seed, t)
  <2>1. seed.onStack \subseteq s.onStack
    BY <1>1 DEF Held
  <2> QED BY <1>1, <1>2, <2>1 DEF Keeps, Grown, Live, IsColored, IsOperationPermissible
<1>7. m.state = t /\ m.uncolored = n.uncolored - VerticesColored(s, t) /\ m.removed = n.removed
  OBVIOUS
<1> HIDE DEF m
<1>8. NodeOK(seed, below, m)
  BY <1>1, <1>2, <1>4, <1>5, <1>6, <1>7 DEF NodeOK, Grown
<1> QED BY <1>8 DEF m, t, s

\* Whatever solves a node solves the child that takes its colour.
LEMMA SolutionFound ==
  ASSUME NEW seed \in State, NEW s, Sound(s), LiveVertices(s) \subseteq InScope(seed),
         NEW v \in Vertex, Live(s, v), Solvable(seed, s)
  PROVE  \E c \in Range(GetValueOrderingOfColors(s, v)) : Solvable(seed, UpdateState(s, v, c, TRUE))
<1> DEFINE S == InScope(seed)
<1>1. PICK f \in Assignment : Solves(f, S, s)
  BY DEF Solvable
<1>2. S \in SUBSET Vertex /\ s \in State
  BY DEF InScope, Sound
<1>3. \A u \in Vertex : Live(s, u) => u \in S /\ ~IsColored(s, u)
  BY DEF LiveVertices, Live
<1> HIDE DEF S
<1>4. \A u \in Vertex : Live(s, u) => f[u] \in s.poss[u]
  BY <1>1, <1>2, <1>3, SolutionPossible
<1>5. Possible(s, v, f[v])
  <2> SUFFICES ASSUME NEW u \in Ngbrs(v), Live(s, u)
               PROVE  LeftTo(s, u, f[v]) > 0
    BY DEF Possible
  <2>1. u \in Vertex
    BY Basics
  <2>2. f[u] \in s.poss[u] /\ f[u] # f[v]
    BY <1>1, <1>3, <1>4, <2>1 DEF Solves
  <2>3. s.poss[u] \ {f[v]} \in SUBSET Color
    BY <1>2, <2>1, StateParts
  <2>4. Cardinality(s.poss[u] \ {f[v]}) \in Nat /\ Cardinality(s.poss[u] \ {f[v]}) # 0
    BY <2>2, <2>3, FiniteParts, FS_EmptySet
  <2> QED BY <2>4 DEF LeftTo
<1>6. f[v] \in Range(GetValueOrderingOfColors(s, v))
  BY <1>2, <1>4, <1>5, ValueOrderingAll
<1>7. Solves(f, S, UpdateState(s, v, f[v], TRUE))
  <2>1. LiveVertices(s) \subseteq S
    BY DEF S
  <2> QED BY <1>1, <1>2, <1>4, <2>1, UpdateStateFollows
<1> QED BY <1>6, <1>7 DEF Solvable, S

\* A turn either finds a colouring, or leaves nodes of which one can be solved
\* if the node it started from can. It never trips over an assertion.
LEMMA SearchStepRight ==
  ASSUME NEW seed \in State, NEW below \in Seq(Vertex), NEW n, NodeOK(seed, below, n)
  PROVE  LET step == SearchStep(n)
         IN \/ step.outcome = "found" /\ FoundOK(seed, below, step.state)
            \/ /\ step.outcome = "pushed"
               /\ step.nodes \in Seq(StackNode)
               /\ \A i \in 1..Len(step.nodes) : NodeOK(seed, below, step.nodes[i])
               /\ Solvable(seed, n.state) => \E i \in 1..Len(step.nodes) : Solvable(seed, step.nodes[i].state)
<1> DEFINE r       == VertexRemoval(n.state)
           removed == n.removed \o r.deleted
           left    == n.uncolored - Len(r.deleted)
           m       == [state |-> r.state, uncolored |-> left, removed |-> removed]
           s       == r.state
           v       == GetNextConstraintVertex(s)
           merged  == MergeRemovedVerticesBack(removed, s)
           colours == GetValueOrderingOfColors(s, v)
           child(c) == LET t == UpdateState(s, v, c, TRUE)
                       IN [state |-> t, uncolored |-> left - VerticesColored(s, t), removed |-> removed]
           nodes   == [i \in 1..Len(colours) |-> child(colours[i])]
           step    == SearchStep(n)
<1>1. NodeOK(seed, below, m) /\ s.color = n.state.color /\ s \in State
  BY RemovalKeepsNode
<1>2. /\ Sound(s) /\ removed \in Seq(Vertex) /\ Held(seed.onStack, s, below \o removed) /\ s.out = seed.out
      /\ left = Cardinality(LiveVertices(s))
      /\ Keeps(seed, s)
  BY <1>1 DEF NodeOK
<1>3. step = IF left = 0
             THEN [outcome |-> IF MergedBack(removed, merged) THEN "found" ELSE "tripped",
                   state |-> merged]
             ELSE IF v = -1
             THEN [outcome |-> "tripped", state |-> s]
             ELSE [outcome |-> "pushed", nodes |-> nodes]
  BY DEF SearchStep
<1>4. m.state = s /\ m.uncolored = left /\ m.removed = removed
  OBVIOUS
<1>5. IsFiniteSet(LiveVertices(s)) /\ Cardinality(LiveVertices(s)) \in Nat
  BY FiniteParts DEF LiveVertices
<1> HIDE DEF step, m, s, left, removed, merged, r
<1>6. CASE left = 0
  <2>1. LiveVertices(s) = {}
    BY <1>2, <1>5, <1>6, FS_EmptySet
  <2>2. FoundOK(seed, below, merged) /\ MergedBack(removed, merged)
    BY <1>1, <1>2, <2>1, MergeFinds DEF merged
  <2>3. step = [outcome |-> "found", state |-> merged]
    BY <1>3, <1>6, <2>2
  <2> QED BY <2>2, <2>3 DEF step
<1>7. CASE left # 0
  <2>1. LiveVertices(s) # {}
    BY <1>2, <1>5, <1>7, FS_EmptySet
  <2>2. v \in Vertex /\ Live(s, v) /\ v # -1
    BY <1>1, <2>1, NextVertexLive DEF LiveVertices
  <2>3. step = [outcome |-> "pushed", nodes |-> nodes]
    BY <1>3, <1>7, <2>2
  <2> HIDE DEF v
  <2>4. /\ \A c \in Range(colours) : c \in s.poss[v]
        /\ Len(colours) \in Nat
        /\ Range(colours) = {colours[i] : i \in 1..Len(colours)}
    <3>1. colours \in Seq({c \in s.poss[v] : Possible(s, v, c)})
          /\ Range(colours) = {c \in s.poss[v] : Possible(s, v, c)}
      BY <1>1, <2>2, ValueOrderingAll
    <3> HIDE DEF colours
    <3> QED BY <3>1, RangeEquality, LenProperties
  <2> HIDE DEF colours
  <2>5. ASSUME NEW c \in Range(colours)
        PROVE  NodeOK(seed, below, child(c)) /\ child(c) \in StackNode
    <3> DEFINE t == UpdateState(s, v, c, TRUE)
    <3>1. NodeOK(seed, below, child(c))
      BY <1>1, <1>4, <2>2, <2>4, ChildNode
    <3>2. t \in State
      BY <3>1 DEF NodeOK, Sound
    <3>3. Cardinality(Uncolored(s)) \in Nat /\ Cardinality(Uncolored(t)) \in Nat
      BY FiniteParts DEF Uncolored
    <3>4. left - VerticesColored(s, t) \in Int
      <4>1. left \in Int
        BY <1>2, <1>5
      <4> HIDE DEF t
      <4>2. VerticesColored(s, t) \in Int
        BY <3>3 DEF VerticesColored
      <4> QED BY <4>1, <4>2
    <3> QED BY <1>2, <3>1, <3>2, <3>4 DEF StackNode
  <2>6. Solvable(seed, n.state) => \E c \in Range(colours) : Solvable(seed, child(c).state)
    <3> SUFFICES ASSUME Solvable(seed, n.state)
                 PROVE  \E c \in Range(colours) : Solvable(seed, child(c).state)
      OBVIOUS
    <3>1. Solvable(seed, s)
      BY <1>1 DEF Solvable, Solves, IsColored
    <3>2. LiveVertices(s) \subseteq InScope(seed)
      BY <1>1, <1>4, LiveInScope
    <3>3. \E c \in Range(colours) : Solvable(seed, UpdateState(s, v, c, TRUE))
      BY <1>2, <2>2, <3>1, <3>2, SolutionFound DEF colours
    <3> QED BY <3>3
  <2>7. /\ Len(nodes) = Len(colours) /\ DOMAIN nodes = 1..Len(colours)
        /\ \A i \in 1..Len(colours) : nodes[i] = child(colours[i]) /\ colours[i] \in Range(colours)
    BY <2>4
  <2>8. step.outcome = "pushed" /\ step.nodes = nodes
    BY <2>3
  <2> HIDE DEF child, nodes
  <2>9. /\ \A i \in 1..Len(nodes) : NodeOK(seed, below, nodes[i]) /\ nodes[i] \in StackNode
        /\ Solvable(seed, n.state) => \E i \in 1..Len(nodes) : Solvable(seed, nodes[i].state)
    BY <2>4, <2>5, <2>6, <2>7
  <2>10. nodes \in Seq(StackNode)
    <3>1. nodes = [i \in 1..Len(colours) |-> nodes[i]]
      BY DEF nodes
    <3>2. nodes \in [1..Len(colours) -> StackNode]
      BY <2>7, <2>9, <3>1
    <3> QED BY <2>4, <3>2, IsASeq
  <2> QED BY <2>8, <2>9, <2>10 DEF step
<1> QED BY <1>6, <1>7

-----------------------------------------------------------------------------
(* A chare, from its creation to its answer. *)

\* What a chare is constructed with makes a node of its own: the vertices that
\* its constructor removes are not put back until it answers.
LEMMA ConstructedNode ==
  ASSUME NEW seed, Sound(seed)
  PROVE  LET r == VertexRemoval(seed)
         IN /\ NodeOK(seed, r.deleted,
                      [state |-> r.state, uncolored |-> Cardinality(LiveVertices(seed)) - Len(r.deleted),
                       removed |-> <<>>])
            /\ r.state.color = seed.color
            /\ r.state \in State /\ r.deleted \in Seq(Vertex)
            /\ Cardinality(LiveVertices(r.state)) <= Cardinality(LiveVertices(seed))
<1> DEFINE r == VertexRemoval(seed)
           s == r.state
           d == r.deleted
           left == Cardinality(LiveVertices(seed)) - Len(d)
           n == [state |-> s, uncolored |-> left, removed |-> <<>>]
<1>1. seed \in State /\ seed.onStack \in SUBSET Vertex
  BY StateParts DEF Sound
<1>2. Held(seed.onStack, seed, <<>>) /\ <<>> \in Seq(Vertex)
  BY DEF Held, IsInjective, Range
<1>3. /\ s \in State /\ d \in Seq(Vertex)
      /\ s.color = seed.color /\ s.poss = seed.poss /\ s.out = seed.out
      /\ Cardinality(LiveVertices(s)) + Len(d) = Cardinality(LiveVertices(seed))
      /\ \A base \in SUBSET Vertex : \A pre \in Seq(Vertex) :
           Held(base, seed, pre) => Held(base, s, pre \o d)
  BY <1>1, VertexRemovalRemoves
<1> HIDE DEF s, d
<1>4. Held(seed.onStack, s, <<>> \o d) /\ <<>> \o d = d /\ d \o <<>> = d
  BY <1>1, <1>2, <1>3, ConcatEmptySeq
<1>5. Sound(s)
  BY <1>3, SoundSame
<1>6. /\ Cardinality(LiveVertices(s)) \in Nat /\ Cardinality(LiveVertices(seed)) \in Nat
      /\ Len(d) \in Nat
  BY <1>3, FiniteParts, LenProperties DEF LiveVertices
<1>7. n.state = s /\ n.uncolored = left /\ n.removed = <<>>
  OBVIOUS
<1>8. left = Cardinality(LiveVertices(s)) /\ Cardinality(LiveVertices(s)) <= Cardinality(LiveVertices(seed))
  BY <1>3, <1>6
<1> HIDE DEF n, left
<1>9. NodeOK(seed, d, n)
  BY <1>2, <1>3, <1>4, <1>5, <1>7, <1>8 DEF NodeOK, Keeps
<1> QED BY <1>3, <1>8, <1>9 DEF n, left, s, d, r

\* What an OR chare sends to a child is sound and counts its live vertices,
\* and there are fewer of them.
LEMMA SentOn ==
  ASSUME NEW s, Sound(s), GetNextConstraintVertex(s) # -1,
         NEW c \in Range(GetValueOrderingOfColors(s, GetNextConstraintVertex(s)))
  PROVE  LET t == UpdateState(s, GetNextConstraintVertex(s), c, TRUE)
         IN /\ Sound(t)
            /\ Cardinality(LiveVertices(s)) - VerticesColored(s, t) = Cardinality(LiveVertices(t))
            /\ Cardinality(LiveVertices(t)) < Cardinality(LiveVertices(s))
<1> DEFINE v == GetNextConstraintVertex(s)
           t == UpdateState(s, v, c, TRUE)
<1>1. s \in State
  BY DEF Sound
<1>2. v \in LiveVertices(s)
  BY <1>1, NextVertexLive
<1>3. v \in Vertex /\ Live(s, v)
  BY <1>2 DEF LiveVertices
<1> HIDE DEF v
<1>4. c \in s.poss[v]
  BY <1>1, <1>3, ValueOrderingAll DEF v
<1>5. Sound(t) /\ Grown(s, t) /\ LiveVertices(t) \subseteq LiveVertices(s) \ {v}
  BY <1>3, <1>4, UpdateStateFollows
<1> HIDE DEF t
<1>6. /\ IsFiniteSet(LiveVertices(s)) /\ Cardinality(LiveVertices(s)) \in Nat
      /\ IsFiniteSet(LiveVertices(t)) /\ Cardinality(LiveVertices(t)) \in Nat
  BY FiniteParts DEF LiveVertices
<1>7. Cardinality(LiveVertices(s) \ {v}) = Cardinality(LiveVertices(s)) - 1 /\ IsFiniteSet(LiveVertices(s) \ {v})
  BY <1>2, <1>6, FS_RemoveElement
<1>8. Cardinality(LiveVertices(t)) <= Cardinality(LiveVertices(s) \ {v})
  BY <1>5, <1>7, FS_Subset
<1>9. VerticesColored(s, t) = Cardinality(LiveVertices(s)) - Cardinality(LiveVertices(t))
  BY <1>5, VerticesColoredCount
<1>10. /\ Cardinality(LiveVertices(s)) - VerticesColored(s, t) = Cardinality(LiveVertices(t))
       /\ Cardinality(LiveVertices(t)) < Cardinality(LiveVertices(s))
  <2> DEFINE k == Cardinality(LiveVertices(s))
             l == Cardinality(LiveVertices(t))
             m == Cardinality(LiveVertices(s) \ {v})
             d == VerticesColored(s, t)
  <2>1. k \in Nat /\ l \in Nat /\ m = k - 1 /\ l <= m /\ d = k - l
    BY <1>6, <1>7, <1>8, <1>9
  <2> HIDE DEF k, l, m, d
  <2>2. k - d = l /\ l < k
    BY <2>1
  <2> QED BY <2>2 DEF k, l, d
<1> QED BY <1>5, <1>10 DEF t, v

\* What is sent on is a creation message, sound or not.
LEMMA SentType ==
  ASSUME NEW s \in State, NEW n \in Int, GetNextConstraintVertex(s) # -1,
         NEW c \in Range(GetValueOrderingOfColors(s, GetNextConstraintVertex(s)))
  PROVE  LET t == UpdateState(s, GetNextConstraintVertex(s), c, TRUE)
         IN t \in State /\ n - VerticesColored(s, t) \in Int
<1> DEFINE v == GetNextConstraintVertex(s)
           t == UpdateState(s, v, c, TRUE)
<1>1. v \in LiveVertices(s)
  BY NextVertexLive
<1>2. v \in Vertex
  BY <1>1 DEF LiveVertices
<1> HIDE DEF v
<1>3. c \in s.poss[v] /\ s.poss[v] \in SUBSET Color
  BY <1>2, ValueOrderingAll, StateParts DEF v
<1>4. t \in State
  BY <1>2, <1>3, UpdateStateType
<1> HIDE DEF t
<1>5. Cardinality(Uncolored(s)) \in Nat /\ Cardinality(Uncolored(t)) \in Nat
  BY FiniteParts DEF Uncolored
<1>6. VerticesColored(s, t) \in Int
  BY <1>5 DEF VerticesColored
<1> DEFINE d == VerticesColored(s, t)
<1>7. n - d \in Int
  <2> HIDE DEF d
  <2> QED BY <1>6 DEF d
<1> QED BY <1>4, <1>7 DEF t, v

\* The root's state, with all of the vertices live.
LEMMA InitialSound ==
  Sound(InitialState) /\ Cardinality(LiveVertices(InitialState)) = vertices_
<1> DEFINE s == InitialState
<1>1. /\ s.color = [v \in Vertex |-> -1] /\ s.poss = [v \in Vertex |-> Color]
      /\ s.onStack = {} /\ s.out = {} /\ s \in State
  BY DEF InitialState, State
<1> HIDE DEF s
<1>2. \A v \in Vertex : ~IsColored(s, v) /\ Live(s, v) /\ s.color[v] = -1
  BY <1>1 DEF IsColored, Live, IsOperationPermissible
<1>3. Exact(s)
  <2> SUFFICES ASSUME NEW v \in Vertex
               PROVE  s.poss[v] = Color \ {s.color[u] : u \in Ngbrs(v)}
    BY <1>2 DEF Exact
  <2>1. \A u \in Ngbrs(v) : s.color[u] \notin Color
    BY <1>2, Basics
  <2> QED BY <1>1, <2>1
<1>4. Proper(s)
  BY <1>2 DEF Proper
<1>5. LiveVertices(s) = Vertex
  BY <1>2 DEF LiveVertices
<1>6. Cardinality(Vertex) = vertices_
  BY GraphAssumption, FS_Interval DEF Vertex
<1> QED BY <1>1, <1>3, <1>4, <1>5, <1>6 DEF Sound, s

\* A chare with nothing left to colour needs no search.
LEMMA NothingLeft ==
  ASSUME NEW seed \in State, NEW below \in Seq(Vertex), NEW n, NodeOK(seed, below, n),
         n.removed = <<>>, n.uncolored = 0
  PROVE  FoundOK(seed, below, n.state)
<1> DEFINE s == n.state
<1>1. /\ Sound(s) /\ Held(seed.onStack, s, below \o <<>>) /\ s.out = seed.out
      /\ Cardinality(LiveVertices(s)) = 0
      /\ Keeps(seed, s)
  BY DEF NodeOK
<1> HIDE DEF s
<1>2. below \o <<>> = below
  BY ConcatEmptySeq
<1>3. Held(seed.onStack, s, below)
  BY <1>1, <1>2
<1>4. LiveVertices(s) = {}
  BY <1>1, FiniteParts, FS_EmptySet DEF LiveVertices
<1>5. \A v \in InScope(seed) : IsColored(s, v) \/ v \in Range(below)
  BY <1>1, <1>3, <1>4 DEF LiveVertices, Live, IsOperationPermissible, InScope, Held
<1> QED BY <1>1, <1>3, <1>5 DEF FoundOK, s

\* A chare that gives up puts back what it has removed: every vertex finds a
\* colour there too.
LEMMA GivesUp ==
  ASSUME NEW seed \in State, NEW below \in Seq(Vertex), NEW n, NodeOK(seed, below, n),
         n.removed = <<>>
  PROVE  /\ MergedBack(below, MergeRemovedVerticesBack(below, n.state))
         /\ MergeRemovedVerticesBack(below, n.state) \in State
<1> DEFINE s == n.state
           t == MergeRemovedVerticesBack(below, s)
<1>1. Sound(s) /\ Held(seed.onStack, s, below \o <<>>)
  BY DEF NodeOK
<1> HIDE DEF s
<1>2. <<>> \in Seq(Vertex) /\ <<>> \o below = below /\ below \o <<>> = below
  BY ConcatEmptySeq
<1>3. MergedTo(seed.onStack, <<>>, below, s, t)
  BY <1>1, <1>2, StateParts, MergeLoopMerges
<1> HIDE DEF t
<1>4. t \in State /\ t.onStack = seed.onStack /\ seed.onStack \cap Range(below) = {}
  BY <1>1, <1>2, <1>3 DEF MergedTo, Sound, Held, Range
<1> QED BY <1>4 DEF MergedBack, t, s

\* What a chare finds shows that its seed can be coloured.
LEMMA FoundSolvable ==
  ASSUME NEW seed, Sound(seed), NEW below \in Seq(Vertex), NEW s \in State, FoundOK(seed, below, s)
  PROVE  Solvable(seed, seed)
<1> DEFINE t == MergeRemovedVerticesBack(below, s)
           S == InScope(seed)
           f == [v \in Vertex |-> IF v \in S THEN t.color[v] ELSE seed.color[v]]
<1>1. <<>> \in Seq(Vertex) /\ <<>> \o below = below /\ seed \in State
  BY ConcatEmptySeq DEF Sound
<1>2. MergedTo(seed.onStack, <<>>, below, s, t)
  BY <1>1, StateParts, MergeLoopMerges DEF FoundOK
<1> HIDE DEF t
<1>3. /\ Sound(t) /\ t \in State
      /\ \A v \in Vertex : IF v \in Range(below) THEN IsColored(t, v) ELSE t.color[v] = s.color[v]
  BY <1>2 DEF MergedTo, Sound
<1>4. S \subseteq Vertex
  BY DEF InScope
<1>5. \A v \in S : IsColored(t, v)
  BY <1>3, <1>4 DEF FoundOK, IsColored
<1>6. ASSUME NEW v \in Vertex, IsColored(seed, v)
      PROVE  t.color[v] = seed.color[v]
  <2>1. s.color[v] = seed.color[v] /\ IsColored(s, v)
    BY <1>6 DEF FoundOK, Keeps, Live, IsColored
  <2>2. v \notin Range(below)
    BY <2>1, HeldUncolored DEF FoundOK
  <2> QED BY <1>3, <2>1, <2>2
<1>7. \A v \in Vertex : t.color[v] \in Color \cup {-1} /\ seed.color[v] \in Color \cup {-1}
  BY <1>1, <1>3, StateParts DEF Assignment
<1>8. f \in Assignment /\ \A v \in Vertex : f[v] = IF v \in S THEN t.color[v] ELSE seed.color[v]
  BY <1>7 DEF Assignment
<1> HIDE DEF f, S
<1>9. \A v \in Vertex : IsColored(seed, v) \/ v \notin S => f[v] = seed.color[v]
  BY <1>6, <1>8
<1>10. ASSUME NEW v \in S
       PROVE  f[v] \in Color /\ \A u \in Ngbrs(v) : f[u] # f[v]
  <2>1. v \in Vertex /\ f[v] = t.color[v] /\ IsColored(t, v) /\ t.color[v] \in Color
    BY <1>3, <1>4, <1>5, <1>8, ColoredMeans
  <2>2. ASSUME NEW u \in Ngbrs(v)
        PROVE  f[u] # f[v]
    <3>1. u \in Vertex /\ t.color[u] # t.color[v]
      BY <1>3, <2>1, Basics DEF Sound, Proper
    <3>2. IsColored(seed, u) => f[u] = t.color[u]
      BY <1>6, <1>9, <3>1
    <3>3. ~IsColored(seed, u) => seed.color[u] = -1
      BY <1>1, <1>7, <3>1, ColoredMeans
    <3>4. u \notin S /\ ~IsColored(seed, u) => f[u] = -1
      BY <1>8, <3>1, <3>3
    <3> QED BY <1>8, <2>1, <3>1, <3>2, <3>4, Basics
  <2> QED BY <2>1, <2>2
<1> QED BY <1>8, <1>9, <1>10 DEF Solvable, Solves, S

\* A colouring of the whole graph solves the root's state.
LEMMA ColoringSolves ==
  ASSUME NEW f \in [Vertex -> Color], \A v \in Vertex : \A u \in Ngbrs(v) : f[u] # f[v]
  PROVE  Solvable(InitialState, InitialState)
<1> DEFINE s == InitialState
<1>1. s.color = [v \in Vertex |-> -1] /\ s.onStack = {} /\ s.out = {}
  BY DEF InitialState
<1> HIDE DEF s
<1>2. InScope(s) = Vertex /\ \A v \in Vertex : ~IsColored(s, v)
  BY <1>1 DEF InScope, IsOperationPermissible, IsColored
<1>3. f \in Assignment
  BY DEF Assignment
<1>4. Solves(f, InScope(s), s)
  BY <1>2 DEF Solves
<1> QED BY <1>3, <1>4 DEF Solvable, s

-----------------------------------------------------------------------------
(* Forced moves leave none. *)

\* The live vertices that have exactly one colour left.
Forced(s) == {v \in LiveVertices(s) : Cardinality(s.poss[v]) = 1}

\* Painting a vertex can force its neighbours only.
LEMMA PaintForced ==
  ASSUME NEW s \in State, NEW v \in Vertex, NEW c \in Color
  PROVE  Forced(Paint(s, v, c)) \subseteq (Forced(s) \ {v}) \cup Ngbrs(v)
<1> DEFINE t == Paint(s, v, c)
<1>1. /\ t \in State
      /\ t.color = [s.color EXCEPT ![v] = c]
      /\ \A u \in Vertex : t.poss[u] = IF u = v THEN {}
                                     ELSE IF u \in Ngbrs(v) THEN s.poss[u] \ {c}
                                     ELSE s.poss[u]
      /\ t.onStack = s.onStack /\ t.out = s.out
  BY PaintParts
<1> HIDE DEF t
<1>2. \A u \in Vertex : t.color[u] = IF u = v THEN c ELSE s.color[u]
  BY <1>1, StateParts DEF Assignment
<1>3. c >= 0
  BY DEF Color
<1>4. ASSUME NEW u \in Forced(t), u \notin Ngbrs(v)
      PROVE  u \in Forced(s) \ {v}
  <2>1. u \in Vertex /\ u # v
    BY <1>2, <1>3 DEF Forced, LiveVertices, Live, IsColored
  <2>2. t.poss[u] = s.poss[u] /\ t.color[u] = s.color[u]
    BY <1>1, <1>2, <1>4, <2>1
  <2> QED BY <1>1, <2>1, <2>2 DEF Forced, LiveVertices, Live, IsColored, IsOperationPermissible
<1> QED BY <1>4 DEF t

\* The forced vertices are on the agenda.
LEMMA LookAtForced ==
  ASSUME NEW q \in Forcing, q.agenda # <<>>, Forced(q.state) \subseteq Range(q.agenda)
  PROVE  Forced(LookAt(q).state) \subseteq Range(LookAt(q).agenda)
<1> DEFINE v == Head(q.agenda)
           s == q.state
           c == CHOOSE c \in s.poss[v] : TRUE
           rest == Tail(q.agenda)
<1>1. s \in State /\ q.agenda \in Seq(Vertex)
  BY DEF Forcing
<1>2. v \in Vertex /\ rest \in Seq(Vertex) /\ q.agenda = <<v>> \o rest
  BY <1>1, HeadTailProperties
<1>3. Range(q.agenda) = {v} \cup Range(rest)
  <2>1. Range(<<v>> \o rest) = Range(<<v>>) \cup Range(rest)
    <3>1. \A a, b \in Seq(Vertex) : Range(a \o b) = Range(a) \cup Range(b)
      BY RangeConcatenation
    <3>2. <<v>> \in Seq(Vertex)
      BY <1>2
    <3> HIDE DEF v, rest
    <3> QED BY <1>2, <3>1, <3>2
  <2>2. Range(<<v>>) = {v}
    BY DEF Range
  <2> QED BY <1>2, <2>1, <2>2
<1>4. s.poss[v] \in SUBSET Color
  BY <1>1, <1>2, StateParts
<1> HIDE DEF v, s, rest
<1>5. CASE Cardinality(s.poss[v]) = 1 /\ Live(s, v)
  <2>1. c \in Color
    <3>1. PICK d : s.poss[v] = {d}
      BY <1>4, <1>5, FiniteParts, FS_Singleton
    <3> QED BY <1>4, <3>1
  <2> HIDE DEF c
  <2>2. LookAt(q) = [state |-> Paint(s, v, c), agenda |-> adjList_[v] \o rest]
    BY <1>5 DEF LookAt, v, s, c, rest
  <2>3. Range(adjList_[v] \o rest) = Ngbrs(v) \cup Range(rest)
    BY <1>2, Basics, RangeConcatenation DEF Ngbrs
  <2>4. Forced(Paint(s, v, c)) \subseteq (Forced(s) \ {v}) \cup Ngbrs(v)
    BY <1>1, <1>2, <2>1, PaintForced
  <2> QED BY <1>3, <2>2, <2>3, <2>4 DEF s
<1>6. CASE ~(Cardinality(s.poss[v]) = 1 /\ Live(s, v))
  <2>1. LookAt(q) = [state |-> s, agenda |-> rest]
    BY <1>6 DEF LookAt, v, s, rest
  <2>2. v \notin Forced(s)
    BY <1>6 DEF Forced, LiveVertices
  <2> QED BY <1>3, <2>1, <2>2 DEF s
<1> QED BY <1>5, <1>6

\* So none is left when the agenda is empty.
LEMMA ForcedMovesExhaust ==
  ASSUME NEW q \in Forcing, Sound(q.state), Forced(q.state) \subseteq Range(q.agenda)
  PROVE  Forced(ForcedMoves[q]) = {}
<1> DEFINE m == [x \in Forcing |-> Cardinality(LiveVertices(x.state))]
           n == [x \in Forcing |-> Len(x.agenda)]
           Ready(x) == Sound(x.state) /\ Forced(x.state) \subseteq Range(x.agenda)
           Wrong == {x \in Forcing : Ready(x) /\ Forced(ForcedMoves[x]) # {}}
<1>1. n \in [Forcing -> Nat]
  BY DEF Forcing
<1>2. m \in [Forcing -> Nat]
  <2>1. \A s : LiveVertices(s) \in SUBSET Vertex
    BY DEF LiveVertices
  <2> QED BY <2>1, FiniteParts
<1> SUFFICES ASSUME Wrong # {} PROVE FALSE
  OBVIOUS
<1>3. PICK x \in Wrong : \A y \in Wrong : ~(m[y] < m[x] \/ (m[y] = m[x] /\ n[y] < n[x]))
  <2>1. Wrong \in SUBSET Forcing
    OBVIOUS
  <2> HIDE DEF Wrong, m, n
  <2> QED BY <1>1, <1>2, <2>1, LeastPair
<1>4. x \in Forcing /\ Ready(x) /\ Forced(ForcedMoves[x]) # {}
  OBVIOUS
<1>5. ForcedMoves[x] = IF x.agenda = <<>> THEN x.state ELSE ForcedMoves[LookAt(x)]
  BY <1>4, ForcedEquation
<1>6. x.agenda # <<>>
  <2>1. Range(<<>>) = {}
    BY DEF Range
  <2> QED BY <1>4, <1>5, <2>1
<1>7. /\ LookAt(x) \in Forcing /\ Follows(x.state, LookAt(x).state)
      /\ \/ LookAt(x).state = x.state /\ Len(LookAt(x).agenda) < Len(x.agenda)
         \/ Cardinality(LiveVertices(LookAt(x).state)) < Cardinality(LiveVertices(x.state))
  BY <1>4, <1>6, LookAtFollows
<1>8. Ready(LookAt(x))
  BY <1>4, <1>6, <1>7, LookAtForced DEF Follows
<1>9. LookAt(x) \in Wrong
  BY <1>4, <1>5, <1>6, <1>7, <1>8
<1> QED BY <1>3, <1>4, <1>7, <1>9

\* With forced moves, updateState leaves none.
LEMMA UpdateStateExhausts ==
  ASSUME NEW s, Sound(s), Forced(s) = {}, NEW v \in Vertex, Live(s, v), NEW c \in s.poss[v]
  PROVE  Forced(UpdateState(s, v, c, TRUE)) = {}
<1> DEFINE q == [state |-> Paint(s, v, c), agenda |-> adjList_[v]]
<1>1. s \in State
  BY DEF Sound
<1>2. c \in Color
  BY <1>1, StateParts
<1>3. Sound(Paint(s, v, c)) /\ Paint(s, v, c) \in State
  BY PaintGrows DEF Sound
<1>4. q \in Forcing /\ q.state = Paint(s, v, c) /\ q.agenda = adjList_[v]
  BY <1>3, Basics DEF Forcing
<1>5. Forced(q.state) \subseteq Range(q.agenda)
  BY <1>1, <1>2, <1>4, PaintForced DEF Ngbrs
<1>6. UpdateState(s, v, c, TRUE) = ForcedMoves[q]
  BY DEF UpdateState
<1> HIDE DEF q
<1> QED BY <1>3, <1>4, <1>5, <1>6, ForcedMovesExhaust

\* At the root none is forced if there are two colours or more.
LEMMA InitialUnforced ==
  ASSUME chromaticNum_ > 1
  PROVE  Forced(InitialState) = {}
<1>1. Cardinality(Color) = chromaticNum_
  BY GraphAssumption, FS_Interval DEF Color
<1>2. \A v \in LiveVertices(InitialState) : InitialState.poss[v] = Color
  BY DEF InitialState, LiveVertices
<1> QED BY <1>1, <1>2, GraphAssumption DEF Forced

\* The vertex that is branched on has the fewest colours left.
LEMMA NextVertexLeast ==
  ASSUME NEW s \in State, GetNextConstraintVertex(s) # -1, NEW u \in LiveVertices(s)
  PROVE  Cardinality(s.poss[GetNextConstraintVertex(s)]) <= Cardinality(s.poss[u])
<1> DEFINE L == LiveVertices(s)
           least == {v \in L : \A w \in L : Cardinality(s.poss[v]) <= Cardinality(s.poss[w])}
<1>1. L \subseteq Nat
  BY DEF LiveVertices, Vertex
<1>2. GetNextConstraintVertex(s) = IF least = {} THEN -1 ELSE Min(least)
  BY DEF GetNextConstraintVertex
<1> HIDE DEF L
<1>3. least # {} /\ least \in SUBSET Nat /\ GetNextConstraintVertex(s) = Min(least)
  BY <1>1, <1>2
<1>4. Min(least) \in least
  <2> HIDE DEF least
  <2> QED BY <1>3, MinLeast
<1> QED BY <1>3, <1>4 DEF L

\* If no vertex is forced, no colour of the vertex that is branched on takes a
\* neighbour its last one: all of them are tried.
LEMMA UnforcedTries ==
  ASSUME NEW s \in State, Forced(s) = {}, GetNextConstraintVertex(s) # -1,
         s.poss[GetNextConstraintVertex(s)] # {}
  PROVE  Range(GetValueOrderingOfColors(s, GetNextConstraintVertex(s)))
           = s.poss[GetNextConstraintVertex(s)]
<1> DEFINE v == GetNextConstraintVertex(s)
<1>1. v \in Vertex
  BY NextVertexLive DEF LiveVertices
<1>2. /\ Range(GetValueOrderingOfColors(s, v)) = {c \in s.poss[v] : Possible(s, v, c)}
      /\ s.poss[v] # {}
  BY <1>1, ValueOrderingAll
<1>3. \A u \in LiveVertices(s) : Cardinality(s.poss[v]) <= Cardinality(s.poss[u])
  BY NextVertexLeast
<1> HIDE DEF v
<1>4. ASSUME NEW c \in s.poss[v], NEW u \in Ngbrs(v), Live(s, u)
      PROVE  LeftTo(s, u, c) > 0
  <2>1. u \in LiveVertices(s) /\ u \in Vertex
    BY <1>1, <1>4, Basics DEF LiveVertices
  <2>2. /\ IsFiniteSet(s.poss[v]) /\ Cardinality(s.poss[v]) \in Nat
        /\ IsFiniteSet(s.poss[u]) /\ Cardinality(s.poss[u]) \in Nat
    BY <1>1, <2>1, StateParts, FiniteParts
  <2>3. Cardinality(s.poss[v]) # 0
    BY <1>2, <2>2, FS_EmptySet
  <2>4. Cardinality(s.poss[u]) # 1
    BY <2>1 DEF Forced
  <2>5. Cardinality(s.poss[u]) >= 2
    BY <1>3, <2>1, <2>2, <2>3, <2>4
  <2>6. /\ Cardinality(s.poss[u] \ {c}) \in Nat
        /\ Cardinality(s.poss[u] \ {c}) >= Cardinality(s.poss[u]) - 1
    <3>1. Cardinality(s.poss[u] \ {c}) = IF c \in s.poss[u] THEN Cardinality(s.poss[u]) - 1
                                        ELSE Cardinality(s.poss[u])
      BY <2>2, FS_RemoveElement
    <3> QED BY <2>2, <2>5, <3>1
  <2> QED BY <2>5, <2>6, <2>2 DEF LeftTo
<1>5. \A c \in s.poss[v] : Possible(s, v, c)
  BY <1>4 DEF Possible
<1> QED BY <1>2, <1>5 DEF v

-----------------------------------------------------------------------------
(* The subgraphs that an AND chare makes. *)

\* There are n numbers from 1 to n.
LEMMA FirstNumbers ==
  ASSUME NEW n \in Nat
  PROVE  IsFiniteSet(1..n) /\ Cardinality(1..n) = n
<1>1. n - 1 + 1 = n /\ (1 > n => n = 0)
  OBVIOUS
<1> QED BY <1>1, FS_Interval

\* A sequence that is as long as its range is large has no element twice.
LEMMA EachOnce ==
  ASSUME NEW S, IsFiniteSet(S), NEW q \in Seq(S), Len(q) = Cardinality(S), Range(q) = S
  PROVE  \A i, j \in 1..Len(q) : q[i] = q[j] => i = j
<1> DEFINE n == Len(q)
<1>1. n \in Nat /\ q \in [1..n -> S] /\ S = {q[i] : i \in 1..n}
  BY RangeEquality
<1> HIDE DEF n
<1>2. q \in Surjection(1..n, S)
  BY <1>1 DEF Surjection
<1>3. IsFiniteSet(1..n) /\ Cardinality(1..n) = n
  BY <1>1, FirstNumbers
<1>4. Cardinality(1..n) = Cardinality(S)
  BY <1>3 DEF n
<1>5. q \in Injection(1..n, S)
  BY <1>2, <1>3, <1>4, FS_SurjSameCardinalityImpliesInj
<1> QED BY <1>1, <1>5 DEF Injection, IsInjective, n

\* What can be reached in one step more.
Wider(S, reached) == reached \cup {u \in S : \E w \in reached : u \in Ngbrs(w)}

\* No edge leads from R to the rest of S.
Closed(R, S) == \A w \in R : \A u \in S : u \in Ngbrs(w) => u \in R

\* A component is the least closed set that its vertex is in.
LEMMA ComponentLeast ==
  ASSUME NEW S \in SUBSET Vertex, NEW v \in S
  PROVE  /\ v \in Component(v, S) /\ Component(v, S) \subseteq S /\ Closed(Component(v, S), S)
         /\ \A X \in SUBSET Vertex : v \in X /\ Closed(X, S) => Component(v, S) \subseteq X
<1> DEFINE D    == SUBSET Vertex
           R    == SUBSET Vertex
           stop == {r \in D : Wider(S, r) = r}
           base == [r \in D |-> r]
           next == [r \in D |-> Wider(S, r)]
           Eq(f) == f = [r \in D |-> IF Wider(S, r) = r THEN r ELSE f[Wider(S, r)]]
           Reach == CHOOSE f : Eq(f)
<1>1. \A r \in D : Wider(S, r) \in D /\ r \subseteq Wider(S, r)
  BY DEF Wider
<1>2. next \in [D -> D] /\ base \in [D -> R] /\ stop \in SUBSET D
  BY <1>1
<1>3. PICK f \in [D -> R] : \A r \in D : f[r] = IF r \in stop THEN base[r] ELSE f[next[r]]
  <2> HIDE DEF D, R, next, stop, base, Eq, Reach
  <2> QED BY <1>2, TailRecursion
<1>4. \A r \in D : f[r] = IF Wider(S, r) = r THEN r ELSE f[Wider(S, r)]
  BY <1>3
<1>5. Eq(f)
  BY <1>3, <1>4
<1>6. Eq(Reach)
  <2> HIDE DEF Eq
  <2> QED BY <1>5
<1>7. Component(v, S) = Reach[{v}]
  BY DEF Component, Wider
<1> HIDE DEF Reach, next, stop, base
<1>8. \A r \in D : Reach[r] = IF Wider(S, r) = r THEN r ELSE Reach[Wider(S, r)]
  BY <1>6
<1> DEFINE Right(r) == /\ r \subseteq Reach[r] /\ Reach[r] \subseteq r \cup S /\ Closed(Reach[r], S)
                       /\ \A X \in SUBSET Vertex : r \subseteq X /\ Closed(X, S) => Reach[r] \subseteq X
           Wrong == {r \in D : ~Right(r)}
           m == [r \in D |-> Cardinality(Vertex \ r)]
<1> HIDE DEF Eq
<1>9. m \in [D -> Nat]
  BY FiniteParts
<1>10. Wrong = {}
  <2> SUFFICES ASSUME Wrong # {} PROVE FALSE
    OBVIOUS
  <2>1. PICK r : Least(r, Wrong, m)
    <3>1. Wrong \in SUBSET D
      OBVIOUS
    <3> HIDE DEF Wrong, m, D
    <3> QED BY <1>9, <3>1, LeastMeasure
  <2>2. r \in D /\ ~Right(r) /\ \A s \in D : ~Right(s) => ~(m[s] < m[r])
    <3> HIDE DEF Right, m
    <3> QED BY <2>1 DEF Least
  <2> DEFINE s == Wider(S, r)
  <2>3. s \in D /\ r \subseteq s /\ s \subseteq r \cup S
    BY <1>1, <2>2 DEF Wider
  <2>4. CASE s = r
    <3>1. Reach[r] = r
      BY <1>8, <2>2, <2>4
    <3>2. Closed(r, S)
      BY <2>4 DEF Closed, Wider
    <3> HIDE DEF s
    <3> QED BY <2>2, <3>1, <3>2
  <2>5. CASE s # r
    <3>1. Reach[r] = Reach[s]
      BY <1>8, <2>2, <2>5
    <3>2. ~Right(s)
      <4> SUFFICES ASSUME Right(s) PROVE Right(r)
        BY <2>2
      <4>1. ASSUME NEW X \in SUBSET Vertex, r \subseteq X, Closed(X, S)
            PROVE  s \subseteq X
        BY <4>1 DEF Closed, Wider
      <4> HIDE DEF s
      <4> QED BY <2>3, <3>1, <4>1
    <3>3. m[s] < m[r]
      <4> DEFINE A == Vertex \ r
                 B == Vertex \ s
      <4>1. B \subseteq A /\ B # A
        BY <2>2, <2>3, <2>5
      <4>2. IsFiniteSet(A) /\ Cardinality(A) \in Nat /\ Cardinality(B) \in Nat
        BY FiniteParts
      <4>3. m[r] = Cardinality(A) /\ m[s] = Cardinality(B)
        BY <2>2, <2>3
      <4> HIDE DEF A, B, m
      <4>4. Cardinality(B) <= Cardinality(A) /\ (Cardinality(B) = Cardinality(A) => B = A)
        BY <4>1, <4>2, FS_Subset
      <4> QED BY <4>1, <4>2, <4>3, <4>4
    <3> HIDE DEF Right, m, s
    <3> QED BY <2>2, <2>3, <3>2, <3>3
  <2> QED BY <2>4, <2>5
<1>11. Right({v})
  <2>1. {v} \in D
    OBVIOUS
  <2> HIDE DEF Right
  <2> QED BY <1>10, <2>1
<1> QED BY <1>7, <1>11

\* Components are equal or have nothing in common: edges go both ways.
LEMMA ComponentsApart ==
  ASSUME NEW S \in SUBSET Vertex, NEW u \in S, NEW v \in S,
         Component(u, S) \cap Component(v, S) # {}
  PROVE  Component(u, S) = Component(v, S)
<1> DEFINE Q(x) == Component(x, S)
<1>1. \A x \in S : /\ x \in Q(x) /\ Q(x) \subseteq S /\ Closed(Q(x), S)
                   /\ \A X \in SUBSET Vertex : x \in X /\ Closed(X, S) => Q(x) \subseteq X
  BY ComponentLeast
<1> HIDE DEF Q
<1>2. \A x \in S : Closed(S \ Q(x), S)
  BY <1>1, Basics DEF Closed
<1>3. \A x, y \in S : x \notin Q(y) => Q(x) \cap Q(y) = {}
  <2> TAKE x \in S, y \in S
  <2> HAVE x \notin Q(y)
  <2>1. S \ Q(y) \in SUBSET Vertex /\ x \in S \ Q(y)
    OBVIOUS
  <2>2. Q(x) \subseteq S \ Q(y)
    BY <1>1, <1>2, <2>1
  <2> QED BY <2>2
<1>4. u \in Q(v) /\ v \in Q(u)
  BY <1>3 DEF Q
<1>5. Q(u) \in SUBSET Vertex /\ Q(v) \in SUBSET Vertex
  BY <1>1
<1>6. Q(u) \subseteq Q(v) /\ Q(v) \subseteq Q(u)
  BY <1>1, <1>4, <1>5
<1> QED BY <1>6 DEF Q

\* The sequence parts splits S into sets with no edges between them.
Splits(parts, S) ==
  /\ parts \in Seq(SUBSET Vertex)
  /\ \A i \in 1..Len(parts) : parts[i] # {} /\ parts[i] \subseteq S /\ Closed(parts[i], S)
  /\ \A i, j \in 1..Len(parts) : parts[i] \cap parts[j] # {} => i = j
  /\ \A v \in S : \E i \in 1..Len(parts) : v \in parts[i]

\* detectAndCreateSubgraphs splits a set of vertices.
LEMMA SubgraphsSplit ==
  ASSUME NEW S \in SUBSET Vertex
  PROVE  Splits(Subgraphs(S), S)
<1> DEFINE parts == {Component(v, S) : v \in S}
           rank == [p \in parts |-> Cardinality(p)]
           age == [p \in parts |-> Min(p)]
           q == Subgraphs(S)
<1>1. \A v \in S : v \in Component(v, S) /\ Component(v, S) \subseteq S /\ Closed(Component(v, S), S)
  BY ComponentLeast
<1>2. \A p \in parts : p # {} /\ p \in SUBSET S /\ Closed(p, S)
  BY <1>1
<1>3. \A p, r \in parts : p \cap r # {} => p = r
  BY ComponentsApart
<1>4. \A p \in parts : Min(p) \in p
  BY <1>2, MinLeast DEF Vertex
<1>5. IsFiniteSet(parts)
  <2>1. IsFiniteSet(SUBSET Vertex) /\ parts \subseteq SUBSET Vertex
    BY <1>2, Basics, FS_SUBSET
  <2> HIDE DEF parts
  <2> QED BY <2>1, FS_Subset
<1>6. rank \in [parts -> Int] /\ age \in [parts -> Int]
  <2> HIDE DEF parts
  <2>1. \A p \in parts : Cardinality(p) \in Int /\ Min(p) \in Int
    <3> TAKE p \in parts
    <3>1. p \in SUBSET Vertex /\ Min(p) \in Vertex
      BY <1>2, <1>4
    <3>2. Cardinality(p) \in Nat
      BY <3>1, FiniteParts
    <3>3. Min(p) \in Int
      BY <3>1 DEF Vertex
    <3> QED BY <3>2, <3>3
  <2> QED BY <2>1
<1>7. \A p, r \in parts : age[p] = age[r] => p = r
  BY <1>3, <1>4
<1>8. q = PopOrder(parts, rank, age)
  BY DEF Subgraphs
<1>9. q \in Seq(parts) /\ Len(q) = Cardinality(parts) /\ Range(q) = parts
  <2> HIDE DEF parts, rank, age, q
  <2> QED BY <1>5, <1>6, <1>7, <1>8, PopOrderAll
<1>10. \A v \in S : Component(v, S) \in parts
  OBVIOUS
<1> HIDE DEF parts, q
<1>11. \A i, j \in 1..Len(q) : q[i] = q[j] => i = j
  BY <1>5, <1>9, EachOnce
<1>12. Len(q) \in Nat /\ parts = {q[i] : i \in 1..Len(q)} /\ q \in [1..Len(q) -> parts]
  BY <1>9, RangeEquality
<1>13. \A i \in 1..Len(q) : q[i] \in parts
  BY <1>12
<1>14. q \in Seq(SUBSET Vertex)
  <2>1. \A p \in parts : p \in SUBSET Vertex
    BY <1>2
  <2>2. q \in [1..Len(q) -> SUBSET Vertex]
    BY <1>12, <2>1
  <2> QED BY <1>12, <2>2
<1>15. \A v \in S : \E i \in 1..Len(q) : v \in q[i]
  BY <1>1, <1>10, <1>12
<1> QED BY <1>2, <1>3, <1>11, <1>13, <1>14, <1>15 DEF Splits, q

-----------------------------------------------------------------------------
(* What a chare sends to its children keeps what can be coloured. *)

\* A solution of more vertices has one of fewer in it.
LEMMA SolvesLess ==
  ASSUME NEW s \in State, NEW S \in SUBSET Vertex, NEW R \in SUBSET S,
         NEW f \in Assignment, Solves(f, S, s)
  PROVE  \E g \in Assignment : Solves(g, R, s)
<1> DEFINE g == [v \in Vertex |-> IF v \in R THEN f[v] ELSE s.color[v]]
<1>1. /\ \A v \in Vertex : f[v] \in Color \cup {-1} /\ s.color[v] \in Color \cup {-1}
      /\ \A v \in Vertex : ~IsColored(s, v) => s.color[v] = -1
  BY StateParts, ColoredMeans DEF Assignment
<1>2. g \in Assignment /\ \A v \in Vertex : g[v] = IF v \in R THEN f[v] ELSE s.color[v]
  BY <1>1 DEF Assignment
<1> HIDE DEF g
<1>3. ASSUME NEW v \in Vertex, IsColored(s, v) \/ v \notin R
      PROVE  g[v] = s.color[v]
  BY <1>2, <1>3 DEF Solves
<1>4. ASSUME NEW v \in R, NEW u \in Ngbrs(v)
      PROVE  g[v] \in Color /\ g[u] # g[v]
  <2>1. v \in Vertex /\ u \in Vertex /\ v \in S /\ g[v] = f[v] /\ f[v] \in Color /\ f[u] # f[v]
    BY <1>2, Basics DEF Solves
  <2>2. u \notin R /\ IsColored(s, u) => g[u] = f[u]
    BY <1>2, <2>1 DEF Solves
  <2>3. u \notin R /\ ~IsColored(s, u) => g[u] = -1
    BY <1>1, <1>2, <2>1
  <2> QED BY <1>2, <2>1, <2>2, <2>3, Basics
<1>5. \A v \in R : g[v] \in Color
  BY <1>2 DEF Solves
<1> QED BY <1>2, <1>3, <1>4, <1>5 DEF Solves

\* What can be coloured in a scope can be in a smaller one.
LEMMA ScopeNarrows ==
  ASSUME NEW seed \in State, NEW s \in State, NEW t \in State,
         InScope(t) \subseteq InScope(seed), Solvable(seed, s), t.color = s.color
  PROVE  Solvable(t, t)
<1>1. PICK f \in Assignment : Solves(f, InScope(seed), s)
  BY DEF Solvable
<1>2. InScope(seed) \in SUBSET Vertex /\ InScope(t) \in SUBSET InScope(seed)
  BY DEF InScope
<1>3. \E g \in Assignment : Solves(g, InScope(t), s)
  <2> DEFINE S == InScope(seed)
             R == InScope(t)
  <2>1. S \in SUBSET Vertex /\ R \in SUBSET S /\ Solves(f, S, s)
    BY <1>1, <1>2
  <2> HIDE DEF S, R
  <2>2. \E g \in Assignment : Solves(g, R, s)
    BY <2>1, SolvesLess
  <2> QED BY <2>2 DEF R
<1> QED BY <1>3 DEF Solvable, Solves, IsColored

\* Removal and growth leave no more in scope than there was.
LEMMA GrownScope ==
  ASSUME NEW s, NEW t, Grown(s, t)
  PROVE  InScope(t) = InScope(s)
BY DEF Grown, InScope, IsOperationPermissible

\* The live vertices are in scope.
LEMMA LiveScope ==
  ASSUME NEW s
  PROVE  LiveVertices(s) \subseteq InScope(s) /\ InScope(s) \subseteq Vertex
BY DEF LiveVertices, Live, InScope

\* What can be coloured can be for one of the colours tried.
LEMMA OrKeepsSolution ==
  ASSUME NEW s, Sound(s), NEW v \in Vertex, Live(s, v), Solvable(s, s)
  PROVE  \E c \in Range(GetValueOrderingOfColors(s, v)) :
           Solvable(UpdateState(s, v, c, TRUE), UpdateState(s, v, c, TRUE))
<1>1. s \in State
  BY DEF Sound
<1>2. PICK c \in Range(GetValueOrderingOfColors(s, v)) : Solvable(s, UpdateState(s, v, c, TRUE))
  BY <1>1, LiveScope, SolutionFound
<1> DEFINE t == UpdateState(s, v, c, TRUE)
<1>3. c \in s.poss[v]
  BY <1>1, ValueOrderingAll
<1>4. Sound(t) /\ Grown(s, t)
  BY <1>3, UpdateStateFollows
<1>5. Solvable(s, t)
  BY <1>2
<1> HIDE DEF t
<1>6. Solvable(t, t)
  BY <1>4, <1>5, GrownScope DEF Solvable
<1> QED BY <1>6 DEF t

\* A vertex without a colour left shows that nothing can be coloured.
LEMMA DeadUnsolvable ==
  ASSUME NEW s, Sound(s), NEW v \in Vertex, Live(s, v), s.poss[v] = {}
  PROVE  ~Solvable(s, s)
<1> SUFFICES ASSUME NEW f \in Assignment, Solves(f, InScope(s), s)
             PROVE  FALSE
  BY DEF Solvable
<1>1. v \in InScope(s) /\ ~IsColored(s, v) /\ InScope(s) \in SUBSET Vertex
  BY DEF InScope, Live
<1>2. f[v] \in s.poss[v]
  BY <1>1, SolutionPossible
<1> QED BY <1>2

\* The state s with nothing but part in scope.
Narrowed(s, part) == [s EXCEPT !.out = @ \cup (InScope(s) \ part)]

\* Only the scope gets smaller.
LEMMA NarrowedParts ==
  ASSUME NEW s \in State, NEW part \in SUBSET InScope(s)
  PROVE  LET t == Narrowed(s, part)
         IN /\ t \in State /\ t.color = s.color /\ t.poss = s.poss /\ t.onStack = s.onStack
            /\ InScope(t) = part
            /\ LiveVertices(t) = LiveVertices(s) \cap part
            /\ Sound(s) => Sound(t)
            /\ Solvable(s, s) => Solvable(t, t)
<1> DEFINE t == Narrowed(s, part)
           rest == InScope(s) \ part
<1>1. InScope(s) \subseteq Vertex
  BY DEF InScope
<1>2. /\ t \in State /\ t.color = s.color /\ t.poss = s.poss /\ t.onStack = s.onStack
      /\ t.out = s.out \cup rest
  <2>1. s.out \cup rest \in SUBSET Vertex
    BY <1>1, StateParts
  <2> HIDE DEF rest
  <2> QED BY <2>1, StateParts DEF Narrowed, State, rest
<1> HIDE DEF t
<1>3. InScope(t) = part
  BY <1>1, <1>2 DEF InScope, IsOperationPermissible
<1>4. LiveVertices(t) = LiveVertices(s) \cap part
  <2>1. \A v \in Vertex : IsOperationPermissible(t, v) <=> v \in part
    BY <1>3, <1>1 DEF InScope
  <2>2. \A v \in Vertex : v \in part => IsOperationPermissible(s, v)
    BY DEF InScope
  <2> QED BY <1>2, <2>1, <2>2 DEF LiveVertices, Live, IsColored
<1>5. Sound(s) => Sound(t)
  BY <1>2, SoundSame
<1>6. Solvable(s, s) => Solvable(t, t)
  BY <1>2, <1>3, ScopeNarrows
<1> QED BY <1>2, <1>3, <1>4, <1>5, <1>6 DEF t

-----------------------------------------------------------------------------
(* What a chare answers with. *)

\* t is seed with all its live vertices coloured.
Finished(seed, t) == Sound(t) /\ Grown(seed, t) /\ LiveVertices(t) = {}

\* Growing goes on.
LEMMA GrowsOn ==
  ASSUME NEW r, NEW s, NEW t, Grown(r, s), Grown(s, t)
  PROVE  Grown(r, t)
BY DEF Grown, Live, IsColored, IsOperationPermissible

\* What is held on a stack finds colours, in a search that succeeds or not.
LEMMA HeldMerges ==
  ASSUME NEW base \in SUBSET Vertex, NEW d \in Seq(Vertex), NEW s, Sound(s), Held(base, s, d)
  PROVE  LET t == MergeRemovedVerticesBack(d, s)
         IN /\ Sound(t) /\ t.onStack = base /\ t.out = s.out
            /\ \A v \in Vertex : IF v \in Range(d) THEN IsColored(t, v) ELSE t.color[v] = s.color[v]
            /\ MergedBack(d, t)
<1> DEFINE t == MergeRemovedVerticesBack(d, s)
<1>1. <<>> \in Seq(Vertex) /\ <<>> \o d = d
  BY ConcatEmptySeq
<1>2. MergedTo(base, <<>>, d, s, t)
  BY <1>1, MergeLoopMerges
<1> HIDE DEF t
<1>3. /\ Sound(t) /\ Held(base, t, <<>>) /\ t.out = s.out
      /\ \A v \in Vertex : IF v \in Range(d) THEN IsColored(t, v) ELSE t.color[v] = s.color[v]
  BY <1>2 DEF MergedTo
<1>4. t.onStack = base /\ base \cap Range(d) = {}
  BY <1>3 DEF Held, Range
<1>5. MergedBack(d, t)
  BY <1>4 DEF MergedBack
<1> QED BY <1>3, <1>4, <1>5 DEF t

\* The colouring that has been found is finished when the removed vertices are
\* put back.
LEMMA FoundFinishes ==
  ASSUME NEW seed \in State, NEW below \in Seq(Vertex), NEW s, FoundOK(seed, below, s)
  PROVE  /\ Finished(seed, MergeRemovedVerticesBack(below, s))
         /\ MergedBack(below, MergeRemovedVerticesBack(below, s))
<1> DEFINE t == MergeRemovedVerticesBack(below, s)
<1>1. /\ Sound(t) /\ t.onStack = seed.onStack /\ t.out = s.out
      /\ \A v \in Vertex : IF v \in Range(below) THEN IsColored(t, v) ELSE t.color[v] = s.color[v]
      /\ MergedBack(below, t)
  BY StateParts, HeldMerges DEF FoundOK
<1> HIDE DEF t
<1>2. t.out = seed.out /\ InScope(t) = InScope(seed)
  BY <1>1 DEF FoundOK, InScope, IsOperationPermissible
<1>3. ASSUME NEW v \in Vertex, t.color[v] # seed.color[v]
      PROVE  Live(seed, v) /\ IsColored(t, v)
  <2>1. CASE v \in Range(below)
    <3>1. /\ Range(below) = {below[i] : i \in 1..Len(below)}
          /\ \A i \in 1..Len(below) : ~IsColored(s, below[i]) /\ below[i] \notin s.out
          /\ seed.onStack \cap Range(below) = {}
      BY RangeEquality DEF FoundOK, Held
    <3>2. ~IsColored(s, v) /\ v \notin seed.out /\ v \notin seed.onStack
      BY <2>1, <3>1 DEF FoundOK
    <3>3. ~IsColored(seed, v)
      BY <3>2 DEF FoundOK, Keeps, IsColored, Live
    <3> QED BY <1>1, <2>1, <3>2, <3>3 DEF Live, IsOperationPermissible
  <2>2. CASE v \notin Range(below)
    <3>1. t.color[v] = s.color[v] /\ Live(seed, v)
      BY <1>1, <1>3, <2>2 DEF FoundOK, Keeps
    <3>2. IsColored(s, v)
      BY <2>2, <3>1, LiveScope DEF FoundOK, LiveVertices
    <3> QED BY <3>1, <3>2 DEF IsColored
  <2> QED BY <2>1, <2>2
<1>4. LiveVertices(t) = {}
  <2> SUFFICES ASSUME NEW v \in LiveVertices(t)
               PROVE  FALSE
    OBVIOUS
  <2>1. v \in InScope(seed) /\ v \in Vertex /\ ~IsColored(t, v)
    BY <1>2, LiveScope DEF LiveVertices, Live
  <2> QED BY <1>1, <2>1 DEF FoundOK, IsColored
<1>5. Grown(seed, t)
  BY <1>1, <1>2, <1>3 DEF Grown
<1> QED BY <1>1, <1>4, <1>5 DEF Finished, t

\* A finished state completes what it was grown from, and shows that it can be.
LEMMA FinishedCompletes ==
  ASSUME NEW seed, Sound(seed), NEW t, Finished(seed, t)
  PROVE  CompletesSeed(seed, t) /\ Solvable(seed, seed)
<1> DEFINE S == InScope(seed)
<1>1. /\ Sound(t) /\ t \in State /\ seed \in State /\ InScope(t) = S /\ S \subseteq Vertex
      /\ \A v \in Vertex : t.color[v] # seed.color[v] => Live(seed, v)
  BY GrownScope, LiveScope DEF Finished, Sound, Grown
<1>2. \A v \in S : IsColored(t, v)
  BY <1>1 DEF Finished, LiveVertices, Live, InScope
<1>3. \A v \in Vertex : IsColored(seed, v) \/ v \notin S => t.color[v] = seed.color[v]
  BY <1>1, LiveScope DEF Live, LiveVertices
<1>4. \A v \in S : t.color[v] \in Color /\ \A u \in Ngbrs(v) : t.color[u] # t.color[v]
  BY <1>1, <1>2, ColoredMeans DEF Sound, Proper
<1>5. t.color \in Assignment
  BY <1>1, StateParts
<1> HIDE DEF S
<1>6. CompletesSeed(seed, t)
  BY <1>1, <1>3, <1>4 DEF CompletesSeed, S
<1>7. Solves(t.color, S, seed)
  BY <1>3, <1>4 DEF Solves
<1> QED BY <1>5, <1>6, <1>7 DEF Solvable, S

\* What the state of a chare has grown to, with the chare's removed vertices
\* still on the stack: they can be put back, and that finishes it if nothing
\* else is left.
LEMMA GrownAnswers ==
  ASSUME NEW seed, Sound(seed), NEW t, Sound(t), Grown(VertexRemoval(seed).state, t)
  PROVE  LET d == VertexRemoval(seed).deleted
         IN /\ d \in Seq(Vertex)
            /\ MergedBack(d, MergeRemovedVerticesBack(d, t))
            /\ MergeRemovedVerticesBack(d, t) \in State
            /\ LiveVertices(t) = {} => Finished(seed, MergeRemovedVerticesBack(d, t))
<1> DEFINE r == VertexRemoval(seed)
           s == r.state
           d == r.deleted
           left == Cardinality(LiveVertices(seed)) - Len(d)
<1>1. /\ NodeOK(seed, d, [state |-> s, uncolored |-> left, removed |-> <<>>])
      /\ s.color = seed.color
      /\ s \in State /\ d \in Seq(Vertex)
  BY ConstructedNode
<1>2. Grown(s, t) /\ seed \in State /\ seed.onStack \in SUBSET Vertex
  BY StateParts DEF Sound
<1> HIDE DEF s, d, left
<1>3. Sound(s) /\ Held(seed.onStack, s, d) /\ s.out = seed.out
  BY <1>1, ConcatEmptySeq DEF NodeOK
<1>4. Held(seed.onStack, t, d)
  BY <1>1, <1>2, <1>3, HeldGrown
<1>5. MergedBack(d, MergeRemovedVerticesBack(d, t)) /\ MergeRemovedVerticesBack(d, t) \in State
  BY <1>1, <1>2, <1>4, HeldMerges DEF Sound
<1>6. ASSUME LiveVertices(t) = {}
      PROVE  Finished(seed, MergeRemovedVerticesBack(d, t))
  <2>1. t.out = seed.out /\ t.onStack = seed.onStack \cup Range(d) /\ s.onStack = seed.onStack \cup Range(d)
    BY <1>2, <1>3 DEF Grown, Held
  <2>2. Keeps(seed, t)
    BY <1>1, <1>2, <1>3, <2>1 DEF Keeps, Grown, Live, IsColored, IsOperationPermissible
  <2>3. \A v \in InScope(seed) : IsColored(t, v) \/ v \in Range(d)
    BY <1>6, <2>1 DEF InScope, LiveVertices, Live, IsOperationPermissible
  <2>4. FoundOK(seed, d, t)
    BY <1>4, <2>1, <2>2, <2>3 DEF FoundOK
  <2> QED BY <1>1, <1>2, <2>4, FoundFinishes
<1> QED BY <1>1, <1>5, <1>6 DEF s, d, r

-----------------------------------------------------------------------------
(* A search that counts more vertices to colour than there are. *)

\* A node whose count is at least that of its live vertices.
Wide(seed, below, n) ==
  /\ n \in StackNode
  /\ NodeOK(seed, below, [n EXCEPT !.uncolored = Cardinality(LiveVertices(n.state))])
  /\ n.uncolored >= Cardinality(LiveVertices(n.state))

ExactCount(n) == n.uncolored = Cardinality(LiveVertices(n.state))

\* The size of what is left.
Size(n) == Cardinality(LiveVertices(n.state))

\* What it takes to know a wide node.
LEMMA WideMeans ==
  ASSUME NEW seed, NEW below, NEW s \in State, NEW k \in Int, NEW l, NEW removed \in Seq(Vertex),
         NodeOK(seed, below, [state |-> s, uncolored |-> l, removed |-> removed]),
         k >= Cardinality(LiveVertices(s))
  PROVE  Wide(seed, below, [state |-> s, uncolored |-> k, removed |-> removed])
<1> DEFINE n == [state |-> s, uncolored |-> k, removed |-> removed]
           c == Cardinality(LiveVertices(s))
           e == [n EXCEPT !.uncolored = Cardinality(LiveVertices(n.state))]
<1>1. n \in StackNode /\ n.state = s /\ n.uncolored = k
  BY DEF StackNode
<1>2. e.state = s /\ e.uncolored = c /\ e.removed = removed
  OBVIOUS
<1> HIDE DEF e
<1>3. NodeOK(seed, below, e)
  BY <1>2 DEF NodeOK
<1> QED BY <1>1, <1>3 DEF Wide, e

\* A child of a wide node is wide, and smaller.
LEMMA WideChild ==
  ASSUME NEW seed \in State, NEW below \in Seq(Vertex), NEW s \in State, NEW k \in Int, NEW removed \in Seq(Vertex),
         Wide(seed, below, [state |-> s, uncolored |-> k, removed |-> removed]),
         NEW v \in Vertex, Live(s, v), NEW c \in s.poss[v]
  PROVE  LET t == UpdateState(s, v, c, TRUE)
             m == [state |-> t, uncolored |-> k - VerticesColored(s, t), removed |-> removed]
         IN /\ Wide(seed, below, m)
            /\ Cardinality(LiveVertices(t)) < Cardinality(LiveVertices(s))
            /\ k = Cardinality(LiveVertices(s)) => ExactCount(m)
<1> DEFINE n == [state |-> s, uncolored |-> k, removed |-> removed]
           a == Cardinality(LiveVertices(s))
           e == [state |-> s, uncolored |-> a, removed |-> removed]
           t == UpdateState(s, v, c, TRUE)
           b == Cardinality(LiveVertices(t))
           d == VerticesColored(s, t)
           m == [state |-> t, uncolored |-> k - d, removed |-> removed]
<1>1. NodeOK(seed, below, e) /\ k >= a
  <2>1. e = [n EXCEPT !.uncolored = Cardinality(LiveVertices(n.state))] /\ n.state = s /\ n.uncolored = k
    OBVIOUS
  <2> HIDE DEF e, n
  <2> QED BY <2>1 DEF Wide, n
<1>2. Sound(s)
  BY <1>1 DEF NodeOK
<1>3. Sound(t) /\ Grown(s, t) /\ LiveVertices(t) \subseteq LiveVertices(s) \ {v}
  BY <1>2, UpdateStateFollows
<1>4. NodeOK(seed, below, [state |-> t, uncolored |-> a - d, removed |-> removed])
  <2>1. e.state = s /\ e.uncolored = a /\ e.removed = removed
    OBVIOUS
  <2> HIDE DEF e
  <2>2. NodeOK(seed, below, [state |-> UpdateState(e.state, v, c, TRUE),
                             uncolored |-> e.uncolored - VerticesColored(e.state, UpdateState(e.state, v, c, TRUE)),
                             removed |-> e.removed])
    BY <1>1, <2>1, ChildNode
  <2> QED BY <2>1, <2>2
<1> HIDE DEF t
<1>5. t \in State
  BY <1>3 DEF Sound
<1>6. d = a - b
  BY <1>2, <1>3, VerticesColoredCount
<1>7. a \in Nat /\ b \in Nat /\ b < a
  <2>1. /\ IsFiniteSet(LiveVertices(s)) /\ a \in Nat /\ b \in Nat /\ v \in LiveVertices(s)
    BY FiniteParts DEF LiveVertices
  <2>2. Cardinality(LiveVertices(s) \ {v}) = a - 1 /\ IsFiniteSet(LiveVertices(s) \ {v})
    BY <2>1, FS_RemoveElement
  <2>3. b <= Cardinality(LiveVertices(s) \ {v})
    BY <1>3, <2>2, FS_Subset
  <2> HIDE DEF a, b
  <2> QED BY <2>1, <2>2, <2>3
<1> HIDE DEF a, d, e, n
<1>8. k - d \in Int /\ k - d >= b /\ (k = a => k - d = b)
  <2> HIDE DEF b
  <2> QED BY <1>1, <1>6, <1>7
<1>9. Wide(seed, below, m)
  <2> DEFINE l == k - d
  <2>1. l \in Int /\ l >= Cardinality(LiveVertices(t))
    BY <1>8
  <2> DEFINE j == a - d
  <2>2. NodeOK(seed, below, [state |-> t, uncolored |-> j, removed |-> removed])
    BY <1>4
  <2> HIDE DEF l, j
  <2>3. Wide(seed, below, [state |-> t, uncolored |-> l, removed |-> removed])
    BY <1>5, <2>1, <2>2, WideMeans
  <2> QED BY <2>3 DEF l
<1>10. k = a => ExactCount(m)
  <2>1. m.state = t /\ m.uncolored = k - d
    OBVIOUS
  <2> HIDE DEF m
  <2> QED BY <1>8, <2>1 DEF ExactCount
<1> QED BY <1>7, <1>9, <1>10 DEF t, a, d

\* A turn on a wide node finds a colouring, leaves smaller wide nodes of which
\* one can be solved if this one can, or trips because the count was wrong.
LEMMA WideStep ==
  ASSUME NEW seed \in State, NEW below \in Seq(Vertex), NEW n, Wide(seed, below, n)
  PROVE  LET step == SearchStep(n)
         IN \/ step.outcome = "found" /\ FoundOK(seed, below, step.state)
            \/ step.outcome = "tripped" /\ ~ExactCount(n)
            \/ /\ step.outcome = "pushed"
               /\ step.nodes \in Seq(StackNode)
               /\ \A i \in 1..Len(step.nodes) :
                    /\ Wide(seed, below, step.nodes[i])
                    /\ Size(step.nodes[i]) < Size(n)
                    /\ ExactCount(n) => ExactCount(step.nodes[i])
               /\ Solvable(seed, n.state) => \E i \in 1..Len(step.nodes) : Solvable(seed, step.nodes[i].state)
<1> DEFINE r       == VertexRemoval(n.state)
           removed == n.removed \o r.deleted
           left    == n.uncolored - Len(r.deleted)
           s       == r.state
           m       == [state |-> s, uncolored |-> left, removed |-> removed]
           v       == GetNextConstraintVertex(s)
           merged  == MergeRemovedVerticesBack(removed, s)
           colours == GetValueOrderingOfColors(s, v)
           child(c) == LET t == UpdateState(s, v, c, TRUE)
                       IN [state |-> t, uncolored |-> left - VerticesColored(s, t), removed |-> removed]
           nodes   == [i \in 1..Len(colours) |-> child(colours[i])]
           step    == SearchStep(n)
           a       == Cardinality(LiveVertices(n.state))
           e       == [n EXCEPT !.uncolored = Cardinality(LiveVertices(n.state))]
           x       == a - Len(r.deleted)
<1>1. /\ NodeOK(seed, below, e) /\ e.state = n.state /\ e.removed = n.removed /\ e.uncolored = a
      /\ n.uncolored \in Int /\ n.uncolored >= a /\ n.state \in State
  BY DEF Wide, StackNode
<1> HIDE DEF e
<1>2. /\ NodeOK(seed, below, [state |-> s, uncolored |-> x, removed |-> removed])
      /\ s.color = n.state.color /\ s \in State /\ r.deleted \in Seq(Vertex)
  BY <1>1, RemovalKeepsNode
<1>3. /\ Sound(s) /\ removed \in Seq(Vertex) /\ Held(seed.onStack, s, below \o removed) /\ s.out = seed.out
      /\ x = Cardinality(LiveVertices(s))
      /\ Keeps(seed, s)
  BY <1>2 DEF NodeOK
<1>4. step = IF left = 0
             THEN [outcome |-> IF MergedBack(removed, merged) THEN "found" ELSE "tripped",
                   state |-> merged]
             ELSE IF v = -1
             THEN [outcome |-> "tripped", state |-> s]
             ELSE [outcome |-> "pushed", nodes |-> nodes]
  BY DEF SearchStep
<1>5. IsFiniteSet(LiveVertices(s)) /\ Cardinality(LiveVertices(s)) \in Nat /\ a \in Nat /\ Len(r.deleted) \in Nat
  BY <1>2, FiniteParts, LenProperties DEF LiveVertices
<1> DEFINE b == Cardinality(LiveVertices(s))
           l == Len(r.deleted)
<1>6. /\ left \in Int /\ left >= b /\ b <= a
      /\ ExactCount(n) <=> left = b
  <2>1. ExactCount(n) <=> n.uncolored = a
    BY DEF ExactCount
  <2>2. b = a - l /\ b \in Nat /\ l \in Nat /\ a \in Nat
    BY <1>3, <1>5
  <2> HIDE DEF a, b, l
  <2> QED BY <1>1, <2>1, <2>2 DEF l
<1> HIDE DEF step, a, x, r
<1>7. Wide(seed, below, m)
  <2> HIDE DEF s, left, removed
  <2> QED BY <1>2, <1>3, <1>6, WideMeans
<1> HIDE DEF s, left, removed, merged, m
<1>8. CASE left = 0
  <2>1. LiveVertices(s) = {}
    BY <1>5, <1>6, <1>8, FS_EmptySet
  <2>2. FoundOK(seed, below, merged) /\ MergedBack(removed, merged)
    BY <1>2, <1>3, <2>1, MergeFinds DEF merged
  <2>3. step = [outcome |-> "found", state |-> merged]
    BY <1>4, <1>8, <2>2
  <2> QED BY <2>2, <2>3 DEF step
<1>9. CASE left # 0 /\ v = -1
  <2>1. LiveVertices(s) = {}
    BY <1>2, <1>9, NextVertexLive
  <2>2. b = 0
    BY <2>1, FS_EmptySet
  <2>3. ~ExactCount(n)
    BY <1>6, <1>9, <2>2
  <2>4. step = [outcome |-> "tripped", state |-> s]
    BY <1>4, <1>9
  <2> QED BY <2>3, <2>4 DEF step
<1>10. CASE left # 0 /\ v # -1
  <2>1. LiveVertices(s) # {}
    BY <1>2, <1>10, NextVertexLive
  <2>2. v \in Vertex /\ Live(s, v)
    BY <1>2, <2>1, NextVertexLive DEF LiveVertices
  <2>3. step = [outcome |-> "pushed", nodes |-> nodes]
    BY <1>4, <1>10
  <2> HIDE DEF v
  <2>4. /\ \A c \in Range(colours) : c \in s.poss[v]
        /\ Len(colours) \in Nat
        /\ Range(colours) = {colours[i] : i \in 1..Len(colours)}
    <3>1. colours \in Seq({c \in s.poss[v] : Possible(s, v, c)})
          /\ Range(colours) = {c \in s.poss[v] : Possible(s, v, c)}
      BY <1>2, <2>2, ValueOrderingAll
    <3> HIDE DEF colours
    <3> QED BY <3>1, RangeEquality, LenProperties
  <2> HIDE DEF colours
  <2>5. ASSUME NEW c \in Range(colours)
        PROVE  /\ Wide(seed, below, child(c)) /\ child(c) \in StackNode
               /\ Size(child(c)) < Size(n)
               /\ ExactCount(n) => ExactCount(child(c))
    <3>1. /\ Wide(seed, below, child(c))
          /\ Cardinality(LiveVertices(UpdateState(s, v, c, TRUE))) < b
          /\ left = b => ExactCount(child(c))
      BY <1>2, <1>3, <1>6, <1>7, <2>2, <2>4, WideChild DEF m
    <3>2. child(c).state = UpdateState(s, v, c, TRUE)
      OBVIOUS
    <3>3. Size(child(c)) = Cardinality(LiveVertices(UpdateState(s, v, c, TRUE)))
      BY <3>2 DEF Size
    <3>4. Size(n) = a
      BY DEF Size, a
    <3>5. Cardinality(LiveVertices(UpdateState(s, v, c, TRUE))) \in Nat
      BY FiniteParts DEF LiveVertices
    <3>6. child(c) \in StackNode
      BY <3>1 DEF Wide
    <3> DEFINE k == Cardinality(LiveVertices(UpdateState(s, v, c, TRUE)))
               p == Size(child(c))
               q == Size(n)
    <3>7. p < q
      <4>1. p = k /\ q = a /\ k \in Nat /\ k < b /\ b <= a /\ b \in Nat /\ a \in Nat
        BY <1>5, <1>6, <3>1, <3>3, <3>4, <3>5
      <4> HIDE DEF p, q, k, b
      <4> QED BY <4>1
    <3> HIDE DEF child, b
    <3> QED BY <1>6, <3>1, <3>6, <3>7
  <2>6. Solvable(seed, n.state) => \E c \in Range(colours) : Solvable(seed, child(c).state)
    <3> SUFFICES ASSUME Solvable(seed, n.state)
                 PROVE  \E c \in Range(colours) : Solvable(seed, child(c).state)
      OBVIOUS
    <3>1. Solvable(seed, s)
      BY <1>2 DEF Solvable, Solves, IsColored
    <3>2. LiveVertices(s) \subseteq InScope(seed)
      <4> DEFINE y == [state |-> s, uncolored |-> x, removed |-> removed]
      <4>1. y.state = s /\ NodeOK(seed, below, y)
        BY <1>2
      <4> HIDE DEF y
      <4> QED BY <4>1, LiveInScope
    <3>3. \E c \in Range(colours) : Solvable(seed, UpdateState(s, v, c, TRUE))
      BY <1>3, <2>2, <3>1, <3>2, SolutionFound DEF colours
    <3> QED BY <3>3
  <2>7. /\ Len(nodes) = Len(colours) /\ DOMAIN nodes = 1..Len(colours)
        /\ \A i \in 1..Len(colours) : nodes[i] = child(colours[i]) /\ colours[i] \in Range(colours)
    BY <2>4
  <2>8. step.outcome = "pushed" /\ step.nodes = nodes
    BY <2>3
  <2> HIDE DEF child, nodes
  <2>9. /\ \A i \in 1..Len(nodes) : /\ Wide(seed, below, nodes[i]) /\ nodes[i] \in StackNode
                                    /\ Size(nodes[i]) < Size(n)
                                    /\ ExactCount(n) => ExactCount(nodes[i])
        /\ Solvable(seed, n.state) => \E i \in 1..Len(nodes) : Solvable(seed, nodes[i].state)
    BY <2>4, <2>5, <2>6, <2>7
  <2>10. nodes \in Seq(StackNode)
    <3>1. nodes = [i \in 1..Len(colours) |-> nodes[i]]
      BY DEF nodes
    <3>2. nodes \in [1..Len(colours) -> StackNode]
      BY <2>7, <2>9, <3>1
    <3> QED BY <2>4, <3>2, IsASeq
  <2> QED BY <2>8, <2>9, <2>10 DEF step
<1> QED BY <1>8, <1>9, <1>10

\* A turn leaves nodes, whatever node it starts from.
LEMMA SearchStepType ==
  ASSUME NEW n \in StackNode, SearchStep(n).outcome = "pushed"
  PROVE  SearchStep(n).nodes \in Seq(StackNode)
<1> DEFINE r       == VertexRemoval(n.state)
           removed == n.removed \o r.deleted
           left    == n.uncolored - Len(r.deleted)
           s       == r.state
           v       == GetNextConstraintVertex(s)
           merged  == MergeRemovedVerticesBack(removed, s)
           colours == GetValueOrderingOfColors(s, v)
           child(c) == LET t == UpdateState(s, v, c, TRUE)
                       IN [state |-> t, uncolored |-> left - VerticesColored(s, t), removed |-> removed]
           nodes   == [i \in 1..Len(colours) |-> child(colours[i])]
           step    == SearchStep(n)
<1>1. n.state \in State /\ n.uncolored \in Int /\ n.removed \in Seq(Vertex)
  BY DEF StackNode
<1>2. s \in State /\ r.deleted \in Seq(Vertex)
  BY <1>1, VertexRemovalRemoves
<1>3. removed \in Seq(Vertex) /\ left \in Int
  BY <1>1, <1>2, ConcatProperties, LenProperties
<1>4. step = IF left = 0
             THEN [outcome |-> IF MergedBack(removed, merged) THEN "found" ELSE "tripped",
                   state |-> merged]
             ELSE IF v = -1
             THEN [outcome |-> "tripped", state |-> s]
             ELSE [outcome |-> "pushed", nodes |-> nodes]
  BY DEF SearchStep
<1>5. step.outcome = "pushed"
  OBVIOUS
<1> HIDE DEF step, s, left, removed, merged, r, nodes
<1>6. v # -1 /\ step.nodes = nodes
  BY <1>4, <1>5
<1>7. v \in Vertex /\ Live(s, v)
  BY <1>2, <1>6, NextVertexLive DEF LiveVertices
<1>8. /\ Len(colours) \in Nat
      /\ \A i \in 1..Len(colours) : colours[i] \in Range(colours)
  <2>1. colours \in Seq({c \in s.poss[v] : Possible(s, v, c)})
    BY <1>2, <1>7, ValueOrderingAll
  <2>2. Range(colours) = {colours[i] : i \in 1..Len(colours)}
    BY <2>1, RangeEquality
  <2> HIDE DEF colours
  <2> QED BY <2>1, <2>2, LenProperties
<1>9. ASSUME NEW c \in Range(colours)
      PROVE  child(c) \in StackNode
  <2> DEFINE t == UpdateState(s, v, c, TRUE)
  <2>1. t \in State /\ left - VerticesColored(s, t) \in Int
    BY <1>2, <1>3, <1>6, <1>9, SentType
  <2> DEFINE k == left - VerticesColored(s, t)
  <2>2. child(c) = [state |-> t, uncolored |-> k, removed |-> removed]
    OBVIOUS
  <2> HIDE DEF t, k, child
  <2> QED BY <1>3, <2>1, <2>2 DEF StackNode, k
<1> HIDE DEF child, colours
<1>10. nodes \in [1..Len(colours) -> StackNode]
  BY <1>8, <1>9 DEF nodes
<1>11. nodes \in Seq(StackNode)
  BY <1>8, <1>10, IsASeq
<1> QED BY <1>6, <1>11 DEF step
=============================================================================
