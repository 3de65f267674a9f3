------------------------- MODULE JonesPlassmannProofs -------------------------
(***************************************************************************)
(* Theorems about JonesPlassmann, for every graph, every number of         *)
(* processes, every choice of weights and every number of rounds.          *)
(***************************************************************************)
EXTENDS JonesPlassmann, Recursion

-----------------------------------------------------------------------------
(* Numbers. *)

\* Division with remainder leaves one remainder only.
LEMMA Remainder ==
  ASSUME NEW n \in Nat \ {0}, NEW a \in Nat, NEW q \in Int, NEW r \in 0..(n - 1), a = n * q + r
  PROVE  a % n = r
  BY Z3

\* What remains of a sum whose second term is less than the divisor.
LEMMA RemainderOfSum ==
  ASSUME NEW n \in Nat \ {0}, NEW a \in Nat, NEW i \in 0..(n - 1)
  PROVE  /\ a % n \in 0..(n - 1)
         /\ (a + i) % n = IF (a % n) + i < n THEN (a % n) + i ELSE (a % n) + i - n
<1> DEFINE q == a \div n
           r == a % n
<1>1. q \in Nat /\ r \in 0..(n - 1) /\ a = n * q + r
  BY Z3
<1> HIDE DEF q, r
<1>2. CASE r + i < n
  <2>1. a + i = n * q + (r + i) /\ r + i \in 0..(n - 1)
    BY <1>1, <1>2
  <2>2. (a + i) % n = r + i
    BY <1>1, <2>1, Remainder
  <2> QED BY <1>1, <1>2, <2>2 DEF r
<1>3. CASE r + i >= n
  <2> DEFINE next == q + 1
  <2>1. next \in Int /\ n * next = n * q + n
    BY <1>1
  <2> HIDE DEF next
  <2>2. a + i = n * next + (r + i - n) /\ r + i - n \in 0..(n - 1) /\ a + i \in Nat
    BY <1>1, <1>3, <2>1
  <2>3. (a + i) % n = r + i - n
    BY <2>1, <2>2, Remainder
  <2> QED BY <1>1, <1>3, <2>3 DEF r
<1> QED BY <1>1, <1>2, <1>3

-----------------------------------------------------------------------------
(* The partition of the vertices. *)

\* Where the share of process i begins, i = npes being where the last one ends.
Begin(i) ==
  num_v_per_p * i + (IF (V % npes) + i >= npes THEN (V % npes) + i - npes ELSE 0)

\* Division of V by npes.
LEMMA Shares ==
  /\ num_v_per_p \in Nat /\ V % npes \in 0..(npes - 1)
  /\ V = npes * num_v_per_p + (V % npes)
BY InputAssumption, Z3 DEF num_v_per_p

\* first_v and last_v are written by cases on the remainder; both are Begin.
LEMMA FirstAndLast ==
  ASSUME NEW i \in Proc
  PROVE  /\ first_v(i) = Begin(i)
         /\ range(i) = Begin(i + 1) - Begin(i)
         /\ range(i) \in {num_v_per_p, num_v_per_p + 1}
<1> DEFINE m == V % npes
           num == num_v_per_p
<1>1. num \in Nat /\ m \in 0..(npes - 1) /\ npes \in Nat \ {0} /\ V \in Nat /\ i \in 0..(npes - 1)
  BY Shares, InputAssumption DEF Proc
<1>2. remainder_v_per_p(i) = IF m + i < npes THEN m + i ELSE m + i - npes
  BY <1>1, RemainderOfSum DEF remainder_v_per_p
<1>3. num * (i + 1) = num * i + num /\ num * i \in Int
  BY <1>1
<1> HIDE DEF m, num
<1>4. first_v(i) = num * i + (IF m + i >= npes THEN m + i - npes ELSE 0)
  BY <1>1, <1>2 DEF first_v, num
<1>5. last_v(i) = num * (i + 1) + (IF m + i >= npes THEN m + i - npes + 1 ELSE 0) - 1
  BY <1>1, <1>2 DEF last_v, num
<1>6. Begin(i) = num * i + (IF m + i >= npes THEN m + i - npes ELSE 0)
  BY DEF Begin, m, num
<1>7. Begin(i + 1) = num * (i + 1) + (IF m + i + 1 >= npes THEN m + i + 1 - npes ELSE 0)
  BY <1>1 DEF Begin, m, num
<1> QED BY <1>1, <1>3, <1>4, <1>5, <1>6, <1>7 DEF range, num

\* The shares begin at 0, end at V, and follow each other.
LEMMA BeginRises ==
  /\ Begin(0) = 0 /\ Begin(npes) = V
  /\ \A p, q \in 0..npes : p <= q => Begin(p) <= Begin(q)
  /\ \A p \in 0..npes : Begin(p) \in Nat
<1> DEFINE m == V % npes
           num == num_v_per_p
<1>1. num \in Nat /\ m \in 0..(npes - 1) /\ npes \in Nat \ {0} /\ V \in Nat /\ V = npes * num + m
  BY Shares, InputAssumption
<1>2. Begin(0) = 0
  <2>1. num * 0 = 0
    BY <1>1
  <2> QED BY <1>1, <2>1 DEF Begin
<1>3. Begin(npes) = V
  <2>1. npes * num = num * npes /\ num * npes \in Int
    BY <1>1
  <2> QED BY <1>1, <2>1 DEF Begin
<1>4. ASSUME NEW p \in 0..npes, NEW q \in 0..npes, p <= q
      PROVE  Begin(p) <= Begin(q)
  <2>1. num * p <= num * q /\ num * p \in Int /\ num * q \in Int
    <3> DEFINE d == q - p
    <3>1. d \in Nat /\ num * d \in Nat /\ q = p + d
      BY <1>1, <1>4
    <3>2. num * (p + d) = num * p + num * d
      BY <1>1, <3>1
    <3> QED BY <1>1, <3>1, <3>2
  <2> QED BY <1>1, <1>4, <2>1 DEF Begin
<1>5. \A p \in 0..npes : Begin(p) \in Int
  BY <1>1 DEF Begin
<1>6. \A p \in 0..npes : Begin(0) <= Begin(p)
  BY <1>1, <1>4
<1>7. \A p \in 0..npes : Begin(p) \in Nat
  BY <1>2, <1>5, <1>6
<1> QED BY <1>2, <1>3, <1>4, <1>7

\* The offsets for MPI_Scatterv and MPI_Gatherv are the first vertices.
LEMMA Offsets == \A i \in Proc : vertex_offsets[i] = first_v(i)
<1> DEFINE step(f, i) == IF i = 0 THEN 0 ELSE f[i - 1] + range(i - 1)
           w == [i \in Proc |-> first_v(i)]
<1> USE InputAssumption DEF Proc
<1>1. \A i \in Proc : first_v(i) = IF i = 0 THEN 0 ELSE first_v(i - 1) + range(i - 1)
  <2> TAKE i \in Proc
  <2>1. CASE i = 0
    BY <2>1, FirstAndLast, BeginRises
  <2>2. CASE i # 0
    <3>1. i - 1 \in Proc /\ i - 1 + 1 = i /\ i \in 0..npes /\ i - 1 \in 0..npes
      BY <2>2
    <3>2. first_v(i) = Begin(i) /\ first_v(i - 1) = Begin(i - 1)
          /\ range(i - 1) = Begin(i) - Begin(i - 1)
      BY <3>1, FirstAndLast
    <3> QED BY <2>2, <3>1, <3>2, BeginRises
  <2> QED BY <2>1, <2>2
<1>2. w = [i \in Proc |-> step(w, i)]
  BY <1>1
<1>3. vertex_offsets = [i \in Proc |-> step(vertex_offsets, i)]
  BY <1>2 DEF vertex_offsets
<1> DEFINE Wrong == {i \in Proc : vertex_offsets[i] # first_v(i)}
<1>4. ASSUME Wrong # {}
      PROVE  FALSE
  <2>1. Wrong \in SUBSET Nat
    OBVIOUS
  <2>2. PICK i \in Wrong : \A k \in Wrong : i <= k
    BY <1>4, <2>1, LeastElement
  <2>3. i # 0 => i - 1 \in Proc /\ i - 1 \notin Wrong
    BY <2>2
  <2>4. vertex_offsets[i] = step(vertex_offsets, i)
    BY <1>3
  <2> QED BY <1>1, <2>2, <2>3, <2>4
<1> QED BY <1>4

\* Every process has vertices of its own and knows which.
LEMMA Partition ==
  /\ \A p \in Proc : first_v(p) \in Nat /\ range(p) \in Nat
  /\ \A p \in Proc : \A j \in Local(p) : j \in Nat /\ first_v(p) + j \in Vertex
  /\ \A p, q \in Proc : \A i \in Local(p), j \in Local(q) :
       first_v(p) + i = first_v(q) + j => p = q
<1> USE InputAssumption DEF Proc
<1>1. \A p \in Proc : p \in 0..npes /\ p + 1 \in 0..npes
  OBVIOUS
<1>2. \A p \in Proc : first_v(p) = Begin(p) /\ range(p) = Begin(p + 1) - Begin(p)
  BY FirstAndLast
<1>3. \A p \in Proc : Begin(p) \in Nat /\ Begin(p + 1) \in Nat /\ Begin(p) <= Begin(p + 1)
                      /\ Begin(p + 1) <= V
  BY <1>1, BeginRises
<1>4. \A p, q \in Proc : p < q => Begin(p + 1) <= Begin(q)
  BY <1>1, BeginRises
<1>5. ASSUME NEW p \in Proc, NEW q \in Proc, NEW i \in Local(p), NEW j \in Local(q), p < q
      PROVE  first_v(p) + i < first_v(q) + j
  BY <1>2, <1>3, <1>4, <1>5 DEF Local
<1>6. ASSUME NEW p \in Proc, NEW q \in Proc, NEW i \in Local(p), NEW j \in Local(q),
             first_v(p) + i = first_v(q) + j
      PROVE  p = q
  <2>1. first_v(p) + i \in Int /\ first_v(q) + j \in Int
    BY <1>2, <1>3 DEF Local
  <2>2. ~(p < q) /\ ~(q < p)
    BY <1>5, <1>6, <2>1
  <2> QED BY <2>2
<1> QED BY <1>2, <1>3, <1>6 DEF Local, Vertex

\* Every vertex is some process's.
LEMMA Owned ==
  ASSUME NEW v \in Vertex
  PROVE  \E p \in Proc : \E j \in Local(p) : v = first_v(p) + j
<1> DEFINE T == {p \in Proc : Begin(p) <= v}
<1> USE InputAssumption DEF Proc
<1>1. T \in SUBSET Nat /\ 0 \in T /\ IsFiniteSet(T)
  <2>1. IsFiniteSet(Proc)
    BY FS_Interval
  <2> QED BY <2>1, FS_Subset, BeginRises DEF Vertex
<1>2. PICK p \in T : \A q \in T : q <= p
  <2> HIDE DEF T
  <2> QED BY <1>1, GreatestElement
<1>3. p \in Proc /\ p \in 0..npes /\ p + 1 \in 0..npes /\ (p + 1 = npes \/ p + 1 \in Proc)
  OBVIOUS
<1>4. v < Begin(p + 1)
  BY <1>2, <1>3, BeginRises DEF Vertex
<1>5. first_v(p) = Begin(p) /\ range(p) = Begin(p + 1) - Begin(p)
  BY <1>3, FirstAndLast
<1>6. v - Begin(p) \in Local(p) /\ v = Begin(p) + (v - Begin(p))
  <2>1. Begin(p) \in Nat /\ Begin(p + 1) \in Nat /\ v \in Int /\ Begin(p) <= v
    BY <1>2, <1>3, BeginRises DEF Vertex
  <2> QED BY <1>4, <1>5, <2>1 DEF Local
<1> QED BY <1>3, <1>5, <1>6
-----------------------------------------------------------------------------
(* The least free colour. *)

\* MinColor is free, and every colour below it is taken.
LEMMA LeastColor ==
  ASSUME NEW S \in SUBSET (Nat \ {0}), IsFiniteSet(S)
  PROVE  /\ MinColor(S) \in Nat /\ MinColor(S) >= 1 /\ MinColor(S) \notin S
         /\ \A d \in 1..(MinColor(S) - 1) : d \in S
<1>1. CASE 1 \notin S
  BY <1>1 DEF MinColor
<1>2. CASE 1 \in S
  <2> DEFINE Ends == {c \in S : c + 1 \notin S}
  <2>1. Ends # {}
    <3>1. PICK m \in S : \A k \in S : k <= m
      BY <1>2, GreatestElement
    <3> QED BY <3>1
  <2>2. Ends \in SUBSET Nat
    OBVIOUS
  <2>3. \E c \in Ends : \A d \in Ends : c <= d
    <3> HIDE DEF Ends
    <3> QED BY <2>1, <2>2, LeastElement
  <2> DEFINE last == CHOOSE c \in S : c + 1 \notin S /\ \A d \in S : d + 1 \notin S => c <= d
  <2>4. last \in S /\ last + 1 \notin S /\ \A d \in S : d + 1 \notin S => last <= d
    BY <2>3
  <2>5. MinColor(S) = 1 + last
    BY <1>2 DEF MinColor
  <2> HIDE DEF last, Ends
  <2> DEFINE Missing == {d \in 1..last : d \notin S}
  <2>6. ASSUME Missing # {}
        PROVE  FALSE
    <3>1. Missing \in SUBSET Nat
      OBVIOUS
    <3>2. PICK d \in Missing : \A k \in Missing : d <= k
      <4> HIDE DEF Missing
      <4> QED BY <2>6, <3>1, LeastElement
    <3>3. d # 1 /\ d \in Nat /\ d \in 1..last /\ d \notin S /\ last \in Nat
      BY <1>2, <2>4, <3>2
    <3>4. d - 1 \in 1..last /\ d - 1 + 1 = d
      BY <3>3
    <3>5. d - 1 \in S
      BY <3>2, <3>3, <3>4
    <3>6. last <= d - 1
      BY <2>4, <3>3, <3>4, <3>5
    <3> QED BY <3>3, <3>6
  <2> QED BY <2>4, <2>5, <2>6
<1> QED BY <1>1, <1>2

\* A set of vertices has finitely many colours.
LEMMA FewColors ==
  ASSUME NEW c \in [Vertex -> Nat], NEW N \in SUBSET Vertex
  PROVE  IsFiniteSet({c[k] : k \in N} \ {0})
<1> DEFINE T == {c[k] : k \in N}
           f == [k \in N |-> c[k]]
<1>1. IsFiniteSet(N)
  <2>1. IsFiniteSet(Vertex)
    BY FS_Interval, InputAssumption DEF Vertex
  <2> HIDE DEF T, f
  <2> QED BY <2>1, FS_Subset
<1>2. f \in Surjection(N, T)
  BY DEF Surjection
<1>3. IsFiniteSet(T)
  <2> HIDE DEF f, T
  <2> QED BY <1>1, <1>2, FS_Surjection
<1> QED BY <1>3, FS_Subset
-----------------------------------------------------------------------------
(* The inductive invariant. *)

\* Nothing happens before the root has read the graph.
RootFirst == pc[root] = "start" => msgs = {} /\ \A p \in Proc : pc[p] = "start"

\* Only the root gathers, and only the others wait for a broadcast.
Places == pc[root] # "bcast" /\ \A p \in Proc \ {root} : pc[p] # "gather"

\* p has sent the colours of its vertices and has not got the new ones back.
Waiting(p) == pc[p] \in {"gather", "bcast"}

\* The root is at most one round ahead, of those that wait for its broadcast.
InStep ==
  \A p \in Proc : round[p] = round[root] \/ (pc[p] = "bcast" /\ round[root] = round[p] + 1)

\* All decide by the same weights and the same graph.
SameInput ==
  \A p \in Proc : Started(p) => weights[p] = weights[root] /\ p_graph[p] = Rows(p)

\* The colours of the root on their way to p.
Broadcast(p) == [type |-> "bcast", to |-> p, call |-> round[p], colors |-> colors[root]]

\* A part is the work of the present round, colours sent round are the root's.
MessagesFit ==
  \A m \in msgs :
    /\ m.type = "gather" =>
         /\ Waiting(m.from) /\ m.colors = j_colors[m.from]
         /\ m.call = round[m.from] /\ round[m.from] = round[root]
    /\ m.type = "bcast" =>
         pc[m.to] = "bcast" /\ m = Broadcast(m.to) /\ round[root] = round[m.to] + 1

\* What p decides for its vertex j when it knows colors[p].
Chosen(p, j) ==
  IF IsMax(p, j) THEN MinColor(neighbor_colors(p, j)) ELSE colors[p][first_v(p) + j]

\* Where the colours of a process's own vertices are while they travel.
WorkFits ==
  \A p \in Proc : \A j \in Local(p) :
    j_colors[p][j] = IF ~Waiting(p) THEN colors[p][first_v(p) + j]
                     ELSE IF round[p] = round[root] THEN Chosen(p, j)
                     ELSE colors[root][first_v(p) + j]

Invariant ==
  /\ TypeOK /\ DOMAIN p_graph = Proc /\ DOMAIN j_colors = Proc
  /\ RootFirst /\ Places /\ InStep /\ SameInput /\ MessagesFit
  /\ WorkFits /\ ViewsAgree /\ ViewsProper

-----------------------------------------------------------------------------
\* The assumptions on the input, as the proofs use them.
LEMMA Input ==
  /\ root \in Proc
  /\ \A g \in Graphs : g \in [Vertex -> SUBSET Vertex]
  /\ \A g \in Graphs : \A u, v \in Vertex : u \notin g[u] /\ (u \in g[v] <=> v \in g[u])
  /\ \A d \in MaxDegrees : ChromaticityUpper(d) \in Nat
  /\ \A w \in [Vertex -> Weight] : w \in Coloring
<1>1. root \in Proc
  BY InputAssumption DEF Proc, root
<1>2. \A d \in MaxDegrees : ChromaticityUpper(d) \in Nat
  BY InputAssumption DEF ChromaticityUpper
<1>3. \A w \in [Vertex -> Weight] : w \in Coloring
  BY InputAssumption DEF Coloring
<1> QED BY <1>1, <1>2, <1>3, InputAssumption

\* The rows of a process are those of its vertices.
LEMMA RowsOfOwn ==
  ASSUME graph \in Graphs, NEW p \in Proc
  PROVE  /\ Rows(p) \in [Local(p) -> SUBSET Vertex]
         /\ \A j \in Local(p) : Rows(p)[j] = graph[first_v(p) + j]
<1>1. \A j \in Local(p) : vertex_offsets[p] + j = first_v(p) + j /\ first_v(p) + j \in Vertex
  BY Offsets, Partition
<1> QED BY <1>1, Input DEF Rows

\* What a process chooses is a colour.
LEMMA ChosenTyped ==
  ASSUME TypeOK, NEW p \in Proc, NEW j \in Local(p)
  PROVE  Chosen(p, j) \in Nat
<1>1. colors[p] \in [Vertex -> Nat] /\ p_graph[p][j] \in SUBSET Vertex
  BY DEF TypeOK, Coloring
<1>2. colors[p][first_v(p) + j] \in Nat
  BY <1>1, Partition
<1>3. neighbor_colors(p, j) \in SUBSET (Nat \ {0})
  BY <1>1 DEF neighbor_colors
<1>4. IsFiniteSet(neighbor_colors(p, j))
  BY <1>1, FewColors DEF neighbor_colors
<1>5. MinColor(neighbor_colors(p, j)) \in Nat
  BY <1>3, <1>4, LeastColor
<1> QED BY <1>2, <1>5 DEF Chosen

\* A choice changes with what the process knows only.
LEMMA ChosenStays ==
  ASSUME NEW p \in Proc, NEW j \in Local(p), colors'[p] = colors[p],
         weights'[p] = weights[p], p_graph'[p] = p_graph[p]
  PROVE  Chosen(p, j)' = Chosen(p, j)
BY DEF Chosen, IsMax, Beats, neighbor_colors

\* The colours of a process after its loop.
LEMMA NewColorsChosen ==
  ASSUME Invariant, NEW p \in Proc, ~Waiting(p)
  PROVE  NewColors(p) = [j \in Local(p) |-> Chosen(p, j)]
<1>1. \A j \in Local(p) : j_colors[p][j] = colors[p][first_v(p) + j]
  BY DEF Invariant, WorkFits
<1> QED BY <1>1 DEF NewColors, Chosen

\* Before the first step.
LEMMA InitInvariant == Init => Invariant
<1> SUFFICES ASSUME Init PROVE Invariant
  OBVIOUS
<1> USE Input
<1>1. \A p \in Proc : \A j \in Local(p) : first_v(p) + j \in Vertex
  BY Partition
<1>2. TypeOK /\ DOMAIN p_graph = Proc /\ DOMAIN j_colors = Proc
  BY DEF Init, TypeOK, Calls, Coloring
<1>3. RootFirst /\ Places /\ InStep /\ SameInput /\ MessagesFit
  BY DEF Init, RootFirst, Places, InStep, SameInput, MessagesFit, Started
<1>4. WorkFits
  BY <1>1 DEF Init, WorkFits, Waiting
<1>5. ViewsAgree /\ ViewsProper
  BY DEF Init, ViewsAgree, ViewsProper
<1> QED BY <1>2, <1>3, <1>4, <1>5 DEF Invariant

-----------------------------------------------------------------------------
(* What a round does. *)

\* When the root has all parts, everyone is in its round, and the vertices of
\* each process have got the colours that process chose.
LEMMA RoundOutcome ==
  ASSUME Invariant, Gather
  PROVE  /\ \A p \in Proc : Waiting(p) /\ round[p] = round[root] /\ colors[p] = colors[root]
         /\ colors'[root] \in Coloring
         /\ \A p \in Proc : \A j \in Local(p) :
              /\ colors'[root][first_v(p) + j] = j_colors[p][j]
              /\ colors'[root][first_v(p) + j] = Chosen(p, j)
         /\ \A v \in Vertex :
              (\A p \in Proc : v - first_v(p) \notin Local(p)) => colors'[root][v] = colors[root][v]
<1> DEFINE parts == {m \in msgs : m.type = "gather" /\ m.call = round[root]}
           own(v) == {m \in parts : v - vertex_offsets[m.from] \in Local(m.from)}
<1>1. TypeOK /\ root \in Proc
  BY Input DEF Invariant
<1>2. colors' = [colors EXCEPT ![root] = Gathered(parts)] /\ \A p \in Proc : \E m \in parts : m.from = p
  BY DEF Gather
<1>3. colors'[root] = Gathered(parts)
  BY <1>1, <1>2 DEF TypeOK
<1>4. \A m \in parts :
        /\ m.from \in Proc /\ Waiting(m.from) /\ round[m.from] = round[root]
        /\ m.colors = j_colors[m.from] /\ m.colors \in [Local(m.from) -> Nat]
  BY <1>1 DEF Invariant, MessagesFit, TypeOK, MessageOK, Setup
<1>5. \A p \in Proc : Waiting(p) /\ round[p] = round[root] /\ colors[p] = colors[root]
  <2>1. \A p \in Proc : Waiting(p) /\ round[p] = round[root]
    <3> HIDE DEF parts
    <3> QED BY <1>2, <1>4
  <2> QED BY <1>1, <2>1 DEF Invariant, ViewsAgree
<1>6. \A p \in Proc : \A j \in Local(p) : j_colors[p][j] = Chosen(p, j)
  BY <1>5 DEF Invariant, WorkFits
<1>7. \A v \in Vertex : \A m \in own(v) :
        /\ m.from \in Proc /\ v - first_v(m.from) \in Local(m.from)
        /\ m.colors = j_colors[m.from] /\ m.colors \in [Local(m.from) -> Nat]
  BY <1>4, Offsets
<1>8. \A v \in Vertex :
        Gathered(parts)[v] = IF own(v) = {} THEN colors[root][v]
                             ELSE LET m == CHOOSE m \in own(v) : TRUE
                                  IN m.colors[v - vertex_offsets[m.from]]
  BY DEF Gathered
<1>9. \A v \in Vertex : own(v) # {} =>
        \E q \in Proc : /\ v - first_v(q) \in Local(q)
                        /\ Gathered(parts)[v] = j_colors[q][v - first_v(q)]
                        /\ Gathered(parts)[v] \in Nat
  <2> SUFFICES ASSUME NEW v \in Vertex, own(v) # {}
               PROVE  \E q \in Proc : /\ v - first_v(q) \in Local(q)
                                      /\ Gathered(parts)[v] = j_colors[q][v - first_v(q)]
                                      /\ Gathered(parts)[v] \in Nat
    OBVIOUS
  <2> DEFINE m == CHOOSE m \in own(v) : TRUE
  <2>1. m \in own(v)
    <3> HIDE DEF own
    <3> QED OBVIOUS
  <2>2. Gathered(parts)[v] = m.colors[v - vertex_offsets[m.from]]
    BY <1>8
  <2> HIDE DEF m, own, parts
  <2>3. /\ m.from \in Proc /\ v - first_v(m.from) \in Local(m.from)
        /\ m.colors = j_colors[m.from] /\ m.colors \in [Local(m.from) -> Nat]
    BY <1>7, <2>1
  <2> QED BY <2>2, <2>3, Offsets
<1>10. colors'[root] \in Coloring
  <2>1. \A v \in Vertex : Gathered(parts)[v] \in Nat
    <3> TAKE v \in Vertex
    <3>1. colors[root][v] \in Nat
      BY <1>1 DEF TypeOK, Coloring
    <3>2. own(v) = {} => Gathered(parts)[v] = colors[root][v]
      BY <1>8
    <3> HIDE DEF own, parts
    <3> QED BY <1>9, <3>1, <3>2
  <2> QED BY <1>3, <2>1 DEF Gathered, Coloring
<1>11. ASSUME NEW p \in Proc, NEW j \in Local(p)
       PROVE  colors'[root][first_v(p) + j] = j_colors[p][j]
  <2> DEFINE v == first_v(p) + j
  <2>1. v \in Vertex /\ v - first_v(p) = j /\ first_v(p) \in Nat /\ j \in Nat
    BY Partition
  <2>2. own(v) # {}
    <3>1. PICK m \in parts : m.from = p
      BY <1>2
    <3>2. v - vertex_offsets[m.from] \in Local(m.from)
      BY <2>1, <3>1, Offsets
    <3> QED BY <3>2
  <2> HIDE DEF v, own, parts
  <2>3. PICK q \in Proc : /\ v - first_v(q) \in Local(q)
                          /\ Gathered(parts)[v] = j_colors[q][v - first_v(q)]
    BY <1>9, <2>1, <2>2
  <2>4. first_v(q) + (v - first_v(q)) = first_v(p) + j
    <3>1. first_v(q) \in Nat /\ v \in Int
      BY Partition, <2>1 DEF Vertex
    <3> QED BY <2>1, <3>1 DEF v
  <2>5. p = q
    BY <2>3, <2>4, Partition
  <2> QED BY <1>3, <2>1, <2>3, <2>5 DEF v
<1>12. ASSUME NEW v \in Vertex, \A p \in Proc : v - first_v(p) \notin Local(p)
       PROVE  colors'[root][v] = colors[root][v]
  <2>1. own(v) = {}
    BY <1>7, <1>12
  <2> QED BY <1>3, <1>8, <2>1
<1> QED BY <1>5, <1>6, <1>10, <1>11, <1>12


\* The vertices that are the maximum in this round.
Maxima == {v \in Vertex : \E p \in Proc : \E j \in Local(p) : v = first_v(p) + j /\ IsMax(p, j)}

\* When all processes know the same, vertex v is the maximum if it is uncoloured
\* and no uncoloured neighbour beats it, j being what its process calls it.
LEMMA MaximaMeaning ==
  ASSUME Invariant, \A p \in Proc : Waiting(p) /\ colors[p] = colors[root],
         NEW p \in Proc, NEW j \in Local(p), NEW v \in Vertex, v = first_v(p) + j
  PROVE  /\ IsMax(p, j) <=>
              /\ colors[root][v] = 0
              /\ \A k \in graph[v] : colors[root][k] = 0 =>
                   ~(\/ weights[root][k] > weights[root][v]
                     \/ weights[root][k] = weights[root][v] /\ k > j)
         /\ neighbor_colors(p, j) = {colors[root][k] : k \in graph[v]} \ {0}
<1>1. Started(p)
  BY DEF Waiting, Started
<1>2. weights[p] = weights[root] /\ p_graph[p] = Rows(p) /\ graph \in Graphs
  BY <1>1 DEF Invariant, SameInput, TypeOK
<1>3. p_graph[p][j] = graph[v]
  BY <1>2, RowsOfOwn
<1> QED BY <1>2, <1>3 DEF IsMax, Beats, neighbor_colors

\* Two neighbours are never both the maximum, on whichever processes they are:
\* k > j, with a global k and a local j, may hold both ways, but not fail both ways.
LEMMA MaximaIndependent ==
  ASSUME Invariant, \A p \in Proc : Waiting(p) /\ colors[p] = colors[root],
         NEW u \in Maxima, NEW v \in Maxima
  PROVE  v \notin graph[u]
<1> PICK p \in Proc : \E i \in Local(p) : u = first_v(p) + i /\ IsMax(p, i)
  BY DEF Maxima
<1> PICK q \in Proc : \E j \in Local(q) : v = first_v(q) + j /\ IsMax(q, j)
  BY DEF Maxima
<1>1. PICK i \in Local(p) : u = first_v(p) + i /\ IsMax(p, i)
  OBVIOUS
<1>2. PICK j \in Local(q) : v = first_v(q) + j /\ IsMax(q, j)
  OBVIOUS
<1>3. u \in Vertex /\ v \in Vertex /\ i \in Nat /\ j \in Nat /\ first_v(p) \in Nat /\ first_v(q) \in Nat
  BY Partition DEF Maxima
<1>4. colors[root][u] = 0 /\ colors[root][v] = 0
  BY <1>1, <1>2, <1>3, MaximaMeaning
<1>5. v \in graph[u] => ~(\/ weights[root][v] > weights[root][u]
                          \/ weights[root][v] = weights[root][u] /\ v > i)
  BY <1>1, <1>3, <1>4, MaximaMeaning
<1>6. u \in graph[v] => ~(\/ weights[root][u] > weights[root][v]
                          \/ weights[root][u] = weights[root][v] /\ u > j)
  BY <1>2, <1>3, <1>4, MaximaMeaning
<1>7. weights[root][u] \in Nat /\ weights[root][v] \in Nat
  BY <1>3, Input DEF Invariant, TypeOK, Coloring
<1>8. u \notin graph[u] /\ (v \in graph[u] <=> u \in graph[v])
  BY <1>3, Input DEF Invariant, TypeOK
<1>9. ASSUME v \in graph[u]
      PROVE  FALSE
  <2>1. v <= i /\ u <= j
    BY <1>3, <1>5, <1>6, <1>7, <1>8, <1>9 DEF Vertex
  <2>2. u = v
    BY <1>1, <1>2, <1>3, <2>1 DEF Vertex
  <2> QED BY <1>8, <1>9, <2>2
<1> QED BY <1>9

\* A round is a step of the greedy colouring.
LEMMA RoundPaints ==
  ASSUME Invariant, Gather
  PROVE  Promise!Paint(Maxima)
<1>1. /\ \A p \in Proc : Waiting(p) /\ colors[p] = colors[root]
      /\ colors'[root] \in Coloring
      /\ graph \in Graphs /\ graph' = graph /\ colors[root] \in Coloring
  BY RoundOutcome, Input DEF Invariant, TypeOK, Gather
<1>2. \A u, v \in Maxima : v \notin graph[u]
  BY <1>1, MaximaIndependent
<1>3. ASSUME NEW v \in Maxima
      PROVE  colors[root][v] = 0 /\ Promise!IsLeast(colors'[root][v], v)
  <2> PICK p \in Proc : \E j \in Local(p) : v = first_v(p) + j /\ IsMax(p, j)
    BY DEF Maxima
  <2>1. PICK j \in Local(p) : v = first_v(p) + j /\ IsMax(p, j)
    OBVIOUS
  <2>2. v \in Vertex
    BY DEF Maxima
  <2> DEFINE S == {colors[root][k] : k \in graph[v]} \ {0}
  <2>3. colors'[root][v] = MinColor(S) /\ colors[root][v] = 0
    <3>1. colors'[root][v] = Chosen(p, j)
      BY <2>1, RoundOutcome
    <3>2. neighbor_colors(p, j) = S /\ colors[root][v] = 0
      BY <1>1, <2>1, <2>2, MaximaMeaning
    <3> HIDE DEF S
    <3> QED BY <2>1, <3>1, <3>2 DEF Chosen
  <2>4. graph[v] \in SUBSET Vertex
    BY <1>1, <2>2, Input
  <2>5. S \in SUBSET (Nat \ {0}) /\ IsFiniteSet(S)
    BY <1>1, <2>4, FewColors DEF Coloring
  <2>6. /\ MinColor(S) \in Nat /\ MinColor(S) >= 1 /\ MinColor(S) \notin S
        /\ \A d \in 1..(MinColor(S) - 1) : d \in S
    <3> HIDE DEF S
    <3> QED BY <2>5, LeastColor
  <2> DEFINE c == MinColor(S)
  <2>7. \A u \in graph[v] : colors[root][u] # c
    <3>1. \A u \in graph[v] : colors[root][u] = 0 \/ colors[root][u] \in S
      OBVIOUS
    <3> HIDE DEF S
    <3> QED BY <2>6, <3>1
  <2>8. \A d \in 1..(c - 1) : \E u \in graph[v] : colors[root][u] = d
    BY <2>6
  <2> QED BY <2>3, <2>6, <2>7, <2>8 DEF Promise!IsLeast
<1>4. ASSUME NEW v \in Vertex, v \notin Maxima
      PROVE  colors'[root][v] = colors[root][v]
  <2>1. CASE \A p \in Proc : v - first_v(p) \notin Local(p)
    BY <2>1, RoundOutcome
  <2>2. ASSUME NEW p \in Proc, v - first_v(p) \in Local(p)
        PROVE  colors'[root][v] = colors[root][v]
    <3> DEFINE j == v - first_v(p)
    <3>1. v = first_v(p) + j
      BY Partition DEF Vertex
    <3>2. ~IsMax(p, j)
      BY <1>4, <2>2, <3>1 DEF Maxima
    <3> HIDE DEF j
    <3>3. colors'[root][v] = Chosen(p, j)
      BY <2>2, <3>1, RoundOutcome DEF j
    <3> QED BY <1>1, <3>1, <3>2, <3>3 DEF Chosen
  <2> QED BY <2>1, <2>2
<1> QED BY <1>1, <1>2, <1>3, <1>4 DEF Promise!Paint, Coloring

\* A step of the greedy colouring keeps neighbours apart.
LEMMA PaintKeepsProper ==
  ASSUME graph \in Graphs, NEW S, Promise!Paint(S),
         \A u \in Vertex : \A v \in graph[u] : colors[root][u] # 0 => colors[root][u] # colors[root][v],
         NEW u \in Vertex, NEW v \in graph[u], colors'[root][u] # 0
  PROVE  colors'[root][u] # colors'[root][v]
<1>1. v \in Vertex /\ u \in graph[v] /\ u # v
  BY Input
<1>2. CASE u \in S
  BY <1>1, <1>2 DEF Promise!Paint, Promise!IsLeast
<1>3. CASE u \notin S /\ v \in S
  BY <1>1, <1>3 DEF Promise!Paint, Promise!IsLeast
<1>4. CASE u \notin S /\ v \notin S
  BY <1>1, <1>4 DEF Promise!Paint
<1> QED BY <1>2, <1>3, <1>4

-----------------------------------------------------------------------------
(* Every step preserves the invariant. *)

\* The root reads, and nobody else has begun.
LEMMA RootStartStep ==
  ASSUME Invariant, RootStart
  PROVE  Invariant'
<1> USE Input
<1>1. PICK max_degree \in MaxDegrees, w \in [Vertex -> Weight] :
        /\ chromaticity_upper' = [chromaticity_upper EXCEPT ![root] = ChromaticityUpper(max_degree)]
        /\ weights' = [weights EXCEPT ![root] = w]
        /\ msgs' = {Setup(p, ChromaticityUpper(max_degree), w) : p \in Proc \ {root}}
  BY DEF RootStart
<1>2. \A p \in Proc : pc[p] = "start"
  BY DEF RootStart, Invariant, RootFirst
<1>3. /\ p_graph' = [p_graph EXCEPT ![root] = Rows(root)]
      /\ pc' = [pc EXCEPT ![root] = "round"]
      /\ UNCHANGED <<graph, colors, j_colors, round>>
  BY DEF RootStart
<1>4. TypeOK /\ Rows(root) \in [Local(root) -> SUBSET Vertex]
  BY RowsOfOwn DEF Invariant, TypeOK
<1>5. w \in Coloring /\ ChromaticityUpper(max_degree) \in Nat
  OBVIOUS
<1>6. pc' \in [Proc -> Calls] /\ chromaticity_upper' \in [Proc -> Nat \cup {-1}]
      /\ weights' \in [Proc -> Coloring] /\ DOMAIN p_graph' = Proc
      /\ \A p \in Proc : p_graph'[p] \in [Local(p) -> SUBSET Vertex]
      /\ weights'[root] = w /\ chromaticity_upper'[root] = ChromaticityUpper(max_degree)
  BY <1>1, <1>3, <1>4, <1>5 DEF TypeOK, Calls, Invariant
<1>7. \A m \in msgs' : MessageOK(m)' /\ m.type = "setup"
  BY <1>1, <1>3, <1>6 DEF MessageOK, Setup, Rows
<1>8. TypeOK' /\ DOMAIN p_graph' = Proc /\ DOMAIN j_colors' = Proc
  BY <1>3, <1>4, <1>6, <1>7 DEF TypeOK, Invariant
<1>9. RootFirst' /\ Places' /\ InStep'
  BY <1>2, <1>3, <1>4 DEF RootFirst, Places, InStep, Invariant, TypeOK
<1>10. SameInput'
  BY <1>2, <1>3, <1>4 DEF SameInput, Started, Rows, TypeOK, Invariant
<1>11. MessagesFit'
  BY <1>7 DEF MessagesFit
<1>12. WorkFits'
  <2>1. \A p \in Proc : ~Waiting(p) /\ ~Waiting(p)'
    BY <1>2, <1>3, <1>4 DEF Waiting, TypeOK
  <2> QED BY <1>3, <2>1 DEF WorkFits, Invariant
<1>13. ViewsAgree' /\ ViewsProper'
  BY <1>3 DEF ViewsAgree, ViewsProper, Invariant
<1> QED BY <1>8, <1>9, <1>10, <1>11, <1>12, <1>13 DEF Invariant

\* A process takes what the root has sent it.
LEMMA StartStep ==
  ASSUME Invariant, NEW p \in Proc, Start(p)
  PROVE  Invariant'
<1> USE Input
<1>1. PICK m \in msgs :
        /\ m.type = "setup" /\ m.to = p
        /\ chromaticity_upper' = [chromaticity_upper EXCEPT ![p] = m.upper]
        /\ weights' = [weights EXCEPT ![p] = m.weights]
        /\ p_graph' = [p_graph EXCEPT ![p] = m.rows]
        /\ msgs' = msgs \ {m}
  BY DEF Start
<1>2. /\ pc[p] = "start" /\ pc' = [pc EXCEPT ![p] = "round"]
      /\ UNCHANGED <<graph, colors, j_colors, round>>
  BY DEF Start
<1>3. TypeOK
  BY DEF Invariant
<1>4. p # root /\ m = Setup(p, chromaticity_upper[root], weights[root])
  BY <1>1, <1>3 DEF TypeOK, MessageOK
<1>5. /\ m.upper = chromaticity_upper[root] /\ m.weights = weights[root] /\ m.rows = Rows(p)
      /\ Rows(p) \in [Local(p) -> SUBSET Vertex]
  BY <1>3, <1>4, RowsOfOwn DEF Setup, TypeOK
<1>6. pc' \in [Proc -> Calls] /\ chromaticity_upper' \in [Proc -> Nat \cup {-1}]
      /\ weights' \in [Proc -> Coloring] /\ DOMAIN p_graph' = Proc
      /\ \A q \in Proc : p_graph'[q] \in [Local(q) -> SUBSET Vertex]
      /\ weights'[root] = weights[root] /\ chromaticity_upper'[root] = chromaticity_upper[root]
  BY <1>1, <1>2, <1>3, <1>4, <1>5 DEF TypeOK, Calls, Invariant
<1>7. \A n \in msgs' : n \in msgs /\ MessageOK(n)'
  BY <1>1, <1>2, <1>3, <1>6 DEF MessageOK, Setup, Rows, TypeOK
<1>8. TypeOK' /\ DOMAIN p_graph' = Proc /\ DOMAIN j_colors' = Proc
  BY <1>2, <1>3, <1>6, <1>7 DEF TypeOK, Invariant
<1>9. RootFirst' /\ Places' /\ InStep'
  <2>1. pc[root] # "start"
    BY <1>1 DEF Invariant, RootFirst
  <2> QED BY <1>2, <1>3, <1>4, <2>1 DEF RootFirst, Places, InStep, Invariant, TypeOK
<1>10. SameInput'
  BY <1>1, <1>2, <1>3, <1>4, <1>5 DEF SameInput, Started, Rows, TypeOK, Invariant
<1>11. \A q \in Proc : Waiting(q)' <=> Waiting(q)
  BY <1>2, <1>3 DEF Waiting, TypeOK
<1>12. MessagesFit'
  <2>1. \A n \in msgs' : n \in msgs /\ (n.type = "gather" => n.from \in Proc)
                         /\ (n.type = "bcast" => n.to \in Proc)
    BY <1>3, <1>7 DEF TypeOK, MessageOK, Setup
  <2>2. \A q \in Proc : pc[q] = "bcast" => pc'[q] = "bcast"
    BY <1>2, <1>3 DEF TypeOK
  <2> QED BY <1>2, <1>11, <2>1, <2>2 DEF MessagesFit, Broadcast, Invariant
<1>13. WorkFits'
  <2>1. \A q \in Proc : Waiting(q) => q # p
    BY <1>2 DEF Waiting
  <2>2. \A q \in Proc : \A j \in Local(q) : Waiting(q) => Chosen(q, j)' = Chosen(q, j)
    BY <1>1, <1>2, <1>3, <2>1, ChosenStays DEF TypeOK, Invariant
  <2> QED BY <1>2, <1>11, <2>2 DEF WorkFits, Invariant
<1>14. ViewsAgree' /\ ViewsProper'
  BY <1>2 DEF ViewsAgree, ViewsProper, Invariant
<1> QED BY <1>8, <1>9, <1>10, <1>12, <1>13, <1>14 DEF Invariant


\* The work of a process leaves for the root.
LEMMA ColorStep ==
  ASSUME Invariant, NEW p \in Proc, Color(p)
  PROVE  Invariant'
<1> USE Input
<1>1. /\ pc[p] = "round"
      /\ j_colors' = [j_colors EXCEPT ![p] = NewColors(p)]
      /\ msgs' = msgs \cup {Part(p, NewColors(p))}
      /\ pc' = [pc EXCEPT ![p] = IF p = root THEN "gather" ELSE "bcast"]
      /\ UNCHANGED <<graph, chromaticity_upper, weights, p_graph, colors, round>>
  BY DEF Color, setup
<1>2. TypeOK
  BY DEF Invariant
<1>3. ~Waiting(p) /\ round[p] = round[root]
  BY <1>1 DEF Waiting, Invariant, InStep
<1>4. /\ NewColors(p) = [j \in Local(p) |-> Chosen(p, j)]
      /\ NewColors(p) \in [Local(p) -> Nat]
  BY <1>2, <1>3, NewColorsChosen, ChosenTyped
<1>5. /\ pc' \in [Proc -> Calls] /\ Waiting(p)'
      /\ \A q \in Proc : q # p => pc'[q] = pc[q] /\ j_colors'[q] = j_colors[q]
      /\ j_colors'[p] = NewColors(p) /\ DOMAIN j_colors' = Proc
  BY <1>1, <1>2 DEF TypeOK, Calls, Waiting, Invariant
<1>6. TypeOK' /\ DOMAIN p_graph' = Proc /\ DOMAIN j_colors' = Proc
  <2>1. ASSUME NEW m, m = Part(p, NewColors(p))
        PROVE  MessageOK(m)'
    BY <1>2, <1>4, <2>1 DEF MessageOK, Part, TypeOK
  <2>2. \A m \in msgs : MessageOK(m)'
    BY <1>1, <1>2 DEF TypeOK, MessageOK, Setup, Rows
  <2>3. \A q \in Proc : j_colors'[q] \in [Local(q) -> Nat]
    BY <1>2, <1>4, <1>5 DEF TypeOK
  <2> QED BY <1>1, <1>2, <1>5, <2>1, <2>2, <2>3 DEF TypeOK, Invariant
<1>7. RootFirst' /\ Places' /\ InStep'
  <2>1. pc[root] # "start" /\ pc'[root] # "start"
    BY <1>1, <1>2, <1>5 DEF Invariant, RootFirst, TypeOK
  <2>2. Places'
    BY <1>1, <1>2, <1>5 DEF Invariant, Places, TypeOK
  <2>3. InStep'
    BY <1>1, <1>3, <1>5 DEF Invariant, InStep
  <2> QED BY <2>1, <2>2, <2>3 DEF RootFirst
<1>8. SameInput'
  BY <1>1, <1>5 DEF SameInput, Started, Rows, Invariant
<1>9. MessagesFit'
  <2>1. ASSUME NEW m \in msgs, m.type = "gather"
        PROVE  /\ Waiting(m.from)' /\ m.colors = j_colors'[m.from]
               /\ m.call = round'[m.from] /\ round'[m.from] = round'[root]
    <3>1. m.from \in Proc /\ Waiting(m.from)
      BY <1>2, <2>1 DEF TypeOK, MessageOK, Setup, Invariant, MessagesFit
    <3>2. m.from # p
      BY <1>3, <3>1
    <3> QED BY <1>1, <1>5, <2>1, <3>1, <3>2 DEF Invariant, MessagesFit, Waiting
  <2>2. ASSUME NEW m \in msgs, m.type = "bcast"
        PROVE  /\ pc'[m.to] = "bcast" /\ m = Broadcast(m.to)'
               /\ round'[root] = round'[m.to] + 1
    <3>1. m.to \in Proc /\ pc[m.to] = "bcast"
      BY <1>2, <2>2 DEF TypeOK, MessageOK, Setup, Invariant, MessagesFit
    <3> QED BY <1>1, <1>5, <2>2, <3>1 DEF Invariant, MessagesFit, Broadcast
  <2>3. LET m == Part(p, NewColors(p))
        IN /\ m.type = "gather" /\ m.from = p
           /\ m.colors = j_colors'[p] /\ m.call = round'[p] /\ round'[p] = round'[root]
    BY <1>1, <1>3, <1>5 DEF Part
  <2> QED BY <1>1, <1>5, <2>1, <2>2, <2>3 DEF MessagesFit
<1>10. WorkFits'
  <2>1. \A q \in Proc : \A j \in Local(q) : Chosen(q, j)' = Chosen(q, j)
    BY <1>1, ChosenStays
  <2>2. ASSUME NEW j \in Local(p)
        PROVE  j_colors'[p][j] = Chosen(p, j)'
    BY <1>4, <1>5, <2>1
  <2>3. \A q \in Proc : q # p => (Waiting(q)' <=> Waiting(q))
    BY <1>5 DEF Waiting
  <2> QED BY <1>1, <1>3, <1>5, <2>1, <2>2, <2>3 DEF WorkFits, Invariant
<1>11. ViewsAgree' /\ ViewsProper'
  BY <1>1 DEF ViewsAgree, ViewsProper, Invariant
<1> QED BY <1>6, <1>7, <1>8, <1>9, <1>10, <1>11 DEF Invariant

\* The root's colours change, as RoundOutcome and RoundPaints tell.
LEMMA GatherStep ==
  ASSUME Invariant, Gather
  PROVE  Invariant'
<1> USE Input
<1> DEFINE parts == {m \in msgs : m.type = "gather" /\ m.call = round[root]}
           sent(p) == [type |-> "bcast", to |-> p, call |-> round[root],
                       colors |-> Sent(Gathered(parts))]
<1>1. /\ pc[root] = "gather"
      /\ colors' = [colors EXCEPT ![root] = Gathered(parts)]
      /\ msgs' = (msgs \ parts) \cup {sent(p) : p \in Proc \ {root}}
      /\ round' = [round EXCEPT ![root] = @ + 1]
      /\ pc' = [pc EXCEPT ![root] = "round"]
      /\ UNCHANGED <<graph, chromaticity_upper, weights, p_graph, j_colors>>
  BY DEF Gather, setup
<1>2. TypeOK
  BY DEF Invariant
<1>3. /\ \A p \in Proc : Waiting(p) /\ round[p] = round[root] /\ colors[p] = colors[root]
      /\ colors'[root] \in Coloring
      /\ \A p \in Proc : \A j \in Local(p) : colors'[root][first_v(p) + j] = j_colors[p][j]
  BY RoundOutcome
<1>4. \A p \in Proc \ {root} : pc[p] = "bcast" /\ pc'[p] = "bcast"
  BY <1>1, <1>2, <1>3 DEF Waiting, Invariant, Places, TypeOK
<1>5. /\ pc' \in [Proc -> Calls] /\ colors' \in [Proc -> Coloring] /\ round' \in [Proc -> Nat]
      /\ pc'[root] = "round" /\ round'[root] = round[root] + 1 /\ round[root] \in Nat
      /\ colors'[root] = Gathered(parts)
      /\ \A p \in Proc \ {root} : round'[p] = round[p] /\ colors'[p] = colors[p]
  <2>1. colors'[root] = Gathered(parts)
    BY <1>1, <1>2 DEF TypeOK
  <2>2. Gathered(parts) \in Coloring
    BY <1>3, <2>1
  <2> HIDE DEF parts
  <2> QED BY <1>1, <1>2, <2>1, <2>2 DEF TypeOK, Calls
<1>6. \A m \in msgs' :
        \/ m \in msgs /\ m.type = "setup"
        \/ \E p \in Proc \ {root} : m = sent(p)
  <2>1. \A m \in msgs : m.type = "gather" => m \in parts
    BY DEF Invariant, MessagesFit
  <2>2. \A m \in msgs : m.type # "bcast"
    <3>1. \A m \in msgs : m.type = "bcast" => m.to \in Proc
      BY <1>2 DEF TypeOK, MessageOK, Setup
    <3> QED BY <1>3, <1>5, <3>1 DEF Invariant, MessagesFit
  <2>3. \A m \in msgs : m.type \in {"setup", "gather", "bcast"}
    BY <1>2 DEF TypeOK, MessageOK
  <2> HIDE DEF parts, sent
  <2> QED BY <1>1, <2>1, <2>2, <2>3
<1>7. \A p \in Proc \ {root} :
        /\ sent(p).type = "bcast" /\ sent(p).to = p /\ sent(p).call = round'[p]
        /\ sent(p).colors = colors'[root] /\ round'[root] = round'[p] + 1
        /\ sent(p) = [type |-> "bcast", to |-> p, call |-> round'[p], colors |-> colors'[root]]
  BY <1>3, <1>5 DEF Sent
<1> HIDE DEF sent, parts
<1>8. TypeOK' /\ DOMAIN p_graph' = Proc /\ DOMAIN j_colors' = Proc
  <2>1. \A m \in msgs : m.type = "setup" => MessageOK(m)'
    BY <1>1, <1>2 DEF TypeOK, MessageOK, Setup, Rows
  <2>2. ASSUME NEW p \in Proc \ {root}, NEW m, m = sent(p)
        PROVE  MessageOK(m)'
    <3>1. m.type = "bcast" /\ m.to = p /\ m.call \in Nat /\ m.colors \in Coloring
      BY <1>3, <1>5, <1>7, <2>2
    <3> QED BY <3>1 DEF MessageOK
  <2>3. \A m \in msgs' : MessageOK(m)'
    BY <1>6, <2>1, <2>2
  <2> QED BY <1>1, <1>2, <1>5, <2>3 DEF TypeOK, Invariant
<1>9. RootFirst' /\ Places' /\ InStep'
  BY <1>3, <1>4, <1>5, <1>7 DEF RootFirst, Places, InStep
<1>10. SameInput'
  <2>1. \A p \in Proc : Started(p)
    BY <1>3 DEF Waiting, Started
  <2> QED BY <1>1, <2>1 DEF SameInput, Rows, Invariant
<1>11. MessagesFit'
  BY <1>4, <1>6, <1>7 DEF MessagesFit, Broadcast
<1>12. WorkFits'
  <2>1. ~Waiting(root)' /\ \A p \in Proc \ {root} : Waiting(p)' /\ round'[p] # round'[root]
    BY <1>4, <1>5, <1>7 DEF Waiting
  <2> QED BY <1>1, <1>3, <2>1 DEF WorkFits
<1>13. ViewsAgree'
  <2>1. \A p, q \in Proc \ {root} : colors'[p] = colors'[q] /\ round'[p] # round'[root]
    BY <1>3, <1>5, <1>7
  <2> QED BY <2>1 DEF ViewsAgree
<1>14. ViewsProper'
  <2>1. Promise!Paint(Maxima) /\ graph \in Graphs
    BY <1>2, RoundPaints DEF TypeOK
  <2>2. \A u \in Vertex : \A v \in graph[u] : colors[root][u] # 0 => colors[root][u] # colors[root][v]
    BY DEF Invariant, ViewsProper
  <2>3. \A u \in Vertex : \A v \in graph[u] : colors'[root][u] # 0 => colors'[root][u] # colors'[root][v]
    BY <2>1, <2>2, PaintKeepsProper
  <2>4. \A p \in Proc : p = root \/ colors'[p] = colors[p]
    BY <1>5
  <2> QED BY <1>1, <2>3, <2>4 DEF Invariant, ViewsProper
<1> QED BY <1>8, <1>9, <1>10, <1>11, <1>12, <1>13, <1>14 DEF Invariant


\* The colours of the root arrive where they were sent.
LEMMA BcastStep ==
  ASSUME Invariant, NEW p \in Proc, Bcast(p)
  PROVE  Invariant'
<1> USE Input
<1>1. PICK m \in msgs :
        /\ m.type = "bcast" /\ m.to = p /\ m.call = round[p]
        /\ colors' = [colors EXCEPT ![p] = m.colors]
        /\ msgs' = msgs \ {m}
  BY DEF Bcast
<1>2. /\ pc[p] = "bcast"
      /\ round' = [round EXCEPT ![p] = @ + 1]
      /\ pc' = [pc EXCEPT ![p] = "round"]
      /\ UNCHANGED <<graph, chromaticity_upper, weights, p_graph, j_colors>>
  BY DEF Bcast, setup
<1>3. TypeOK
  BY DEF Invariant
<1>4. /\ p # root /\ m.colors = colors[root] /\ m.colors \in Coloring
      /\ round[root] = round[p] + 1
  BY <1>1, <1>3 DEF TypeOK, MessageOK, Setup, Invariant, MessagesFit, Broadcast
<1>5. /\ pc' \in [Proc -> Calls] /\ colors' \in [Proc -> Coloring] /\ round' \in [Proc -> Nat]
      /\ pc'[p] = "round" /\ round'[p] = round[root] /\ colors'[p] = colors[root]
      /\ \A q \in Proc \ {p} : pc'[q] = pc[q] /\ round'[q] = round[q] /\ colors'[q] = colors[q]
      /\ round[root] \in Nat /\ round[p] # round[root]
  BY <1>1, <1>2, <1>3, <1>4 DEF TypeOK, Calls
<1>6. /\ \A n \in msgs' : n \in msgs
      /\ \A n \in msgs : (n.type = "gather" => n.from \in Proc) /\ (n.type = "bcast" => n.to \in Proc)
  BY <1>1, <1>3 DEF TypeOK, MessageOK, Setup
<1>7. TypeOK' /\ DOMAIN p_graph' = Proc /\ DOMAIN j_colors' = Proc
  <2>1. \A n \in msgs' : MessageOK(n)'
    BY <1>2, <1>3, <1>6 DEF TypeOK, MessageOK, Setup, Rows
  <2> QED BY <1>2, <1>3, <1>5, <2>1 DEF TypeOK, Invariant
<1>8. RootFirst' /\ Places' /\ InStep'
  <2>1. pc'[root] # "start"
    BY <1>1, <1>4, <1>5 DEF Invariant, RootFirst
  <2>2. Places' /\ InStep'
    BY <1>4, <1>5 DEF Invariant, Places, InStep
  <2> QED BY <2>1, <2>2 DEF RootFirst
<1>9. SameInput'
  BY <1>2, <1>5 DEF SameInput, Started, Rows, Invariant
<1>10. MessagesFit'
  <2>1. ASSUME NEW n \in msgs', n.type = "gather"
        PROVE  n.from # p
    BY <1>5, <1>6, <2>1 DEF Invariant, MessagesFit
  <2>2. ASSUME NEW n \in msgs', n.type = "bcast"
        PROVE  n.to # p
    <3>1. n \in msgs /\ n # m
      BY <1>1
    <3>2. n = Broadcast(n.to) /\ m = Broadcast(p)
      BY <1>1, <2>2, <3>1 DEF Invariant, MessagesFit
    <3> QED BY <3>1, <3>2
  <2>3. \A n \in msgs' : n.type = "gather" =>
          /\ Waiting(n.from)' /\ n.colors = j_colors'[n.from]
          /\ n.call = round'[n.from] /\ round'[n.from] = round'[root]
    BY <1>2, <1>4, <1>5, <1>6, <2>1 DEF Invariant, MessagesFit, Waiting
  <2>4. \A n \in msgs' : n.type = "bcast" =>
          pc'[n.to] = "bcast" /\ n = Broadcast(n.to)' /\ round'[root] = round'[n.to] + 1
    BY <1>4, <1>5, <1>6, <2>2 DEF Invariant, MessagesFit, Broadcast
  <2> QED BY <2>3, <2>4 DEF MessagesFit
<1>11. WorkFits'
  <2>1. \A q \in Proc \ {p} : \A j \in Local(q) : Chosen(q, j)' = Chosen(q, j)
    BY <1>2, <1>5, ChosenStays
  <2>2. \A q \in Proc \ {p} : Waiting(q)' <=> Waiting(q)
    BY <1>5 DEF Waiting
  <2>3. ~Waiting(p)' /\ Waiting(p)
    BY <1>2, <1>5 DEF Waiting
  <2>4. \A j \in Local(p) : j_colors[p][j] = colors[root][first_v(p) + j]
    BY <1>5, <2>3 DEF Invariant, WorkFits
  <2> QED BY <1>2, <1>4, <1>5, <2>1, <2>2, <2>3, <2>4 DEF WorkFits, Invariant
<1>12. ViewsAgree' /\ ViewsProper'
  BY <1>2, <1>4, <1>5 DEF ViewsAgree, ViewsProper, Invariant
<1> QED BY <1>7, <1>8, <1>9, <1>10, <1>11, <1>12 DEF Invariant


\* Leaving the loop and the last collective call moves no data.
LEMMA EndStep ==
  ASSUME Invariant, NEW p \in Proc, EndLoop(p) \/ Finish(p)
  PROVE  Invariant'
<1> USE Input
<1>1. \E c \in {"reduce", "finished"} : pc' = [pc EXCEPT ![p] = c]
  BY DEF EndLoop, Finish
<1>2. /\ pc[p] \in {"round", "reduce"}
      /\ UNCHANGED <<graph, chromaticity_upper, weights, p_graph, colors, j_colors, round, msgs>>
  BY DEF EndLoop, Finish, setup
<1>3. TypeOK
  BY DEF Invariant
<1>4. /\ pc' \in [Proc -> Calls] /\ pc'[p] \in {"reduce", "finished"}
      /\ \A q \in Proc \ {p} : pc'[q] = pc[q]
  BY <1>1, <1>3 DEF TypeOK, Calls
<1>5. \A m \in msgs : (m.type = "gather" => m.from \in Proc) /\ (m.type = "bcast" => m.to \in Proc)
  BY <1>3 DEF TypeOK, MessageOK, Setup
<1>6. TypeOK' /\ DOMAIN p_graph' = Proc /\ DOMAIN j_colors' = Proc
  BY <1>2, <1>3, <1>4 DEF TypeOK, MessageOK, Setup, Rows, Invariant
<1>7. RootFirst' /\ Places' /\ InStep' /\ SameInput'
  <2>1. pc[root] # "start" /\ pc'[root] # "start"
    BY <1>2, <1>4 DEF Invariant, RootFirst
  <2>2. Places' /\ InStep'
    BY <1>2, <1>4 DEF Invariant, Places, InStep
  <2>3. SameInput'
    BY <1>2, <1>4 DEF SameInput, Started, Rows, Invariant
  <2> QED BY <2>1, <2>2, <2>3 DEF RootFirst
<1>8. \A q \in Proc : Waiting(q)' <=> Waiting(q)
  BY <1>2, <1>4 DEF Waiting
<1>9. MessagesFit'
  BY <1>2, <1>4, <1>5, <1>8 DEF MessagesFit, Broadcast, Invariant
<1>10. WorkFits'
  <2>1. \A q \in Proc : \A j \in Local(q) : Chosen(q, j)' = Chosen(q, j)
    BY <1>2, ChosenStays
  <2> QED BY <1>2, <1>8, <2>1 DEF WorkFits, Invariant
<1>11. ViewsAgree' /\ ViewsProper'
  BY <1>2 DEF ViewsAgree, ViewsProper, Invariant
<1> QED BY <1>6, <1>7, <1>9, <1>10, <1>11 DEF Invariant

\* Nothing happens.
LEMMA StutterStep ==
  ASSUME Invariant, UNCHANGED vars
  PROVE  Invariant'
<1>1. UNCHANGED <<graph, pc, chromaticity_upper, weights, p_graph, colors, j_colors, round, msgs>>
  BY DEF vars, setup
<1>2. TypeOK' /\ DOMAIN p_graph' = Proc /\ DOMAIN j_colors' = Proc
  BY <1>1 DEF Invariant, TypeOK, MessageOK, Setup, Rows
<1>3. RootFirst' /\ Places' /\ InStep'
  BY <1>1 DEF Invariant, RootFirst, Places, InStep
<1>4. SameInput'
  BY <1>1 DEF Invariant, SameInput, Started, Rows
<1>5. MessagesFit'
  BY <1>1 DEF Invariant, MessagesFit, Waiting, Broadcast
<1>6. WorkFits'
  <2>1. \A q \in Proc : \A j \in Local(q) : Chosen(q, j)' = Chosen(q, j)
    BY <1>1, ChosenStays
  <2> QED BY <1>1, <2>1 DEF Invariant, WorkFits, Waiting
<1>7. ViewsAgree' /\ ViewsProper'
  BY <1>1 DEF Invariant, ViewsAgree, ViewsProper
<1> QED BY <1>2, <1>3, <1>4, <1>5, <1>6, <1>7 DEF Invariant

\* The cases of Next.
LEMMA NextInvariant == Invariant /\ [Next]_vars => Invariant'
<1> SUFFICES ASSUME Invariant, [Next]_vars PROVE Invariant'
  OBVIOUS
<1>1. CASE RootStart
  BY <1>1, RootStartStep
<1>2. ASSUME NEW p \in Proc, Start(p)
      PROVE  Invariant'
  BY <1>2, StartStep
<1>3. ASSUME NEW p \in Proc, Color(p)
      PROVE  Invariant'
  BY <1>3, ColorStep
<1>4. CASE Gather
  BY <1>4, GatherStep
<1>5. ASSUME NEW p \in Proc, Bcast(p)
      PROVE  Invariant'
  BY <1>5, BcastStep
<1>6. ASSUME NEW p \in Proc, EndLoop(p) \/ Finish(p)
      PROVE  Invariant'
  BY <1>6, EndStep
<1>7. CASE UNCHANGED vars
  BY <1>7, StutterStep
<1> QED BY <1>1, <1>2, <1>3, <1>4, <1>5, <1>6, <1>7 DEF Next, Over

\* The invariant holds in every state.
LEMMA AlwaysInvariant == Spec => []Invariant
BY InitInvariant, NextInvariant, PTL DEF Spec

-----------------------------------------------------------------------------
(* The theorems. *)

\* Every variable of the program keeps its type (graphcoloring.c).
THEOREM Typing == Spec => []TypeOK
<1>1. Invariant => TypeOK
  BY DEF Invariant
<1> QED BY <1>1, AlwaysInvariant, PTL

\* No process ever knows two neighbours of the same colour, however the vertices
\* are dealt out and whatever the weights, equal ones and the tie-break by mixed
\* indices included (graphcoloring.c:172-209).
THEOREM AlwaysProper == Spec => []ViewsProper
<1>1. Invariant => ViewsProper
  BY DEF Invariant
<1> QED BY <1>1, AlwaysInvariant, PTL

\* After as many rounds all processes know the same colours, although the root
\* may be a round ahead (graphcoloring.c:221-233).
THEOREM OneView == Spec => []ViewsAgree
<1>1. Invariant => ViewsAgree
  BY DEF Invariant
<1> QED BY <1>1, AlwaysInvariant, PTL

\* What a process has decided about its vertices is what comes back to it, for
\* every number of vertices and processes (graphcoloring.c:157-159, 330-343).
THEOREM OwnWork == Spec => []OwnWorkKept
<1>1. Invariant => OwnWorkKept
  BY DEF Invariant, WorkFits, OwnWorkKept, Waiting
<1> QED BY <1>1, AlwaysInvariant, PTL

\* The MPI program is a parallel greedy colouring: each round gives independent
\* vertices their least free colour, and no colour is ever changed.
THEOREM Greedy == Spec => KeepsPromise
<1>1. Init => Promise!Init
  BY Input DEF Init, Promise!Init
<1>2. Invariant /\ [Next]_vars => [Promise!Next]_<<graph, colors[root]>>
  <2> SUFFICES ASSUME Invariant, [Next]_vars
               PROVE  Promise!Next \/ UNCHANGED <<graph, colors[root]>>
    OBVIOUS
  <2>1. CASE Gather
    <3>1. Promise!Paint(Maxima) /\ Maxima \in SUBSET Vertex
      BY <2>1, RoundPaints DEF Maxima
    <3> QED BY <3>1 DEF Promise!Next
  <2>2. ASSUME NEW p \in Proc, Bcast(p)
        PROVE  UNCHANGED <<graph, colors[root]>>
    <3>1. p # root
      BY <2>2 DEF Bcast, Invariant, Places
    <3> QED BY <2>2, <3>1, Input DEF Bcast, Invariant, TypeOK
  <2>3. CASE RootStart
    BY <2>3 DEF RootStart
  <2>4. ASSUME NEW p \in Proc, Start(p) \/ Color(p) \/ EndLoop(p) \/ Finish(p)
        PROVE  UNCHANGED <<graph, colors[root]>>
    BY <2>4 DEF Start, Color, EndLoop, Finish
  <2>5. CASE UNCHANGED vars
    BY <2>5 DEF vars
  <2> QED BY <2>1, <2>2, <2>3, <2>4, <2>5 DEF Next, Over
<1> QED BY <1>1, <1>2, AlwaysInvariant, PTL DEF Spec, KeepsPromise, Promise!Spec

-----------------------------------------------------------------------------
(* The round in which a vertex is coloured. *)

\* One more than the greatest element of S.
OneOver(S) == IF S = {} THEN 1 ELSE 1 + CHOOSE h \in S : \A g \in S : g <= h

\* The neighbours of v that come before it.
Rising(g, w, v) == {k \in g[v] : w[k] > w[v]}

\* h counts, on U, the vertices along which weights rise.
Counts(h, g, w, U) ==
  h \in [Vertex -> Nat] /\ \A v \in U : h[v] = OneOver({h[k] : k \in Rising(g, w, v)})

\* OneOver(S) is the least number above all of S.
LEMMA OneOverLeast ==
  ASSUME NEW S \in SUBSET Nat, IsFiniteSet(S)
  PROVE  /\ OneOver(S) \in Nat \ {0}
         /\ \A r \in Nat : OneOver(S) <= r + 1 <=> \A s \in S : s <= r
<1>1. CASE S = {}
  BY <1>1 DEF OneOver
<1>2. CASE S # {}
  <2> DEFINE m == CHOOSE h \in S : \A g \in S : g <= h
  <2>1. m \in S /\ \A g \in S : g <= m
    BY <1>2, GreatestElement
  <2>2. OneOver(S) = 1 + m
    BY <1>2 DEF OneOver
  <2> HIDE DEF m
  <2> QED BY <2>1, <2>2
<1> QED BY <1>1, <1>2

\* The numbers that a function has on a set of vertices are finitely many.
LEMMA FewNumbers ==
  ASSUME NEW h \in [Vertex -> Nat], NEW N \in SUBSET Vertex
  PROVE  {h[k] : k \in N} \in SUBSET Nat /\ IsFiniteSet({h[k] : k \in N})
<1> DEFINE T == {h[k] : k \in N}
           f == [k \in N |-> h[k]]
<1>1. IsFiniteSet(N)
  <2>1. IsFiniteSet(Vertex)
    BY FS_Interval, InputAssumption DEF Vertex
  <2> HIDE DEF T, f
  <2> QED BY <2>1, FS_Subset
<1>2. f \in Surjection(N, T)
  BY DEF Surjection
<1>3. T \in SUBSET Nat
  OBVIOUS
<1> HIDE DEF f, T
<1>4. IsFiniteSet(T)
  BY <1>1, <1>2, FS_Surjection
<1> QED BY <1>3, <1>4 DEF T

\* Some weight is the greatest.
LEMMA HeaviestWeight ==
  ASSUME NEW w \in Coloring
  PROVE  \E top \in Nat : \A v \in Vertex : w[v] <= top
<1> DEFINE W == {w[k] : k \in Vertex}
<1>1. W \in SUBSET Nat /\ IsFiniteSet(W)
  BY FewNumbers DEF Coloring
<1>2. W # {}
  <2>1. 0 \in Vertex
    BY InputAssumption DEF Vertex
  <2> QED BY <2>1
<1>3. \A v \in Vertex : w[v] \in W
  OBVIOUS
<1> HIDE DEF W
<1>4. PICK m \in W : \A k \in W : k <= m
  BY <1>1, <1>2, GreatestElement
<1> QED BY <1>1, <1>3, <1>4

\* The numbers can be counted, from the vertices of the greatest weight down.
LEMMA CountsExist ==
  ASSUME NEW g \in Graphs, NEW w \in Coloring
  PROVE  \E h : Counts(h, g, w, Vertex)
<1>1. g \in [Vertex -> SUBSET Vertex] /\ w \in [Vertex -> Nat]
  BY Input DEF Coloring
<1>2. \A v \in Vertex : Rising(g, w, v) \in SUBSET Vertex
  BY <1>1 DEF Rising
<1>3. PICK top \in Nat : \A v \in Vertex : w[v] <= top
  BY HeaviestWeight
<1> DEFINE U(i) == {v \in Vertex : top - w[v] < i}
           T == {i \in 0..(top + 1) : \E h : Counts(h, g, w, U(i))}
<1>4. 0 \in T
  <2>1. U(0) = {}
    BY <1>1, <1>3
  <2>2. [v \in Vertex |-> 0] \in [Vertex -> Nat]
    OBVIOUS
  <2> HIDE DEF U
  <2>3. Counts([v \in Vertex |-> 0], g, w, U(0))
    BY <2>1, <2>2 DEF Counts
  <2> QED BY <2>3
<1>5. ASSUME NEW i \in 1..(top + 1), i - 1 \in T
      PROVE  i \in T
  <2>1. PICK f : Counts(f, g, w, U(i - 1))
    BY <1>5
  <2>2. f \in [Vertex -> Nat]
    BY <2>1 DEF Counts
  <2> DEFINE over(v) == OneOver({f[k] : k \in Rising(g, w, v)})
             h == [v \in Vertex |-> over(v)]
  <2>3. \A v \in Vertex : over(v) \in Nat
    BY <1>2, <2>2, FewNumbers, OneOverLeast
  <2>4. h \in [Vertex -> Nat] /\ \A v \in Vertex : h[v] = over(v)
    <3> HIDE DEF over
    <3> QED BY <2>3
  <2>5. ASSUME NEW v \in U(i - 1)
        PROVE  h[v] = f[v]
    <3>1. v \in Vertex /\ f[v] = over(v)
      BY <2>1 DEF Counts
    <3> HIDE DEF over, h
    <3> QED BY <2>4, <3>1
  <2>6. ASSUME NEW v \in U(i)
        PROVE  h[v] = OneOver({h[k] : k \in Rising(g, w, v)})
    <3>1. \A k \in Rising(g, w, v) : k \in U(i - 1)
      BY <1>1, <1>3 DEF Rising
    <3>2. {h[k] : k \in Rising(g, w, v)} = {f[k] : k \in Rising(g, w, v)}
      <4> HIDE DEF U, h
      <4> QED BY <2>5, <3>1
    <3>3. v \in Vertex
      OBVIOUS
    <3>4. h[v] = over(v)
      BY <2>4, <3>3
    <3> HIDE DEF h
    <3> QED BY <3>2, <3>4
  <2> HIDE DEF h, U, over
  <2>7. Counts(h, g, w, U(i))
    BY <2>4, <2>6 DEF Counts
  <2> QED BY <2>7
<1>6. T \in SUBSET (0..(top + 1))
  OBVIOUS
<1>7. top + 1 \in T
  <2> HIDE DEF T
  <2>1. top + 1 \in Nat
    OBVIOUS
  <2>2. \A i \in 0..(top + 1) : i \in T
    BY <1>4, <1>5, <1>6, <2>1, Upward
  <2> QED BY <2>2
<1>8. U(top + 1) = Vertex
  BY <1>1
<1> HIDE DEF U
<1> QED BY <1>7, <1>8

\* Height is such a function.
LEMMA HeightCounts ==
  graph \in Graphs /\ weights[root] \in Coloring => Counts(Height, graph, weights[root], Vertex)
<1> SUFFICES ASSUME graph \in Graphs, weights[root] \in Coloring
             PROVE  Counts(Height, graph, weights[root], Vertex)
  OBVIOUS
<1> DEFINE Equation(h) == h = [v \in Vertex |-> OneOver({h[k] : k \in Rising(graph, weights[root], v)})]
<1>1. PICK h : Counts(h, graph, weights[root], Vertex)
  BY CountsExist
<1>2. Equation(h)
  BY <1>1 DEF Counts
<1>3. Height = CHOOSE f : Equation(f)
  BY DEF Height, OneOver, Rising
<1> HIDE DEF Equation
<1>4. Equation(Height)
  BY <1>2, <1>3
<1> USE DEF Equation
<1>5. ASSUME NEW v \in Vertex
      PROVE  Height[v] = OneOver({Height[k] : k \in Rising(graph, weights[root], v)})
  BY <1>4
<1> DEFINE w == weights[root]
           Wrong == {v \in Vertex : Height[v] \notin Nat}
<1>6. w \in [Vertex -> Nat] /\ \A v \in Vertex : Rising(graph, w, v) \in SUBSET Vertex
  BY Input DEF Coloring, Rising
<1>7. PICK top \in Nat : \A v \in Vertex : w[v] <= top
  BY HeaviestWeight
<1>8. ASSUME Wrong # {}
      PROVE  FALSE
  <2> DEFINE m == [v \in Vertex |-> top - w[v]]
             f == [v \in Vertex |-> IF Height[v] \in Nat THEN Height[v] ELSE 0]
  <2>1. m \in [Vertex -> Nat] /\ Wrong \in SUBSET Vertex /\ f \in [Vertex -> Nat]
    BY <1>6, <1>7
  <2>2. PICK v : Least(v, Wrong, m)
    <3> HIDE DEF Wrong, m, f
    <3> QED BY <1>8, <2>1, LeastMeasure
  <2>3. v \in Wrong /\ \A k \in Wrong : ~(m[k] < m[v])
    BY <2>2 DEF Least
  <2>4. \A k \in Rising(graph, w, v) : f[k] = Height[k]
    <3>1. \A k \in Rising(graph, w, v) : k \in Vertex /\ w[k] > w[v]
      BY <1>6, <2>3 DEF Rising
    <3>2. \A k \in Vertex : w[k] > w[v] => m[k] < m[v]
      BY <1>6, <1>7, <2>3
    <3>3. \A k \in Rising(graph, w, v) : k \notin Wrong
      <4> HIDE DEF Wrong, m, w
      <4> QED BY <2>3, <3>1, <3>2
    <3> QED BY <3>1, <3>3
  <2>5. {f[k] : k \in Rising(graph, w, v)} = {Height[k] : k \in Rising(graph, w, v)}
    <3> HIDE DEF f
    <3> QED BY <2>4
  <2>6. v \in Vertex /\ Height[v] \notin Nat
    BY <2>3
  <2>7. Height[v] = OneOver({f[k] : k \in Rising(graph, w, v)})
    BY <1>5, <2>5, <2>6
  <2> HIDE DEF f, w, m
  <2> QED BY <1>6, <2>1, <2>6, <2>7, FewNumbers, OneOverLeast
<1>9. Height \in [Vertex -> Nat]
  BY <1>4, <1>8
<1> QED BY <1>5, <1>9 DEF Counts

\* A vertex has less than r + 2 vertices along which weights rise if and only if
\* those that come before it have less than r + 1 each.
LEMMA HeightRises ==
  ASSUME NEW h, NEW g \in Graphs, NEW w \in Coloring, Counts(h, g, w, Vertex), NEW v \in Vertex
  PROVE  /\ h[v] \in Nat \ {0}
         /\ \A r \in Nat : h[v] <= r + 1 <=> \A k \in Rising(g, w, v) : h[k] <= r
<1> DEFINE S == {h[k] : k \in Rising(g, w, v)}
<1>1. h \in [Vertex -> Nat] /\ h[v] = OneOver(S)
  BY DEF Counts
<1>2. Rising(g, w, v) \in SUBSET Vertex
  BY Input DEF Rising
<1>3. S \in SUBSET Nat /\ IsFiniteSet(S)
  BY <1>1, <1>2, FewNumbers
<1>4. \A r \in Nat : (\A s \in S : s <= r) <=> \A k \in Rising(g, w, v) : h[k] <= r
  OBVIOUS
<1> HIDE DEF S
<1> QED BY <1>1, <1>3, <1>4, OneOverLeast

\* Before its start a process knows no colour and has done no round.
Unstarted == \A p \in Proc : Started(p) \/ (round[p] = 0 /\ \A v \in Vertex : colors[p][v] = 0)

OnTime == Unstarted /\ ColoredOnTime

\* The heights do not change once the root has drawn the weights.
LEMMA SameHeight ==
  ASSUME UNCHANGED <<graph, weights[root]>>
  PROVE  Height' = Height /\ (DistinctWeights' <=> DistinctWeights)
BY DEF Height, DistinctWeights

\* In a round just the vertices are coloured of which all that come before them
\* are coloured.
LEMMA GatherOnTime ==
  ASSUME Invariant, OnTime, Gather
  PROVE  OnTime'
<1> USE Input
<1>1. /\ round' = [round EXCEPT ![root] = @ + 1]
      /\ pc' = [pc EXCEPT ![root] = "round"] /\ pc[root] = "gather"
      /\ UNCHANGED <<graph, weights>>
      /\ \A p \in Proc \ {root} : colors'[p] = colors[p]
  BY DEF Gather, setup, Invariant, TypeOK
<1>2. /\ graph \in Graphs /\ weights[root] \in Coloring /\ colors[root] \in Coloring
      /\ round \in [Proc -> Nat] /\ pc \in [Proc -> Calls]
  BY DEF Invariant, TypeOK
<1>3. \A p \in Proc : Waiting(p) /\ colors[p] = colors[root]
  BY RoundOutcome
<1>4. Promise!Paint(Maxima)
  BY RoundPaints
<1>5. Height' = Height /\ (DistinctWeights' <=> DistinctWeights)
  BY <1>1, SameHeight
<1>6. \A p \in Proc : Started(p) /\ Started(p)'
  BY <1>1, <1>2, <1>3 DEF Waiting, Started
<1>7. ASSUME DistinctWeights, NEW v \in Vertex
      PROVE  colors'[root][v] # 0 <=> Height[v] <= round[root] + 1
  <2> DEFINE w == weights[root]
             before == Rising(graph, w, v)
  <2>1. Counts(Height, graph, w, Vertex)
    BY <1>2, HeightCounts
  <2>2. /\ Height[v] \in Nat /\ round[root] \in Nat
        /\ Height[v] <= round[root] + 1 <=> \A k \in before : Height[k] <= round[root]
    BY <1>2, <2>1, HeightRises
  <2>3. \A k \in Vertex : colors[root][k] # 0 <=> Height[k] <= round[root]
    BY <1>6, <1>7 DEF OnTime, ColoredOnTime
  <2>4. graph[v] \in SUBSET Vertex /\ w \in [Vertex -> Nat]
    BY <1>2 DEF Coloring
  <2>5. v \in Maxima <=> colors[root][v] = 0 /\ \A k \in before : colors[root][k] # 0
    <3>1. PICK p \in Proc : \E j \in Local(p) : v = first_v(p) + j
      BY Owned
    <3>2. PICK j \in Local(p) : v = first_v(p) + j
      BY <3>1
    <3>3. IsMax(p, j) <=>
            /\ colors[root][v] = 0
            /\ \A k \in graph[v] : colors[root][k] = 0 =>
                 ~(w[k] > w[v] \/ (w[k] = w[v] /\ k > j))
      BY <1>3, <3>2, MaximaMeaning
    <3>4. \A k \in graph[v] : w[k] # w[v]
      BY <1>7 DEF DistinctWeights
    <3>5. v \in Maxima <=> IsMax(p, j)
      <4>1. ASSUME NEW q \in Proc, NEW i \in Local(q), v = first_v(q) + i
            PROVE  q = p /\ i = j
        <5>1. q = p
          BY <3>2, <4>1, Partition
        <5>2. first_v(p) \in Nat /\ i \in Nat /\ j \in Nat
          BY <4>1, <5>1, Partition
        <5> QED BY <3>2, <4>1, <5>1, <5>2
      <4> QED BY <3>2, <4>1 DEF Maxima
    <3> QED BY <2>4, <3>3, <3>4, <3>5 DEF Rising
  <2>6. v \in Maxima => colors'[root][v] # 0
    BY <1>4 DEF Promise!Paint, Promise!IsLeast
  <2>7. v \notin Maxima => colors'[root][v] = colors[root][v]
    BY <1>4 DEF Promise!Paint
  <2>8. \A k \in before : k \in Vertex
    BY <2>4 DEF Rising
  <2>9. colors'[root][v] # 0 <=> colors[root][v] # 0 \/ v \in Maxima
    BY <2>6, <2>7
  <2> HIDE DEF before, w
  <2> QED BY <2>2, <2>3, <2>5, <2>8, <2>9
<1>8. ASSUME DistinctWeights, NEW p \in Proc, NEW v \in Vertex
      PROVE  colors'[p][v] # 0 <=> Height[v] <= round'[p]
  <2>1. CASE p = root
    BY <1>1, <1>2, <1>7, <1>8, <2>1
  <2>2. CASE p # root
    BY <1>1, <1>2, <1>6, <1>8, <2>2 DEF OnTime, ColoredOnTime
  <2> QED BY <2>1, <2>2
<1>9. ColoredOnTime'
  BY <1>5, <1>8 DEF ColoredOnTime
<1> QED BY <1>6, <1>9 DEF OnTime, Unstarted

HeightFits == Counts(Height, graph, weights[root], Vertex)

\* Height fits the weights in every state.
LEMMA HeightKnown == Invariant => HeightFits
BY Input, HeightCounts DEF Invariant, TypeOK, HeightFits

\* Any other step colours nothing that was not coloured by then, and tells no
\* process more than what the root knows.
LEMMA NextOnTime == Invariant /\ Invariant' /\ OnTime /\ [Next]_vars => OnTime'
<1> SUFFICES ASSUME Invariant, Invariant', OnTime, [Next]_vars PROVE OnTime'
  OBVIOUS
<1> USE Input
<1>1. /\ pc \in [Proc -> Calls] /\ round \in [Proc -> Nat] /\ weights \in [Proc -> Coloring]
      /\ graph \in Graphs /\ weights[root] \in Coloring
  BY DEF Invariant, TypeOK
<1>2. CASE Gather
  BY <1>2, GatherOnTime
<1>3. CASE RootStart
  <2>1. /\ pc' = [pc EXCEPT ![root] = "round"] /\ pc[root] = "start"
        /\ UNCHANGED <<colors, round>>
    BY <1>3 DEF RootStart
  <2>2. \A p \in Proc : round'[p] = 0 /\ \A v \in Vertex : colors'[p][v] = 0
    BY <2>1 DEF Invariant, RootFirst, OnTime, Unstarted, Started
  <2>3. \A v \in Vertex : Height'[v] \in Nat \ {0}
    <3>1. HeightFits'
      BY HeightKnown, PTL
    <3>2. graph' \in Graphs /\ weights'[root] \in Coloring
      BY DEF Invariant, TypeOK
    <3> QED BY <3>1, <3>2, HeightRises DEF HeightFits
  <2> QED BY <2>2, <2>3 DEF OnTime, Unstarted, ColoredOnTime
<1>4. ASSUME NEW p \in Proc, Start(p)
      PROVE  OnTime'
  <2>1. /\ pc' = [pc EXCEPT ![p] = "round"] /\ pc[p] = "start"
        /\ UNCHANGED <<graph, colors, round>>
    BY <1>4 DEF Start
  <2>2. UNCHANGED weights[root]
    <3>1. p # root
      BY <1>4, <2>1 DEF Start, Invariant, RootFirst
    <3> QED BY <1>1, <1>4, <3>1 DEF Start
  <2>3. Height' = Height /\ (DistinctWeights' <=> DistinctWeights)
    BY <2>1, <2>2, SameHeight
  <2>4. round[p] = 0 /\ \A v \in Vertex : colors[p][v] = 0
    BY <2>1 DEF OnTime, Unstarted, Started
  <2>5. \A v \in Vertex : Height[v] \in Nat \ {0}
    BY <1>1, HeightCounts, HeightRises
  <2>6. \A q \in Proc \ {p} : Started(q)' <=> Started(q)
    BY <1>1, <2>1 DEF Started
  <2> QED BY <2>1, <2>3, <2>4, <2>5, <2>6 DEF OnTime, Unstarted, ColoredOnTime
<1>5. ASSUME NEW p \in Proc, Bcast(p)
      PROVE  OnTime'
  <2>1. PICK m \in msgs : m.type = "bcast" /\ m.to = p /\ colors' = [colors EXCEPT ![p] = m.colors]
    BY <1>5 DEF Bcast
  <2>2. /\ pc[p] = "bcast" /\ pc' = [pc EXCEPT ![p] = "round"]
        /\ round' = [round EXCEPT ![p] = @ + 1]
        /\ UNCHANGED <<graph, weights>>
    BY <1>5 DEF Bcast, setup
  <2>3. m.colors = colors[root] /\ round[root] = round[p] + 1
    BY <2>1 DEF Invariant, MessagesFit, Broadcast
  <2>4. Height' = Height /\ (DistinctWeights' <=> DistinctWeights)
    BY <2>2, SameHeight
  <2>5. /\ colors'[p] = colors[root] /\ round'[p] = round[root]
        /\ \A q \in Proc \ {p} : colors'[q] = colors[q] /\ round'[q] = round[q]
    BY <1>1, <2>1, <2>2, <2>3 DEF Invariant, TypeOK
  <2>6. /\ Started(root) /\ Started(p) /\ Started(p)'
        /\ \A q \in Proc \ {p} : Started(q)' <=> Started(q)
    BY <1>1, <2>2 DEF Started, Invariant, RootFirst
  <2> QED BY <2>4, <2>5, <2>6 DEF OnTime, Unstarted, ColoredOnTime
<1>6. ASSUME NEW p \in Proc, Color(p) \/ EndLoop(p) \/ Finish(p)
      PROVE  OnTime'
  <2>1. /\ UNCHANGED <<graph, weights, colors, round>>
        /\ \A q \in Proc : Started(q)' <=> Started(q)
    BY <1>1, <1>6 DEF Color, EndLoop, Finish, setup, Started
  <2>2. Height' = Height /\ (DistinctWeights' <=> DistinctWeights)
    BY <2>1, SameHeight
  <2> QED BY <2>1, <2>2 DEF OnTime, Unstarted, ColoredOnTime
<1>7. CASE UNCHANGED vars
  <2>1. UNCHANGED <<graph, weights, colors, round, pc>>
    BY <1>7 DEF vars, setup
  <2>2. Height' = Height /\ (DistinctWeights' <=> DistinctWeights)
    BY <2>1, SameHeight
  <2> QED BY <2>1, <2>2 DEF OnTime, Unstarted, ColoredOnTime, Started
<1> QED BY <1>2, <1>3, <1>4, <1>5, <1>6, <1>7 DEF Next, Over

\* If neighbours differ in weight, a vertex is coloured in the round that its
\* height in the order of weights tells, however the vertices are dealt out and
\* although ties compare a global index with a local one (graphcoloring.c:172-190).
THEOREM OnTheirTurn == Spec => []ColoredOnTime
<1>1. Init => OnTime
  BY DEF Init, OnTime, Unstarted, ColoredOnTime, Started
<1>2. OnTime => ColoredOnTime
  BY DEF OnTime
<1> QED BY <1>1, <1>2, NextOnTime, AlwaysInvariant, PTL DEF Spec

=============================================================================
