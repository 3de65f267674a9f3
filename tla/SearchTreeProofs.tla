--------------------------- MODULE SearchTreeProofs ---------------------------
(***************************************************************************)
(* Theorems about SearchTree, for every tree, every set of PEs and every   *)
(* timeout. Invariant is the inductive invariant; the properties the runs  *)
(* check follow from it.                                                   *)
(***************************************************************************)
EXTENDS SearchTree, FiniteSetTheorems, TLAPS

\* The variables begin with their types ...
LEMMA TypingBegins == Init => TypeOK
BY TreeAssumption, ValueAssumption, SMT
   DEF TreeAssumption, ValueAssumption, Init, TypeOK, Modes, Unprinted, GroupMessage

\* ... and every entry method keeps them.
LEMMA TypingStep == TypeOK /\ [Next]_vars => TypeOK'
<1> USE TreeAssumption, ValueAssumption DEF TreeAssumption, ValueAssumption
<1> SUFFICES ASSUME TypeOK, [Next]_vars PROVE TypeOK'
  OBVIOUS
<1> USE DEF TypeOK, Modes, GroupMessage
<1> DEFINE Msgs == [from : Node \ {Root}, res : BOOLEAN]
           Touched == /\ mode' \in [Node -> Modes]
                      /\ finishMsgs' \subseteq Msgs
                      /\ groupMsgs' \subseteq GroupMessage
                      /\ acceptRegistration' \in [PE -> BOOLEAN]
                      /\ verdict' \in {"none", "success", "failure"}
                      /\ phase' \in {"running", "exiting", "halted", "aborted"}
<1>1. ASSUME NEW n \in Node, NEW res \in BOOLEAN, NEW pending \in SUBSET finishMsgs,
             NEW falsified \in SUBSET GroupMessage, Answer(n, res, pending, falsified)
      PROVE  Touched
  <2>1. SendCountsToAll \subseteq GroupMessage
    BY DEF SendCountsToAll
  <2>2. CASE n = Root
    BY <1>1, <2>1, <2>2 DEF Answer, Closed
  <2>3. CASE n # Root
    BY <1>1, <2>3 DEF Answer
  <2> QED BY <2>2, <2>3
<1>2. ASSUME NEW n \in Node, Search(n)
      PROVE  /\ todo' \in [Node -> Nat]
             /\ Touched
             /\ UNCHANGED <<child_finished_, child_succeed_>>
  <2> PICK left \in 0..todo[n] :
         \/ /\ left > 0
            /\ timeout > 0 => left < todo[n]
            /\ todo' = [todo EXCEPT ![n] = left]
            /\ mode' = [mode EXCEPT ![n] = "rerun"]
            /\ UNCHANGED <<finishMsgs, verdict, phase, acceptRegistration, groupMsgs>>
            /\ UNCHANGED <<child_finished_, child_succeed_>>
         \/ /\ left = 0
            /\ n \notin Trips
            /\ todo' = [todo EXCEPT ![n] = 0]
            /\ Answer(n, LeafAnswer(n), finishMsgs, {})
            /\ UNCHANGED <<child_finished_, child_succeed_>>
         \/ /\ left = 0
            /\ n \in Trips
            /\ Abort
    BY <1>2 DEF Search
  <2>1. CASE left > 0
    <3>1. /\ todo' = [todo EXCEPT ![n] = left]
          /\ mode' = [mode EXCEPT ![n] = "rerun"]
          /\ UNCHANGED <<finishMsgs, verdict, phase, acceptRegistration, groupMsgs>>
          /\ UNCHANGED <<child_finished_, child_succeed_>>
      BY <2>1
    <3>2. left \in Nat
      OBVIOUS
    <3> QED BY <3>1, <3>2
  <2>2. CASE left = 0 /\ n \notin Trips
    <3>1. /\ LeafAnswer(n) \in BOOLEAN
          /\ finishMsgs \in SUBSET finishMsgs
          /\ {} \in SUBSET GroupMessage
      BY DEF LeafAnswer
    <3>2. Answer(n, LeafAnswer(n), finishMsgs, {})
      BY <2>2
    <3>3. Touched
      <4> HIDE DEF Touched
      <4> QED BY ONLY <1>1, <3>1, <3>2, n \in Node
    <3>4. todo' = [todo EXCEPT ![n] = 0] /\ UNCHANGED <<child_finished_, child_succeed_>>
      BY <2>2
    <3> QED BY <3>3, <3>4
  <2>3. CASE left = 0 /\ n \in Trips
    <3>1. Abort
      BY <2>3
    <3>2. /\ phase' = "aborted"
          /\ UNCHANGED <<mode, todo, child_finished_, child_succeed_, finishMsgs>>
          /\ UNCHANGED <<acceptRegistration, groupMsgs, verdict>>
      BY <3>1 DEF Abort, treeVars
    <3> QED BY <3>2
  <2> QED BY <2>1, <2>2, <2>3
<1>3. ASSUME NEW n \in Node, NEW p \in PE, Admit(n, p)
      PROVE  /\ nCharesOnMyPe' \in [PE -> Nat]
             /\ UNCHANGED <<andStateNodeInfo, printed, rootPE>>
  BY <1>3 DEF Admit
<1>4. ASSUME NEW n \in Node, NEW p \in PE, Construct(n, p) PROVE TypeOK'
  <2>1. CASE Refuse(n, p)
    BY <2>1 DEF Refuse, groupVars
  <2>2. CASE StartLeaf(n, p)
    <3>1. Admit(n, p) /\ Search(n)
      BY <2>2 DEF StartLeaf
    <3>2. nLeafCharesOnMyPe' \in [PE -> Nat]
      BY <2>2 DEF StartLeaf
    <3> QED BY <1>2, <1>3, <3>1, <3>2
  <2>3. CASE StartDead(n, p)
    <3>1. Answer(n, FALSE, finishMsgs, {})
      BY <2>3 DEF StartDead
    <3>2. Touched
      <4>1. /\ FALSE \in BOOLEAN
            /\ finishMsgs \in SUBSET finishMsgs
            /\ {} \in SUBSET GroupMessage
        OBVIOUS
      <4> HIDE DEF Touched
      <4> QED BY ONLY <1>1, <3>1, <4>1, n \in Node
    <3>3. Admit(n, p) /\ UNCHANGED <<todo, child_finished_, child_succeed_, nLeafCharesOnMyPe>>
      BY <2>3 DEF StartDead
    <3> QED BY <1>3, <3>2, <3>3
  <2>4. CASE StartInternal(n, p)
    BY <2>4, <1>3 DEF StartInternal
  <2>5. CASE TripInternal(n, p)
    BY <2>5, <1>3 DEF TripInternal, Abort, treeVars
  <2> QED BY <1>4, <2>1, <2>2, <2>3, <2>4, <2>5 DEF Construct
<1>5. ASSUME NEW n \in Node, Rerun(n) PROVE TypeOK'
  BY <1>5, <1>2 DEF Rerun
<1>6. ASSUME NEW m \in finishMsgs, Finish(m) PROVE TypeOK'
  <2> DEFINE n         == Parent[m.from]
             finished  == child_finished_[n] + 1
             succeed   == Succeeded(n, m.res)
             falsified == IF Failed(n, finished, succeed) THEN AndFailedToAll(n) ELSE {}
  <2>1. /\ n \in Node
        /\ finished \in Nat
        /\ succeed \in Nat
    <3>1. m.from \in Node \ {Root} /\ m.res \in BOOLEAN
      OBVIOUS
    <3>2. n \in Node
      BY <3>1
    <3>3. child_finished_[n] \in Nat /\ child_succeed_[n] \in Nat
      BY <3>2
    <3>4. succeed = child_succeed_[n] \/ succeed = child_succeed_[n] + 1
      BY DEF Succeeded
    <3>5. finished = child_finished_[n] + 1
      OBVIOUS
    <3> HIDE DEF n, finished, succeed
    <3> QED BY ONLY <3>2, <3>3, <3>4, <3>5
  <2>2. falsified \in SUBSET GroupMessage
    BY <2>1 DEF AndFailedToAll
  <2>3. Success(n, succeed) \in BOOLEAN
    BY DEF Success
  <2>4. /\ child_finished_' = [child_finished_ EXCEPT ![n] = finished]
        /\ child_succeed_' = [child_succeed_ EXCEPT ![n] = succeed]
        /\ \/ Answer(n, Success(n, succeed), finishMsgs \ {m}, falsified)
           \/ /\ finishMsgs' = finishMsgs \ {m}
              /\ groupMsgs' = groupMsgs \cup falsified
              /\ UNCHANGED <<mode, acceptRegistration, verdict, phase>>
        /\ UNCHANGED <<todo, andStateNodeInfo, nCharesOnMyPe, nLeafCharesOnMyPe>>
        /\ UNCHANGED <<printed, rootPE>>
    BY <1>6 DEF Finish
  <2> HIDE DEF n, finished, succeed, falsified
  <2>5. /\ child_finished_' \in [Node -> Nat]
        /\ child_succeed_' \in [Node -> Nat]
    BY <2>1, <2>4
  <2>6. CASE Answer(n, Success(n, succeed), finishMsgs \ {m}, falsified)
    <3>1. finishMsgs \ {m} \in SUBSET finishMsgs
      OBVIOUS
    <3>2. Touched
      <4> HIDE DEF Touched
      <4> QED BY ONLY <1>1, <2>1, <2>2, <2>3, <2>6, <3>1
    <3> QED BY <2>4, <2>5, <3>2
  <2>7. CASE /\ finishMsgs' = finishMsgs \ {m}
             /\ groupMsgs' = groupMsgs \cup falsified
             /\ UNCHANGED <<mode, acceptRegistration, verdict, phase>>
    BY <2>2, <2>4, <2>5, <2>7
  <2> QED BY <2>4, <2>6, <2>7
<1>7. ASSUME NEW m \in groupMsgs, SendCounts(m) PROVE TypeOK'
  BY <1>7 DEF SendCounts, treeVars, Closed
<1>8. ASSUME NEW m \in groupMsgs, AndFailed(m) PROVE TypeOK'
  BY <1>8 DEF AndFailed, treeVars
<1>9. CASE Halt
  BY <1>9 DEF Halt, treeVars, groupVars
<1>10. CASE UNCHANGED vars
  BY <1>10 DEF vars, treeVars, groupVars
<1> QED BY <1>4, <1>5, <1>6, <1>7, <1>8, <1>9, <1>10 DEF Next, Over

\* Every variable keeps to its type: in particular only chares other than the
\* root ever send a finish message (Node.cpp:748-764).
THEOREM Typing == Spec => []TypeOK
BY TypingBegins, TypingStep, PTL DEF Spec

-----------------------------------------------------------------------------
\* A chare exists only below one that has spawned its children.
Born ==
  \A k \in Node \ {Root} : mode[k] # "unborn" => mode[Parent[k]] \in {"wait", "done"}

\* Only AND and OR chares wait.
WaitersHaveKids == \A n \in Node : mode[n] = "wait" => Kind[n] \in {"and", "or"}

\* Who has an answer in flight is done.
SendersDone == \A m \in finishMsgs : mode[m.from] = "done"

\* The verdict is the answer of the root.
VerdictLast == verdict # "none" => mode[Root] = "done"

\* It is the value of the whole AND/OR tree.
VerdictRight ==
  /\ verdict = "success" => Value[Root]
  /\ verdict = "failure" => ~Value[Root]

\* The inductive invariant.
Invariant ==
  /\ Born
  /\ WaitersHaveKids
  /\ SendersDone
  /\ RepliesRight
  /\ AccountedFor
  /\ KillOnlyFalsified
  /\ VerdictLast
  /\ VerdictRight

\* A chare has finitely many children.
LEMMA KidsFinite ==
  ASSUME NEW n \in Node
  PROVE  IsFiniteSet(Kids(n)) /\ Cardinality(Kids(n)) \in Nat
<1>1. Kids(n) \in SUBSET Node
  BY DEF Kids
<1>2. IsFiniteSet(Kids(n))
  BY <1>1, TreeAssumption, FS_Subset DEF TreeAssumption
<1> QED BY <1>2, FS_CardinalityType

\* A step that merges no answer and changes no count keeps the counts right.
LEMMA SameCounts ==
  ASSUME AccountedFor,
         UNCHANGED <<child_finished_, child_succeed_>>,
         \A n \in Node : Merged(n)' = Merged(n)
  PROVE  AccountedFor'
<1> SUFFICES ASSUME NEW n \in Node
             PROVE  /\ child_finished_'[n] = Cardinality(Merged(n)')
                    /\ child_succeed_'[n] = Cardinality({k \in Merged(n)' : Value[k]})
  BY DEF AccountedFor
<1> QED BY DEF AccountedFor

\* An answer that has only just been sent is not merged yet.
LEMMA AnswerMeans ==
  ASSUME TypeOK, NEW n \in Node, mode[n] # "done", NEW res, Answer(n, res, finishMsgs, {})
  PROVE  /\ \A x \in Node : mode'[x] = IF x = n THEN "done" ELSE mode[x]
         /\ \A q \in Node : Merged(q)' = Merged(q)
<1> DEFINE mine == [from |-> n, res |-> res]
<1>1. \A x \in Node : mode'[x] = IF x = n THEN "done" ELSE mode[x]
  BY DEF TypeOK, Answer
<1>2. /\ mine.from = n
      /\ \/ n = Root /\ finishMsgs' = finishMsgs
         \/ n # Root /\ finishMsgs' = finishMsgs \cup {mine}
  BY DEF Answer
<1> HIDE DEF mine
<1>3. ASSUME NEW k \in Node \ {Root}
      PROVE  /\ mode'[k] = "done" /\ (\A m \in finishMsgs' : m.from # k)
                <=> mode[k] = "done" /\ (\A m \in finishMsgs : m.from # k)
  <2>1. CASE k = n
    <3>1. mode[k] # "done" /\ mine \in finishMsgs'
      BY <1>2, <2>1
    <3> QED BY <1>2, <2>1, <3>1
  <2>2. CASE k # n
    BY <1>1, <1>2, <2>2
  <2> QED BY <2>1, <2>2
<1>4. ASSUME NEW q \in Node PROVE Merged(q)' = Merged(q)
  <2>1. Kids(q) \subseteq Node \ {Root}
    BY DEF Kids
  <2> QED BY <1>3, <2>1 DEF Merged
<1> QED BY <1>1, <1>4

\* A chare that does not wait for children answers with its value.
LEMMA AnswerStep ==
  ASSUME TypeOK, Invariant,
         NEW n \in Node, mode[n] \in {"seed", "rerun"},
         Answer(n, Value[n], finishMsgs, {}),
         UNCHANGED <<child_finished_, child_succeed_, andStateNodeInfo>>
  PROVE  Invariant'
<1> USE TreeAssumption, ValueAssumption DEF TreeAssumption, ValueAssumption
<1>1. mode \in [Node -> Modes] /\ mode' = [mode EXCEPT ![n] = "done"]
  BY DEF TypeOK, Answer
<1>2. \A x \in Node : mode'[x] = IF x = n THEN "done" ELSE mode[x]
  BY <1>1
<1>3. finishMsgs \subseteq [from : Node \ {Root}, res : BOOLEAN]
  BY DEF TypeOK
<1> DEFINE mine == [from |-> n, res |-> Value[n]]
<1>4. /\ mine.from = n /\ mine.res = Value[n]
      /\ \/ n = Root /\ finishMsgs' = finishMsgs
         \/ n # Root /\ finishMsgs' = finishMsgs \cup {mine}
  BY DEF Answer
<1> HIDE DEF mine
<1>5. Born'
  BY <1>2 DEF Born, Invariant
<1>6. WaitersHaveKids'
  BY <1>2 DEF WaitersHaveKids, Invariant
<1>7. SendersDone' /\ RepliesRight'
  <2> SUFFICES ASSUME NEW m \in finishMsgs'
               PROVE  mode'[m.from] = "done" /\ m.res = Value[m.from]
    BY DEF SendersDone, RepliesRight
  <2>1. CASE m \in finishMsgs
    <3>1. m.from \in Node /\ mode[m.from] = "done" /\ m.res = Value[m.from]
      BY <1>3, <2>1 DEF SendersDone, RepliesRight, Invariant
    <3> QED BY <1>2, <3>1
  <2>2. CASE m = mine
    BY <1>2, <1>4, <2>2
  <2> QED BY <1>4, <2>1, <2>2
<1>8. AccountedFor'
  <2>1. \A q \in Node : Merged(q)' = Merged(q)
    BY AnswerMeans
  <2> QED BY <2>1, SameCounts DEF Invariant
<1>9. KillOnlyFalsified'
  <2>1. \A a \in Node : Falsified(a) => Falsified(a)'
    BY <1>2 DEF Falsified
  <2>2. groupMsgs' \subseteq groupMsgs \cup SendCountsToAll
    BY DEF Answer
  <2>3. \A m \in SendCountsToAll : m.type # "andFailed"
    BY DEF SendCountsToAll
  <2> QED BY <2>1, <2>2, <2>3 DEF KillOnlyFalsified, Invariant, TypeOK, GroupMessage
<1>10. VerdictLast' /\ VerdictRight'
  BY <1>2 DEF VerdictLast, VerdictRight, Answer, Invariant
<1> QED BY <1>5, <1>6, <1>7, <1>8, <1>9, <1>10 DEF Invariant

\* What a merged answer adds to the counts, and what the counts then decide.
LEMMA CountsDecide ==
  ASSUME NEW n \in Node, Kind[n] \in {"and", "or"},
         NEW S \in SUBSET Kids(n), NEW finished, NEW succeed,
         finished = Cardinality(S),
         succeed = Cardinality({k \in S : Value[k]}),
         Decided(n, finished, succeed)
  PROVE  Success(n, succeed) = Value[n]
<1> USE TreeAssumption, ValueAssumption DEF TreeAssumption, ValueAssumption
<1> DEFINE good == {k \in S : Value[k]}
<1>1. IsFiniteSet(Kids(n))
  BY KidsFinite
<1>2. IsFiniteSet(S) /\ (Cardinality(Kids(n)) = Cardinality(S) => Kids(n) = S)
  BY <1>1, FS_Subset
<1>3. /\ IsFiniteSet(good)
      /\ Cardinality(S) = Cardinality(good) => S = good
  <2>1. good \in SUBSET S
    OBVIOUS
  <2> QED BY <1>2, <2>1, FS_Subset
<1>4. Cardinality(Kids(n)) = Cardinality(good) => Kids(n) = good
  <2>1. good \in SUBSET Kids(n)
    OBVIOUS
  <2> QED BY <1>1, <2>1, FS_Subset
<1>5. Cardinality(good) = 0 <=> good = {}
  BY <1>3, FS_EmptySet
<1>6. Kids(n) \subseteq Node
  BY DEF Kids
<1>7. CASE Kind[n] = "and"
  <2>1. Value[n] = (\A k \in Kids(n) : Value[k])
    BY <1>7
  <2>2. CASE succeed = Cardinality(Kids(n))
    BY <1>4, <1>7, <2>1, <2>2 DEF Success
  <2>3. CASE succeed # Cardinality(Kids(n))
    <3>1. good # S
      BY <1>2, <1>7, <2>3 DEF Decided
    <3>2. ~Value[n]
      BY <2>1, <3>1
    <3> QED BY <1>7, <2>3, <3>2 DEF Success
  <2> QED BY <2>2, <2>3
<1>8. CASE Kind[n] = "or"
  <2>1. Value[n] = (\E k \in Kids(n) : Value[k])
    BY <1>8
  <2>2. CASE succeed # 0
    BY <1>5, <1>8, <2>1, <2>2 DEF Success
  <2>3. CASE succeed = 0
    <3>1. S = Kids(n) /\ good = {}
      BY <1>2, <1>5, <1>8, <2>3 DEF Decided
    <3>2. ~Value[n]
      BY <2>1, <3>1
    <3> QED BY <1>8, <2>3, <3>2 DEF Success
  <2> QED BY <2>2, <2>3
<1> QED BY <1>7, <1>8

\* What the counts say of the children that have answered.
LEMMA CountsTell ==
  ASSUME NEW n \in Node, Kind[n] \in {"and", "or"},
         NEW S \in SUBSET Kids(n), NEW finished, NEW succeed,
         finished = Cardinality(S),
         succeed = Cardinality({k \in S : Value[k]})
  PROVE  /\ Kind[n] = "and" /\ Decided(n, finished, succeed) /\ Value[n] =>
              S = Kids(n) /\ \A k \in S : Value[k]
         /\ Kind[n] = "and" /\ Decided(n, finished, succeed) /\ ~Value[n] => \E k \in S : ~Value[k]
         /\ Kind[n] = "or" /\ Decided(n, finished, succeed) /\ Value[n] => \E k \in S : Value[k]
         /\ Kind[n] = "or" /\ Decided(n, finished, succeed) /\ ~Value[n] =>
              S = Kids(n) /\ \A k \in S : ~Value[k]
         /\ Kind[n] = "or" /\ ~Decided(n, finished, succeed) => \A k \in S : ~Value[k]
<1> USE TreeAssumption, ValueAssumption DEF TreeAssumption, ValueAssumption
<1> DEFINE good == {k \in S : Value[k]}
<1>1. IsFiniteSet(Kids(n)) /\ Kids(n) \subseteq Node
  BY KidsFinite DEF Kids
<1>2. IsFiniteSet(S) /\ (Cardinality(S) = Cardinality(Kids(n)) => S = Kids(n))
  BY <1>1, FS_Subset
<1>3. IsFiniteSet(good) /\ (Cardinality(good) = Cardinality(S) => good = S)
  <2>1. good \in SUBSET S
    OBVIOUS
  <2> QED BY <1>2, <2>1, FS_Subset
<1>4. succeed = 0 <=> good = {}
  BY <1>3, FS_EmptySet
<1>5. CASE Kind[n] = "and"
  BY <1>1, <1>2, <1>3, <1>5 DEF Decided
<1>6. CASE Kind[n] = "or"
  BY <1>1, <1>2, <1>4, <1>6 DEF Decided
<1> QED BY <1>5, <1>6

\* What the counts will be when an answer in flight is merged: those of the
\* children that have answered, with the sender of m.
LEMMA AnswerCounts ==
  ASSUME TypeOK, Invariant, NEW m \in finishMsgs, mode[Parent[m.from]] = "wait"
  PROVE  LET n        == Parent[m.from]
             finished == child_finished_[n] + 1
             succeed  == Succeeded(n, m.res)
             S        == Merged(n) \cup {m.from}
         IN /\ m.from \in Node \ {Root} /\ m.res = Value[m.from] /\ mode[m.from] = "done"
            /\ n \in Node /\ m.from \in Kids(n) /\ n # m.from
            /\ Kind[n] \in {"and", "or"}
            /\ m.from \notin Merged(n) /\ S \in SUBSET Kids(n)
            /\ finished = Cardinality(S) /\ succeed = Cardinality({k \in S : Value[k]})
<1> USE TreeAssumption, ValueAssumption DEF TreeAssumption, ValueAssumption
<1> DEFINE n         == Parent[m.from]
           finished  == child_finished_[n] + 1
           succeed   == Succeeded(n, m.res)
           S         == Merged(n) \cup {m.from}
<1>1. /\ finishMsgs \subseteq [from : Node \ {Root}, res : BOOLEAN]
      /\ mode \in [Node -> Modes]
      /\ child_finished_ \in [Node -> Nat] /\ child_succeed_ \in [Node -> Nat]
  BY DEF TypeOK
<1>2. /\ m.from \in Node \ {Root} /\ m.res = Value[m.from] /\ mode[m.from] = "done"
      /\ n \in Node /\ m.from \in Kids(n)
  BY <1>1 DEF Invariant, SendersDone, RepliesRight, Kids
<1>3. Kind[n] \in {"and", "or"} /\ n # m.from
  BY <1>2 DEF Invariant, WaitersHaveKids
<1>4. m.from \notin Merged(n)
  BY DEF Merged
<1>5. /\ finished = Cardinality(S)
      /\ succeed = Cardinality({k \in S : Value[k]})
      /\ S \in SUBSET Kids(n)
  <2>2. /\ IsFiniteSet(Merged(n)) /\ IsFiniteSet({k \in Merged(n) : Value[k]})
        /\ S \in SUBSET Kids(n)
    <3>1. Merged(n) \in SUBSET Kids(n)
      BY DEF Merged
    <3>2. {k \in Merged(n) : Value[k]} \in SUBSET Merged(n)
      OBVIOUS
    <3>3. IsFiniteSet(Merged(n))
      BY <1>2, <3>1, KidsFinite, FS_Subset
    <3> QED BY <1>2, <3>1, <3>2, <3>3, FS_Subset
  <2>3. /\ child_finished_[n] = Cardinality(Merged(n))
        /\ child_succeed_[n] = Cardinality({k \in Merged(n) : Value[k]})
    BY <1>2 DEF Invariant, AccountedFor
  <2>4. finished = Cardinality(S)
    <3>1. Cardinality(S) = Cardinality(Merged(n)) + 1
      BY <1>4, <2>2, FS_AddElement
    <3> QED BY <2>3, <3>1
  <2>5. succeed = Cardinality({k \in S : Value[k]})
    <3>1. CASE m.res
      <4>1. {k \in S : Value[k]} = {k \in Merged(n) : Value[k]} \cup {m.from}
        BY <1>2, <3>1
      <4>2. m.from \notin {k \in Merged(n) : Value[k]}
        BY <1>4
      <4>3. succeed = child_succeed_[n] + 1
        BY <3>1 DEF Succeeded
      <4> QED BY <2>2, <2>3, <4>1, <4>2, <4>3, FS_AddElement
    <3>2. CASE ~m.res
      <4>1. {k \in S : Value[k]} = {k \in Merged(n) : Value[k]}
        BY <1>2, <3>2
      <4>2. child_succeed_[n] \in Nat
        BY <1>1, <1>2
      <4>3. succeed = child_succeed_[n] + 0
        BY <3>2 DEF Succeeded
      <4>4. succeed = child_succeed_[n]
        BY <4>2, <4>3
      <4> QED BY <2>3, <4>1, <4>4
    <3> QED BY <3>1, <3>2
  <2> QED BY <2>2, <2>4, <2>5
<1> HIDE DEF S, finished, succeed
<1> QED BY <1>2, <1>3, <1>4, <1>5 DEF n, S, finished, succeed

\* ... and what they then say of the parent.
LEMMA AnswerTells ==
  ASSUME TypeOK, Invariant, NEW m \in finishMsgs, mode[Parent[m.from]] = "wait"
  PROVE  LET n       == Parent[m.from]
             succeed == Succeeded(n, m.res)
             S       == Merged(n) \cup {m.from}
             decided == Decided(n, child_finished_[n] + 1, succeed)
         IN /\ Kind[n] = "and" /\ decided /\ Value[n] => S = Kids(n) /\ \A k \in S : Value[k]
            /\ Kind[n] = "and" /\ decided /\ ~Value[n] => \E k \in S : ~Value[k]
            /\ Kind[n] = "or" /\ decided /\ Value[n] => \E k \in S : Value[k]
            /\ Kind[n] = "or" /\ decided /\ ~Value[n] => S = Kids(n) /\ \A k \in S : ~Value[k]
            /\ Kind[n] = "or" /\ ~decided => \A k \in S : ~Value[k]
            /\ decided => (Success(n, succeed) <=> Value[n])
<1> DEFINE n        == Parent[m.from]
           finished == child_finished_[n] + 1
           succeed  == Succeeded(n, m.res)
           S        == Merged(n) \cup {m.from}
<1>1. /\ n \in Node /\ Kind[n] \in {"and", "or"} /\ S \in SUBSET Kids(n)
      /\ finished = Cardinality(S) /\ succeed = Cardinality({k \in S : Value[k]})
  BY AnswerCounts
<1> HIDE DEF n, finished, succeed, S
<1>2. Decided(n, finished, succeed) => (Success(n, succeed) <=> Value[n])
  BY <1>1, CountsDecide
<1> QED BY <1>1, <1>2, CountsTell DEF n, finished, succeed, S

\* What mergeToParent does with an answer.
LEMMA FinishMeans ==
  ASSUME TypeOK, Invariant, NEW m \in finishMsgs, Finish(m)
  PROVE  LET n       == Parent[m.from]
             decided == Decided(n, child_finished_[n] + 1, Succeeded(n, m.res))
         IN /\ mode[n] = "wait"
            /\ \A x \in Node : mode'[x] = IF x = n /\ decided THEN "done" ELSE mode[x]
            /\ \A q \in Node : Merged(q)' = IF q = n THEN Merged(n) \cup {m.from} ELSE Merged(q)
<1> USE TreeAssumption, ValueAssumption DEF TreeAssumption, ValueAssumption
<1> DEFINE n         == Parent[m.from]
           finished  == child_finished_[n] + 1
           succeed   == Succeeded(n, m.res)
           rest      == finishMsgs \ {m}
           falsified == IF Failed(n, finished, succeed) THEN AndFailedToAll(n) ELSE {}
           mine      == [from |-> n, res |-> Success(n, succeed)]
           decided   == Decided(n, finished, succeed)
           S         == Merged(n) \cup {m.from}
<1>1. /\ finishMsgs \subseteq [from : Node \ {Root}, res : BOOLEAN]
      /\ mode \in [Node -> Modes]
  BY DEF TypeOK
<1>2. mode[n] = "wait"
  BY DEF Finish
<1>3. /\ m.from \in Node \ {Root} /\ m.res = Value[m.from] /\ mode[m.from] = "done"
      /\ n \in Node /\ m.from \in Kids(n) /\ n # m.from
  BY <1>2, AnswerCounts
<1>4. \A o \in finishMsgs : o.from = m.from => o = m
  <2> SUFFICES ASSUME NEW o \in finishMsgs, o.from = m.from PROVE o = m
    OBVIOUS
  <2>1. o.res = m.res
    BY <1>3 DEF Invariant, RepliesRight
  <2>2. /\ o \in [from : Node \ {Root}, res : BOOLEAN]
        /\ m \in [from : Node \ {Root}, res : BOOLEAN]
    BY <1>1
  <2>3. o = [from |-> o.from, res |-> o.res] /\ m = [from |-> m.from, res |-> m.res]
    BY <2>2
  <2> QED BY <2>1, <2>3
<1>5. \/ decided /\ Answer(n, Success(n, succeed), rest, falsified)
      \/ ~decided /\ finishMsgs' = rest /\ UNCHANGED mode
  BY DEF Finish
<1>6. mine.from = n
  OBVIOUS
<1>7. /\ \A x \in Node : mode'[x] = IF x = n /\ decided THEN "done" ELSE mode[x]
      /\ finishMsgs' = IF decided /\ n # Root THEN rest \cup {mine} ELSE rest
  <2>1. CASE decided
    BY <1>1, <1>5, <2>1 DEF Answer
  <2>2. CASE ~decided
    BY <1>1, <1>5, <2>2
  <2> QED BY <2>1, <2>2
<1> HIDE DEF finished, succeed, falsified, mine, decided
<1>8. ASSUME NEW k \in Node \ {Root}
      PROVE  mode'[k] = "done" /\ (\A o \in finishMsgs' : o.from # k)
               <=> \/ mode[k] = "done" /\ (\A o \in finishMsgs : o.from # k)
                   \/ k = m.from
  <2>1. CASE k = m.from
    <3>1. mode'[k] = "done"
      BY <1>3, <1>7, <2>1
    <3>2. \A o \in finishMsgs' : o.from # k
      BY <1>3, <1>4, <1>6, <1>7, <2>1
    <3> QED BY <2>1, <3>1, <3>2
  <2>2. CASE k = n
    <3>1. mode[k] # "done" /\ k # m.from
      BY <1>2, <1>3, <2>2
    <3>2. decided => mine \in finishMsgs' /\ mine.from = k
      BY <1>6, <1>7, <2>2
    <3>3. ~decided => mode'[k] # "done"
      BY <1>2, <1>3, <1>7, <2>2
    <3> QED BY <3>1, <3>2, <3>3
  <2>3. CASE k # n /\ k # m.from
    BY <1>6, <1>7, <2>3
  <2> QED BY <2>1, <2>2, <2>3
<1>9. \A q \in Node : Kids(q) \subseteq Node \ {Root}
  BY DEF Kids
<1>10. \A q \in Node : Merged(q)' = IF q = n THEN S ELSE Merged(q)
  BY <1>3, <1>8, <1>9 DEF Merged, Kids
<1> QED BY <1>2, <1>7, <1>10 DEF n, finished, succeed, decided

\* mergeToParent, on any answer in flight.
LEMMA FinishStep ==
  ASSUME TypeOK, Invariant, NEW m \in finishMsgs, Finish(m)
  PROVE  Invariant'
<1> USE TreeAssumption, ValueAssumption DEF TreeAssumption, ValueAssumption
<1> DEFINE n         == Parent[m.from]
           finished  == child_finished_[n] + 1
           succeed   == Succeeded(n, m.res)
           rest      == finishMsgs \ {m}
           falsified == IF Failed(n, finished, succeed) THEN AndFailedToAll(n) ELSE {}
           mine      == [from |-> n, res |-> Success(n, succeed)]
           decided   == Decided(n, finished, succeed)
           S         == Merged(n) \cup {m.from}
<1>1. /\ finishMsgs \subseteq [from : Node \ {Root}, res : BOOLEAN]
      /\ mode \in [Node -> Modes]
      /\ child_finished_ \in [Node -> Nat] /\ child_succeed_ \in [Node -> Nat]
  BY DEF TypeOK
<1>2. mode[n] = "wait"
  BY DEF Finish
<1>3. /\ m.from \in Node \ {Root} /\ m.res = Value[m.from] /\ mode[m.from] = "done"
      /\ n \in Node /\ n # m.from
      /\ Kind[n] \in {"and", "or"}
      /\ finished = Cardinality(S) /\ succeed = Cardinality({k \in S : Value[k]})
      /\ S \in SUBSET Kids(n)
  BY <1>2, AnswerCounts
<1>4. \A q \in Node : Merged(q)' = IF q = n THEN S ELSE Merged(q)
  BY FinishMeans
<1>5. /\ child_finished_' = [child_finished_ EXCEPT ![n] = finished]
      /\ child_succeed_' = [child_succeed_ EXCEPT ![n] = succeed]
      /\ UNCHANGED andStateNodeInfo
      /\ \/ decided /\ Answer(n, Success(n, succeed), rest, falsified)
         \/ /\ ~decided
            /\ finishMsgs' = rest
            /\ groupMsgs' = groupMsgs \cup falsified
            /\ UNCHANGED <<mode, verdict>>
  BY DEF Finish
<1>6. decided => Success(n, succeed) = Value[n]
  BY <1>3, CountsDecide
<1>7. falsified # {} => decided /\ Kind[n] = "and" /\ ~Value[n]
  BY <1>6 DEF Failed
<1>8. \A a \in falsified : a.type = "andFailed" /\ a.chare = n
  BY DEF AndFailedToAll
<1>9. mine.from = n /\ mine.res = Success(n, succeed)
  OBVIOUS
<1>10. /\ \A x \in Node : mode'[x] = IF x = n /\ decided THEN "done" ELSE mode[x]
       /\ finishMsgs' = IF decided /\ n # Root THEN rest \cup {mine} ELSE rest
       /\ groupMsgs' \subseteq groupMsgs \cup falsified \cup SendCountsToAll
       /\ IF decided /\ n = Root
          THEN verdict' = IF Success(n, succeed) THEN "success" ELSE "failure"
          ELSE UNCHANGED verdict
  <2>1. CASE decided
    BY <1>1, <1>5, <2>1 DEF Answer
  <2>2. CASE ~decided
    BY <1>1, <1>5, <2>2
  <2> QED BY <2>1, <2>2
<1> HIDE DEF finished, succeed, falsified, mine, decided
<1>11. Born'
  BY <1>2, <1>10 DEF Born, Invariant
<1>12. WaitersHaveKids'
  BY <1>10 DEF WaitersHaveKids, Invariant
<1>13. SendersDone' /\ RepliesRight'
  <2> SUFFICES ASSUME NEW o \in finishMsgs'
               PROVE  mode'[o.from] = "done" /\ o.res = Value[o.from]
    BY DEF SendersDone, RepliesRight
  <2>1. CASE o \in finishMsgs
    <3>1. o.from \in Node /\ mode[o.from] = "done" /\ o.res = Value[o.from]
      BY <1>1, <2>1 DEF SendersDone, RepliesRight, Invariant
    <3> QED BY <1>10, <3>1
  <2>2. CASE o = mine /\ decided
    BY <1>3, <1>6, <1>9, <1>10, <2>2
  <2> QED BY <1>10, <2>1, <2>2
<1>14. AccountedFor'
  <2> SUFFICES ASSUME NEW q \in Node
               PROVE  /\ child_finished_'[q] = Cardinality(Merged(q)')
                      /\ child_succeed_'[q] = Cardinality({k \in Merged(q)' : Value[k]})
    BY DEF AccountedFor
  <2>1. CASE q = n
    BY <1>1, <1>3, <1>4, <1>5, <2>1
  <2>2. CASE q # n
    BY <1>1, <1>4, <1>5, <2>2 DEF Invariant, AccountedFor
  <2> QED BY <2>1, <2>2
<1>15. KillOnlyFalsified'
  <2>1. \A a \in Node : Falsified(a) => Falsified(a)'
    BY <1>10 DEF Falsified
  <2>2. falsified # {} => Falsified(n)'
    BY <1>3, <1>7, <1>10 DEF Falsified
  <2>3. \A o \in SendCountsToAll : o.type # "andFailed"
    BY DEF SendCountsToAll
  <2>4. \A p \in PE : \A a \in andStateNodeInfo'[p] : Falsified(a)'
    BY <1>5, <2>1 DEF KillOnlyFalsified, Invariant, TypeOK
  <2>5. \A o \in groupMsgs : o.type = "andFailed" => o.chare \in Node
    BY DEF TypeOK, GroupMessage
  <2>6. ASSUME NEW o \in groupMsgs', o.type = "andFailed" PROVE Falsified(o.chare)'
    <3>1. CASE o \in groupMsgs
      BY <2>1, <2>5, <2>6, <3>1 DEF KillOnlyFalsified, Invariant
    <3>2. CASE o \in falsified
      BY <1>8, <2>2, <3>2
    <3> QED BY <1>10, <2>3, <2>6, <3>1, <3>2
  <2> QED BY <2>4, <2>6 DEF KillOnlyFalsified
<1>16. VerdictLast' /\ VerdictRight'
  BY <1>3, <1>6, <1>10 DEF VerdictLast, VerdictRight, Invariant
<1> QED BY <1>11, <1>12, <1>13, <1>14, <1>15, <1>16 DEF Invariant

\* A step in which nobody answers and no answer is merged.
LEMMA QuietStep ==
  ASSUME TypeOK, Invariant, Born', WaitersHaveKids',
         UNCHANGED <<child_finished_, child_succeed_, finishMsgs, verdict>>,
         \A k \in Node : mode'[k] = "done" <=> mode[k] = "done",
         \A p \in PE : \A a \in andStateNodeInfo'[p] :
            \/ a \in andStateNodeInfo[p]
            \/ \E m \in groupMsgs : m.type = "andFailed" /\ m.chare = a,
         groupMsgs' \subseteq groupMsgs
  PROVE  Invariant'
<1> USE TreeAssumption DEF TreeAssumption
<1>1. finishMsgs \subseteq [from : Node \ {Root}, res : BOOLEAN]
  BY DEF TypeOK
<1>2. SendersDone' /\ RepliesRight'
  BY <1>1 DEF SendersDone, RepliesRight, Invariant
<1>3. AccountedFor'
  <2>1. ASSUME NEW q \in Node PROVE Merged(q)' = Merged(q)
    <3>1. Kids(q) \subseteq Node
      BY DEF Kids
    <3> QED BY <3>1 DEF Merged
  <2> QED BY <2>1, SameCounts DEF Invariant
<1>4. KillOnlyFalsified'
  <2>1. \A a \in Node : Falsified(a) => Falsified(a)'
    BY DEF Falsified
  <2>2. \A m \in groupMsgs : m.type = "andFailed" => m.chare \in Node
    BY DEF TypeOK, GroupMessage
  <2>3. \A p \in PE : andStateNodeInfo[p] \subseteq Node
    BY DEF TypeOK
  <2>4. /\ \A p \in PE : \A a \in andStateNodeInfo[p] : Falsified(a)'
        /\ \A m \in groupMsgs : m.type = "andFailed" => Falsified(m.chare)'
    <3>1. /\ \A p \in PE : \A a \in andStateNodeInfo[p] : Falsified(a)
          /\ \A m \in groupMsgs : m.type = "andFailed" => Falsified(m.chare)
      BY DEF KillOnlyFalsified, Invariant
    <3> QED BY <2>1, <2>2, <2>3, <3>1 DEF Falsified
  <2>5. ASSUME NEW p \in PE, NEW a \in andStateNodeInfo'[p] PROVE Falsified(a)'
    <3>1. CASE a \in andStateNodeInfo[p]
      BY <2>4, <3>1
    <3>2. CASE \E m \in groupMsgs : m.type = "andFailed" /\ m.chare = a
      <4> PICK m \in groupMsgs : m.type = "andFailed" /\ m.chare = a
        BY <3>2
      <4>1. Falsified(m.chare)'
        BY <2>4
      <4> QED BY <4>1 DEF Falsified
    <3> QED BY <2>5, <3>1, <3>2
  <2>6. \A m \in groupMsgs' : m.type = "andFailed" => Falsified(m.chare)'
    BY <2>4 DEF Falsified
  <2> QED BY <2>5, <2>6 DEF KillOnlyFalsified
<1>5. VerdictLast' /\ VerdictRight'
  BY DEF VerdictLast, VerdictRight, Invariant
<1> QED BY <1>2, <1>3, <1>4, <1>5 DEF Invariant

\* The search of a leaf, at its start and after each timeout.
LEMMA SearchStep ==
  ASSUME TypeOK, Invariant, NEW n \in Node, mode[n] \in {"seed", "rerun"},
         Search(n), UNCHANGED andStateNodeInfo
  PROVE  Invariant'
<1> USE TreeAssumption, ValueAssumption DEF TreeAssumption, ValueAssumption
<1>1. mode \in [Node -> Modes]
  BY DEF TypeOK
<1>2. CASE /\ mode' = [mode EXCEPT ![n] = "rerun"]
           /\ UNCHANGED <<finishMsgs, verdict, groupMsgs>>
           /\ UNCHANGED <<child_finished_, child_succeed_>>
  <2>1. \A k \in Node : mode'[k] = IF k = n THEN "rerun" ELSE mode[k]
    BY <1>1, <1>2
  <2>2. Born' /\ WaitersHaveKids'
    BY <2>1 DEF Born, WaitersHaveKids, Invariant
  <2>3. \A k \in Node : mode'[k] = "done" <=> mode[k] = "done"
    BY <2>1
  <2> QED BY <1>2, <2>2, <2>3, QuietStep
<1>3. CASE /\ Answer(n, LeafAnswer(n), finishMsgs, {})
           /\ UNCHANGED <<child_finished_, child_succeed_>>
  BY <1>3, AnswerStep DEF LeafAnswer
<1>4. CASE Abort
  <2>1. UNCHANGED <<mode, child_finished_, child_succeed_, finishMsgs, verdict, groupMsgs>>
    BY <1>4 DEF Abort, treeVars
  <2>2. Born' /\ WaitersHaveKids'
    BY <2>1 DEF Born, WaitersHaveKids, Invariant
  <2> QED BY <2>1, <2>2, QuietStep
<1> QED BY <1>2, <1>3, <1>4 DEF Search

\* The construction of a chare, up to the end of run().
LEMMA ConstructStep ==
  ASSUME TypeOK, Invariant, NEW n \in Node, NEW p \in PE, Construct(n, p)
  PROVE  Invariant'
<1> USE TreeAssumption, ValueAssumption DEF TreeAssumption, ValueAssumption
<1>1. mode \in [Node -> Modes]
  BY DEF TypeOK
<1>2. CASE Refuse(n, p)
  <2>1. /\ mode[n] = "seed" /\ mode' = [mode EXCEPT ![n] = "denied"]
        /\ UNCHANGED <<child_finished_, child_succeed_, finishMsgs, verdict>>
        /\ UNCHANGED <<andStateNodeInfo, groupMsgs>>
    BY <1>2 DEF Refuse, groupVars
  <2>2. \A k \in Node : mode'[k] = IF k = n THEN "denied" ELSE mode[k]
    BY <1>1, <2>1
  <2>3. Born' /\ WaitersHaveKids'
    BY <2>1, <2>2 DEF Born, WaitersHaveKids, Invariant
  <2>4. \A k \in Node : mode'[k] = "done" <=> mode[k] = "done"
    BY <2>1, <2>2
  <2> QED BY <2>1, <2>3, <2>4, QuietStep
<1>3. CASE StartLeaf(n, p)
  BY <1>3, SearchStep DEF StartLeaf, Admit
<1>4. CASE StartDead(n, p)
  <2>1. Answer(n, Value[n], finishMsgs, {})
    <3>1. Value[n] = FALSE
      BY <1>4 DEF StartDead
    <3> QED BY <1>4, <3>1 DEF StartDead
  <2>2. /\ mode[n] = "seed"
        /\ UNCHANGED <<child_finished_, child_succeed_, andStateNodeInfo>>
    BY <1>4 DEF StartDead, Admit
  <2> QED BY <2>1, <2>2, AnswerStep
<1>5. CASE StartInternal(n, p)
  <2>1. /\ mode[n] = "seed" /\ Kind[n] \in {"and", "or"}
        /\ UNCHANGED <<child_finished_, child_succeed_, finishMsgs, verdict>>
        /\ UNCHANGED <<andStateNodeInfo, groupMsgs>>
    BY <1>5 DEF StartInternal, Admit
  <2>2. \A k \in Node : mode'[k] = IF k = n THEN "wait"
                                   ELSE IF k \in Kids(n) THEN "seed" ELSE mode[k]
    BY <1>5 DEF StartInternal
  <2>3. \A k \in Kids(n) : k \in Node \ {Root} /\ Parent[k] = n /\ mode[k] = "unborn"
    BY <1>1, <2>1 DEF Born, Invariant, Kids
  <2>4. Born'
    <3> SUFFICES ASSUME NEW k \in Node \ {Root}, mode'[k] # "unborn"
                 PROVE  mode'[Parent[k]] \in {"wait", "done"}
      BY DEF Born
    <3>1. CASE k \in Kids(n)
      BY <2>2, <2>3, <3>1
    <3>2. CASE k \notin Kids(n)
      <4>1. Parent[k] \in Node /\ mode[Parent[k]] \in {"wait", "done"}
        BY <2>1, <2>2, <3>2 DEF Born, Invariant
      <4>2. Parent[k] \notin Kids(n)
        BY <2>3, <4>1
      <4> QED BY <2>2, <4>1, <4>2
    <3> QED BY <3>1, <3>2
  <2>5. WaitersHaveKids'
    BY <2>1, <2>2 DEF WaitersHaveKids, Invariant
  <2>6. \A k \in Node : mode'[k] = "done" <=> mode[k] = "done"
    BY <2>1, <2>2, <2>3
  <2> QED BY <2>1, <2>4, <2>5, <2>6, QuietStep
<1>6. CASE TripInternal(n, p)
  <2>1. UNCHANGED <<mode, child_finished_, child_succeed_, finishMsgs, verdict, groupMsgs,
                    andStateNodeInfo>>
    BY <1>6 DEF TripInternal, Admit, Abort, treeVars
  <2>2. Born' /\ WaitersHaveKids'
    BY <2>1 DEF Born, WaitersHaveKids, Invariant
  <2> QED BY <2>1, <2>2, QuietStep
<1> QED BY <1>2, <1>3, <1>4, <1>5, <1>6 DEF Construct

\* What the construction of n or the next turn of its search can lead to: nobody
\* else gets further than being created, and no answer is merged.
LEMMA WorkMeans ==
  ASSUME TypeOK, Invariant, NEW n \in Node, mode[n] = "rerun" => Kind[n] = "leaf",
         Rerun(n) \/ \E p \in PE : Construct(n, p)
  PROVE  /\ mode[n] \in {"seed", "rerun"}
         /\ \A q \in Node \ {n} : mode'[q] = mode[q] \/ (mode[q] = "unborn" /\ mode'[q] = "seed")
         /\ \A q \in Node : Merged(q)' = Merged(q)
         /\ \/ mode'[n] \in {"seed", "denied"}
            \/ mode'[n] = "rerun" /\ Kind[n] = "leaf"
            \/ mode'[n] = "done" /\ (Kind[n] = "dead" \/ (Kind[n] = "leaf" /\ n \notin Trips))
            \/ mode'[n] = "wait" /\ Kind[n] \in {"and", "or"} /\ n \notin Trips /\ Merged(n) = {}
<1> USE TreeAssumption DEF TreeAssumption
<1>1. mode \in [Node -> Modes]
  BY DEF TypeOK
<1>2. \A q \in Node : Kids(q) \subseteq Node \ {Root}
  BY DEF Kids
<1>3. ASSUME UNCHANGED finishMsgs, \A q \in Node : mode'[q] = "done" <=> mode[q] = "done"
      PROVE  \A q \in Node : Merged(q)' = Merged(q)
  BY <1>2, <1>3 DEF Merged
<1> DEFINE Worked ==
             /\ \A q \in Node \ {n} : mode'[q] = mode[q] \/ (mode[q] = "unborn" /\ mode'[q] = "seed")
             /\ \A q \in Node : Merged(q)' = Merged(q)
             /\ \/ mode'[n] \in {"seed", "denied"}
                \/ mode'[n] = "rerun" /\ Kind[n] = "leaf"
                \/ mode'[n] = "done" /\ (Kind[n] = "dead" \/ (Kind[n] = "leaf" /\ n \notin Trips))
                \/ mode'[n] = "wait" /\ Kind[n] \in {"and", "or"} /\ n \notin Trips /\ Merged(n) = {}
<1>4. ASSUME mode[n] \in {"seed", "rerun"}, NEW res, Answer(n, res, finishMsgs, {}),
             Kind[n] = "dead" \/ (Kind[n] = "leaf" /\ n \notin Trips)
      PROVE  Worked
  BY <1>4, AnswerMeans
<1>5. ASSUME mode[n] \in {"seed", "rerun"}, mode[n] = "rerun" => Kind[n] = "leaf", Abort
      PROVE  Worked
  <2>1. UNCHANGED <<mode, finishMsgs>>
    BY <1>5 DEF Abort, treeVars
  <2> QED BY <1>3, <1>5, <2>1
<1>6. ASSUME mode[n] \in {"seed", "rerun"}, Kind[n] = "leaf", Search(n)
      PROVE  Worked
  <2>1. CASE mode' = [mode EXCEPT ![n] = "rerun"] /\ UNCHANGED finishMsgs
    BY <1>1, <1>3, <1>6, <2>1
  <2>2. CASE n \notin Trips /\ Answer(n, LeafAnswer(n), finishMsgs, {})
    BY <1>4, <1>6, <2>2
  <2>3. CASE Abort
    BY <1>5, <1>6, <2>3
  <2> QED BY <1>6, <2>1, <2>2, <2>3 DEF Search
<1>7. ASSUME Rerun(n)
      PROVE  mode[n] \in {"seed", "rerun"} /\ Worked
  BY <1>6, <1>7 DEF Rerun
<1>8. ASSUME NEW p \in PE, Construct(n, p)
      PROVE  mode[n] \in {"seed", "rerun"} /\ Worked
  <2>1. mode[n] = "seed"
    BY <1>8 DEF Construct, Refuse, StartLeaf, StartDead, StartInternal, TripInternal, Admit
  <2>2. CASE Refuse(n, p)
    <3>1. mode' = [mode EXCEPT ![n] = "denied"] /\ UNCHANGED finishMsgs
      BY <2>2 DEF Refuse
    <3> QED BY <1>1, <1>3, <2>1, <3>1
  <2>3. CASE StartLeaf(n, p)
    BY <1>6, <2>1, <2>3 DEF StartLeaf
  <2>4. CASE StartDead(n, p)
    BY <1>4, <2>1, <2>4 DEF StartDead
  <2>5. CASE StartInternal(n, p)
    <3>1. /\ Kind[n] \in {"and", "or"} /\ n \notin Trips /\ UNCHANGED finishMsgs
          /\ \A q \in Node : mode'[q] = IF q = n THEN "wait"
                                        ELSE IF q \in Kids(n) THEN "seed" ELSE mode[q]
      BY <2>5 DEF StartInternal
    <3>2. \A k \in Kids(n) : mode[k] = "unborn"
      BY <1>1, <2>1 DEF Invariant, Born, Kids
    <3>3. Merged(n) = {}
      BY <3>2 DEF Merged
    <3>4. \A q \in Node : mode'[q] = "done" <=> mode[q] = "done"
      BY <2>1, <3>1, <3>2
    <3>5. \A q \in Node : Merged(q)' = Merged(q)
      BY <1>3, <3>1, <3>4
    <3>6. \A q \in Node \ {n} : mode'[q] = mode[q] \/ (mode[q] = "unborn" /\ mode'[q] = "seed")
      BY <3>1, <3>2
    <3>7. mode'[n] = "wait"
      BY <3>1
    <3> QED BY <2>1, <3>1, <3>3, <3>5, <3>6, <3>7, Zenon
  <2>6. CASE TripInternal(n, p)
    BY <1>5, <2>1, <2>6 DEF TripInternal
  <2> QED BY <1>8, <2>1, <2>2, <2>3, <2>4, <2>5, <2>6 DEF Construct
<1> QED BY <1>7, <1>8

\* Nothing but an assertion of the search ends the job before its time.
LEMMA AbortsTrip ==
  ASSUME Trips = {}, phase # "aborted", [Next]_vars
  PROVE  phase' # "aborted"
<1>1. ASSUME NEW n, Search(n) PROVE phase' # "aborted"
  BY <1>1 DEF Search, Answer
<1>2. ASSUME NEW n, NEW p, Construct(n, p) PROVE phase' # "aborted"
  BY <1>1, <1>2 DEF Construct, Refuse, StartLeaf, StartDead, StartInternal, TripInternal, Answer
<1>3. ASSUME NEW n, Rerun(n) PROVE phase' # "aborted"
  BY <1>1, <1>3 DEF Rerun
<1>4. ASSUME NEW m, Finish(m) PROVE phase' # "aborted"
  BY <1>4 DEF Finish, Answer
<1> QED BY <1>2, <1>3, <1>4 DEF Next, SendCounts, AndFailed, Halt, Over, vars

\* The invariant holds before the root chare is constructed.
LEMMA InitInvariant == Init => Invariant
<1> USE TreeAssumption, ValueAssumption DEF TreeAssumption, ValueAssumption
<1> SUFFICES ASSUME Init PROVE Invariant
  OBVIOUS
<1>1. \A n \in Node : mode[n] = IF n = Root THEN "seed" ELSE "unborn"
  BY DEF Init
<1>2. AccountedFor
  <2> SUFFICES ASSUME NEW n \in Node
               PROVE  /\ child_finished_[n] = Cardinality(Merged(n))
                      /\ child_succeed_[n] = Cardinality({k \in Merged(n) : Value[k]})
    BY DEF AccountedFor
  <2>1. Merged(n) = {} /\ {k \in Merged(n) : Value[k]} = {}
    BY <1>1 DEF Merged, Kids
  <2>2. child_finished_[n] = 0 /\ child_succeed_[n] = 0
    BY DEF Init
  <2> QED BY <2>1, <2>2, FS_EmptySet
<1>3. Born /\ WaitersHaveKids
  BY <1>1 DEF Born, WaitersHaveKids
<1>4. SendersDone /\ RepliesRight /\ KillOnlyFalsified /\ VerdictLast /\ VerdictRight
  BY DEF Init, SendersDone, RepliesRight, KillOnlyFalsified, VerdictLast, VerdictRight
<1> QED BY <1>2, <1>3, <1>4 DEF Invariant

\* Every entry method, on any PE and in any order, keeps the invariant.
LEMMA NextInvariant == TypeOK /\ Invariant /\ [Next]_vars => Invariant'
<1> SUFFICES ASSUME TypeOK, Invariant, [Next]_vars PROVE Invariant'
  OBVIOUS
<1>1. ASSUME NEW n \in Node, NEW p \in PE, Construct(n, p) PROVE Invariant'
  BY <1>1, ConstructStep
<1>2. ASSUME NEW n \in Node, Rerun(n) PROVE Invariant'
  BY <1>2, SearchStep DEF Rerun
<1>3. ASSUME NEW m \in finishMsgs, Finish(m) PROVE Invariant'
  BY <1>3, FinishStep
<1>4. ASSUME NEW m \in groupMsgs, SendCounts(m) \/ AndFailed(m) PROVE Invariant'
  <2>1. /\ UNCHANGED <<mode, child_finished_, child_succeed_, finishMsgs, verdict>>
        /\ groupMsgs' \subseteq groupMsgs
    BY <1>4 DEF SendCounts, AndFailed, treeVars
  <2>2. \A p \in PE : \A a \in andStateNodeInfo'[p] :
           \/ a \in andStateNodeInfo[p]
           \/ \E o \in groupMsgs : o.type = "andFailed" /\ o.chare = a
    <3>1. CASE SendCounts(m)
      BY <3>1 DEF SendCounts
    <3>2. CASE AndFailed(m)
      BY <3>2 DEF AndFailed, TypeOK
    <3> QED BY <1>4, <3>1, <3>2
  <2>3. Born' /\ WaitersHaveKids'
    BY <2>1 DEF Born, WaitersHaveKids, Invariant
  <2> QED BY <2>1, <2>2, <2>3, QuietStep
<1>5. CASE Halt \/ UNCHANGED vars
  <2>1. UNCHANGED <<mode, child_finished_, child_succeed_, finishMsgs, verdict,
                    groupMsgs, andStateNodeInfo>>
    BY <1>5 DEF Halt, vars, treeVars, groupVars
  <2>2. Born' /\ WaitersHaveKids'
    BY <2>1 DEF Born, WaitersHaveKids, Invariant
  <2> QED BY <2>1, <2>2, QuietStep
<1> QED BY <1>1, <1>2, <1>3, <1>4, <1>5 DEF Next, Over

-----------------------------------------------------------------------------
\* So the invariant holds in every state.
LEMMA Inductive == Spec => [](TypeOK /\ Invariant)
<1>1. Invariant /\ TypeOK /\ [Next]_vars => Invariant'
  BY NextInvariant
<1> QED BY <1>1, InitInvariant, Typing, PTL DEF Spec

\* No answer is lost and none is counted twice on its way into the counters
\* of a parent (Node.cpp:703-706).
THEOREM AnswersAccounted == Spec => []AccountedFor
<1>1. Invariant => AccountedFor
  BY DEF Invariant
<1> QED BY <1>1, Inductive, PTL

\* Kill chasing never names a chare but a failed AND chare (Node.cpp:717-719).
THEOREM KillsJustified == Spec => []KillOnlyFalsified
<1>1. Invariant => KillOnlyFalsified
  BY DEF Invariant
<1> QED BY <1>1, Inductive, PTL

\* The tree of chares implements the promise of a search (ColoringPromise): the
\* root prints one verdict, the value of the AND/OR tree, and never takes it back,
\* for every tree, timeout and number of PEs and in every order in which answers,
\* timeouts and kill broadcasts take effect (Node.cpp:748-760).
THEOREM PromiseKept == Spec => KeepsPromise
<1> USE TreeAssumption, ValueAssumption DEF TreeAssumption, ValueAssumption
<1>1. Init => Promise!Init
  BY DEF Init, Promise!Init
<1>2. ASSUME TypeOK, Invariant, Invariant', [Next]_vars
      PROVE  [Promise!Reply]_<<Value[Root], verdict>>
  <2> DEFINE Prints == \/ verdict' = verdict
                       \/ mode[Root] # "done" /\ verdict' \in {"success", "failure"}
  <2>1. ASSUME NEW n \in Node, NEW res, NEW pending, NEW falsified, mode[n] # "done",
               Answer(n, res, pending, falsified)
        PROVE  Prints
    BY <2>1 DEF Answer
  <2>2. ASSUME NEW n \in Node, mode[n] # "done", Search(n)
        PROVE  Prints
    BY <2>1, <2>2 DEF Search, Abort
  <2>3. Prints
    <3>1. ASSUME NEW n \in Node, NEW p \in PE, Construct(n, p)
          PROVE  Prints
      BY <2>1, <2>2, <3>1
         DEF Construct, Refuse, StartLeaf, StartDead, StartInternal, TripInternal, Admit, Abort
    <3>2. ASSUME NEW n \in Node, Rerun(n)
          PROVE  Prints
      BY <2>2, <3>2 DEF Rerun
    <3>3. ASSUME NEW m \in finishMsgs, Finish(m)
          PROVE  Prints
      <4>1. Parent[m.from] \in Node
        BY <1>2 DEF TypeOK
      <4> QED BY <2>1, <3>3, <4>1 DEF Finish
    <3> QED BY <1>2, <3>1, <3>2, <3>3
            DEF Next, SendCounts, AndFailed, Halt, Over, vars
  <2>4. Value[Root] \in BOOLEAN
    OBVIOUS
  <2>5. CASE verdict' = verdict
    BY <2>5
  <2>6. CASE mode[Root] # "done" /\ verdict' \in {"success", "failure"}
    <3>1. verdict = "none"
      BY <1>2, <2>6 DEF Invariant, VerdictLast
    <3>2. /\ verdict' = "success" => Value[Root]
          /\ verdict' = "failure" => ~Value[Root]
      BY <1>2 DEF Invariant, VerdictRight
    <3> QED BY <2>4, <2>6, <3>1, <3>2 DEF Promise!Reply
  <2> QED BY <2>3, <2>5, <2>6
<1>3. TypeOK /\ Invariant /\ (TypeOK /\ Invariant)' /\ [Next]_vars
        => [Promise!Reply]_<<Value[Root], verdict>>
  BY <1>2, Zenon
<1> QED BY <1>1, <1>3, Inductive, PTL DEF Spec, KeepsPromise, Promise!Spec

-----------------------------------------------------------------------------
\* A branch closes, and is told to print, only after the verdict; a branch that
\* has printed is closed.
Registration ==
  /\ PrintedCountsFinal
  /\ \A p \in PE : printed[p] # Unprinted => ~acceptRegistration[p]
  /\ \A p \in PE : ~acceptRegistration[p] => verdict # "none"
  /\ \A m \in groupMsgs : m.type = "sendCounts" => verdict # "none"

\* What a step does to a branch, as far as the counts are concerned.
Branches ==
  /\ UNCHANGED printed
  /\ \A q \in PE : \/ acceptRegistration[q]
                   \/ /\ nCharesOnMyPe'[q] = nCharesOnMyPe[q]
                      /\ nLeafCharesOnMyPe'[q] = nLeafCharesOnMyPe[q]

\* What it does to registration and to the broadcasts under way.
Closing ==
  /\ \A q \in PE : \/ acceptRegistration'[q] = acceptRegistration[q]
                   \/ ~acceptRegistration'[q] /\ verdict' # "none"
  /\ \A m \in groupMsgs' : m.type = "sendCounts" => m \in groupMsgs \/ verdict' # "none"
  /\ verdict # "none" => verdict' # "none"

\* A step keeps Registration if it raises counts only at branches that still
\* accept and closes a branch for good, and only with a verdict.
LEMMA BranchStep ==
  ASSUME TypeOK, Registration, Branches, Closing PROVE Registration'
<1>1. \A q \in PE : ~acceptRegistration[q] => ~acceptRegistration'[q]
  BY DEF Closing, TypeOK
<1>2. \A q \in PE : printed'[q] # Unprinted =>
                      /\ ~acceptRegistration[q]
                      /\ printed'[q] = printed[q]
                      /\ nCharesOnMyPe'[q] = nCharesOnMyPe[q]
                      /\ nLeafCharesOnMyPe'[q] = nLeafCharesOnMyPe[q]
  BY DEF Branches, Registration
<1>3. PrintedCountsFinal'
  BY <1>2 DEF PrintedCountsFinal, Registration, Branches, Unprinted
<1>4. \A p \in PE : printed'[p] # Unprinted => ~acceptRegistration'[p]
  BY <1>1, <1>2
<1>5. \A p \in PE : ~acceptRegistration'[p] => verdict' # "none"
  BY DEF Registration, Closing
<1>6. \A m \in groupMsgs' : m.type = "sendCounts" => verdict' # "none"
  BY DEF Registration, Closing
<1> QED BY <1>3, <1>4, <1>5, <1>6 DEF Registration, Unprinted

\* An answer closes registration only where it is the verdict of the root.
LEMMA AnswerCloses ==
  ASSUME TypeOK, NEW n \in Node, NEW res \in BOOLEAN, NEW pending, NEW falsified,
         \A m \in falsified : m.type = "andFailed",
         Answer(n, res, pending, falsified)
  PROVE  Closing
<1>1. CASE n = Root
  BY <1>1 DEF Answer, Closing, Closed, TypeOK
<1>2. CASE n # Root
  BY <1>2 DEF Answer, Closing
<1> QED BY <1>1, <1>2

\* A leaf that searches closes nothing but by its answer.
LEMMA SearchCloses ==
  ASSUME TypeOK, NEW n \in Node, Search(n) PROVE Closing
<1>1. CASE Answer(n, LeafAnswer(n), finishMsgs, {})
  <2>1. LeafAnswer(n) \in BOOLEAN /\ \A m \in {} : m.type = "andFailed"
    BY ValueAssumption DEF LeafAnswer, ValueAssumption
  <2> QED BY <1>1, <2>1, AnswerCloses
<1>2. CASE UNCHANGED <<verdict, acceptRegistration, groupMsgs>>
  BY <1>2 DEF Closing
<1> QED BY <1>1, <1>2 DEF Search, Abort

\* A chare under construction is counted only by a branch that accepts it.
LEMMA ConstructCloses ==
  ASSUME TypeOK, NEW n \in Node, NEW p \in PE, Construct(n, p)
  PROVE  Branches /\ Closing
<1>1. CASE Refuse(n, p)
  BY <1>1 DEF Refuse, groupVars, Branches, Closing
<1>2. ASSUME Admit(n, p), UNCHANGED nLeafCharesOnMyPe PROVE Branches
  BY <1>2 DEF Admit, MayRegister, Branches, TypeOK
<1>3. CASE StartLeaf(n, p)
  <2>1. Branches
    BY <1>3 DEF StartLeaf, Admit, MayRegister, Branches, TypeOK
  <2> QED BY <1>3, <2>1, SearchCloses DEF StartLeaf
<1>4. CASE StartDead(n, p)
  <2>1. Value[n] \in BOOLEAN /\ \A m \in {} : m.type = "andFailed"
    BY ValueAssumption DEF ValueAssumption
  <2>2. Answer(n, Value[n], finishMsgs, {})
    <3>1. Value[n] = FALSE
      BY <1>4, ValueAssumption DEF StartDead, ValueAssumption
    <3> QED BY <1>4, <3>1 DEF StartDead
  <2>3. Closing
    BY <2>1, <2>2, AnswerCloses
  <2> QED BY <1>2, <1>4, <2>3 DEF StartDead
<1>5. CASE StartInternal(n, p)
  BY <1>2, <1>5 DEF StartInternal, Closing
<1>6. CASE TripInternal(n, p)
  BY <1>2, <1>6 DEF TripInternal, Abort, Closing
<1> QED BY <1>1, <1>3, <1>4, <1>5, <1>6 DEF Construct

\* A merge counts nobody, and closes nothing but by its verdict.
LEMMA FinishCloses ==
  ASSUME TypeOK, NEW m \in finishMsgs, Finish(m)
  PROVE  Branches /\ Closing
<1> DEFINE n         == Parent[m.from]
           finished  == child_finished_[n] + 1
           succeed   == Succeeded(n, m.res)
           falsified == IF Failed(n, finished, succeed) THEN AndFailedToAll(n) ELSE {}
<1>1. n \in Node
  BY TreeAssumption DEF TypeOK, TreeAssumption
<1>2. Success(n, succeed) \in BOOLEAN
  BY DEF Success
<1>3. \A o \in falsified : o.type = "andFailed"
  BY DEF AndFailedToAll
<1>4. \/ Answer(n, Success(n, succeed), finishMsgs \ {m}, falsified)
      \/ /\ groupMsgs' = groupMsgs \cup falsified
         /\ UNCHANGED <<acceptRegistration, verdict>>
  BY DEF Finish
<1>5. Branches
  BY DEF Finish, Branches
<1> HIDE DEF n, succeed, falsified
<1>6. CASE Answer(n, Success(n, succeed), finishMsgs \ {m}, falsified)
  BY <1>1, <1>2, <1>3, <1>5, <1>6, AnswerCloses
<1>7. CASE /\ groupMsgs' = groupMsgs \cup falsified
           /\ UNCHANGED <<acceptRegistration, verdict>>
  BY <1>3, <1>5, <1>7 DEF Closing
<1> QED BY <1>4, <1>6, <1>7

\* Registration holds in every state.
LEMMA RegistrationInductive == Spec => []Registration
<1>1. Init => Registration
  BY DEF Init, Registration, PrintedCountsFinal
<1>2. ASSUME TypeOK, Registration, [Next]_vars PROVE Registration'
  <2>1. ASSUME NEW n \in Node, NEW p \in PE, Construct(n, p) PROVE Registration'
    BY <1>2, <2>1, ConstructCloses, BranchStep
  <2>2. ASSUME NEW n \in Node, Rerun(n) PROVE Registration'
    <3>1. Closing
      BY <1>2, <2>2, SearchCloses DEF Rerun
    <3>2. Branches
      BY <2>2 DEF Rerun, Branches
    <3> QED BY <1>2, <3>1, <3>2, BranchStep
  <2>3. ASSUME NEW m \in finishMsgs, Finish(m) PROVE Registration'
    BY <1>2, <2>3, FinishCloses, BranchStep
  <2>4. ASSUME NEW m \in groupMsgs, SendCounts(m) PROVE Registration'
    <3>1. verdict' = verdict /\ verdict # "none" /\ m.pe \in PE
      BY <1>2, <2>4 DEF SendCounts, Registration, TypeOK, GroupMessage
    <3>2. /\ acceptRegistration' = [acceptRegistration EXCEPT ![m.pe] = FALSE]
          /\ printed' = [printed EXCEPT ![m.pe] =
               [chares |-> nCharesOnMyPe[m.pe], leaves |-> nLeafCharesOnMyPe[m.pe]]]
          /\ UNCHANGED <<nCharesOnMyPe, nLeafCharesOnMyPe>>
          /\ groupMsgs' = groupMsgs \ {m}
      BY <2>4 DEF SendCounts, Closed
    <3>3. PrintedCountsFinal'
      BY <1>2, <3>1, <3>2 DEF PrintedCountsFinal, Registration, TypeOK
    <3>4. \A p \in PE : printed'[p] # Unprinted => ~acceptRegistration'[p]
      BY <1>2, <3>1, <3>2 DEF Registration, TypeOK
    <3> QED BY <1>2, <3>1, <3>2, <3>3, <3>4 DEF Registration
  <2>5. ASSUME NEW m \in groupMsgs, AndFailed(m) PROVE Registration'
    <3>1. Branches /\ Closing
      BY <2>5 DEF AndFailed, Branches, Closing
    <3> QED BY <1>2, <3>1, BranchStep
  <2>6. CASE Halt \/ UNCHANGED vars
    <3>1. Branches /\ Closing
      BY <2>6 DEF Halt, vars, groupVars, Branches, Closing
    <3> QED BY <1>2, <3>1, BranchStep
  <2> QED BY <1>2, <2>1, <2>2, <2>3, <2>4, <2>5, <2>6 DEF Next, Over
<1>3. TypeOK /\ Registration /\ [Next]_vars => Registration'
  BY <1>2
<1> QED BY <1>1, <1>3, Typing, PTL DEF Spec

\* The chare counts a branch prints are final, although chares are still being
\* created when it prints (graphColor.h:189-213, 226-236).
THEOREM CountsFinal == Spec => []PrintedCountsFinal
<1>1. Registration => PrintedCountsFinal
  BY DEF Registration
<1> QED BY <1>1, RegistrationInductive, PTL

-----------------------------------------------------------------------------
\* As long as the IDs of AND chares occur only below them, kill chasing is sound:
\* registerMe refuses no chare that anybody still waits for. Nothing in the
\* code sees to NestedIDs, and the run collision shows what happens without it
\* (graphColor.h:189-203).
THEOREM RefusalsJustified == NestedIDs => (Spec => []RefusedOnlyDoomed)
<1> USE TreeAssumption DEF TreeAssumption
<1> SUFFICES ASSUME NestedIDs PROVE Spec => []RefusedOnlyDoomed
  OBVIOUS
<1>1. Init => RefusedOnlyDoomed
  BY DEF Init, RefusedOnlyDoomed
<1> DEFINE Context == TypeOK /\ Invariant /\ Registration
<1>2. ASSUME Context, Context', RefusedOnlyDoomed, [Next]_vars
      PROVE  RefusedOnlyDoomed'
  <2> DEFINE Grows == /\ verdict # "none" => verdict' # "none"
                      /\ \A a \in Node : mode[a] = "done" => mode'[a] = "done"
             Refused(k) == \E p \in PE : Refuse(k, p)
             Fine == Grows /\ \A k \in Node : mode'[k] = "denied" => mode[k] = "denied" \/ Refused(k)
  <2> USE <1>2
  <2>1. mode \in [Node -> Modes]
    BY DEF TypeOK
  <2>2. ASSUME NEW n \in Node, NEW res, NEW pending, NEW falsified,
               Answer(n, res, pending, falsified)
        PROVE  Fine
    BY <2>1, <2>2 DEF Answer
  <2>3. ASSUME NEW n \in Node, mode[n] # "done", Search(n)
        PROVE  Fine
    <3>1. CASE Answer(n, LeafAnswer(n), finishMsgs, {})
      BY <2>2, <3>1
    <3>2. CASE mode' = [mode EXCEPT ![n] = "rerun"] /\ UNCHANGED verdict
      BY <2>1, <2>3, <3>2
    <3>3. CASE Abort
      BY <3>3 DEF Abort, treeVars
    <3> QED BY <2>3, <3>1, <3>2, <3>3 DEF Search
  <2>4. ASSUME NEW n \in Node, NEW p \in PE, Construct(n, p) PROVE Fine
    <3>1. CASE Refuse(n, p)
      BY <2>1, <3>1 DEF Refuse
    <3>2. CASE StartLeaf(n, p)
      BY <2>3, <3>2 DEF StartLeaf, Admit
    <3>3. CASE StartDead(n, p)
      BY <2>2, <3>3 DEF StartDead
    <3>4. CASE StartInternal(n, p)
      <4>1. \A k \in Kids(n) : mode[k] = "unborn"
        BY <2>1, <3>4 DEF StartInternal, Admit, Invariant, Born, Kids
      <4> QED BY <3>4, <4>1 DEF StartInternal, Admit
    <3>5. CASE TripInternal(n, p)
      BY <3>5 DEF TripInternal, Abort, treeVars
    <3> QED BY <2>4, <3>1, <3>2, <3>3, <3>4, <3>5 DEF Construct
  <2>5. ASSUME NEW n \in Node, Rerun(n) PROVE Fine
    BY <2>3, <2>5 DEF Rerun
  <2>6. ASSUME NEW m \in finishMsgs, Finish(m) PROVE Fine
    <3>1. Parent[m.from] \in Node
      BY DEF TypeOK
    <3>2. CASE UNCHANGED <<mode, verdict>>
      BY <3>2
    <3> QED BY <2>2, <2>6, <3>1, <3>2 DEF Finish
  <2>7. Fine
    <3>1. CASE UNCHANGED <<mode, verdict>>
      BY <3>1
    <3> QED BY <2>4, <2>5, <2>6, <3>1
            DEF Next, SendCounts, AndFailed, Halt, Over, vars, treeVars
  <2> SUFFICES ASSUME NEW n \in Node, mode'[n] = "denied", verdict' = "none"
               PROVE  Doomed(n)'
    BY DEF RefusedOnlyDoomed
  <2>8. CASE mode[n] = "denied"
    BY <2>7, <2>8 DEF RefusedOnlyDoomed, Doomed, Falsified
  <2>9. CASE Refused(n)
    <3>1. PICK p \in PE : Refuse(n, p)
      BY <2>9
    <3>2. acceptRegistration[p]
      BY <2>7 DEF Registration
    <3>3. PICK a \in andStateNodeInfo[p] : Occurs(nodeID[a], nodeID[n])
      BY <3>1, <3>2 DEF Refuse, MayRegister
    <3>4. a \in Node /\ Falsified(a)
      BY DEF TypeOK, Invariant, KillOnlyFalsified
    <3>5. a # n
      BY <3>1, <3>4 DEF Refuse, Falsified
    <3>6. a \in Ancestors[n]
      BY <3>3, <3>4, <3>5 DEF NestedIDs, Falsified
    <3> QED BY <2>7, <3>4, <3>6 DEF Doomed, Falsified
  <2> QED BY <2>7, <2>8, <2>9
<1>3. Context /\ Context' /\ RefusedOnlyDoomed /\ [Next]_vars => RefusedOnlyDoomed'
  BY <1>2
<1> QED BY <1>1, <1>3, Typing, Inductive, RegistrationInductive, PTL DEF Spec
-----------------------------------------------------------------------------
\* A finish message carries the value of the tree below its sender, however
\* early mergeToParent decided (Node.cpp:708-715).
THEOREM RepliesCorrect == Spec => []RepliesRight
<1>1. Invariant => RepliesRight
  BY DEF Invariant
<1> QED BY <1>1, Inductive, PTL

-----------------------------------------------------------------------------
\* A chare that waits has created its children.
Spawned == \A n \in Node : mode[n] = "wait" => \A k \in Kids(n) : mode[k] # "unborn"

\* A chare that waits has not heard from all of them.
Undecided == \A n \in Node : mode[n] = "wait" => child_finished_[n] # Cardinality(Kids(n))

\* Ancestors is what its definition says: the set of all chares that are reached
\* from n through Parent solves it.
LEMMA AncestorsOfChild ==
  ASSUME NEW n \in Node \ {Root}
  PROVE  Ancestors[n] = {Parent[n]} \cup Ancestors[Parent[n]]
<1> USE TreeAssumption DEF TreeAssumption
<1> DEFINE Holds(x, S) == /\ x # Root => Parent[x] \in S
                          /\ \A y \in S : y # Root => Parent[y] \in S
           Above(x) == {a \in Node : \A S \in SUBSET Node : Holds(x, S) => a \in S}
           w == [x \in Node |-> Above(x)]
<1>1. Above(Root) = {}
  <2>1. {} \in SUBSET Node /\ Holds(Root, {})
    OBVIOUS
  <2> HIDE DEF Holds
  <2> QED BY <2>1
<1>2. ASSUME NEW x \in Node, x # Root
      PROVE  Above(x) = {Parent[x]} \cup Above(Parent[x])
  <2> DEFINE p == Parent[x]
  <2>1. p \in Node
    BY <1>2
  <2>2. p \in Above(x)
    BY <1>2, <2>1
  <2>3. ASSUME NEW a \in Above(p)
        PROVE  a \in Above(x)
    <3>1. \A S \in SUBSET Node : Holds(x, S) => Holds(p, S)
      BY <1>2, <2>1
    <3> HIDE DEF Holds
    <3> QED BY <2>3, <3>1
  <2>4. ASSUME NEW a \in Above(x), a # p
        PROVE  a \in Above(p)
    <3> SUFFICES ASSUME NEW S \in SUBSET Node, Holds(p, S)
                 PROVE  a \in S
      OBVIOUS
    <3>1. Holds(x, S \cup {p}) /\ S \cup {p} \in SUBSET Node
      BY <1>2, <2>1
    <3> HIDE DEF Holds, p
    <3> QED BY <2>4, <3>1
  <2> HIDE DEF Above, p
  <2>5. Above(x) = {p} \cup Above(p)
    BY <2>2, <2>3, <2>4
  <2> QED BY <2>5 DEF p
<1> HIDE DEF Above
<1>3. w = [x \in Node |-> IF x = Root THEN {} ELSE {Parent[x]} \cup w[Parent[x]]]
  BY <1>1, <1>2
<1> HIDE DEF w
<1>4. Ancestors = [x \in Node |->
                     IF x = Root THEN {} ELSE {Parent[x]} \cup Ancestors[Parent[x]]]
  BY <1>3 DEF Ancestors
<1> QED BY <1>4

\* A step in which nobody begins to wait, and nobody who goes on waiting has
\* heard from all its children.
LEMMA QuietWait ==
  ASSUME Spawned, Undecided,
         \A k \in Node : mode[k] # "unborn" => mode'[k] # "unborn",
         \A k \in Node : mode'[k] = "wait" =>
           /\ mode[k] = "wait"
           /\ \/ child_finished_'[k] = child_finished_[k]
              \/ child_finished_'[k] # Cardinality(Kids(k))
  PROVE  Spawned' /\ Undecided'
<1>1. \A n \in Node : Kids(n) \subseteq Node
  BY DEF Kids
<1> QED BY <1>1 DEF Spawned, Undecided

\* No step makes a chare wait for children it has not created, or for none.
LEMMA WaitStep ==
  ASSUME NoneChildless, TypeOK, Invariant, Spawned, Undecided, [Next]_vars
  PROVE  Spawned' /\ Undecided'
<1> USE TreeAssumption DEF TreeAssumption
<1>1. mode \in [Node -> Modes] /\ child_finished_ \in [Node -> Nat]
  BY DEF TypeOK
<1>2. ASSUME NEW n \in Node, NEW res, NEW pending, NEW falsified,
             Answer(n, res, pending, falsified), UNCHANGED child_finished_
      PROVE  Spawned' /\ Undecided'
  <2>1. mode' = [mode EXCEPT ![n] = "done"]
    BY <1>2 DEF Answer
  <2> QED BY <1>1, <1>2, <2>1, QuietWait
<1>3. CASE UNCHANGED <<mode, child_finished_>>
  BY <1>3, QuietWait
<1>4. ASSUME NEW n \in Node, Search(n)
      PROVE  Spawned' /\ Undecided'
  <2>1. CASE Answer(n, LeafAnswer(n), finishMsgs, {}) /\ UNCHANGED child_finished_
    BY <1>2, <2>1
  <2>2. CASE mode' = [mode EXCEPT ![n] = "rerun"] /\ UNCHANGED child_finished_
    BY <1>1, <2>2, QuietWait
  <2>3. CASE Abort
    BY <1>3, <2>3 DEF Abort, treeVars
  <2> QED BY <1>4, <2>1, <2>2, <2>3 DEF Search
<1>5. ASSUME NEW n \in Node, NEW p \in PE, StartInternal(n, p)
      PROVE  Spawned' /\ Undecided'
  <2>1. /\ mode[n] = "seed" /\ Kind[n] \in {"and", "or"} /\ n \notin Trips
        /\ UNCHANGED child_finished_
        /\ mode' = [k \in Node |->
                      IF k = n THEN "wait" ELSE IF k \in Kids(n) THEN "seed" ELSE mode[k]]
    BY <1>5 DEF StartInternal, Admit
  <2>2. Merged(n) = {}
    BY <2>1 DEF Merged, Kids, Invariant, Born
  <2>3. child_finished_'[n] # Cardinality(Kids(n))
    <3>1. child_finished_[n] = 0
      BY <2>2, FS_EmptySet DEF Invariant, AccountedFor
    <3>2. Cardinality(Kids(n)) # 0
      BY <2>1, KidsFinite, FS_EmptySet DEF NoneChildless
    <3> QED BY <2>1, <3>1, <3>2
  <2>4. ASSUME NEW q \in Node, mode'[q] = "wait", q # n
        PROVE  mode[q] = "wait"
    BY <2>1, <2>4
  <2>5. \A k \in Node : mode[k] # "unborn" => mode'[k] # "unborn"
    BY <2>1
  <2>6. \A q \in Node : Kids(q) \subseteq Node
    BY DEF Kids
  <2>7. \A k \in Kids(n) : mode'[k] # "unborn"
    BY <2>1, <2>6
  <2> QED BY <2>1, <2>3, <2>4, <2>5, <2>6, <2>7 DEF Spawned, Undecided
<1>6. ASSUME NEW n \in Node, NEW p \in PE, Construct(n, p)
      PROVE  Spawned' /\ Undecided'
  <2>1. CASE Refuse(n, p)
    BY <1>1, <2>1, QuietWait DEF Refuse
  <2>2. CASE StartLeaf(n, p)
    BY <1>4, <2>2 DEF StartLeaf
  <2>3. CASE StartDead(n, p)
    BY <1>2, <2>3 DEF StartDead
  <2>4. CASE TripInternal(n, p)
    BY <1>3, <2>4 DEF TripInternal, Abort, treeVars
  <2> QED BY <1>5, <1>6, <2>1, <2>2, <2>3, <2>4 DEF Construct
<1>7. ASSUME NEW m \in finishMsgs, Finish(m)
      PROVE  Spawned' /\ Undecided'
  <2> DEFINE n == Parent[m.from]
             finished == child_finished_[n] + 1
             succeed == Succeeded(n, m.res)
  <2>1. n \in Node
    BY DEF TypeOK
  <2>2. /\ child_finished_' = [child_finished_ EXCEPT ![n] = finished]
        /\ \/ mode' = [mode EXCEPT ![n] = "done"]
           \/ ~Decided(n, finished, succeed) /\ UNCHANGED mode
    BY <1>7 DEF Finish, Answer
  <2> HIDE DEF n, finished, succeed
  <2>3. CASE mode' = [mode EXCEPT ![n] = "done"]
    BY <1>1, <2>1, <2>2, <2>3, QuietWait
  <2>4. CASE ~Decided(n, finished, succeed) /\ UNCHANGED mode
    <3>1. finished # Cardinality(Kids(n))
      BY <2>4 DEF Decided
    <3> QED BY <1>1, <2>1, <2>2, <2>4, <3>1, QuietWait
  <2> QED BY <2>2, <2>3, <2>4
<1> QED BY <1>3, <1>4, <1>6, <1>7
        DEF Next, Rerun, SendCounts, AndFailed, Halt, Over, vars, treeVars

\* If IDs nest as the tree does and every AND or OR chare has a child, nobody
\* waits in vain: a chare that is still waited for, and waits, has a child at
\* work or an answer on the way to it (graphColor.ci:57-78). The code ensures
\* neither: see the runs collision and, with one colour, childless.
THEOREM NobodyWaitsInVain == NestedIDs /\ NoneChildless => (Spec => []WaitHasReason)
<1> USE TreeAssumption DEF TreeAssumption
<1> SUFFICES ASSUME NestedIDs, NoneChildless PROVE Spec => []WaitHasReason
  OBVIOUS
<1>1. Init => Spawned /\ Undecided
  BY DEF Init, Spawned, Undecided
<1>2. TypeOK /\ Invariant /\ Spawned /\ Undecided /\ [Next]_vars => Spawned' /\ Undecided'
  BY WaitStep
<1>3. TypeOK /\ Invariant /\ RefusedOnlyDoomed /\ Spawned /\ Undecided => WaitHasReason
  <2> SUFFICES ASSUME TypeOK, Invariant, RefusedOnlyDoomed, Spawned, Undecided,
                      NEW n \in Node, mode[n] = "wait", ~Doomed(n), verdict = "none",
                      \A k \in Kids(n) : mode[k] \notin {"seed", "rerun", "wait"},
                      \A m \in finishMsgs : Parent[m.from] # n
               PROVE  FALSE
    BY DEF WaitHasReason
  <2>1. \A k \in Kids(n) : k \in Node \ {Root} /\ Parent[k] = n
    BY DEF Kids
  <2>2. \A k \in Kids(n) : mode[k] # "denied"
    <3> SUFFICES ASSUME NEW k \in Kids(n), mode[k] = "denied" PROVE FALSE
      OBVIOUS
    <3>1. PICK a \in Node : a \in Ancestors[k] /\ Falsified(a)
      BY <2>1 DEF RefusedOnlyDoomed, Doomed
    <3>2. a # n
      BY <3>1 DEF Falsified
    <3>3. a \in Ancestors[n]
      BY <2>1, <3>1, <3>2, AncestorsOfChild
    <3> QED BY <3>1, <3>3 DEF Doomed
  <2>3. \A k \in Kids(n) : mode[k] = "done"
    BY <2>1, <2>2 DEF TypeOK, Modes, Spawned
  <2>4. Merged(n) = Kids(n)
    BY <2>1, <2>3 DEF Merged
  <2> QED BY <2>4 DEF Invariant, AccountedFor, Undecided
<1> QED BY <1>1, <1>2, <1>3, Typing, Inductive, RefusalsJustified, PTL DEF Spec
=============================================================================
