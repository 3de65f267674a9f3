------------------------------ MODULE SearchTree ------------------------------
(***************************************************************************)
(* The AND/OR search tree of Node chares (Source/Node.cpp, graphColor.ci)  *)
(* and the counter group that bookkeeps and kill-chases it (graphColor.h). *)
(*                                                                         *)
(* Every entry method runs to completion on its PE, so it is one action.   *)
(* What a chare computes from the message that creates it (its kind, its   *)
(* children, the answer of its local search) is a function of the input    *)
(* graph: here it is a constant, and module GraphColor supplies it from    *)
(* the colouring algorithms. What is dynamic is the protocol: which chare  *)
(* is created when and where, in which order answers arrive, when a leaf   *)
(* times out, how far a kill broadcast has travelled, when the run exits.  *)
(***************************************************************************)
EXTENDS Integers, FiniteSets, Sequences

CONSTANTS
  Node,     \* every chare the search can create
  Root,     \* the root chare, created by Main
  Parent,   \* parent_ of every other chare
  Kind,     \* what run() does: "leaf", "and", "or" or "dead" (no colour left)
  Value,    \* the value of the AND/OR tree below a chare
  Work,     \* loop iterations the sequential search of a leaf takes
  timeout,  \* seconds a leaf may search before it reruns itself
  Trips,    \* the chares whose run fails CkAssert(vIndex != -1)
  nodeID,   \* the ID string of a chare, as a sequence of digits
  PE        \* the processing elements, one counter branch on each

\* The chares that colorRemotely() of n creates: child_num_ of them.
Kids(n) == {k \in Node \ {Root} : Parent[k] = n}

ASSUME TreeAssumption ==
  /\ IsFiniteSet(Node)
  /\ Root \in Node
  /\ Parent \in [Node \ {Root} -> Node]
  /\ Kind \in [Node -> {"leaf", "and", "or", "dead"}]
  /\ Kind[Root] # "dead"
  /\ Work \in [Node -> Nat]
  /\ timeout \in Nat
  /\ Trips \subseteq Node
  /\ nodeID \in [Node -> Seq(Nat)]
  /\ PE # {}

\* Value is what the answers of the leaves make of the tree.
ASSUME ValueAssumption ==
  /\ Value \in [Node -> BOOLEAN]
  /\ \A n \in Node :
       /\ Kind[n] = "and"  => Value[n] = (\A k \in Kids(n) : Value[k])
       /\ Kind[n] = "or"   => Value[n] = (\E k \in Kids(n) : Value[k])
       /\ Kind[n] = "dead" => ~Value[n]

VARIABLES
  mode,               \* where a chare is in its life, see Modes
  todo,               \* iterations left on stackForSequential of a leaf
  child_finished_,    \* finish messages a chare has merged
  child_succeed_,     \* those of them that reported success
  finishMsgs,         \* finish messages in flight, each to the parent of from
  acceptRegistration, \* per counter branch: may chares still spawn
  andStateNodeInfo,   \* per counter branch: falsified AND chares it knows of
  nCharesOnMyPe, nLeafCharesOnMyPe,
  printed,            \* what sendCounts() printed: chares and leaf chares
  groupMsgs,          \* broadcasts of the counter group still to be delivered
  rootPE,             \* the PE the root chare lives on
  verdict,            \* what the root printed: "none", "success" or "failure"
  phase               \* of the job: "running", "exiting", "halted", "aborted"

treeVars == <<mode, todo, child_finished_, child_succeed_, finishMsgs>>
groupVars == <<acceptRegistration, andStateNodeInfo, nCharesOnMyPe,
               nLeafCharesOnMyPe, printed>>
vars == <<treeVars, groupVars, groupMsgs, rootPE, verdict, phase>>

(* unborn: not created yet       seed: the creation message is in flight    *)
(* denied: refused by registerMe rerun: a leaf whose rerun() is in flight   *)
(* wait: awaits its children     done: has replied (the root: has exited)   *)
Modes == {"unborn", "seed", "denied", "rerun", "wait", "done"}

Unprinted == [chares |-> -1, leaves |-> -1]

GroupMessage ==
  [pe : PE, type : {"sendCounts"}] \cup
  [pe : PE, type : {"andFailed"}, chare : Node]

TypeOK ==
  /\ mode \in [Node -> Modes]
  /\ todo \in [Node -> Nat]
  /\ child_finished_ \in [Node -> Nat]
  /\ child_succeed_ \in [Node -> Nat]
  /\ finishMsgs \subseteq [from : Node \ {Root}, res : BOOLEAN]
  /\ acceptRegistration \in [PE -> BOOLEAN]
  /\ andStateNodeInfo \in [PE -> SUBSET Node]
  /\ nCharesOnMyPe \in [PE -> Nat]
  /\ nLeafCharesOnMyPe \in [PE -> Nat]
  /\ printed \in [PE -> [chares : Nat \cup {-1}, leaves : Nat \cup {-1}]]
  /\ groupMsgs \subseteq GroupMessage
  /\ rootPE \in PE
  /\ verdict \in {"none", "success", "failure"}
  /\ phase \in {"running", "exiting", "halted", "aborted"}

-----------------------------------------------------------------------------
\* Main::Main has created the counter group and the root chare on some PE.
Init ==
  /\ mode = [n \in Node |-> IF n = Root THEN "seed" ELSE "unborn"]
  /\ todo = Work
  /\ child_finished_ = [n \in Node |-> 0]
  /\ child_succeed_ = [n \in Node |-> 0]
  /\ finishMsgs = {}
  /\ acceptRegistration = [p \in PE |-> TRUE]
  /\ andStateNodeInfo = [p \in PE |-> {}]
  /\ nCharesOnMyPe = [p \in PE |-> 0]
  /\ nLeafCharesOnMyPe = [p \in PE |-> 0]
  /\ printed = [p \in PE |-> Unprinted]
  /\ groupMsgs = {}
  /\ rootPE \in PE
  /\ verdict = "none"
  /\ phase = "running"

\* CkExit() takes effect later: until it does, entry methods still run.
Up == phase \in {"running", "exiting"}

\* std::string::find from position 0: s occurs somewhere in t.
Occurs(s, t) ==
  \E i \in 0..(Len(t) - Len(s)) : \A j \in 1..Len(s) : t[i + j] = s[j]

\* Mutant of MayRegister: the length passed to find() is one short.
MayRegisterShort(n, p) ==
  /\ acceptRegistration[p]
  /\ \A a \in andStateNodeInfo[p] : ~Occurs(SubSeq(nodeID[a], 1, Len(nodeID[a]) - 1), nodeID[n])

\* What counter::registerMe answers a chare on p.
MayRegister(n, p) ==
  /\ acceptRegistration[p]
  /\ \A a \in andStateNodeInfo[p] : ~Occurs(nodeID[a], nodeID[n])

\* A group proxy call: one copy of the message for every branch.
SendCountsToAll == [pe : PE, type : {"sendCounts"}]
AndFailedToAll(a) == [pe : PE, type : {"andFailed"}, chare : {a}]

\* Mutant of Closed: sendCounts() prints but leaves registration open.
StillOpen(p) == acceptRegistration

\* acceptRegistration when branch p has refused all further chares.
Closed(p) == [acceptRegistration EXCEPT ![p] = FALSE]

\* Mutant of Answer: the root reports to the parent_ it was given as well.
AnswerToParent(n, res, pending, falsified) ==
  /\ mode' = [mode EXCEPT ![n] = "done"]
  /\ finishMsgs' = pending \cup {[from |-> n, res |-> res]}
  /\ groupMsgs' = groupMsgs \cup falsified
  /\ UNCHANGED <<verdict, phase, acceptRegistration>>

(***************************************************************************)
(* n has its answer. The root prints the verdict, closes registration on   *)
(* its own branch, broadcasts sendCounts (getTotalCount) and calls CkExit; *)
(* any other chare sends finish to its parent. pending and falsified are   *)
(* the finish messages that stay in flight and the broadcasts made before. *)
(***************************************************************************)
Answer(n, res, pending, falsified) ==
  /\ mode' = [mode EXCEPT ![n] = "done"]
  /\ IF n = Root
     THEN /\ verdict' = IF res THEN "success" ELSE "failure"
          /\ phase' = "exiting"
          /\ acceptRegistration' = Closed(rootPE)
          /\ groupMsgs' = groupMsgs \cup falsified \cup SendCountsToAll
          /\ finishMsgs' = pending
     ELSE /\ finishMsgs' = pending \cup {[from |-> n, res |-> res]}
          /\ groupMsgs' = groupMsgs \cup falsified
          /\ UNCHANGED <<verdict, phase, acceptRegistration>>

\* A failed CkAssert ends the job at once.
Abort ==
  /\ phase' = "aborted"
  /\ UNCHANGED <<treeVars, acceptRegistration, groupMsgs, verdict>>

\* What the search of a leaf finds once its stack loop has ended.
LeafAnswer(n) == Value[n]

(***************************************************************************)
(* sequentialColoringHelper: some iterations of the stack loop, after      *)
(* which the timeout has passed (rerun() is sent to itself), or the search *)
(* is over and is answered, or it has tripped over the assertion. The      *)
(* clock is read before every iteration, so a timeout of 0 may come before *)
(* the first one.                                                          *)
(***************************************************************************)
Search(n) ==
  \E left \in 0..todo[n] :
    \/ /\ left > 0
       /\ timeout > 0 => left < todo[n]
       /\ todo' = [todo EXCEPT ![n] = left]
       /\ mode' = [mode EXCEPT ![n] = "rerun"]
       /\ UNCHANGED <<finishMsgs, verdict, phase, acceptRegistration, groupMsgs>>
       /\ UNCHANGED <<child_finished_, child_succeed_>>
    \/ /\ left = 0
       /\ n \notin Trips
       /\ todo' = [todo EXCEPT ![n] = 0]
       /\ Answer(n, LeafAnswer(n), finishMsgs, {})
       /\ UNCHANGED <<child_finished_, child_succeed_>>
    \/ /\ left = 0
       /\ n \in Trips
       /\ Abort

-----------------------------------------------------------------------------
\* The Node constructor up to registerMe, which admits n on p ...
Admit(n, p) ==
  /\ Up
  /\ mode[n] = "seed"
  /\ n = Root => p = rootPE
  /\ MayRegister(n, p)
  /\ nCharesOnMyPe' = [nCharesOnMyPe EXCEPT ![p] = @ + 1]
  /\ UNCHANGED <<andStateNodeInfo, printed, rootPE>>

\* ... or refuses it: the constructor returns and n never answers.
Refuse(n, p) ==
  /\ Up
  /\ n # Root
  /\ mode[n] = "seed"
  /\ ~MayRegister(n, p)
  /\ mode' = [mode EXCEPT ![n] = "denied"]
  /\ UNCHANGED <<todo, child_finished_, child_succeed_, finishMsgs>>
  /\ UNCHANGED <<groupVars, groupMsgs, rootPE, verdict, phase>>

\* run() of a chare within the grain size: colorLocally().
StartLeaf(n, p) ==
  /\ Admit(n, p)
  /\ Kind[n] = "leaf"
  /\ nLeafCharesOnMyPe' = [nLeafCharesOnMyPe EXCEPT ![p] = @ + 1]
  /\ Search(n)

\* colorRemotely() on a vertex that has no colour left.
StartDead(n, p) ==
  /\ Admit(n, p)
  /\ Kind[n] = "dead"
  /\ Answer(n, FALSE, finishMsgs, {})
  /\ UNCHANGED <<todo, child_finished_, child_succeed_, nLeafCharesOnMyPe>>

\* colorRemotely(): one child per subgraph, or one per colour of the vertex.
StartInternal(n, p) ==
  /\ Admit(n, p)
  /\ Kind[n] \in {"and", "or"}
  /\ n \notin Trips
  /\ mode' = [k \in Node |->
                IF k = n THEN "wait" ELSE IF k \in Kids(n) THEN "seed" ELSE mode[k]]
  /\ UNCHANGED <<todo, child_finished_, child_succeed_, finishMsgs>>
  /\ UNCHANGED <<acceptRegistration, nLeafCharesOnMyPe>>
  /\ UNCHANGED <<groupMsgs, verdict, phase>>

\* colorRemotely() when getNextConstraintVertex() has returned -1.
TripInternal(n, p) ==
  /\ Admit(n, p)
  /\ Kind[n] \in {"and", "or"}
  /\ n \in Trips
  /\ Abort
  /\ UNCHANGED nLeafCharesOnMyPe

\* Mutant of Rerun: the timed-out search is never resumed.
RerunLost(n) == FALSE

\* Node::rerun(): the timed-out search goes on.
Rerun(n) ==
  /\ Up
  /\ mode[n] = "rerun"
  /\ Search(n)
  /\ UNCHANGED <<andStateNodeInfo, nCharesOnMyPe, nLeafCharesOnMyPe>>
  /\ UNCHANGED <<printed, rootPE>>

\* Mutant of Succeeded: every answer counts as a success.
SucceededAny(n, res) == child_succeed_[n] + 1

\* child_succeed_ of n once an answer has been counted.
Succeeded(n, res) == child_succeed_[n] + (IF res THEN 1 ELSE 0)

\* Mutant of Success: is_and_node_ is not asked.
SuccessAll(n, succeed) == succeed = Cardinality(Kids(n))

\* An AND node needs every child, an OR node one.
Success(n, succeed) ==
  IF Kind[n] = "and" THEN succeed = Cardinality(Kids(n)) ELSE succeed # 0

\* Mutant of Decided: the two arms of the early exit are swapped.
DecidedSwapped(n, finished, succeed) ==
  \/ finished = Cardinality(Kids(n))
  \/ IF Kind[n] = "and" THEN succeed # 0 ELSE succeed # finished

\* The answers so far decide n: it is finished.
Decided(n, finished, succeed) ==
  \/ finished = Cardinality(Kids(n))
  \/ IF Kind[n] = "and" THEN succeed # finished ELSE succeed # 0

\* Mutant of Failed: an AND node is falsified before it is decided.
FailedEarly(n, finished, succeed) == Kind[n] = "and" /\ ~Success(n, succeed)

\* n is an AND node that has now failed.
Failed(n, finished, succeed) ==
  Kind[n] = "and" /\ ~Success(n, succeed) /\ Decided(n, finished, succeed)

\* Node::mergeToParent on the finish message m.
Finish(m) ==
  LET n         == Parent[m.from]
      finished  == child_finished_[n] + 1
      succeed   == Succeeded(n, m.res)
      rest      == finishMsgs \ {m}
      falsified == IF Failed(n, finished, succeed) THEN AndFailedToAll(n) ELSE {}
  IN /\ Up
     /\ mode[n] = "wait"
     /\ child_finished_' = [child_finished_ EXCEPT ![n] = finished]
     /\ child_succeed_' = [child_succeed_ EXCEPT ![n] = succeed]
     /\ \/ /\ Decided(n, finished, succeed)
           /\ Answer(n, Success(n, succeed), rest, falsified)
        \/ /\ ~Decided(n, finished, succeed)
           /\ finishMsgs' = rest
           /\ groupMsgs' = groupMsgs \cup falsified
           /\ UNCHANGED <<mode, acceptRegistration, verdict, phase>>
     /\ UNCHANGED <<todo, andStateNodeInfo, nCharesOnMyPe, nLeafCharesOnMyPe>>
     /\ UNCHANGED <<printed, rootPE>>

\* counter::sendCounts on one branch: it closes and prints its counts.
SendCounts(m) ==
  /\ Up
  /\ m.type = "sendCounts"
  /\ acceptRegistration' = Closed(m.pe)
  /\ printed' = [printed EXCEPT ![m.pe] =
                   [chares |-> nCharesOnMyPe[m.pe], leaves |-> nLeafCharesOnMyPe[m.pe]]]
  /\ groupMsgs' = groupMsgs \ {m}
  /\ UNCHANGED <<treeVars, andStateNodeInfo, nCharesOnMyPe, nLeafCharesOnMyPe>>
  /\ UNCHANGED <<rootPE, verdict, phase>>

\* counter::registerAndStateNodeStatHelper on one branch.
AndFailed(m) ==
  /\ Up
  /\ m.type = "andFailed"
  /\ andStateNodeInfo' = [andStateNodeInfo EXCEPT ![m.pe] = @ \cup {m.chare}]
  /\ groupMsgs' = groupMsgs \ {m}
  /\ UNCHANGED <<treeVars, acceptRegistration, nCharesOnMyPe, nLeafCharesOnMyPe>>
  /\ UNCHANGED <<printed, rootPE, verdict, phase>>

\* The CkExit() of the root reaches every PE.
Halt ==
  /\ phase = "exiting"
  /\ phase' = "halted"
  /\ UNCHANGED <<treeVars, groupVars, groupMsgs, rootPE, verdict>>

\* The job is over; without this step TLC would report it as a deadlock.
Over == ~Up /\ UNCHANGED vars

Construct(n, p) ==
  \/ Refuse(n, p)
  \/ StartLeaf(n, p)
  \/ StartDead(n, p)
  \/ StartInternal(n, p)
  \/ TripInternal(n, p)

Next ==
  \/ \E n \in Node, p \in PE : Construct(n, p)
  \/ \E n \in Node : Rerun(n)
  \/ \E m \in finishMsgs : Finish(m)
  \/ \E m \in groupMsgs : SendCounts(m) \/ AndFailed(m)
  \/ Halt
  \/ Over

Spec == Init /\ [][Next]_vars

\* A scheduler with a message to deliver delivers one.
FairSpec == Spec /\ WF_vars(Next)
-----------------------------------------------------------------------------
\* The chares on the path from the root to n, without n.
Ancestors[n \in Node] ==
  IF n = Root THEN {} ELSE {Parent[n]} \cup Ancestors[Parent[n]]

\* An AND chare that has reported failure.
Falsified(n) == Kind[n] = "and" /\ mode[n] = "done" /\ ~Value[n]

\* Nobody waits for n any more: an AND chare above it has failed.
Doomed(n) == \E a \in Node : a \in Ancestors[n] /\ Falsified(a)

\* The ID of an AND chare occurs in no ID but its own and those below it: what
\* registerMe relies on. Nothing in the code sees to it, see RefusedOnlyDoomed.
NestedIDs ==
  \A a, n \in Node :
    Kind[a] = "and" /\ Occurs(nodeID[a], nodeID[n]) => a = n \/ a \in Ancestors[n]

\* Every AND or OR chare creates a child, unless its assertion fails before.
\* With one colour the code does not see to it, see WaitHasReason.
NoneChildless == \A n \in Node \ Trips : Kind[n] \in {"and", "or"} => Kids(n) # {}

\* The children of n whose finish message n has merged.
Merged(n) == {k \in Kids(n) : mode[k] = "done" /\ \A m \in finishMsgs : m.from # k}

\* A finish message carries the value of the tree below its sender, whatever
\* mergeToParent had seen when it answered early (Node.cpp:708-715).
RepliesRight == \A m \in finishMsgs : m.res = Value[m.from]

\* child_finished_ and child_succeed_ count exactly the children whose answer
\* was merged: no answer is lost, none is counted twice (Node.cpp:703-706).
AccountedFor ==
  \A n \in Node :
    /\ child_finished_[n] = Cardinality(Merged(n))
    /\ child_succeed_[n] = Cardinality({k \in Merged(n) : Value[k]})

\* Kill chasing names only AND chares that have reported failure
\* (Node.cpp:717-719): no branch ever learns of another.
KillOnlyFalsified ==
  /\ \A p \in PE : \A a \in andStateNodeInfo[p] : Falsified(a)
  /\ \A m \in groupMsgs : m.type = "andFailed" => Falsified(m.chare)

\* While the job has no verdict, registerMe refuses only chares below a failed
\* AND chare ("And ancestor falsified", graphColor.h:201-203).
RefusedOnlyDoomed ==
  \A n \in Node : mode[n] = "denied" => Doomed(n) \/ verdict # "none"

\* What a branch prints is final: nothing registers on it afterwards, although
\* chares are still being created (graphColor.h:226-236).
PrintedCountsFinal ==
  \A p \in PE : printed[p] # Unprinted =>
    printed[p] = [chares |-> nCharesOnMyPe[p], leaves |-> nLeafCharesOnMyPe[p]]

\* A chare still waited for that waits itself has something to wait for: a
\* child that is still at work, or an answer in flight (graphColor.ci:57-78).
WaitHasReason ==
  \A n \in Node :
    mode[n] = "wait" /\ ~Doomed(n) /\ verdict = "none" =>
      \/ \E k \in Kids(n) : mode[k] \in {"seed", "rerun", "wait"}
      \/ \E m \in finishMsgs : Parent[m.from] = n

\* The promise of a search, given by the root chare.
Promise == INSTANCE ColoringPromise WITH colorable <- Value[Root], answer <- verdict

\* The whole tree of chares implements the promise: one verdict, the value of
\* the AND/OR tree, however the answers, timeouts and kills were interleaved
\* (Node.cpp:748-760).
KeepsPromise == Promise!Spec

\* The job ends: some PE sees CkExit() or a failed assertion.
JobEnds == <>(phase \in {"halted", "aborted"})
=============================================================================
