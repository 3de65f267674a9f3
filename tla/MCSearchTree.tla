----------------------------- MODULE MCSearchTree -----------------------------
(***************************************************************************)
(* Small search trees for SearchTree. A chare is named by the path from    *)
(* the root, which is its ID as long as no chare has more than ten         *)
(* children; a tree maps a path to <<kind, value, iterations>>.            *)
(***************************************************************************)
EXTENDS SearchTree, TLC

CONSTANT Tree

MCNode == DOMAIN Tree
MCRoot == <<0>>
MCParent == [n \in MCNode \ {MCRoot} |-> SubSeq(n, 1, Len(n) - 1)]
MCKind == [n \in MCNode |-> Tree[n][1]]
MCValue == [n \in MCNode |-> Tree[n][2]]
MCWork == [n \in MCNode |-> Tree[n][3]]
MCNodeID == [n \in MCNode |-> n]

\* An AND chare that fails while its other subtree is still being created,
\* beside a leaf that finds the colouring after several timeouts. Two chares of
\* that subtree may end the job before, see MCTrips.
KillTree ==
  <<0>>          :> <<"or",   TRUE,  0>> @@
  <<0, 0>>       :> <<"and",  FALSE, 0>> @@
  <<0, 0, 0>>    :> <<"or",   TRUE,  0>> @@
  <<0, 0, 0, 0>> :> <<"leaf", TRUE,  0>> @@
  <<0, 0, 0, 1>> :> <<"leaf", FALSE, 1>> @@
  <<0, 0, 0, 2>> :> <<"or",   FALSE, 0>> @@
  <<0, 0, 1>>    :> <<"dead", FALSE, 0>> @@
  <<0, 1>>       :> <<"leaf", TRUE,  2>>

\* A leaf and an internal chare that are created without a vertex to colour.
MCTrips == {<<0, 0, 0, 1>>, <<0, 0, 0, 2>>}

\* The hypotheses under which it is proved that nobody is refused without reason
\* or waits in vain hold in this tree.
ASSUME NestedIDs /\ NoneChildless
=============================================================================
