---------------------------- MODULE ColoringPromise ----------------------------
(***************************************************************************)
(* What a search for a colouring promises whoever waits for it: one        *)
(* answer, the right one. The tree of chares (SearchTree) and the          *)
(* sequential search of one chare (LocalSearch) both implement it.         *)
(***************************************************************************)
VARIABLES
  colorable,  \* whether there is a colouring
  answer      \* "none", "success" or "failure"

Init ==
  /\ colorable \in BOOLEAN
  /\ answer = "none"

Reply ==
  /\ answer = "none"
  /\ answer' = IF colorable THEN "success" ELSE "failure"
  /\ UNCHANGED colorable

Spec == Init /\ [][Reply]_<<colorable, answer>>

\* The answer comes.
FairSpec == Spec /\ WF_<<colorable, answer>>(Reply)
=============================================================================
