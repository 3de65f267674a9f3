------------------------------ MODULE MCPriority ------------------------------
(***************************************************************************)
(* Priority with words of a few bits, so that three levels of the tree     *)
(* fill and cross them in every way.                                       *)
(***************************************************************************)
EXTENDS Priority

\* From the children that need no bits to those that need all but one of a word.
FewKids == {1, 2, 6}
=============================================================================
