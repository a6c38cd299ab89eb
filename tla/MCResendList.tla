---------------------------- MODULE MCResendList ----------------------------
(***************************************************************************)
(* Instances of ResendList with three nodes: the least with which a node   *)
(* is unlinked between two others.                                         *)
(***************************************************************************)
EXTENDS ResendList, TLC

CONSTANTS n1, n2, n3

ThreeNodes == {n1, n2, n3}
AnyNode == Permutations(ThreeNodes)
=============================================================================
