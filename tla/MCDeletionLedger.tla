-------------------------- MODULE MCDeletionLedger --------------------------
(* Instance: two replicas, a file and the directory it is in.               *)
EXTENDS DeletionLedger, TLC

CONSTANTS n1, n2, dir, file

TwoNodes == {n1, n2}
TreePath == {dir, file}
TreeAncestors == dir :> <<dir>> @@ file :> <<file, dir>>
Stamps == 1..2
Symmetric == Permutations(TwoNodes)
=============================================================================
