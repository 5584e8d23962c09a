----------------------------- MODULE MCRaftWrapper -----------------------------
(* Three nodes that play the same part.  Once the driver has set a commit index *)
(* that no majority stands behind, everything is lost: such a state is checked, *)
(* what may follow it is not.                                                   *)
EXTENDS RaftWrapper, TLC

Symmetry == Permutations(Node)

Explored == "commit" \notin slips
================================================================================
