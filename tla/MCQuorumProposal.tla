-------------------------- MODULE MCQuorumProposal --------------------------
(***************************************************************************)
(* Four proposers, half of them wanted, as ProposeAsync chooses by default *)
(* for an even range: ties, and answers that come after the verdict.       *)
(***************************************************************************)
EXTENDS QuorumProposal
=============================================================================
