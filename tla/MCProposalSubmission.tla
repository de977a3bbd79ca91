------------------------- MODULE MCProposalSubmission -------------------------
(* Constants of the TLC runs of ProposalSubmission *)
EXTENDS ProposalSubmission, TLC

(* Callers, scopes and external ids are interchangeable. *)
Symmetry == Permutations(Callers) \cup Permutations(Scopes) \cup Permutations(Externals)
=============================================================================
