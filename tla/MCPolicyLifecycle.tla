-------------------------- MODULE MCPolicyLifecycle --------------------------
(* Constants of the TLC runs of PolicyLifecycle. *)
EXTENDS PolicyLifecycle, TLC

CONSTANTS x, y, z, web

(* x and y overlap on one channel, z follows x.  *)
MCWindowOf ==
    [w \in Contents |->
        CASE w = x -> [product |-> "loan", channels |-> {web}, start |-> 1, end |-> 2]
          [] w = y -> [product |-> "loan", channels |-> {}, start |-> 1, end |-> None]
          [] w = z -> [product |-> "loan", channels |-> {web}, start |-> 2, end |-> None]]

MCProducts == {"loan"}

Symmetry == Permutations(Callers) \cup Permutations(VersionIds) \cup Permutations(SimulationIds)
=============================================================================
