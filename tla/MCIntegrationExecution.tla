------------------------ MODULE MCIntegrationExecution ------------------------
(* Constants of the TLC runs of IntegrationExecution. *)
EXTENDS IntegrationExecution, TLC

CONSTANTS p1, p2, j1

OnePlan == p1 :> {j1}
TwoPlans == p1 :> {j1} @@ p2 :> {j1}

AnyFault == AllFaults
NoFault == {}

(* Callers and keys are interchangeable: no definition orders them. *)
Symmetry == Permutations(Callers) \cup Permutations(Keys)
=============================================================================
