----------------------------- MODULE MCPolicyChanges -----------------------------
(***************************************************************************)
(* Two instances of PolicyLifecycle for one run: either all operations,    *)
(* where the changes whose audit is compensated are audited, or the        *)
(* changes of one content, where every audit may fail.                     *)
(***************************************************************************)
EXTENDS MCPolicyLifecycle

CONSTANT FewContents

VARIABLE compensating  \* whether the audits of drafts and updates may fail

Steady == INSTANCE PolicyLifecycle WITH
    Faults <- {"validation", "simulation_audit", "commit_audit"}

Compensating == INSTANCE PolicyLifecycle WITH
    Contents <- FewContents,
    Operations <- {"draft", "update", "simulate", "publish"},
    Faults <- {"draft_audit", "update_audit", "simulation_audit", "commit_audit"}

ChangesInit == Init /\ compensating \in BOOLEAN

ChangesNext ==
    /\ UNCHANGED compensating
    /\ IF compensating THEN Compensating!Next ELSE Steady!Next

ChangesSpec == ChangesInit /\ [][ChangesNext]_<<vars, compensating>>

(* Where no change of a policy is taken back, what a caller was told of a     *)
(* policy is what is stored, or older (restore_if_current, expected_revision),*)
(* and the policy of every decision is stored as it was when it decided.      *)
SteadyChangesKept == ~compensating => AcceptedKept /\ DecisionsExplained

(* Where no change of a policy is taken back, what is published was simulated *)
(* with that content and without issues (_require_publication_simulation).    *)
SteadyPublishedWasSimulated == ~compensating => PublishedWasSimulated
=============================================================================
