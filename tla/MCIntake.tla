--------------------------------- MODULE MCIntake ---------------------------------
(***************************************************************************)
(* Two instances of ProposalSubmission for one run: a behaviour either     *)
(* mixes the three entry points under every fault, with one body, or has   *)
(* locked calls alone, whose deletions do not raise.                       *)
(***************************************************************************)
EXTENDS MCProposalSubmission

CONSTANT MixedBodies

VARIABLE locked  \* whether all calls are locked ones

Locked == INSTANCE ProposalSubmission WITH Entries <- {"full"}, Faults <- {"save_raises"}

Mixed == INSTANCE ProposalSubmission WITH Bodies <- MixedBodies

IntakeInit == Init /\ locked \in BOOLEAN

IntakeNext ==
    /\ UNCHANGED locked
    /\ IF locked THEN Locked!Next ELSE Mixed!Next

IntakeSpec == IntakeInit /\ [][IntakeNext]_<<vars, locked>>

(* Where all calls are locked, a failure leaves nothing behind: proposal,     *)
(* submission, status and event are all there or all gone between calls of    *)
(* submit_with_initial_status_and_outbox.                                     *)
LockedAllOrNothing == locked => AllOrNothing
=============================================================================
