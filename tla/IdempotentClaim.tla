--------------------------- MODULE IdempotentClaim ---------------------------
(***************************************************************************)
(* What an idempotency key promises its users, whichever service offers    *)
(* it: a key is claimed for one request at a time, the claim is settled    *)
(* with one result of that request or abandoned, and a settled key keeps   *)
(* its request and its result.                                             *)
(***************************************************************************)
CONSTANTS Keys, Prints, Results, None

VARIABLES claimed, settled

Init ==
    /\ claimed = [k \in Keys |-> None]
    /\ settled = [k \in Keys |-> None]

Claim(k) ==
    /\ claimed[k] = None /\ settled[k] = None
    /\ \E p \in Prints : claimed' = [claimed EXCEPT ![k] = p]
    /\ UNCHANGED settled

Settle(k) ==
    /\ claimed[k] # None
    /\ \E r \in Results :
        settled' = [settled EXCEPT ![k] = [print |-> claimed[k], outcome |-> r]]
    /\ claimed' = [claimed EXCEPT ![k] = None]

Abandon(k) ==
    /\ claimed[k] # None
    /\ claimed' = [claimed EXCEPT ![k] = None]
    /\ UNCHANGED settled

Next == \E k \in Keys : Claim(k) \/ Settle(k) \/ Abandon(k)

Spec == Init /\ [][Next]_<<claimed, settled>>
=============================================================================
