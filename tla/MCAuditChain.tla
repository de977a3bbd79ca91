----------------------------- MODULE MCAuditChain -----------------------------
(* Constants of the TLC run of AuditChain. *)
EXTENDS AuditChain, TLC

CONSTANTS k1, k2, plain

(* One window, closed from instant 1 on; the clock and the producers go past it. *)
MCWindow == [from |-> 0, to |-> 0]

(* The same export twice would be the same element: a second key, and a *)
(* second retention under the first key, are what an export may differ in. *)
MCRequests ==
    {[window |-> MCWindow, key |-> key, retain |-> retain, terms |-> plain] :
        key \in {k1}, retain \in {2, 3}}
    \cup {[window |-> MCWindow, key |-> k2, retain |-> 3, terms |-> plain]}

MCWindows == {MCWindow}

Symmetry == Permutations(Callers) \cup Permutations(EventIds)
=============================================================================
