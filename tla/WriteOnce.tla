------------------------------- MODULE WriteOnce -------------------------------
(***************************************************************************)
(* What the stores of evidence promise: a name is bound to a value once    *)
(* and keeps it.  A binding is a pair <<name, value>>.                     *)
(***************************************************************************)
VARIABLE bound

Init == bound = {}

Bind ==
    \E b \in bound' :
        /\ \A a \in bound : a[1] # b[1]
        /\ bound' = bound \cup {b}

Spec == Init /\ [][Bind]_bound
=============================================================================
