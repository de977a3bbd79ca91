--------------------------- MODULE MCReviewExecution ---------------------------
(* Constants of the TLC runs of ReviewExecution. *)
EXTENDS ReviewExecution, TLC

CONSTANTS fits, other, s1

MCScopesOf == fits :> {s1} @@ other :> {}

Clean == [i \in DOMAIN Checks |-> "none"]

Item(ref, type) == [ref |-> ref, type |-> type, fit |-> TRUE, flaws |-> Clean]

Output(items) ==
    [raises |-> FALSE, completed |-> TRUE, legacy |-> FALSE, usage |-> TRUE, items |-> items]

(* One output that is accepted, one that is refused, and a failure. *)
MCOutputs ==
    {Output(<<Item("a", "limitation"), Item("b", "missing_data")>>),
     Output(<<Item("a", "limitation"), Item("a", "missing_data")>>),
     [Output(<<>>) EXCEPT !.raises = TRUE]}
=============================================================================
