---------------------------- MODULE PolicyWindows ----------------------------
(***************************************************************************)
(* Where and when a credit policy applies: the applicability of             *)
(* services/decision (domain/value_objects/policy.py), the comparison by    *)
(* which the policy repository keeps two published policies apart and the   *)
(* one by which the service selects a policy for a decision.                *)
(***************************************************************************)
EXTENDS Integers

CONSTANTS
    Products,   \* product types
    Channels,   \* channels of a proposal
    Instants,   \* instants of the windows and of the decisions
    MaxInstant, \* datetime.max
    None        \* absence of an instant or of a stored value

ASSUME InstantsAssumption ==
    /\ Instants \subseteq Int
    /\ MaxInstant \in Int
    /\ \A t \in Instants : t < MaxInstant
    /\ None \notin Int

(* An applicability together with the product of its policy.  No channels    *)
(* means every channel.                                                      *)
Windows ==
    {w \in [product : Products, channels : SUBSET Channels,
            start : Instants \cup {None}, end : Instants \cup {None}] :
        w.start # None /\ w.end # None => w.start < w.end}

AppliesToChannel(w, channel) == w.channels = {} \/ channel \in w.channels

IsEffective(w, t) ==
    /\ w.start # None
    /\ w.start <= t
    /\ w.end = None \/ t < w.end

(* What _select_published_policy asks of a policy. *)
AppliesTo(w, product, channel, t) ==
    w.product = product /\ AppliesToChannel(w, channel) /\ IsEffective(w, t)

(* Mutation: no channels means no channel. *)
SharedChannelsOnly(v, w) == v.channels \cap w.channels # {}

ChannelsOverlap(v, w) ==
    v.channels = {} \/ w.channels = {} \/ v.channels \cap w.channels # {}

EndOf(w) == IF w.end = None THEN MaxInstant ELSE w.end

WindowsOverlap(v, w) ==
    /\ ChannelsOverlap(v, w)
    /\ v.start # None /\ w.start # None => v.start < EndOf(w) /\ w.start < EndOf(v)

(* What publish_if_no_window_conflict forbids two published policies. *)
Conflict(v, w) == v.product = w.product /\ WindowsOverlap(v, w)
=============================================================================
