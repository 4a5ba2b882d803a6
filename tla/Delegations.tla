---------------------------- MODULE Delegations ----------------------------
(***************************************************************************)
(* The delegations of a vote as a map from delegator to delegate           *)
(* (DelegationGraph of node/src/trustee/delegations.rs), and the keys a    *)
(* voter represents: itself, and whoever delegates to a key it represents  *)
(* without having voted.                                                   *)
(***************************************************************************)
EXTENDS Integers, FiniteSets

CONSTANTS
    Key,        \* verifying keys
    Census      \* the keys that may vote, delegate and be delegated to

ASSUME CensusAssumption == IsFiniteSet(Key) /\ Census \subseteq Key

(* What random can draw: a delegate for some of the census. *)
DelegationMaps == UNION {[S -> Census] : S \in SUBSET Census}

(* The adjacency list of k, as a set: its order is that of a hash map. *)
Delegators(map, k) == {d \in DOMAIN map : map[d] = k}

(* A set that k belongs to with everyone who delegates into it unvoted. *)
ClosedFor(map, vs, k, S) ==
    /\ k \in S
    /\ \A m \in S : Delegators(map, m) \ vs \subseteq S

(* The smallest such set. *)
Represented(map, vs, k) ==
    {m \in Key : \A S \in SUBSET Key : ClosedFor(map, vs, k, S) => m \in S}

Weight(map, vs, k) == Cardinality(Represented(map, vs, k))

(* The voter found by following the delegations up from k; none when they  *)
(* end or run in a circle without reaching one.                            *)
NearestVoter(map, vs, none) ==
    LET up[n \in 0..Cardinality(Key)] ==
            [k \in Key |-> IF k \in vs THEN k
                           ELSE IF n = 0 \/ k \notin DOMAIN map THEN none
                           ELSE up[n-1][map[k]]]
    IN  up[Cardinality(Key)]
=============================================================================
