--------------------------- MODULE Representation ---------------------------
(***************************************************************************)
(* What generate_weights of node/src/trustee/delegations.rs promises: one  *)
(* voter after another gets as its weight the number of keys it            *)
(* represents.                                                             *)
(***************************************************************************)
EXTENDS Delegations

VARIABLES
    delegation_map, \* delegator -> delegate
    voters,         \* keys that cast a ballot
    weights         \* voter -> weight, of the voters resolved so far

Init ==
    /\ delegation_map \in DelegationMaps
    /\ voters \in SUBSET Key
    /\ weights = [v \in {} |-> 0]

With(v, w) == [u \in DOMAIN weights \cup {v} |-> IF u = v THEN w ELSE weights[u]]

Assign(v) ==
    /\ v \in voters \ DOMAIN weights
    /\ weights' = With(v, Weight(delegation_map, voters, v))
    /\ UNCHANGED <<delegation_map, voters>>

Next == \E v \in voters : Assign(v)

Spec == Init /\ [][Next]_<<delegation_map, voters, weights>>
=============================================================================
