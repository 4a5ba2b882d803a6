----------------------------- MODULE Delegation -----------------------------
(***************************************************************************)
(* DelegationGraph::generate_weights and resolve_power of                  *)
(* node/src/trustee/delegations.rs: the traversal of the delegations from  *)
(* each voter down, with a stack, a visited set and a counter.  The order  *)
(* in which a hash map or hash set is read is arbitrary: of the voters,    *)
(* and of the delegators in an adjacency list.                             *)
(***************************************************************************)
EXTENDS Delegations, Sequences

CONSTANT None   \* no voter is being resolved

ASSUME NoneAssumption == None \notin Key

VARIABLES
    delegation_map, voters, weights,
    current,        \* the voter resolve_power runs for
    stack, visited, accumulator

traversal == <<current, stack, visited, accumulator>>
vars == <<delegation_map, voters, weights, traversal>>

Abstract == INSTANCE Representation

Init ==
    /\ Abstract!Init
    /\ current = None
    /\ stack = <<>>
    /\ visited = {}
    /\ accumulator = 0

ToResolveBug == {v \in voters \cap DOMAIN delegation_map : v \notin DOMAIN weights}

ToResolve == voters \ DOMAIN weights

(* generate_weights comes to the next voter. *)
Resolve(v) ==
    /\ current = None
    /\ v \in ToResolve
    /\ current' = v
    /\ stack' = <<v>>
    /\ visited' = {}
    /\ accumulator' = 0
    /\ UNCHANGED <<delegation_map, voters, weights>>

(* The sequences that list S, each element once. *)
Listings(S) ==
    {s \in [1..Cardinality(S) -> S] :
        /\ \A i, j \in DOMAIN s : s[i] = s[j] => i = j
        /\ \A x \in S : \E i \in DOMAIN s : s[i] = x}

PushedBug(next) ==
    {child \in Delegators(delegation_map, next) :
        child \notin visited \cup {next}}

PushedAll(next) == Delegators(delegation_map, next)

(* The delegators of next that are pushed: not visited, did not vote. *)
Pushed(next) ==
    {child \in Delegators(delegation_map, next) :
        child \notin visited \cup {next} /\ child \notin voters}

(* One turn of the loop of resolve_power. *)
Visit ==
    LET next == stack[Len(stack)]
        rest == SubSeq(stack, 1, Len(stack) - 1)
    IN  /\ stack # <<>>
        /\ visited' = visited \cup {next}
        /\ accumulator' = accumulator + 1
        /\ \E s \in Listings(Pushed(next)) : stack' = rest \o s
        /\ UNCHANGED <<delegation_map, voters, weights, current>>

ResolvedBug == Cardinality(voters)
ResolvedOthers == accumulator - 1

(* What resolve_power returns. *)
Resolved == accumulator

(* The stack is empty, and the voter's weight is inserted. *)
Insert ==
    /\ current # None
    /\ stack = <<>>
    /\ weights' = Abstract!With(current, Resolved)
    /\ current' = None
    /\ UNCHANGED <<delegation_map, voters, stack, visited, accumulator>>

Next == (\E v \in voters : Resolve(v)) \/ Visit \/ Insert

Spec == Init /\ [][Next]_vars

(* The call is synchronous code: it goes on until it returns. *)
FairSpec == Spec /\ WF_vars(Next)

----------------------------------------------------------------------------
(* Type invariant: the map is what random or new built, and a traversal    *)
(* walks the keys of the delegations and its voter.                        *)
TypeOK ==
    /\ delegation_map \in DelegationMaps
    /\ voters \subseteq Key
    /\ DOMAIN weights \subseteq voters
    /\ \A v \in DOMAIN weights : weights[v] \in 1..Cardinality(Key)
    /\ current \in voters \cup {None}
    /\ stack \in Seq(Key)
    /\ visited \subseteq Key
    /\ accumulator \in Nat

(* The traversal comes to no key twice, although visited is marked when a  *)
(* key is popped and not when it is pushed (delegations.rs:83): no key is  *)
(* on the stack twice or once visited, so the counter counts keys.         *)
NoneTwice ==
    /\ \A i, j \in DOMAIN stack : stack[i] = stack[j] => i = j
    /\ \A i \in DOMAIN stack : stack[i] \notin visited
    /\ accumulator = Cardinality(visited)

(* What the traversal finds from the voters down is what a delegator sees  *)
(* from below: the weight of a voter is the number of keys whose chain of  *)
(* delegates reaches it before any other voter.  So nobody counts twice,   *)
(* and who ends in a cycle without voters does not count.                  *)
NearestVoterCounts ==
    \A v \in DOMAIN weights :
        weights[v] = Cardinality({k \in Key :
                                   NearestVoter(delegation_map, voters, None)[k] = v})

(* The traversal implements Representation: each voter gets the size of    *)
(* the smallest set that is closed under delegation to it.                 *)
Implements == Abstract!Spec

(* The keys the call has come to, for any voter so far.                    *)
Reached ==
    {k \in Key : NearestVoter(delegation_map, voters, None)[k] \in DOMAIN weights}
        \cup (IF current = None THEN {} ELSE visited)

StepsLeft ==
    2 * Cardinality(voters \ DOMAIN weights) + Cardinality(Key \ Reached)
        - (IF current = None THEN 0 ELSE 1)

(* Each turn of the loop comes to a key to which no turn came before, not  *)
(* for another voter either.  So generate_weights returns after at most as *)
(* many turns altogether as there are keys, although resolve_power starts  *)
(* each time with nothing visited.                                         *)
StepsRunDown == [][StepsLeft' \in Nat /\ StepsLeft' < StepsLeft]_vars

(* generate_weights returns, on every delegation map, cycles included, and *)
(* has then resolved every voter.                                          *)
Resolves == <>(DOMAIN weights = voters)
=============================================================================
