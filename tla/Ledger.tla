------------------------------- MODULE Ledger -------------------------------
(***************************************************************************)
(* What synchronisation promises to the users of a chain: every node has a *)
(* log of blocks that starts at genesis, each naming the one before it.    *)
(* A log changes in two ways: its node appends a block, or it becomes an   *)
(* offer, which is what the log of some node was a while ago, and no       *)
(* shorter.  There is no promise any more when chains have raced.          *)
(***************************************************************************)
EXTENDS Chain

CONSTANT Node

VARIABLES
    log,      \* node -> its blocks
    offers,   \* logs on their way between nodes
    broken    \* has a log changed between being compared and being replaced?

Init ==
    /\ log = [n \in Node |-> <<GenesisBlock>>]
    /\ offers = {}
    /\ broken = FALSE

Others(n) == \A m \in Node \ {n} : log'[m] = log[m]

(* n appends a block. *)
Extend(n) ==
    /\ Len(log'[n]) = Len(log[n]) + 1
    /\ Front(log'[n]) = log[n]
    /\ IsValid(Last(log'[n]), Last(log[n]))
    /\ Others(n)
    /\ offers' \subseteq offers
    /\ UNCHANGED broken

(* Nodes offer their logs, and offers are lost. *)
Offer ==
    /\ offers' \subseteq offers \cup {log[n] : n \in Node}
    /\ UNCHANGED <<log, broken>>

(* n takes an offer that is at least as long as its log. *)
Adopt(n) ==
    /\ log'[n] \in offers
    /\ Len(log'[n]) >= Len(log[n])
    /\ Others(n)
    /\ offers' \subseteq offers
    /\ UNCHANGED broken

Break == broken'

Next == Break \/ Offer \/ \E n \in Node : Extend(n) \/ Adopt(n)

Spec == Init /\ [][Next]_<<log, offers, broken>>
=============================================================================
