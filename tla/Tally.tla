------------------------------- MODULE Tally -------------------------------
(***************************************************************************)
(* The result of a vote, computed from a chain (generate_vote_result of    *)
(* node/src/trustee/resolve.rs, on the ballots of lib/src/lib.rs).         *)
(*                                                                         *)
(* Here a ballot is a record with at least signer, timestamp and verdict.  *)
(* Its two Paillier ciphertexts stand for 1 and 0, or 0 and 1; they are    *)
(* only multiplied by a weight and added up, which the encryption commutes *)
(* with, so the sums are taken of the plaintexts.                          *)
(***************************************************************************)
EXTENDS Chain, Delegations

ASSUME BallotAssumption == \A b \in Ballot : b.timestamp \in Int /\ b.verdict \in BOOLEAN

(* Blockchain::blocks() unwraps every block it reads; they are there when  *)
(* the next holds.                                                         *)
CanReadBlocks(c) == \A i \in 1..(c.height - 1) : HasBlock(c, i)

BlocksReadBug(c) == [i \in 1..c.height |-> c.db[i]]

(* The range of Blockchain::blocks() stops below the head. *)
BlocksRead(c) == [i \in 1..(c.height - 1) |-> c.db[i]]

BallotsRead(c) ==
    FlattenSeq([i \in 1..Len(BlocksRead(c)) |-> BlocksRead(c)[i].ballots])

EntryBug(counted, ballot) ==
    [v \in DOMAIN counted \cup {ballot.signer} |->
        IF v = ballot.signer THEN ballot ELSE counted[v]]

(* A ballot replaces the one counted for its signer when it is newer. *)
Entry(counted, ballot) ==
    IF ballot.signer \in DOMAIN counted
    THEN IF ballot.timestamp > counted[ballot.signer].timestamp
         THEN [counted EXCEPT ![ballot.signer] = ballot] ELSE counted
    ELSE [v \in DOMAIN counted \cup {ballot.signer} |->
             IF v = ballot.signer THEN ballot ELSE counted[v]]

(* The loop over the blocks: voter -> ballot. *)
CountedBallots(c) == FoldLeft(Entry, [v \in {} |-> 0], BallotsRead(c))

VoterSet(c) == {b.signer : b \in ToSet(BallotsRead(c))}

VotesFor(ballot) == IF ballot.verdict THEN 1 ELSE 0
VotesAgainst(ballot) == IF ballot.verdict THEN 0 ELSE 1

Weighted(votes, weight) == votes * weight

(* The sum of every counted ballot, multiplied by the weight of its voter. *)
(* The vote passes when this sum is greater than the one against.          *)
ResultFor(c, map) ==
    LET counted == CountedBallots(c)
    IN  MapThenSumSet(LAMBDA v : Weighted(VotesFor(counted[v]), Weight(map, VoterSet(c), v)),
                      DOMAIN counted)

ResultAgainst(c, map) ==
    LET counted == CountedBallots(c)
    IN  MapThenSumSet(LAMBDA v : Weighted(VotesAgainst(counted[v]), Weight(map, VoterSet(c), v)),
                      DOMAIN counted)
=============================================================================
