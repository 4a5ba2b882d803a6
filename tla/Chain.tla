------------------------------- MODULE Chain -------------------------------
(***************************************************************************)
(* Blocks and the chain a node keeps (node/src/votechain/block.rs and      *)
(* chain.rs), as values: a chain is a record                               *)
(*   db          - the LMDB table, block index -> block; it survives a     *)
(*                 crash, and every write to it is one transaction         *)
(*   height      - metadata.height, in memory                              *)
(*   ballot_pool - ballots that are in no block yet, in memory             *)
(* and each operation of the Rust type Blockchain is an operator that      *)
(* returns the chain it leaves behind.  Blockchain.tla turns them into the *)
(* actions of one node, ChainSync.tla into those of a network.             *)
(*                                                                         *)
(* An operator whose name is another's followed by Bug (or Short, Silent)  *)
(* is a plausible mistake in that one; no specification uses it.           *)
(***************************************************************************)
EXTENDS Integers, FiniteSets, SequencesExt

CONSTANTS
    Ballot,     \* signed ballots, compared by content
    Timestamp,  \* clock readings a new block can carry
    BlockSize   \* BLOCK_SIZE: ballots moved from the pool into a block

ASSUME BlockSizeAssumption == BlockSize \in Nat \ {0}
ASSUME TimestampAssumption == Timestamp \subseteq Nat \ {0}

----------------------------------------------------------------------------
(* Blocks.  Neither the hash nor any check of this code reads signatory,   *)
(* signature or nonce, so a block is what is hashed: its time, the hash of *)
(* its predecessor and its ballots.  The hash is taken to be injective.    *)

HashBug(b) == <<b.timestamp, b.ballots>>

Hash(b) == <<b.timestamp, b.previous_hash, b.ballots>>

GenesisBlock == [timestamp |-> 0, previous_hash |-> <<>>, ballots |-> <<>>]

NewBlock(prev, ts, ballots) ==
    [timestamp |-> ts, previous_hash |-> Hash(prev), ballots |-> ballots]

IsValidBug(b, prev) == TRUE

IsValid(b, prev) == b.previous_hash = Hash(prev)

IsValidChain(bs) == \A i \in 1..(Len(bs) - 1) : IsValid(bs[i+1], bs[i])

IsBlock(b) ==
    /\ b = [timestamp |-> b.timestamp, previous_hash |-> b.previous_hash,
            ballots |-> b.ballots]
    /\ b.timestamp \in Nat
    /\ b.ballots \in Seq(Ballot)

----------------------------------------------------------------------------
(* Opening the store and reading it. *)

OpenBug(db) ==
    IF DOMAIN db = {}
    THEN [db |-> [i \in {1} |-> GenesisBlock], height |-> 1, ballot_pool |-> <<>>]
    ELSE [db |-> db, height |-> Cardinality(DOMAIN db) - 1, ballot_pool |-> <<>>]

Open(db) ==
    IF DOMAIN db = {}
    THEN [db |-> [i \in {1} |-> GenesisBlock], height |-> 1, ballot_pool |-> <<>>]
    ELSE [db |-> db, height |-> Cardinality(DOMAIN db), ballot_pool |-> <<>>]

HasBlock(c, i) == i \in DOMAIN c.db

BlocksFromBug(c, start) ==
    [k \in 1..(c.height - start) |-> c.db[start + k]]

BlocksFromShort(c, start) ==
    [k \in 1..(c.height - start) |-> c.db[start + k - 1]]

(* The blocks from index start to the head; empty when one is missing,     *)
(* which is how recv_sync treats the error.                                *)
BlocksFrom(c, start) ==
    IF \A i \in start..c.height : HasBlock(c, i)
    THEN [k \in 1..(c.height - start + 1) |-> c.db[start + k - 1]]
    ELSE <<>>

----------------------------------------------------------------------------
(* Appending a block, and pooling a ballot.  committed says whether the    *)
(* write transaction went through (it does not when the 10 MiB map is full *)
(* or the disk fails).                                                     *)

WithBlocks(c, db, height) ==
    [db |-> db, height |-> height, ballot_pool |-> c.ballot_pool]

Appended(c, b) ==
    WithBlocks(c, [i \in DOMAIN c.db \cup {c.height + 1} |->
                      IF i = c.height + 1 THEN b ELSE c.db[i]],
               c.height + 1)

AcceptsBlock(c, b) == HasBlock(c, c.height) /\ IsValid(b, c.db[c.height])

TryAppend(c, b, committed) ==
    IF AcceptsBlock(c, b) /\ committed THEN Appended(c, b) ELSE c

SplitOff(pool) == SubSeq(pool, Len(pool) - BlockSize + 1, Len(pool))
RemainingBug(pool) == pool
Remaining(pool) == SubSeq(pool, 1, Len(pool) - BlockSize)

PoolBallotBug(c, ballot, ts, committed) ==
    LET pool == Append(c.ballot_pool, ballot)
    IN  IF Len(pool) < BlockSize
        THEN [c EXCEPT !.ballot_pool = pool]
        ELSE TryAppend([c EXCEPT !.ballot_pool = <<>>],
                       NewBlock(c.db[c.height], ts, SplitOff(pool)), committed)

(* The newest BlockSize ballots go into the block.  They are split off     *)
(* before the head is read and the result of append is dropped, so they    *)
(* are gone when either fails.                                             *)
PoolBallot(c, ballot, ts, committed) ==
    LET pool == Append(c.ballot_pool, ballot)
        rest == [c EXCEPT !.ballot_pool = Remaining(pool)]
    IN  IF Len(pool) < BlockSize THEN [c EXCEPT !.ballot_pool = pool]
        ELSE IF ~HasBlock(c, c.height) THEN rest
        ELSE TryAppend(rest, NewBlock(c.db[c.height], ts, SplitOff(pool)), committed)

----------------------------------------------------------------------------
(* Replacing the end of the chain with a peer's.                           *)

AcceptsForkBug(c, fork, bs) == HasBlock(c, fork) /\ IsValidChain(bs)

AcceptsFork(c, fork, bs) ==
    /\ HasBlock(c, fork)
    /\ Hash(bs[1]) = Hash(c.db[fork])
    /\ IsValidChain(bs)

(* The range the code strips stops short of the head: fork..height - 1. *)
Stripped(c, fork) == fork..(c.height - 1)

LostBallotsBug(c, fork) ==
    FlattenSeq([k \in 1..(c.height - fork - 1) |->
                   IF HasBlock(c, fork + k - 1) THEN c.db[fork + k - 1].ballots
                   ELSE <<>>])

LostBallots(c, fork) ==
    FlattenSeq([k \in 1..(c.height - fork) |->
                   IF HasBlock(c, fork + k - 1) THEN c.db[fork + k - 1].ballots
                   ELSE <<>>])

ReplacedBug(c, fork, bs) ==
    LET written == (fork + 1)..(fork + Len(bs) - 1)
    IN  [i \in (DOMAIN c.db \ Stripped(c, fork)) \cup written |->
            IF i \in written THEN bs[i - fork + 1] ELSE c.db[i]]

Replaced(c, fork, bs) ==
    LET written == fork..(fork + Len(bs) - 1)
        kept    == DOMAIN c.db \ Stripped(c, fork)
    IN  [i \in kept \cup written |->
            IF i \in written THEN bs[i - fork + 1] ELSE c.db[i]]

TryUpdateLongestBug(c, fork, bs, committed) ==
    IF AcceptsFork(c, fork, bs) /\ committed
    THEN WithBlocks(c, Replaced(c, fork, bs), fork + Len(bs))
    ELSE c

(* The pool is in memory and keeps the lost ballots even when the          *)
(* transaction that stripped their blocks does not commit.                 *)
TryUpdateLongest(c, fork, bs, committed) ==
    LET pooled == [c EXCEPT !.ballot_pool = c.ballot_pool \o LostBallots(c, fork)]
    IN  IF ~AcceptsFork(c, fork, bs) THEN c
        ELSE IF ~committed THEN pooled
        ELSE WithBlocks(pooled, Replaced(c, fork, bs), fork + Len(bs) - 1)

----------------------------------------------------------------------------
(* What the properties say of a chain. *)

(* The table holds exactly the blocks 1..height: nothing is missing and no *)
(* block is left over above the head.                                      *)
Clean(c) == DOMAIN c.db = 1..c.height

(* Every block up to the head is there and names its predecessor's hash.   *)
Linked(c) ==
    \A i \in 2..c.height :
        /\ HasBlock(c, i) /\ HasBlock(c, i - 1)
        /\ IsValid(c.db[i], c.db[i-1])

BallotsIn(c, indices) ==
    UNION {ToSet(c.db[i].ballots) : i \in indices \cap DOMAIN c.db}

OnChain(c) == BallotsIn(c, 1..c.height)
InPool(c) == ToSet(c.ballot_pool)

(* The shape of a chain, what its blocks hold and what its pool holds. *)
StoreOK(c) ==
    /\ c = [db |-> c.db, height |-> c.height, ballot_pool |-> c.ballot_pool]
    /\ c.db = [i \in DOMAIN c.db |-> c.db[i]]
    /\ DOMAIN c.db \subseteq Nat \ {0}
    /\ DOMAIN c.db # {}
    /\ IsFiniteSet(DOMAIN c.db)
    /\ c.height \in Nat \ {0}

BlocksOK(c) == \A i \in DOMAIN c.db : IsBlock(c.db[i])

PoolOK(c) == c.ballot_pool \in Seq(Ballot)
=============================================================================
