----------------------------- MODULE Blockchain -----------------------------
(***************************************************************************)
(* The chain of one node, as its callers see it: every call that changes   *)
(* it, made with the chain's lock held and therefore one action, and the   *)
(* restart of the node.  Callers are the gossip handler (main.rs:313), the *)
(* --test-append loop (main.rs:234) and the sync initiator                 *)
(* (protocol.rs:75).                                                       *)
(***************************************************************************)
EXTENDS Chain

CONSTANTS
    Fragment,   \* calls of try_update_longest: [fork_index, blocks]
    MaxHeight,  \* bound: ballots and test blocks stop arriving at this height
    MaxPool     \* bound: ballots and updates stop arriving at this pool length

(* send_sync pushes a block before it calls try_update_longest, so blocks  *)
(* is not empty.  fork_index is a height the initiator had, at least 1.    *)
ASSUME FragmentAssumption ==
    \A f \in Fragment :
        /\ f.fork_index \in Nat \ {0}
        /\ Len(f.blocks) \in Nat \ {0}
        /\ f.blocks = [k \in 1..Len(f.blocks) |-> f.blocks[k]]
        /\ \A k \in 1..Len(f.blocks) : IsBlock(f.blocks[k])

VARIABLE chain

Init == chain = Open([i \in {} |-> GenesisBlock])

(* A ballot arrives by gossip. *)
ReceiveBallot(ballot) ==
    /\ chain.height < MaxHeight
    /\ Len(chain.ballot_pool) < MaxPool
    /\ \E ts \in Timestamp, committed \in BOOLEAN :
           chain' = PoolBallot(chain, ballot, ts, committed)

(* The --test-append loop offers append a block of one ballot that it      *)
(* built on the block at the index it has reached: the head, or a block    *)
(* left over above it, on which append refuses to build.                   *)
AppendBlock(i, ballot) ==
    /\ i >= chain.height
    /\ chain.height < MaxHeight
    /\ \E ts \in Timestamp, committed \in BOOLEAN :
           chain' = TryAppend(chain, NewBlock(chain.db[i], ts, <<ballot>>), committed)

UpdateLongest(fork, bs, committed) ==
    /\ Len(chain.ballot_pool) < MaxPool
    /\ chain' = TryUpdateLongest(chain, fork, bs, committed)

(* The process stops and opens the same store again. *)
Restart == chain' = Open(chain.db)

Next ==
    \/ \E ballot \in Ballot : ReceiveBallot(ballot)
    \/ \E i \in DOMAIN chain.db, ballot \in Ballot : AppendBlock(i, ballot)
    \/ \E f \in Fragment, committed \in BOOLEAN :
           UpdateLongest(f.fork_index, f.blocks, committed)
    \/ Restart

Spec == Init /\ [][Next]_chain

----------------------------------------------------------------------------
(* Type invariant: table, height and pool hold what chain.rs:22 declares. *)
TypeOK == StoreOK(chain) /\ BlocksOK(chain) /\ PoolOK(chain)

(* A node whose head block cannot be read (so that every new ballot block  *)
(* is dropped and Display, Debug and send_sync panic) still stores a block *)
(* above its head: counting the table on start (chain.rs:72-90) only names *)
(* a missing block when an old head was left behind.                       *)
UnreadableHeadHasOrphan ==
    ~HasBlock(chain, chain.height) => \E i \in DOMAIN chain.db : i > chain.height

Appends ==
    \E ballot \in Ballot : ReceiveBallot(ballot) \/ \E i \in DOMAIN chain.db : AppendBlock(i, ballot)

(* Whatever is called with whatever arguments, a chain that is linked and  *)
(* has no block left over stays linked: append and try_update_longest      *)
(* check enough, and a restart finds the head again.  Appending keeps the  *)
(* links above left-over blocks too, also a block that was built on one.   *)
KeepsIntegrity ==
    [][Linked(chain) /\ (Clean(chain) \/ Appends) => Linked(chain')]_chain

(* A block is left over above the head only by a step that made the chain  *)
(* shorter, which try_update_longest does not rule out (chain.rs:174       *)
(* strips up to the head, exclusive).                                      *)
OrphanNeedsShrink ==
    [][Clean(chain) => Clean(chain') \/ chain'.height < chain.height]_chain

(* A node that crashes with a clean table comes back with the chain it     *)
(* had: the height is volatile and is recomputed by counting blocks.       *)
RestartKeepsChain ==
    [][Restart /\ Clean(chain) =>
           chain'.db = chain.db /\ chain'.height = chain.height]_chain

(* As long as the process runs, the head can be read and blocks can be     *)
(* written, whether updates commit or not, the only ballots a node can     *)
(* forget are those of the head block: every ballot in the pool or in a    *)
(* block below the head stays in the pool or on the chain, whatever chain  *)
(* replaces its own.                                                       *)
ForgetsOnlyHead ==
    [][/\ HasBlock(chain, chain.height)
       /\ \/ \E b \in Ballot, ts \in Timestamp : chain' = PoolBallot(chain, b, ts, TRUE)
          \/ \E f \in Fragment, committed \in BOOLEAN :
                 UpdateLongest(f.fork_index, f.blocks, committed)
       => InPool(chain) \cup BallotsIn(chain, 1..(chain.height - 1))
            \subseteq InPool(chain') \cup OnChain(chain')]_chain

(* All but the newest BlockSize - 1 ballots of a pool.                     *)
OldBallots(c) == SubSeq(c.ballot_pool, 1, Len(c.ballot_pool) - BlockSize + 1)

(* Until the node restarts, its old ballots stay in the pool in the order  *)
(* they have, whatever is called and whatever fails: they are never put    *)
(* into a block (split_off takes the newest), and when the head cannot be  *)
(* read or a write fails, what is lost is newer than they are.             *)
OldBallotsStay ==
    [][~Restart => IsPrefix(OldBallots(chain), chain'.ballot_pool)]_chain

(* chain.rs:172 says of the blocks stripped by try_update_longest that     *)
(* their lost votes are appended to the ballot pool: when a longer chain   *)
(* replaces the node's, no ballot of the old chain is neither on the new   *)
(* one nor in the pool.                                                    *)
LostVotesPooled ==
    [][(\E f \in Fragment : UpdateLongest(f.fork_index, f.blocks, TRUE))
         /\ chain'.height > chain.height
       => OnChain(chain) \subseteq InPool(chain') \cup OnChain(chain')]_chain
=============================================================================
