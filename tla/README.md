# A verification of the votechain node

TLA+ modules, TLC configurations and TLAPS proofs about the Pnyx prototype in
`src/`: a node that collects signed ballots by gossip, puts them into blocks of
a hash chain, synchronises that chain with its peers, and tallies it.

Run `tlc -workers 2 -config <X>.cfg <module>` and `tlapm <module>.tla` in this
directory; `PROJECT.json` lists the runs, the theorems, the source lines each
definition stands for, and, for every property, a mistake in the model that
makes it fail.

## 1. The system

| component | state | operations | source |
|---|---|---|---|
| block | timestamp, previous hash, ballots | new, genesis, hash, is_valid | `votechain/block.rs` |
| chain store | LMDB table index -> block (durable); height, ballot pool, hash index (in memory) | new, append, pool_ballot, try_update_longest, get_block, get_hash_at, blocks_from, blocks | `votechain/chain.rs` |
| sync protocol | per exchange: probed height, block buffer; requests and responses in flight | send_sync (initiator), recv_sync (responder) | `chain_sync/protocol.rs` |
| sync handler | one inbound and one outbound future per connection, event queue | start, replace, poll | `chain_sync/handler.rs` |
| sync behaviour | event queue, set of peers, heartbeat timer | force_sync, heartbeat, connections opened and closed | `chain_sync/behaviour.rs` |
| node main loop | - | gossip handler, --test-append, discovery | `node/src/main.rs` |
| delegations | delegation map, its inverse | generate_weights, resolve_power | `trustee/delegations.rs` |
| tally | - | generate_vote_result | `trustee/resolve.rs` |
| ballots, signatures | - | encrypt, weight, sum, sign, verify | `lib/src/lib.rs` |
| census | set of 20 test identities | contains_voter | `census.rs` |
| client | - | cast one ballot | `client/src/cast.rs` |

A client publishes a ballot on one gossip topic. Every node that gets it checks
signature and census and calls `pool_ballot`; two pooled ballots become a block on
that node's own chain, so chains fork all the time. Heartbeats force syncs:
the initiator offers the hash at its head, goes down while the peer's hash
differs, receives the peer's blocks from the common one on, and replaces the
end of its chain. All of this shares one `Arc<Mutex<Blockchain>>` per node,
which is released at every `await` of the initiator. Above height 4 every
arriving ballot triggers a tally of the local chain with random delegations.

What is hard here, each at its line in `PROJECT.json` under `hazards`:

- *stale reads*: the fork point of a sync is chosen in one critical section and
  used in another, with a growing chain and other syncs between them;
- *crashes*: the height is not stored but counted again from the table;
- *shortening*: nothing compares lengths, and the strip loop spares the head;
- *partial failure*: a write transaction that fails after the pool changed;
- *streams*: preempted futures, broken connections, requests nobody reads, and
  a lock held across sends;
- *wake-ups*: a heartbeat that queues an event and wakes no one;
- *stale sets*: one closed connection forgets a peer that may have another;
- *many copies*: every node tallies a chain of its own making;
- *re-reading*: ballots that are pooled twice, delivered again once gossip has
  forgotten them or reordered by a sync, and a tally that stops below the head;
- *cycles*: delegations that come back to where they started.

What makes the parts correct: the store is correct when its table holds exactly
the blocks up to the head, each naming its predecessor's hash, through failed
writes and crashes, and when no ballot is forgotten; the protocol, when every
exchange can end, and brings a node a chain it can accept and no shorter than
its own; delegations, when every delegator counts once, for the nearest voter up
the chain; the tally, when it counts the latest ballot of each voter.

## 2. The modules

| module | what it is |
|---|---|
| `Chain` | blocks and chains as values; every operation of `Blockchain` as an operator from a chain to a chain |
| `Blockchain` | one node's chain: a variable, and an action for each call and for a restart |
| `ChainSync` | a network of chains and the sync protocol between them, message by message |
| `Ledger` | what synchronisation promises: logs that grow, or become what another log was |
| `SyncLocks` | the same futures again, reduced to who holds and who waits for which lock over streams of limited capacity, and the event loops |
| `SyncBehaviour` | how a node comes to start syncs: peers, event queue, ticker, wake-ups, handlers |
| `Delegations` | delegation maps, and the weight of a voter, as operators |
| `Representation` | what resolving delegations promises: every voter gets its weight |
| `Delegation` | the traversal with stack, visited set and counter |
| `Tally` | the result of a vote as an operator on a chain and a delegation map |
| `VoteNode` | voting nodes: ChainSync with clients' ballots, gossip, pools and tallies |
| `ChainProofs`, `WeightProofs` | lemmas about the operators of `Chain` and `Delegations`, induction, sequences |
| `BlockchainProofs`, `ChainSyncProofs`, `DelegationProofs`, `VoteNodeProofs`, `SyncBehaviourProofs`, `SyncLocksProofs` | the theorems about a component each, and their lemmas |
| `MC...` | constants for TLC |

`Blockchain` and `ChainSync` are built on the operators of `Chain`, and
`VoteNode` on `ChainSync` and `Tally`; `Tally` puts `Delegations` on top of `Chain`; `Delegation` instantiates
`Representation`, and `ChainSync` instantiates `Ledger`, each as its abstract
specification.

**Chain.** A chain is `[db, height, ballot_pool]`, the fields `chain_db`,
`metadata.height` and `ballot_pool` of the code. The hash of a block is the
tuple of what the code feeds to the hasher, so it is injective: collisions of
BLAKE3, and two blocks whose concatenated fields coincide, are outside the
model. Signatory, signature, nonce and proof of work are left out, because
nothing that is modelled reads them. `hash_indexes` is left out: it is filled on
start, never updated, and read only by a function without callers. A parameter
`committed` says whether a write transaction goes through.

**Blockchain.** `ReceiveBallot` is `pool_ballot` as the gossip handler calls it,
`AppendBlock` one turn of the `--test-append` loop, `UpdateLongest`
`try_update_longest` with any fragment from the constant `Fragment`, `Restart`
the loss of memory followed by `Blockchain::new` on the same table. Each call
is made with the lock held, so each is one step. The fragments are not
restricted to those a correct exchange would deliver; that is what ChainSync
adds.

**ChainSync.** `sync[<<n, m>>]` is the exchange that n initiates with m: the
local variables of `send_sync`, the messages in flight, and whether `recv_sync`
is still running. A step is what happens between two releases of a lock:

| action | code |
|---|---|
| `StartSync` | a forced sync is negotiated; `send_sync` reads the height and lets go (protocol.rs:57) |
| `PreemptSync` | the same while an exchange is running, which replaces both futures (handler.rs:87,95) |
| `Ask`, `AskPanics` | the lock is taken again for the hash; the block may be gone (protocol.rs:62) |
| `Answer` | the responder handles one request under its lock (protocol.rs:117-174): no such block, the fragment, or NotFound |
| `ReceiveBlock` | a block that is not the last; the loop then sends its request again |
| `FinishSync` | the last block, and the update (protocol.rs:72-80); a refused one panics and takes the connection down if messages of level INFO are logged (the `unwrap` is an argument of the log call), and ends like an accepted one if not |
| `ReceiveNotFound`, `ReceiveEnd` | one block lower, or the end (protocol.rs:83-99) |
| `ExtendChain`, `Restart`, `Disconnect` | a new block, a crash, a broken connection |

Pools are left out of ChainSync: a block of any payload of the node may appear
at any time, which includes whatever a pool would have delivered. Writes do not
fail there; Blockchain covers that. The history variable `raced` becomes true
when a chain changes while an exchange of its own node, other than the one that
changes it, is running; `shortened` is the set of nodes whose chain once got
shorter. The first excuses much and is needed for what a fragment brings; the
second excuses only the nodes that an update really shortened.

**Ledger.** Every node has a log that starts at genesis. `Extend` appends one
block that names the last one, `Offer` puts any node's whole log on its way or
loses it, `Adopt` makes an offer the log of a node if it is no shorter, and
`Break` ends all promises. ChainSync maps a chain to the log of its blocks,
`raced` to `broken`, and an exchange whose responses have begun to arrive to the
offer that consists of the initiator's own blocks below the fork, the buffer and
what is underway. That this is the *peer's* log is the point: the blocks below
the fork are never sent.

**SyncLocks.** One chain's lock is an `async_std::sync::Mutex`: `owner` is the future that
keeps it across an `await`. `Ask`/`Asked` is the statement that takes the lock
and sends the request before the guard is dropped (protocol.rs:62-65),
`Lookup`/`SendNotFound`/`SendBlock` the responder, which keeps the lock while it
sends; `ReadHeight` and `Update` take and release the lock in one step. The
event loop waits for the lock in `pool_ballot`, `try_resolve` and after its
delay; `waits[n]` says how often it still must before it polls the swarm again.
Assumed of libraries: the task of a connection, and both futures in it, are
polled whenever they can go on; requests are small and never fill their stream,
responses do after `Window` of them; a new stream replaces the futures of both
ends in one step (`Negotiated`).

**SyncBehaviour.** `poll()` and its callbacks, with what drives them: the swarm
gives events to handlers and drops those for peers without a connection; the
ticker wakes the task that polled it last while it was not due, once; gossipsub
wakes the event loop by a timer of its own (`OtherWake`). Each pass of `poll()`
is an action: `PollEvent` (the newest event), `PollHeartbeat`, `PollLonely`,
`PollIdle`. `announced` and `overlapped` are history.

**Delegations, Representation, Delegation.** `Representation` sets the weight of
one voter after another to the size of the smallest set that contains the voter
and, with a key, its delegators that did not vote. `Delegation` is the code: one
turn of the loop is `Visit`, the order in which a list of delegators or the set
of voters is read is arbitrary. On the way the module shows that the check of
`visited` at push time decides nothing: the traversal starts at a voter, no voter
is pushed, and a key has one delegate, so a non-voter can be met once only.

**Tally, VoteNode.** A ballot is signer, time, verdict and whether its
signature is valid; its ciphertexts are only multiplied by a weight and added,
which encryption commutes with, so sums are taken of the plaintexts. The
delegations of a tally are drawn from `Drawn`, anew for every tally
(behaviour.rs:79).

VoteNode is ChainSync with pools. Its steps are the steps of ChainSync, with the
chain unlocked wherever `send_sync` unlocks it, and three of the event loop. The
ballots of a block, which ChainSync leaves open, come from the variable `pool`:
`Receive` is the gossip handler up to `pool_ballot`, `Adopt` is `FinishSync` with
the pooling of what is stripped, `Reopen` is `Restart` with an empty pool, and
`Exchange` is any other step of an exchange. The gossip handler is two steps
because it takes the lock twice: between `Receive` and `TryResolve` exchanges go
on. `TryResolve` logs a result and changes nothing, so that the properties speak
of the state it reads; when a block it unwraps is missing the process ends, which
is the first half of a `Reopen`. Gossip drops a message it has delivered, but
its memory of that is limited in time (main.rs:59-65 leaves the default), so
`Receive` may deliver one again at any time; `heard` counts how often, and
`Copies` bounds it. `steady` are the nodes that neither adopted a chain nor
restarted. `--test-append` is off.

## 3. The runs

| run | instance | shows |
|---|---|---|
| `store` | 3 ballots, blocks of 2, local heights to 3, fragments of all chains of up to 3 blocks over 2 contents, 44 323 states | links survive every call on a clean table; left-over blocks come only from shortening; a restart finds a clean chain again; only a replaced head's ballots are forgotten; old ballots stay in the pool |
| `store_lost_votes` | the same, pools of 2 | violated: ballots of a replaced head are lost |
| `sync` | 2 nodes, both directions, heights to 3, 89 079 states | integrity, growth, acceptance and the Ledger unless raced; no exchange stalls, and every step leaves less of it; only a lower responder returns without a block |
| `sync_two_peers` | 3 nodes, one with two exchanges, heights to 3, 44 194 states | when each of two exchanges may replace the chain under the other: a node keeps its links, and has the block it asks for, until its chain gets shorter |
| `sync_never_shorter` | as `sync` | violated: an update can shorten a chain |
| `sync_chain_integrity` | as `sync` | violated: after that and a restart the chain is not linked |
| `sync_blocks_readable` | as `sync_two_peers` | violated: a block that a tally unwraps is missing, without a restart |
| `delegation` | every delegation map over a census of 4, every set of voters, 230 080 states | the traversal returns after as many turns as there are keys at most, meets nobody twice, and implements Representation; a voter's weight is the number of keys whose nearest voter it is |
| `vote` | 2 nodes, one direction, 6 ballots, up to 4 copies, heights to 3, 1 restart, 404 156 states | one vote for each key on the side of the newest ballot read, with copies of older ballots read after it; a head vouches for what is read below it; only ballots of the census; a node adds and loses no copy by itself |
| `vote_latest` | the same | violated: the newest ballots, those of the head, are not counted |
| `locks` | 2 nodes, both directions, fragments of 3 blocks, streams of 1, 66 960 states | nobody keeps a lock waiting but a responder that sends blocks into a full stream, and no other deadlock; heartbeats end that; exchanges end when no lock is kept for ever and none is replaced |
| `behaviour` | 2 peers, 3 connections, 63 464 states | every peer that stays connected and known is synced with again and again; the queue stays short; who can be passed over or wasted a heartbeat on |

*Bounds.* In `store` and `sync`, `MaxHeight` stops local blocks at height 3:
enough for a fork below the head, a search of two steps down to genesis, a
fragment of three blocks, a chain that loses two blocks at once, and a gap
between the head and a left-over block. `MaxPool` stops ballots and updates
while three or more ballots are pooled (two in `store_lost_votes`), so that a
ballot arrives at a pool with an old one; a pool still grows past it by what
one update strips. `PeerHeight` bounds fragments like local chains. One clock
reading is enough, because the chain compares no timestamps. In
`sync_two_peers` heights to 3 leave room for an exchange that begins at height 1
while the other brings two blocks, the shortening that follows, and a third
exchange over what is left over. In `vote`, one voter votes again later, one
votes both ways at the same time, one does not vote but
somebody signs for it, and one key is outside the census. The first node hears
the first vote of the first voter up to four times: enough to make two blocks,
to fall back to the first, and to make two blocks again with the older ballot
behind the newer one; the second makes a chain of its own from copies of one
ballot. Delegations are none, a chain of two, a cycle, and everybody to one key
(itself included); a chain is tallied above height 1 instead of 4, so that
blocks read, unread and replaced all occur below height 3. In `locks` a stream
takes one response: a longer window only delays when it is full. In
`behaviour`, `MaxRequests` bounds what waits in a handler.

*Deadlock.* Two runs do not check it. `delegation` models one call, which
returns. In `locks` the nodes may really stop: when both responders hold their
lock over full streams, both initiators want it, and a ballot reaches both
event loops, these wait for the locks too, and no heartbeat replaces the
futures any more. `OnlyHeldUp` says that this circle is the only one.

*Fairness.* ChainSync and VoteNode state none. That a step of an exchange is
possible does not mean that it will be taken: `recv_sync` keeps its chain locked
while it sends, and `send_sync` needs its own chain's lock to go on, so that
exchanges in both directions can wait for each other for ever. What can be said
without fairness is `SomebodysTurn` (some end is to move), `ExchangesRunDown` (only
finitely many moves are left) and `GivesUpOnHigher` (an exchange that is
not cut off leaves the initiator no lower than the responder was). Whether the
moves are made is for SyncLocks. It asks weak fairness of
steps that take no lock, strong fairness of those that do (the mutex of
async_std lets nobody overtake a future that has waited for some time) and of a
heartbeat whenever the event loop comes back
to the swarm and the peer is known, and nothing of the event loop. `LocksFreed`
assumes that the event loop comes back at some node; `SyncEnds` assumes that no
lock is kept for ever, which the circle would be, and that from some time on no
heartbeat replaces an exchange that is running (one in 20 s). SyncBehaviour asks
that timers fire, woken tasks are polled,
streams are negotiated, and that a random choice made again and again comes to
every peer (strong fairness for each peer). Without `OtherWake`, gossipsub's
timer, `HeartbeatReaches` fails: the behaviour by itself would sleep after its
first heartbeat. Delegation is synchronous code that goes on until it returns.

*What the violations say.* `store_lost_votes`: the strip loop runs over
`fork_index..height`, so a head that the new chain overwrites is never read
(chain.rs:172 says lost votes are pooled). `sync_never_shorter`: a node at
height 1 starts a sync, appends a block, and gets its peer's genesis block as
the whole update (chain.rs:160 speaks of the longest chain).
`sync_chain_integrity`: such a shortening leaves the old head in the table, and
`Blockchain::new` counts it, so that the head after a restart does not name the
hash of the block below it (block.rs:29). `sync_blocks_readable`: a node that
has adopted a chain of height 3 from one peer is given the genesis block by
another, in an exchange that began at height 1. It is back at height 1, and its
old block 3 is still in the table, so the fragment of a second exchange with the
first peer, which began at height 3, is accepted at that block and puts the
height back to 3. Block 2 is gone, and `blocks()` unwraps it (chain.rs:227).
`vote_latest`: `blocks()` reads up to the head and not the head (resolve.rs:26
speaks of the most recent ballot of each voter).

## 4. The proofs

Everything here holds for every value of the constants: any ballots, clock
readings, nodes, links, heights, keys.

**The store** (`BlockchainProofs`, from `FragmentAssumption`: fragments are
non-empty sequences of blocks and their fork index is positive, as `send_sync`
guarantees; and from block size and clock readings being positive):

- `TypeCorrect`: `TypeOK`, the shape of table and height, and what blocks and
  pool hold;
- `UnreadableHeadIsBelowAnOrphan`, `IntegrityKept`, `OrphansComeFromShrinking`,
  `CrashSafe`: the properties `UnreadableHeadHasOrphan`, `KeepsIntegrity`,
  `OrphanNeedsShrink` and `RestartKeepsChain` of the run `store`;
- `OnlyHeadForgotten`: the property `ForgetsOnlyHead`, that pooling and updating
  keep every ballot of the pool and of the blocks below the head, also when the
  transaction of an update fails after its ballots were pooled;
- `OldBallotsNeverLeave`: the property `OldBallotsStay`. All but the newest
  `BlockSize - 1` ballots of a pool stay there, first come first, until the node
  restarts: what is split off, for a block or for nothing when the head cannot
  be read or the write fails, is newer, and an update adds at the end. So a
  ballot that a sync put behind the newest can only be saved by the next sync;
- `IntegrityWithoutShrinking`: a chain that never gets shorter is at all times
  exactly its linked blocks, which reduces the correctness of the store to a
  property of the protocol.

The inductive invariant `IInv` is the types and "the head, or a block above it,
is stored". The second half is what a restart needs: it sets the height to the
number of blocks, and a set of n positive numbers that are all at most n is
1..n (`FullInterval`), so the head is there unless a block lies above it.
Linkedness is not inductive by itself (an unclean table can be linked up to its
head and have anything above it), which is why it is stated of steps from clean
tables, and of appending from any table: `--test-append` may build on a left-over
block (main.rs:235), which `append` compares with the head. The heart of `IntegrityKept` is `TryUpdateLongestChain`: at the fork the
first block of the fragment replaces a block of the same hash, and equal hashes
name the same predecessor. Where ballots go is said by lemmas of `ChainProofs`:
`PoolBallotCases` (pooled, moved into a block, or dropped with a failed write),
`LostBallotsProperties` (the stripped blocks' ballots are pooled) and
`UpdateKeeps`.

**The protocol** (`ChainSyncProofs`, from `LinkAssumption`): in every network,
`IntegrityWithoutRaces`, `GrowthWithoutRaces` and `AcceptanceWithoutRaces` are
properties of the run `sync`. The inductive invariant
`IInv` says that unless `raced`, all chains are clean and linked and every
exchange is in one of five phases: `Probing` and `Requested` (one question at a
time, about a block the node has), `Refused` (a NotFound underway), `Deserted`
(the responder has returned), and `Receiving`: buffer and responses together
are a fragment F that is linked, starts with the node's own block at the fork,
and reaches the node's height. The last follows from `HeightKnown`: the search
has not left the node's head yet, or the peer is as high. So an update is
accepted (`LastBlock`) and no shorter. Every action has its lemma
(`AskSteady`, `AnswerSteady`, ...), which shows that it leads from phase to
phase; `PhaseLasts` shows that steps of the peer's chain do no harm, because
chains do not shrink.

`GivingUpOnHigher` (`GivesUpOnHigher`) is read off the same phases: a question is
about the node's head, or its peer is as high.

**Races** (`ChainSyncProofs`): `IntegrityWithoutShortening` and `AsksForWhatItHas`
are the properties of `sync_two_peers`, for any number of peers. The invariant
`Sturdy` is about nodes that are not in `shortened`: their chain is clean, linked
and starts with a block of genesis's hash, and no exchange of theirs has a
height above it. It says nothing of any peer or of what is underway: the checks
of `try_update_longest` do, whatever fragment arrives (`UpdateWeathers`).

**Types** (`ChainSyncProofs`): `TypeCorrect` also after races. What the
types rest on is `Alternating`: while the responder listens, at most one request
or one response is underway.

**Why exchanges end** (`ChainSyncProofs`): also after races. `NobodyStalls`
(`SomebodysTurn`) follows from `Alternating`: when the responder listens and
the initiator waits, a request or a NotFound is underway. `EverNearerTheEnd`
(`ExchangesRunDown`) is the measure: the heights the search may still come to
and, for each, the steps from asking to the answer; when the responder has
returned, the responses and the request before each. One lemma for each action
shows that the pair gets lexicographically smaller (`AskAdvances`, ...), and
`IdleIsLess` that an exchange which ends has least to do. So there is always a step to
take, and only finitely many are. That it is taken needs the lock, and fairness:
`SyncEnds` of SyncLocks.

**The refinement** (`ChainSyncProofs`): `KeepsPromise`, that ChainSync implements
Ledger. Its core is `SameHashSameChain`: two linked chains that agree on one
hash agree on all blocks below. That is an induction down the chain
(`SameHashSameHistory` of `ChainProofs`), done by a minimal counterexample
(`Least`, from the well-foundedness of the natural numbers). Hence the node's
blocks below the fork followed by the peer's from the fork on are the peer's log
(`WholeIsPeers`), they stay what is offered while blocks arrive
(`OfferedIsWhole`), and they are what the update writes (`UpdatedIsWhole`).

**The traversal** (`DelegationProofs`, from the assumptions that the census is
finite): `TypeCorrect`, `CountsKeys` (`NoneTwice`) and `WeighsRepresented`, that
Delegation implements Representation. The invariant: what is visited or on the
stack is represented by the voter (`Sound`), with a visited key its delegators
are visited or on the stack (`Complete`), and every key but the voter is found
through its only delegate (`FoundThroughDelegate`), so that nothing is found
twice. When the stack is empty the visited keys are closed under delegation and
contained in every closed set, and their number is the counter. `CountsNearest`
(`NearestVoterCounts`) looks the other way: what the traversal weighs are the
keys that find the voter when they look up their delegates
(`NearestIsRepresented` of `WeightProofs`). Looking up stops after as many steps
as there are keys; that these suffice (`StepsSuffice`) is because the set of
finders grows with every step or never again.

`TakesFewSteps` (`StepsRunDown`) is the measure for the traversal: twice the
voters not weighed yet, the keys no turn has come to, less one while a voter is
being resolved. It falls because a key found for one voter is found for no
other (`FoundIsNearest`), so a turn always comes to a key that is new.

**The nodes** (`VoteNodeProofs`, from the assumptions that `Tally`, `ChainSync`
and `VoteNode` name: ballots have comparable times and a verdict, drawn
delegations are delegation maps, nobody is no key, any full pool is a payload):

- `VotingIsSyncing`: every step of the nodes is one of ChainSync or changes none
  of its variables, so everything above holds of VoteNode too. The chain with
  its pool goes as `Chain` says while the one without goes as ChainSync says
  (`PoolingIsExtending`, `UpdateOwn`). `NodesTypeCorrect` (`NodeTypeOK`) follows;
- `HoldsOnlyTheCensus` (`CensusOnly`): every ballot of a chain, a pool, a buffer or
  a response was accepted by the gossip handler (`Vouched`). A step of an
  exchange brings only blocks that are held or underway already (`StepBrings`);
  nothing is asked of races, holes or left-over blocks;
- `KeepsAsDelivered` (`KeptAsDelivered`): how often a ballot occurs in the blocks
  and the pool, read in a row, is how often it was delivered. Splitting the pool
  only reorders this row (`PoolingKeepsAll`). That gossip delivers once is not
  assumed: it forgets;
- `TallyGivesOneVote` (`OneVoteEach`): the loop over the ballots read has, after
  m of them, the first newest ballot of every signer among them (`CountsNext`);
  the keys that follow a voter are what its ballot weighs, no key follows two
  (`FollowingApart`), and a sum of sizes of sets that have nothing in common is
  the size of their union (`SumCounts`);
- `HeadsVouch` (`HeadVouches`): a block with the hash of another node's head is at
  the height of that head and above the same blocks (`SameHashSameBlocks` of
  `ChainProofs`): the two chains agree on every block down to the first of the
  lower one (`SameHashSameHistory`), and that is genesis, which names no
  predecessor, so the other cannot go on below it. It needs `Sturdy`, because a
  chain that got shorter may have a hole. It says nothing of results: two
  tallies of the same blocks draw different delegations.

**The behaviour** (`SyncBehaviourProofs`, for any peers and connections):
`TypeCorrect`, `QueueIsShort`, `ForgetsOverlapped` and `WastesOnAnnounced`, the
safety properties of the run `behaviour`. The invariant adds `TwoOverlap`, that
a peer with two open connections is in `overlapped`: a closed connection takes
the peer out of the set, and leaves it connected only if it had another one.

**The locks** (`SyncLocksProofs`, for any nodes, links, windows and fragments):
`TypeCorrect`, `HoldersGoOnOrAreHeldUp`, the property `HolderGoesOn`, and
`NoOtherDeadlock`, the property `OnlyHeldUp`. The invariant: an owner is a
future at a line that keeps its guard (`OwnersHold`), and `Alternates`: until
blocks are sent, at most one request or response is underway, so a NotFound always finds room, and while blocks are sent the stream
holds blocks only and the initiator reads or asks. It follows that a responder
that cannot send is one of `HeldUp` (`ResponderHeldUp`). That nobody can go on
is said by the guards of the steps that let a lock go or lead to one
(`CanGoOn`), not with ENABLED: so it is true in more states than those in which
the whole system has stopped, and within reach of the prover.

*Recursion.* `FlattenSeq`, `FoldLeft`, `MapThenSumSet` and `NearestVoter` are
defined by recursive functions, each a choice of some function that satisfies an
equation. A lemma shows that one exists, for prefixes of a sequence
(`FlattenExists`), numbers of steps (`ClimbsExist`) or subsets of a finite set
(`FoldExists`, for every fold with values in a set), and then the equation may be
used. Induction is about sets of numbers (`Induction`, from the well-foundedness
of the natural numbers), so no lemma has an operator as parameter.

Only model-checked: liveness under fairness (`SyncEnds`, `Resolves`, `LocksFreed`,
`HeartbeatReaches`). Of `SyncEnds` and `Resolves` there are proved measures
(`ExchangesRunDown`, `StepsRunDown`). Every invariant and every action property of a
passing run is a theorem.

## 5. Not modelled, and what is left

Cryptography, range proofs and proof of work (library arithmetic; the range
proofs are never checked by the node), discovery, DHT, console and dialling
(libp2p and I/O), configuration and command line (no state), `heartbeat.rs`,
`protocol_heartbeats.rs` and `ballot_gossip.rs` (no `mod` declaration reaches
them), `generated/` (generated), `hash_indexes`, the iterator over blocks and
`seal` (no caller). The `issue_id` of a ballot is left out because nothing in the
node reads it: a ballot cast on any issue is pooled and counted, although
cast.rs:26 says that it identifies the chain a vote is for.

No property says that heights meet or that nodes come to agree: chains of equal
height replace each other (chain.rs:168), so two nodes that sync at the same
time may swap chains for ever, and a tally has no memory of its result.
