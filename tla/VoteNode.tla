------------------------------ MODULE VoteNode ------------------------------
(***************************************************************************)
(* Voting nodes and their clients: ballots are cast by clients             *)
(* (client/src/cast.rs), travel on one gossip topic, are checked, pooled   *)
(* and tallied by the event loop of each node (node/src/main.rs), while    *)
(* the exchanges of ChainSync go on, step by step.  --test-append is not   *)
(* given, and writes do not fail (see Blockchain).                         *)
(*                                                                         *)
(* This module is ChainSync with what that leaves out: which ballots are   *)
(* pooled decides what is in the next block.  The pools are a variable of  *)
(* their own, those in chain stay empty, and every step here is one of     *)
(* ChainSync or changes none of its variables.                             *)
(***************************************************************************)
EXTENDS ChainSync, Tally

CONSTANTS
    Drawn,          \* delegations that random can draw
    ResolveHeight,  \* the height a chain must exceed to be tallied (4)
    Copies(_, _),   \* bound: how often a message is delivered to a node
    MaxPool,        \* bound: messages are read while the pool is shorter
    MaxRestarts     \* bound: restarts of all nodes together

ASSUME DrawnAssumption == Drawn \subseteq DelegationMaps
ASSUME RestartsAssumption == MaxRestarts \in Nat
ASSUME NobodyAssumption == "nobody" \notin Key
ASSUME BlockAssumption == \A n \in Node : [1..BlockSize -> Ballot] \subseteq Payload(n)

VARIABLES
    pool,       \* node -> its ballot_pool
    main,       \* node -> where its event loop is: select, or after pool_ballot
    heard,      \* history: node -> how often each message was delivered to it
    restarts,   \* history: how many restarts there were
    steady      \* history: nodes that neither adopted a chain nor restarted

loop == <<main, heard, restarts, steady>>

nodeVars == <<vars, pool, loop>>

NodeInit ==
    /\ Init
    /\ pool = [n \in Node |-> <<>>]
    /\ main = [n \in Node |-> "select"]
    /\ heard = [n \in Node |-> [m \in Ballot |-> 0]]
    /\ restarts = 0
    /\ steady = Node

(* The chain of a node with its pool. *)
Own(n) == [chain[n] EXCEPT !.ballot_pool = pool[n]]

(* The ballot a client makes and signs for a voter at a time.  Its         *)
(* issue_id is left out: no node reads it.                                 *)
Cast(voter, time, yes) ==
    [signer |-> voter, timestamp |-> time, verdict |-> yes, signature_valid |-> TRUE]

ContainsVoter(key) == key \in Census

AcceptedBug(m) == m.signature_valid

(* Its signature is valid, and its signer in the census. *)
Accepted(m) == m.signature_valid /\ ContainsVoter(m.signer)

(* A message arrives, at any time after it was published or never.  Gossip *)
(* drops a message it knows, but forgets what it knew after a while, so    *)
(* the same one may arrive again.  One that is refused changes nothing,    *)
(* like one that does not deserialize.                                     *)
Receive(n, m) ==
    /\ main[n] = "select"
    /\ heard[n][m] < Copies(n, m)
    /\ chain[n].height < MaxHeight
    /\ Len(pool[n]) < MaxPool
    /\ IF Accepted(m)
       THEN /\ \E ts \in Timestamp :
                   LET c == PoolBallot(Own(n), m, ts, TRUE)
                   IN  /\ SetChain(n, [c EXCEPT !.ballot_pool = <<>>], Link)
                       /\ pool' = [pool EXCEPT ![n] = c.ballot_pool]
            /\ heard' = [heard EXCEPT ![n][m] = heard[n][m] + 1]
            /\ main' = [main EXCEPT ![n] = "resolve"]
       ELSE UNCHANGED <<chain, raced, pool, heard, main>>
    /\ UNCHANGED <<sync, restarts, steady>>

(* n is about to tally its chain. *)
Tallies(n) == main[n] = "resolve" /\ chain[n].height > ResolveHeight

(* The event loop takes the lock again, tallies the chain as Tally says    *)
(* when it is high enough, and logs the result, which changes nothing.  If *)
(* a block is missing, the unwrap of chain.rs:227 panics and the process   *)
(* ends: that is no step of its own, but the first half of Reopen.         *)
TryResolve(n) ==
    /\ main[n] = "resolve"
    /\ Tallies(n) => CanReadBlocks(chain[n])
    /\ main' = [main EXCEPT ![n] = "select"]
    /\ UNCHANGED <<vars, pool, heard, restarts, steady>>

(* The last step of an exchange, which pools what the update strips. *)
Adopt(l) ==
    LET n  == l[1]
        r  == Head(sync[l].responses)
        bs == Append(sync[l].buffer, r.block)
    IN  /\ FinishSync(l)
        /\ pool' = [pool EXCEPT ![n] =
               TryUpdateLongest(Own(n), r.fork_index, bs, TRUE).ballot_pool]
        /\ steady' = IF UNCHANGED <<chain, pool>> THEN steady ELSE steady \ {n}
        /\ UNCHANGED <<main, heard, restarts>>

(* Any other step of an exchange. *)
Exchange(l) ==
    /\ \/ StartSync(l) \/ PreemptSync(l) \/ Disconnect(l)
       \/ Ask(l) \/ AskPanics(l) \/ Answer(l)
       \/ ReceiveBlock(l) \/ ReceiveNotFound(l) \/ ReceiveEnd(l)
    /\ UNCHANGED <<pool, loop>>

(* n stops and opens its store again. *)
Reopen(n) ==
    /\ restarts < MaxRestarts
    /\ restarts' = restarts + 1
    /\ Restart(n)
    /\ pool' = [pool EXCEPT ![n] = <<>>]
    /\ main' = [main EXCEPT ![n] = "select"]
    /\ steady' = steady \ {n}
    /\ UNCHANGED heard

NodeStep ==
    \/ \E n \in Node :
           \/ \E m \in Ballot : Receive(n, m)
           \/ TryResolve(n) \/ Reopen(n)
    \/ \E l \in Link : Adopt(l) \/ Exchange(l)

NodeNext == NodeStep /\ Noted

NodeSpec == NodeInit /\ [][NodeNext]_nodeVars

----------------------------------------------------------------------------
(* Type invariant: chains, exchanges and event loops are what main.rs      *)
(* keeps.                                                                  *)
NodeTypeOK ==
    /\ TypeOK
    /\ \A n \in Node : pool[n] \in Seq(Ballot)
    /\ \A n \in Node : main[n] \in {"select", "resolve"}
    /\ \A n \in Node : \A m \in Ballot : heard[n][m] \in Nat
    /\ restarts \in 0..MaxRestarts
    /\ steady \subseteq Node

(* The ballots of n, wherever it keeps them. *)
BallotsOf(n) == ToSet(pool[n]) \cup BallotsIn(chain[n], DOMAIN chain[n].db)

(* Although only the gossip handler checks a ballot (main.rs:306), and     *)
(* synchronisation takes any block, no node ever pools or stores a ballot  *)
(* that is not validly signed by a member of the census.                   *)
CensusOnly ==
    \A n \in Node : \A b \in BallotsOf(n) : b.signature_valid /\ b.signer \in Census

(* Where a tally of c reads the newest ballot of v; of several with the    *)
(* same time it is the first one read.                                     *)
NewestRead(c, v) ==
    LET read == BallotsRead(c)
    IN  {i \in DOMAIN read :
            /\ read[i].signer = v
            /\ \A j \in DOMAIN read : read[j].signer = v =>
                   IF j < i THEN read[j].timestamp < read[i].timestamp
                   ELSE read[j].timestamp <= read[i].timestamp}

(* A tally gives one vote to every key: to the side of the newest ballot   *)
(* read of the first voter up its chain of delegates, however often a      *)
(* ballot was pooled again and in whatever order ballots reached the       *)
(* chain.  (If a block is missing there is no tally.)                      *)
OneVoteEach ==
    \A n \in Node : Tallies(n) /\ CanReadBlocks(chain[n]) =>
        LET c == chain[n]
            vs == VoterSet(c)
        IN  \A map \in Drawn :
                LET voterOf == NearestVoter(map, vs, "nobody")
                    voting(yes) ==
                        {k \in Key : /\ voterOf[k] \in vs
                                     /\ \E i \in NewestRead(c, voterOf[k]) :
                                            BallotsRead(c)[i].verdict = yes}
                IN  /\ ResultFor(c, map) = Cardinality(voting(TRUE))
                    /\ ResultAgainst(c, map) = Cardinality(voting(FALSE))

(* A node that holds another's head holds it at the same height, and a     *)
(* tally of its chain reads first, in the same order, what a tally of the  *)
(* other reads: although a head is the one block a tally does not read,    *)
(* its hash vouches for every block below it, whoever appended or adopted  *)
(* it and when.  Nodes whose chain once got shorter are left out, for they *)
(* can have holes and broken links.  Two such tallies need not come to the *)
(* same result, for each draws its own delegations (behaviour.rs:79).      *)
HeadVouches ==
    \A n \in Node \ shortened : \A m \in Node \ shortened :
        LET c == chain[n]  p == chain[m]
        IN  \A i \in 1..p.height :
                Hash(p.db[i]) = Hash(c.db[c.height]) =>
                    /\ i = c.height
                    /\ SubSeq(BlocksRead(p), 1, i - 1) = BlocksRead(c)

(* A node that has neither adopted a chain nor restarted holds every       *)
(* ballot as often as it was delivered, in its blocks and in its pool:     *)
(* pooling and making blocks add no copies and lose none, whatever goes on *)
(* in the exchanges of the node meanwhile.                                 *)
KeptAsDelivered ==
    \A n \in steady : \A b \in Ballot :
        LET blocks == [i \in 1..chain[n].height |-> chain[n].db[i].ballots]
            all    == FlattenSeq(blocks) \o pool[n]
        IN  Cardinality({i \in DOMAIN all : all[i] = b}) = heard[n][b]

(* resolve.rs:26 says that the most recent ballot of each voter is taken:  *)
(* whenever a chain is tallied, the ballot counted for a voter is the      *)
(* newest one of that voter on the chain.                                  *)
TallyCountsLatest ==
    \A n \in Node : Tallies(n) /\ CanReadBlocks(chain[n]) =>
        \A b \in OnChain(chain[n]) :
            /\ b.signer \in DOMAIN CountedBallots(chain[n])
            /\ CountedBallots(chain[n])[b.signer].timestamp >= b.timestamp
=============================================================================
