----------------------------- MODULE ChainSync -----------------------------
(***************************************************************************)
(* The chain synchronisation protocol between nodes: send_sync and         *)
(* recv_sync of node/src/protocols/chain_sync/protocol.rs, run as the      *)
(* outbound and inbound futures of handler.rs, over chains that keep       *)
(* growing meanwhile.                                                      *)
(*                                                                         *)
(* A link <<n, m>> is one direction of a connection: n initiates, m        *)
(* responds, and sync[<<n, m>>] is n's outbound future, m's inbound future *)
(* and the stream between them.  Every step holds the lock of at most one  *)
(* chain, so between the steps of a future anything may happen to it.      *)
(*                                                                         *)
(* Which ballots a node has pooled matters here only for the contents of   *)
(* the next block, so a block of any payload may be appended at any time   *)
(* and pools are left empty; Blockchain.tla is about pools, and about      *)
(* write transactions that fail.                                           *)
(***************************************************************************)
EXTENDS Chain

CONSTANTS
    Node,
    Link,        \* the pairs <<n, m>> such that n initiates syncs with m
    Payload(_),  \* the ballot lists node n may put into a block
    MaxHeight    \* bound: nodes stop appending blocks at this height

ASSUME LinkAssumption == Link \subseteq {l \in Node \X Node : l[1] # l[2]}
ASSUME PayloadAssumption == \A n \in Node : Payload(n) \subseteq Seq(Ballot)
ASSUME MaxHeightAssumption == MaxHeight \in Nat

VARIABLES
    chain,      \* chain[n]: the chain of node n
    sync,       \* sync[l]: the exchange in progress on link l
    raced,      \* history: did a chain change under an exchange of its node?
    shortened   \* history: nodes whose chain once got shorter

vars == <<chain, sync, raced, shortened>>

(* state: idle - no outbound future; ask - about to lock the chain and     *)
(* send a request; wait - awaiting a response.  height and buffer are      *)
(* send_sync's variables.  listening: recv_sync is running; once it is     *)
(* not, the initiator reads what is left in responses and then an end of   *)
(* stream.                                                                 *)
Idle == [state |-> "idle", height |-> 0, buffer |-> <<>>, requests |-> <<>>,
         listening |-> FALSE, responses |-> <<>>]

NotFound == [found |-> FALSE, fork_index |-> 0, block |-> GenesisBlock, remaining |-> 0]

FoundBug(fork, bs) ==
    [k \in 1..Len(bs) |-> [found |-> TRUE, fork_index |-> fork, block |-> bs[k],
                           remaining |-> Len(bs) - k - 1]]

(* One message for each block, counting down to 0. *)
Found(fork, bs) ==
    [k \in 1..Len(bs) |-> [found |-> TRUE, fork_index |-> fork, block |-> bs[k],
                           remaining |-> Len(bs) - k]]

Init ==
    /\ chain = [n \in Node |-> Open([i \in {} |-> GenesisBlock])]
    /\ sync = [l \in Link |-> Idle]
    /\ raced = FALSE
    /\ shortened = {}

----------------------------------------------------------------------------
Busy(l) == sync[l].state # "idle"

(* chain[n] becomes c by a step that is no part of the exchanges others.   *)
SetChain(n, c, others) ==
    /\ chain' = [chain EXCEPT ![n] = c]
    /\ raced' = (raced \/ (c # chain[n] /\ \E l \in others : l[1] = n /\ Busy(l)))

(* Both directions of a connection end, and whatever was in flight is lost. *)
Dropped(l) == [k \in Link |-> IF k \in {l, <<l[2], l[1]>>} THEN Idle ELSE sync[k]]

(* The node appends a block to its head: a pool that filled up, or         *)
(* --test-append.                                                          *)
ExtendChain(n) ==
    /\ chain[n].height < MaxHeight
    /\ HasBlock(chain[n], chain[n].height)
    /\ \E ts \in Timestamp, ballots \in Payload(n) :
           SetChain(n, TryAppend(chain[n],
                                 NewBlock(chain[n].db[chain[n].height], ts, ballots), TRUE),
                    Link)
    /\ UNCHANGED sync

(* A sync is forced.  The new outbound future reads the height and lets    *)
(* the lock go; the new stream starts an inbound future at the peer.       *)
Started(n) == [Idle EXCEPT !.state = "ask", !.height = chain[n].height, !.listening = TRUE]

StartSync(l) ==
    /\ ~Busy(l)
    /\ sync' = [sync EXCEPT ![l] = Started(l[1])]
    /\ UNCHANGED <<chain, raced>>

(* The same while one is in progress: both handlers replace their future.  *)
PreemptSync(l) ==
    /\ Busy(l)
    /\ sync' = [sync EXCEPT ![l] = Started(l[1])]
    /\ UNCHANGED <<chain, raced>>

(* The initiator locks its chain and sends the hash it has at height; a    *)
(* responder that has returned does not read it.                           *)
Ask(l) ==
    LET s == sync[l]  c == chain[l[1]]
    IN  /\ s.state = "ask"
        /\ HasBlock(c, s.height)
        /\ sync' = [sync EXCEPT
               ![l].state = "wait",
               ![l].requests = IF s.listening
                               THEN Append(s.requests, [index |-> s.height,
                                                        hash |-> Hash(c.db[s.height])])
                               ELSE s.requests]
        /\ UNCHANGED <<chain, raced>>

(* get_hash_at(height).unwrap() panics when the block is not there, and    *)
(* takes the connection's task down.                                       *)
AskPanics(l) ==
    /\ sync[l].state = "ask"
    /\ ~HasBlock(chain[l[1]], sync[l].height)
    /\ sync' = Dropped(l)
    /\ UNCHANGED <<chain, raced>>

AnsweredBug(s, c) ==
    LET request == Head(s.requests)
        rest    == [s EXCEPT !.requests = Tail(s.requests)]
    IN  IF HasBlock(c, request.index) /\ Hash(c.db[request.index]) = request.hash
        THEN [rest EXCEPT !.listening = FALSE,
                          !.responses = s.responses
                              \o Found(request.index, BlocksFrom(c, request.index))]
        ELSE [rest EXCEPT !.responses = Append(s.responses, NotFound)]

AnsweredSilent(s, c) ==
    LET request == Head(s.requests)
        rest    == [s EXCEPT !.requests = Tail(s.requests)]
    IN  IF HasBlock(c, request.index) THEN AnsweredBug(s, c) ELSE rest

(* The responder handles one request with its chain locked.  It returns    *)
(* unless its hash differs.                                                *)
Answered(s, c) ==
    LET request == Head(s.requests)
        rest    == [s EXCEPT !.requests = Tail(s.requests)]
        matches == Hash(c.db[request.index]) = request.hash
    IN  IF ~HasBlock(c, request.index) THEN [rest EXCEPT !.listening = FALSE]
        ELSE IF matches
        THEN [rest EXCEPT !.listening = FALSE,
                          !.responses = s.responses
                              \o Found(request.index, BlocksFrom(c, request.index))]
        ELSE [rest EXCEPT !.responses = Append(s.responses, NotFound)]

Answer(l) ==
    /\ sync[l].listening
    /\ sync[l].requests # <<>>
    /\ sync' = [sync EXCEPT ![l] = Answered(sync[l], chain[l[2]])]
    /\ UNCHANGED <<chain, raced>>

CanReceive(l) == sync[l].state = "wait" /\ sync[l].responses # <<>>

(* A block that is not the last is buffered, and the loop sends a request  *)
(* again before it reads on.                                               *)
ReceiveBlock(l) ==
    LET r == Head(sync[l].responses)
    IN  /\ CanReceive(l)
        /\ r.found
        /\ r.remaining > 0
        /\ sync' = [sync EXCEPT ![l].state = "ask",
                                ![l].buffer = Append(sync[l].buffer, r.block),
                                ![l].responses = Tail(sync[l].responses)]
        /\ UNCHANGED <<chain, raced>>

(* With the last block the initiator locks its chain and replaces its end. *)
(* When the fragment is refused, update_result.unwrap() panics if messages *)
(* of this level are logged; else the future returns as after an update.   *)
FinishSync(l) ==
    LET r  == Head(sync[l].responses)
        bs == Append(sync[l].buffer, r.block)
        c  == chain[l[1]]
    IN  /\ CanReceive(l)
        /\ r.found
        /\ r.remaining = 0
        /\ SetChain(l[1], [TryUpdateLongest(c, r.fork_index, bs, TRUE)
                               EXCEPT !.ballot_pool = <<>>],
                    Link \ {l})
        /\ \/ sync' = [sync EXCEPT ![l] = Idle]
           \/ ~AcceptsFork(c, r.fork_index, bs) /\ sync' = Dropped(l)

ReceiveNotFoundBug(l) ==
    LET s == sync[l]
    IN  /\ CanReceive(l)
        /\ ~Head(s.responses).found
        /\ sync' = [sync EXCEPT ![l] =
               IF s.height = 1 THEN Idle
               ELSE [s EXCEPT !.state = "ask", !.responses = Tail(s.responses)]]
        /\ UNCHANGED <<chain, raced>>

(* The peer has another block at height: try the one below, if any. *)
ReceiveNotFound(l) ==
    LET s == sync[l]
    IN  /\ CanReceive(l)
        /\ ~Head(s.responses).found
        /\ sync' = [sync EXCEPT ![l] =
               IF s.height = 1 THEN Idle
               ELSE [s EXCEPT !.state = "ask", !.height = s.height - 1,
                              !.responses = Tail(s.responses)]]
        /\ UNCHANGED <<chain, raced>>

(* The responder has returned and nothing it sent is left to read. *)
ReceiveEnd(l) ==
    /\ sync[l].state = "wait"
    /\ sync[l].responses = <<>>
    /\ ~sync[l].listening
    /\ sync' = [sync EXCEPT ![l] = Idle]
    /\ UNCHANGED <<chain, raced>>

(* The connection breaks. *)
Disconnect(l) ==
    /\ Busy(l)
    /\ sync' = Dropped(l)
    /\ UNCHANGED <<chain, raced>>

(* A node stops and opens its store again; its connections are gone. *)
Restart(n) ==
    /\ chain' = [chain EXCEPT ![n] = Open(chain[n].db)]
    /\ sync' = [l \in Link |-> IF n \in {l[1], l[2]} THEN Idle ELSE sync[l]]
    /\ UNCHANGED raced

SyncStep(l) ==
    \/ Ask(l) \/ AskPanics(l) \/ Answer(l)
    \/ ReceiveBlock(l) \/ FinishSync(l) \/ ReceiveNotFound(l) \/ ReceiveEnd(l)

LinkStep(l) == SyncStep(l) \/ StartSync(l) \/ PreemptSync(l) \/ Disconnect(l)

Step ==
    \/ \E n \in Node : ExtendChain(n) \/ Restart(n)
    \/ \E l \in Link : LinkStep(l)

Noted == shortened' = shortened \cup {n \in Node : chain'[n].height < chain[n].height}

Next == Step /\ Noted

Spec == Init /\ [][Next]_vars
----------------------------------------------------------------------------
(* Type invariant: chains hold what chain.rs:22 declares and exchanges the *)
(* variables and messages of protocol.rs, at most one request among them.  *)
SessionOK(s) ==
    /\ s.state \in {"idle", "ask", "wait"}
    /\ s.height \in Nat
    /\ s.listening \in BOOLEAN
    /\ Len(s.requests) <= 1
    /\ \A k \in DOMAIN s.buffer : IsBlock(s.buffer[k])
    /\ \A k \in DOMAIN s.responses :
           /\ s.responses[k].remaining \in Nat
           /\ IsBlock(s.responses[k].block)

TypeOK ==
    /\ \A n \in Node : StoreOK(chain[n]) /\ BlocksOK(chain[n]) /\ PoolOK(chain[n])
    /\ \A l \in Link : SessionOK(sync[l])
    /\ raced \in BOOLEAN
    /\ shortened \subseteq Node

(* Unless a chain changed under an exchange of its own node, every node    *)
(* stores exactly the blocks up to its head, each naming the hash of its   *)
(* predecessor, whatever forks, preemptions, lost connections and restarts *)
(* the network goes through.                                               *)
IntegrityUnlessRaced == raced \/ \A n \in Node : Clean(chain[n]) /\ Linked(chain[n])

(* Unless so, a sync never leaves a node with a shorter chain, although    *)
(* try_update_longest compares no lengths: the peer that did not have the  *)
(* initiator's first height did not answer.                                *)
GrowsUnlessRaced == [][raced' \/ \A n \in Node : chain'[n].height >= chain[n].height]_vars

(* Unless so, what a peer sends is never refused, so that                  *)
(* update_result.unwrap() (protocol.rs:77) does not panic.                 *)
AcceptedUnlessRaced ==
    \A l \in Link :
        LET s == sync[l]  r == Head(s.responses)
        IN  CanReceive(l) /\ r.found /\ r.remaining = 0
            => raced \/ AcceptsFork(chain[l[1]], r.fork_index, Append(s.buffer, r.block))

(* Races included, only a node whose chain once got shorter can have a     *)
(* hole, a block left over or a broken link, whatever other nodes' chains  *)
(* are like: an update under another exchange's feet still checks enough.  *)
IntegrityUnlessShortened ==
    \A n \in Node \ shortened : Clean(chain[n]) /\ Linked(chain[n])

(* Nor can it ask for the hash of a block it does not have, so that        *)
(* get_hash_at(height).unwrap() (protocol.rs:62) does not panic, although  *)
(* other exchanges and new blocks change the chain between two questions.  *)
AsksUnlessShortened ==
    \A l \in Link :
        sync[l].state = "ask" /\ l[1] \notin shortened => HasBlock(chain[l[1]], sync[l].height)

(* Unless a chain changed under an exchange of its node, a responder that  *)
(* returns without a block has a shorter chain than the initiator.  So an  *)
(* exchange that nothing cuts off leaves the initiator no lower than the   *)
(* responder was.                                                          *)
GivesUpOnHigher ==
    [][\A l \in Link :
          sync[l].listening /\ sync'[l] # Idle /\ ~sync'[l].listening
              /\ sync'[l].responses = <<>>
          => raced' \/ chain[l[2]].height < chain[l[1]].height]_vars

(* chain.rs:160 says a chain is updated to match the longest known one: no *)
(* update makes a chain shorter.                                           *)
NeverShorter == [][\A n \in Node : chain'[n].height >= chain[n].height]_vars

(* block.rs:29 says that a block holds the hash of the previous block in   *)
(* the chain: wherever two successive blocks of a chain are stored, the    *)
(* second names the hash of the first.                                     *)
ChainIntegrity ==
    \A n \in Node :
        LET c == chain[n]
        IN  \A i \in 2..c.height :
                HasBlock(c, i) /\ HasBlock(c, i - 1) => IsValid(c.db[i], c.db[i-1])

(* chain.rs:227 takes it that every block a tally reads is there.          *)
BlocksReadable ==
    \A n \in Node : \A i \in 1..(chain[n].height - 1) : HasBlock(chain[n], i)

(* Why exchanges end, whatever becomes of the two chains, races included:  *)
(* there is never one in which both ends wait for the other,               *)
Stalled(s) ==
    /\ s.state = "wait" /\ s.responses = <<>>
    /\ s.listening /\ s.requests = <<>>

SomebodysTurn == \A l \in Link : ~Stalled(sync[l])

(* and every step of one, but a fresh start, leaves less of it to do.  As  *)
(* long as the responder listens there are the heights the search may      *)
(* still come to, for each the three steps from asking to the answer;      *)
(* afterwards the blocks on their way, and the request before each.        *)
Left(s) ==
    IF s.state = "idle" THEN <<0, 0>>
    ELSE IF s.listening
    THEN <<1 + s.height, Len(s.requests) + IF s.state = "ask" THEN 2 ELSE 0>>
    ELSE <<1, 2 * Len(s.responses) + IF s.state = "ask" THEN 1 ELSE 0>>

(* The lexicographic order: no sequence falls for ever. *)
Below(a, b) == a[1] < b[1] \/ (a[1] = b[1] /\ a[2] < b[2])

ExchangesRunDown ==
    [][\A l \in Link :
          \/ sync'[l] \in {sync[l], Started(l[1])}
          \/ Left(sync'[l]) \in Nat \X Nat /\ Below(Left(sync'[l]), Left(sync[l]))]_vars

----------------------------------------------------------------------------
(* The chain of n as a log, and the one it gets when the blocks that are   *)
(* buffered and underway on a link replace the end of its own.             *)
Log(n) ==
    [i \in 1..chain[n].height |->
        IF HasBlock(chain[n], i) THEN chain[n].db[i] ELSE GenesisBlock]

Offering(l) == sync[l].responses # <<>> /\ Head(sync[l].responses).found

Offered(l) ==
    LET s == sync[l]
    IN  SubSeq(Log(l[1]), 1, Head(s.responses).fork_index - 1) \o s.buffer
            \o [k \in DOMAIN s.responses |-> s.responses[k].block]

Promise == INSTANCE Ledger WITH
    log    <- [n \in Node |-> Log(n)],
    offers <- {Offered(l) : l \in {k \in Link : Offering(k)}},
    broken <- raced

(* The protocol implements Ledger.  In particular the blocks before the    *)
(* fork, which are never sent, are those of the peer too, and what is put  *)
(* together from a fragment is nothing but the log the peer had.           *)
ImplementsLedger == Promise!Spec

=============================================================================
