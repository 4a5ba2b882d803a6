--------------------------- MODULE SyncBehaviour ---------------------------
(***************************************************************************)
(* How one node comes to start syncs: the NetworkBehaviour of              *)
(* node/src/protocols/chain_sync/behaviour.rs with its peers, its event    *)
(* queue and its ticker, the event queues of its handlers (handler.rs),    *)
(* and the swarm and event loop that drive them (main.rs).                 *)
(*                                                                         *)
(* A task is polled only when something wakes it.  The ticker wakes the    *)
(* task that polled it last while it was not yet due, once.                *)
(***************************************************************************)
EXTENDS Integers, Sequences, FiniteSets

CONSTANTS
    Peer,
    Conn,         \* connections, of which a peer may have several
    PeerOf,       \* connection -> its peer
    MaxRequests   \* bound: requests that wait in a handler

ASSUME PeerAssumption == IsFiniteSet(Peer) /\ PeerOf \in [Conn -> Peer]
ASSUME RequestsAssumption == MaxRequests \in Nat \ {0}

VARIABLES
    open,        \* established connections
    sync_peers, events,
    due,         \* has the ticker fired since it was read?
    armed,       \* will the ticker wake the event loop when it fires?
    woken,       \* is the swarm going to be polled?
    delayed,     \* has the delay of the event loop run out?
    handler,     \* connection -> OutboundSubstreamRequests in its handler
    outbound,    \* connections with an outbound future
    announced,   \* history: peers from mDNS since their last closed connection
    overlapped   \* history: peers that had two connections at a time

behaviour == <<sync_peers, events, due, armed>>
history == <<announced, overlapped>>
vars == <<open, behaviour, woken, delayed, handler, outbound, history>>

Init ==
    /\ open = {}
    /\ sync_peers = {}
    /\ events = <<>>
    /\ due = FALSE
    /\ armed = FALSE
    /\ woken = TRUE
    /\ delayed = FALSE
    /\ handler = [c \in Conn |-> 0]
    /\ outbound = {}
    /\ announced = {}
    /\ overlapped = {}

OpenToBug(p) == {c \in Conn : PeerOf[c] = p}

OpenTo(p) == {c \in open : PeerOf[c] = p}

Connected == {p \in Peer : OpenTo(p) # {}}

----------------------------------------------------------------------------
KnownAfterOpenBug(p) == sync_peers

KnownAfterOpen(p) == sync_peers \cup {p}

(* The swarm has a new connection and tells its behaviours. *)
ConnectionEstablished(c) ==
    /\ c \notin open
    /\ open' = open \cup {c}
    /\ sync_peers' = KnownAfterOpen(PeerOf[c])
    /\ overlapped' = IF OpenTo(PeerOf[c]) = {} THEN overlapped
                     ELSE overlapped \cup {PeerOf[c]}
    /\ woken' = TRUE
    /\ UNCHANGED <<events, due, armed, delayed, handler, outbound, announced>>

KnownAfterCloseBug(p) == IF Cardinality(OpenTo(p)) > 1 THEN sync_peers \ {p} ELSE sync_peers

(* The peer is forgotten, whether or not it has another connection. *)
KnownAfterClose(p) == sync_peers \ {p}

(* A connection is closed, and its handler is gone. *)
ConnectionClosed(c) ==
    /\ c \in open
    /\ open' = open \ {c}
    /\ sync_peers' = KnownAfterClose(PeerOf[c])
    /\ announced' = announced \ {PeerOf[c]}
    /\ handler' = [handler EXCEPT ![c] = 0]
    /\ outbound' = outbound \ {c}
    /\ woken' = TRUE
    /\ UNCHANGED <<events, due, armed, delayed, overlapped>>

(* The event loop gets a peer from mDNS.  It dials it, which may succeed   *)
(* later or not, and adds it at once.                                      *)
AddExplicitPeer(p) ==
    /\ sync_peers' = sync_peers \cup {p}
    /\ announced' = announced \cup {p}
    /\ woken' = TRUE
    /\ UNCHANGED <<open, events, due, armed, delayed, handler, outbound, overlapped>>

ForceSync(p) == events' = Append(events, p)

(* After five seconds the event loop forces a sync with one of the peers   *)
(* it is connected to, once.                                               *)
Delay ==
    /\ ~delayed
    /\ delayed' = TRUE
    /\ IF Connected = {} THEN UNCHANGED events ELSE \E p \in Connected : ForceSync(p)
    /\ woken' = TRUE
    /\ UNCHANGED <<open, sync_peers, due, armed, handler, outbound, history>>

(* The ticker fires.  Until it has been read it does not fire again. *)
Tick ==
    /\ ~due
    /\ due' = TRUE
    /\ woken' = (woken \/ armed)
    /\ armed' = FALSE
    /\ UNCHANGED <<open, sync_peers, events, delayed, handler, outbound, history>>

(* Anything else wakes the event loop: gossipsub does with a timer of its  *)
(* own, which reads its timer until that is armed again.                   *)
OtherWake ==
    /\ ~woken
    /\ woken' = TRUE
    /\ UNCHANGED <<open, behaviour, delayed, handler, outbound, history>>

----------------------------------------------------------------------------
(* poll() is called until it returns Pending.  It takes the newest event;  *)
(* the swarm gives it to a connection of the peer, or drops it.            *)
PollEvent ==
    LET p == events[Len(events)]
    IN  /\ woken
        /\ events # <<>>
        /\ events' = SubSeq(events, 1, Len(events) - 1)
        /\ IF OpenTo(p) = {} THEN UNCHANGED handler
           ELSE \E c \in OpenTo(p) :
                    /\ handler[c] < MaxRequests
                    /\ handler' = [handler EXCEPT ![c] = handler[c] + 1]
        /\ UNCHANGED <<open, sync_peers, due, armed, woken, delayed, outbound, history>>

ReadsTickerBug == woken

ReadsTicker == woken /\ events = <<>>

ChosenBug(p) == p \in sync_peers /\ p = CHOOSE q \in sync_peers : TRUE

(* A peer a heartbeat can choose. *)
Chosen(p) == p \in sync_peers

(* With no events and a ticker that is due: a heartbeat queues an event    *)
(* for a peer, and poll() returns Pending all the same.                    *)
PollHeartbeat(p) ==
    /\ ReadsTicker
    /\ due
    /\ Chosen(p)
    /\ ForceSync(p)
    /\ due' = FALSE
    /\ woken' = FALSE
    /\ UNCHANGED <<open, sync_peers, armed, delayed, handler, outbound, history>>

PollLonely ==
    /\ ReadsTicker
    /\ due
    /\ sync_peers = {}
    /\ due' = FALSE
    /\ woken' = FALSE
    /\ UNCHANGED <<open, sync_peers, events, armed, delayed, handler, outbound, history>>

(* With a ticker that is not due, the ticker remembers to wake the task. *)
PollIdle ==
    /\ ReadsTicker
    /\ ~due
    /\ armed' = TRUE
    /\ woken' = FALSE
    /\ UNCHANGED <<open, sync_peers, events, due, delayed, handler, outbound, history>>

(* The handler on c takes its oldest request, and a stream is negotiated,  *)
(* which starts send_sync or replaces the one in progress; or it is not.   *)
OpenStream(c) ==
    /\ handler[c] > 0
    /\ handler' = [handler EXCEPT ![c] = handler[c] - 1]
    /\ \/ outbound' = outbound \cup {c}
       \/ UNCHANGED outbound
    /\ UNCHANGED <<open, behaviour, woken, delayed, history>>

(* send_sync returns. *)
OutboundReady(c) ==
    /\ c \in outbound
    /\ outbound' = outbound \ {c}
    /\ UNCHANGED <<open, behaviour, woken, delayed, handler, history>>

Poll == PollEvent \/ (\E p \in Peer : PollHeartbeat(p)) \/ PollLonely \/ PollIdle

Next ==
    \/ \E c \in Conn : ConnectionEstablished(c) \/ ConnectionClosed(c)
    \/ \E p \in Peer : AddExplicitPeer(p)
    \/ Delay \/ Tick \/ OtherWake \/ Poll
    \/ \E c \in Conn : OpenStream(c) \/ OutboundReady(c)

Spec == Init /\ [][Next]_vars

(* Timers fire, a woken task and a handler are polled, and a random choice *)
(* made again and again comes to every peer.                               *)
Fairness ==
    /\ WF_vars(Tick) /\ WF_vars(OtherWake) /\ WF_vars(Poll)
    /\ \A c \in Conn : WF_vars(OpenStream(c))
    /\ \A p \in Peer : SF_vars(PollHeartbeat(p))

FairSpec == Spec /\ Fairness
----------------------------------------------------------------------------
(* Type invariant: the fields of the behaviour; a closed connection has no *)
(* handler.                                                                *)
TypeOK ==
    /\ open \subseteq Conn
    /\ sync_peers \subseteq Peer
    /\ events \in Seq(Peer)
    /\ {due, armed, woken, delayed} \subseteq BOOLEAN
    /\ handler \in [Conn -> 0..MaxRequests]
    /\ \A c \in Conn \ open : handler[c] = 0
    /\ outbound \subseteq open
    /\ announced \subseteq Peer
    /\ overlapped \subseteq Peer

(* The queue takes no more than one heartbeat and the one delayed sync,    *)
(* however seldom the swarm is polled, because a heartbeat reads its       *)
(* ticker only when the queue is empty (behaviour.rs:144): so popping from *)
(* the wrong end lets nothing wait behind newer events for long.           *)
QueueStaysShort == Len(events) <= IF delayed THEN 2 ELSE 1

(* A heartbeat can pass over a peer there is a connection to only when     *)
(* that had two connections at a time, of which one was closed             *)
(* (behaviour.rs:169).                                                     *)
ForgottenOnlyIfOverlapped == Connected \subseteq sync_peers \cup overlapped

(* A heartbeat can be wasted on a peer without a connection only when mDNS *)
(* announced that peer since a connection to it was last closed.           *)
WastedOnlyIfAnnounced == sync_peers \subseteq Connected \cup announced

(* Although a heartbeat wakes nobody (behaviour.rs:148), syncs with every  *)
(* peer that stays connected and known are requested again and again.      *)
HeartbeatReaches ==
    \A p \in Peer :
        <>[](p \in Connected \cap sync_peers) => []<>(\E c \in OpenTo(p) : handler[c] > 0)
=============================================================================
