------------------------ MODULE SyncBehaviourProofs ------------------------
(***************************************************************************)
(* The safety of SyncBehaviour for any peers and connections.              *)
(***************************************************************************)
EXTENDS SyncBehaviour, SequenceTheorems, TLAPS

(* A peer with two connections is one that had two at a time.              *)
TwoOverlap ==
    \A c, d \in open : c # d /\ PeerOf[c] = PeerOf[d] => PeerOf[c] \in overlapped

IInv ==
    /\ TypeOK
    /\ QueueStaysShort
    /\ TwoOverlap
    /\ ForgottenOnlyIfOverlapped
    /\ WastedOnlyIfAnnounced

(* The part about connections and peers.                                   *)
Peers == TwoOverlap /\ ForgottenOnlyIfOverlapped /\ WastedOnlyIfAnnounced

(* The queue with an event more, and with its newest less.                 *)
LEMMA ForceSyncQueue ==
    ASSUME events \in Seq(Peer), NEW p \in Peer, ForceSync(p)
    PROVE  events' \in Seq(Peer) /\ Len(events') = Len(events) + 1
BY AppendProperties DEF ForceSync

LEMMA PollEventQueue ==
    ASSUME events \in Seq(Peer), PollEvent
    PROVE  events' \in Seq(Peer) /\ Len(events') = Len(events) - 1
<1>1. events # <<>> /\ events' = SubSeq(events, 1, Len(events) - 1)
  BY DEF PollEvent
<1>2. Len(events) \in Nat \ {0}
  BY <1>1, EmptySeq, LenProperties
<1>3. PICK n \in Nat : n = Len(events) - 1
  BY <1>2
<1>4. \A i \in 1..n : events[i] \in Peer
  <2>1. \A i \in 1..Len(events) : events[i] \in Peer
    BY ElementOfSeq
  <2> QED BY <1>2, <1>3, <2>1
<1>5. /\ SubSeq(events, 1, n) \in Seq(Peer)
      /\ Len(SubSeq(events, 1, n)) = IF 1 <= n THEN n - 1 + 1 ELSE 0
  BY <1>4, SubSeqProperties
<1> QED BY <1>1, <1>3, <1>5

LEMMA InitIInv == Init => IInv
<1> SUFFICES ASSUME Init PROVE IInv
  OBVIOUS
<1>1. /\ open = {} /\ sync_peers = {} /\ events = <<>> /\ due = FALSE /\ armed = FALSE
      /\ woken = TRUE /\ delayed = FALSE /\ handler = [c \in Conn |-> 0]
      /\ outbound = {} /\ announced = {} /\ overlapped = {}
  BY DEF Init
<1>2. events \in Seq(Peer) /\ Len(events) = 0
  BY <1>1, EmptySeq
<1>3. handler \in [Conn -> 0..MaxRequests]
  BY <1>1, RequestsAssumption
<1>4. TypeOK
  BY <1>1, <1>2, <1>3 DEF TypeOK
<1>5. QueueStaysShort
  BY <1>1, <1>2 DEF QueueStaysShort
<1>6. Connected = {}
  BY <1>1 DEF Connected, OpenTo
<1> QED BY <1>1, <1>4, <1>5, <1>6
    DEF IInv, TwoOverlap, ForgottenOnlyIfOverlapped, WastedOnlyIfAnnounced

----------------------------------------------------------------------------
(* Connections and peers. *)

LEMMA SamePeers ==
    ASSUME IInv, UNCHANGED <<open, sync_peers, announced, overlapped>>
    PROVE  Peers'
BY DEF IInv, Peers, TwoOverlap, ForgottenOnlyIfOverlapped, WastedOnlyIfAnnounced,
       Connected, OpenTo

LEMMA OpenedPeers ==
    ASSUME IInv, NEW c \in Conn, ConnectionEstablished(c)
    PROVE  Peers'
<1> DEFINE p == PeerOf[c]
<1>1. /\ c \notin open /\ open' = open \cup {c}
      /\ sync_peers' = sync_peers \cup {p} /\ announced' = announced
      /\ overlapped' = IF OpenTo(p) = {} THEN overlapped ELSE overlapped \cup {p}
  BY DEF ConnectionEstablished, KnownAfterOpen
<1>2. p \in Peer
  BY PeerAssumption
<1>3. Connected' = Connected \cup {p}
  BY <1>1, <1>2 DEF Connected, OpenTo
<1>4. TwoOverlap'
  <2> SUFFICES ASSUME NEW a \in open', NEW b \in open', a # b, PeerOf[a] = PeerOf[b]
               PROVE  PeerOf[a] \in overlapped'
    BY DEF TwoOverlap
  <2>1. CASE a \in open /\ b \in open
    BY <1>1, <2>1 DEF IInv, TwoOverlap
  <2>2. CASE a = c \/ b = c
    <3>1. OpenTo(p) # {} /\ PeerOf[a] = p
      BY <1>1, <2>2 DEF OpenTo
    <3> QED BY <1>1, <3>1
  <2> QED BY <1>1, <2>1, <2>2
<1>5. ForgottenOnlyIfOverlapped' /\ WastedOnlyIfAnnounced'
  BY <1>1, <1>3 DEF IInv, ForgottenOnlyIfOverlapped, WastedOnlyIfAnnounced
<1> QED BY <1>4, <1>5 DEF Peers

LEMMA ClosedPeers ==
    ASSUME IInv, NEW c \in Conn, ConnectionClosed(c)
    PROVE  Peers'
<1> DEFINE p == PeerOf[c]
<1>1. /\ c \in open /\ open' = open \ {c} /\ sync_peers' = sync_peers \ {p}
      /\ announced' = announced \ {p} /\ overlapped' = overlapped
  BY DEF ConnectionClosed, KnownAfterClose
<1>2. \A q \in Peer : q # p => (q \in Connected' <=> q \in Connected)
  BY <1>1 DEF Connected, OpenTo
<1>3. p \in Connected' => p \in overlapped
  <2> SUFFICES ASSUME p \in Connected' PROVE p \in overlapped
    OBVIOUS
  <2>1. PICK d \in open' : PeerOf[d] = p
    BY DEF Connected, OpenTo
  <2> QED BY <1>1, <2>1 DEF IInv, TwoOverlap
<1>4. TwoOverlap'
  BY <1>1 DEF IInv, TwoOverlap
<1>5. ForgottenOnlyIfOverlapped'
  <2> SUFFICES ASSUME NEW q \in Connected' PROVE q \in sync_peers' \cup overlapped'
    BY DEF ForgottenOnlyIfOverlapped
  <2>1. q \in Peer
    BY DEF Connected
  <2> QED BY <1>1, <1>2, <1>3, <2>1 DEF IInv, ForgottenOnlyIfOverlapped
<1>6. WastedOnlyIfAnnounced'
  <2> SUFFICES ASSUME NEW q \in sync_peers' PROVE q \in Connected' \cup announced'
    BY DEF WastedOnlyIfAnnounced
  <2>1. q \in sync_peers /\ q # p /\ q \in Peer
    BY <1>1 DEF IInv, TypeOK
  <2> QED BY <1>1, <1>2, <2>1 DEF IInv, WastedOnlyIfAnnounced
<1> QED BY <1>4, <1>5, <1>6 DEF Peers

LEMMA AnnouncedPeers ==
    ASSUME IInv, NEW p \in Peer, AddExplicitPeer(p)
    PROVE  Peers'
<1>1. /\ UNCHANGED <<open, overlapped>>
      /\ sync_peers' = sync_peers \cup {p} /\ announced' = announced \cup {p}
  BY DEF AddExplicitPeer
<1>2. Connected' = Connected
  BY <1>1 DEF Connected, OpenTo
<1> QED BY <1>1, <1>2
    DEF IInv, Peers, TwoOverlap, ForgottenOnlyIfOverlapped, WastedOnlyIfAnnounced

LEMMA NextPeers == ASSUME IInv, [Next]_vars PROVE Peers'
<1>1. ASSUME NEW c \in Conn, ConnectionEstablished(c) \/ ConnectionClosed(c) PROVE Peers'
  BY <1>1, OpenedPeers, ClosedPeers
<1>2. ASSUME NEW p \in Peer, AddExplicitPeer(p) PROVE Peers'
  BY <1>2, AnnouncedPeers
<1>3. \/ \E c \in Conn : ConnectionEstablished(c) \/ ConnectionClosed(c)
      \/ \E p \in Peer : AddExplicitPeer(p)
      \/ UNCHANGED <<open, sync_peers, announced, overlapped>>
  BY DEF Next, Poll, Delay, Tick, OtherWake, PollEvent, PollHeartbeat, PollLonely, PollIdle,
         OpenStream, OutboundReady, behaviour, history, vars
<1> QED BY <1>1, <1>2, <1>3, SamePeers

----------------------------------------------------------------------------
(* The queue. *)

LEMMA NextQueue ==
    ASSUME IInv, [Next]_vars
    PROVE  events' \in Seq(Peer) /\ delayed' \in BOOLEAN /\ QueueStaysShort'
<1>1. /\ events \in Seq(Peer) /\ delayed \in BOOLEAN /\ Len(events) \in Nat
      /\ Len(events) <= IF delayed THEN 2 ELSE 1
  BY LenProperties DEF IInv, TypeOK, QueueStaysShort
<1>2. CASE UNCHANGED <<events, delayed>>
  BY <1>1, <1>2 DEF QueueStaysShort
<1>3. CASE Delay
  <2>1. ~delayed /\ delayed' = TRUE
    BY <1>3 DEF Delay
  <2>2. events' = events \/ \E p \in Peer : ForceSync(p)
    BY <1>3 DEF Delay, Connected
  <2>3. events' \in Seq(Peer) /\ Len(events') <= Len(events) + 1
    BY <1>1, <2>2, ForceSyncQueue
  <2>4. Len(events') \in Nat
    BY <2>3, LenProperties
  <2> QED BY <1>1, <2>1, <2>3, <2>4 DEF QueueStaysShort
<1>4. CASE PollEvent
  <2>1. events' \in Seq(Peer) /\ Len(events') = Len(events) - 1 /\ delayed' = delayed
    BY <1>1, <1>4, PollEventQueue DEF PollEvent
  <2> QED BY <1>1, <2>1 DEF QueueStaysShort
<1>5. CASE \E p \in Peer : PollHeartbeat(p)
  <2>1. PICK p \in Peer : PollHeartbeat(p)
    BY <1>5
  <2>2. events = <<>> /\ ForceSync(p) /\ delayed' = delayed
    BY <2>1 DEF PollHeartbeat, ReadsTicker
  <2>3. events' \in Seq(Peer) /\ Len(events') = 1
    BY <1>1, <2>2, ForceSyncQueue, EmptySeq
  <2> QED BY <1>1, <2>2, <2>3 DEF QueueStaysShort
<1>6. \/ Delay \/ PollEvent \/ \E p \in Peer : PollHeartbeat(p)
      \/ UNCHANGED <<events, delayed>>
  BY DEF Next, Poll, ConnectionEstablished, ConnectionClosed, AddExplicitPeer, Tick,
         OtherWake, PollLonely, PollIdle, OpenStream, OutboundReady, behaviour, vars
<1> QED BY <1>2, <1>3, <1>4, <1>5, <1>6

----------------------------------------------------------------------------
(* Types. *)

Sets ==
    /\ open \subseteq Conn
    /\ sync_peers \subseteq Peer
    /\ announced \subseteq Peer
    /\ overlapped \subseteq Peer

Flags == {due, armed, woken} \subseteq BOOLEAN

Handlers ==
    /\ handler \in [Conn -> 0..MaxRequests]
    /\ \A c \in Conn \ open : handler[c] = 0
    /\ outbound \subseteq open

LEMMA NextSets == ASSUME IInv, [Next]_vars PROVE Sets'
<1>1. Sets
  BY DEF IInv, TypeOK, Sets
<1>2. CASE UNCHANGED <<open, sync_peers, announced, overlapped>>
  BY <1>1, <1>2 DEF Sets
<1>3. CASE \E c \in Conn : ConnectionEstablished(c)
  BY <1>1, <1>3, PeerAssumption DEF ConnectionEstablished, KnownAfterOpen, Sets
<1>4. CASE \E c \in Conn : ConnectionClosed(c)
  BY <1>1, <1>4 DEF ConnectionClosed, KnownAfterClose, Sets
<1>5. CASE \E p \in Peer : AddExplicitPeer(p)
  BY <1>1, <1>5 DEF AddExplicitPeer, Sets
<1>6. \/ \E c \in Conn : ConnectionEstablished(c) \/ ConnectionClosed(c)
      \/ \E p \in Peer : AddExplicitPeer(p)
      \/ UNCHANGED <<open, sync_peers, announced, overlapped>>
  BY DEF Next, Poll, Delay, Tick, OtherWake, PollEvent, PollHeartbeat, PollLonely, PollIdle,
         OpenStream, OutboundReady, behaviour, history, vars
<1> QED BY <1>2, <1>3, <1>4, <1>5, <1>6

LEMMA NextFlags == ASSUME IInv, [Next]_vars PROVE Flags'
<1>1. due \in BOOLEAN /\ armed \in BOOLEAN /\ woken \in BOOLEAN
  BY DEF IInv, TypeOK
<1>2. due' \in BOOLEAN /\ armed' \in BOOLEAN /\ woken' \in BOOLEAN
  BY <1>1, Zenon
     DEF Next, Poll, ConnectionEstablished, ConnectionClosed, AddExplicitPeer, Delay, Tick,
         OtherWake, PollEvent, PollHeartbeat, PollLonely, PollIdle, OpenStream, OutboundReady,
         behaviour, vars
<1> QED BY <1>2 DEF Flags

LEMMA NextHandlers == ASSUME IInv, [Next]_vars PROVE Handlers'
<1>1. Handlers /\ open \subseteq Conn
  BY DEF IInv, TypeOK, Handlers
<1>2. CASE UNCHANGED <<open, handler, outbound>>
  BY <1>1, <1>2 DEF Handlers
<1>3. CASE \E c \in Conn : ConnectionEstablished(c)
  BY <1>1, <1>3 DEF ConnectionEstablished, Handlers
<1>4. CASE \E c \in Conn : ConnectionClosed(c)
  BY <1>1, <1>4, RequestsAssumption DEF ConnectionClosed, Handlers
<1>5. CASE PollEvent
  <2>1. open' = open /\ outbound' = outbound
    BY <1>5 DEF PollEvent
  <2>2. CASE handler' = handler
    BY <1>1, <2>1, <2>2 DEF Handlers
  <2>3. CASE \E c \in open : /\ handler[c] < MaxRequests
                             /\ handler' = [handler EXCEPT ![c] = handler[c] + 1]
    <3>1. PICK c \in open : /\ handler[c] < MaxRequests
                            /\ handler' = [handler EXCEPT ![c] = handler[c] + 1]
      BY <2>3
    <3>2. handler[c] + 1 \in 0..MaxRequests
      BY <1>1, <3>1, RequestsAssumption DEF Handlers
    <3> QED BY <1>1, <2>1, <3>1, <3>2 DEF Handlers
  <2> QED BY <1>5, <2>2, <2>3 DEF PollEvent, OpenTo
<1>6. CASE \E c \in Conn : OpenStream(c)
  <2>1. PICK c \in Conn : OpenStream(c)
    BY <1>6
  <2>2. /\ handler[c] > 0 /\ handler' = [handler EXCEPT ![c] = handler[c] - 1]
        /\ outbound' \subseteq outbound \cup {c} /\ open' = open
    BY <2>1 DEF OpenStream
  <2>3. handler[c] - 1 \in 0..MaxRequests /\ c \in open
    BY <1>1, <2>2, RequestsAssumption DEF Handlers
  <2> QED BY <1>1, <2>2, <2>3 DEF Handlers
<1>7. CASE \E c \in Conn : OutboundReady(c)
  BY <1>1, <1>7 DEF OutboundReady, Handlers
<1>8. \/ \E c \in Conn : ConnectionEstablished(c) \/ ConnectionClosed(c)
      \/ PollEvent
      \/ \E c \in Conn : OpenStream(c) \/ OutboundReady(c)
      \/ UNCHANGED <<open, handler, outbound>>
  BY DEF Next, Poll, AddExplicitPeer, Delay, Tick, OtherWake, PollHeartbeat, PollLonely,
         PollIdle, vars
<1> QED BY <1>2, <1>3, <1>4, <1>5, <1>6, <1>7, <1>8

LEMMA NextIInv == IInv /\ [Next]_vars => IInv'
<1> SUFFICES ASSUME IInv, [Next]_vars PROVE IInv'
  OBVIOUS
<1>1. Sets' /\ Flags' /\ Handlers' /\ Peers'
  BY NextSets, NextFlags, NextHandlers, NextPeers
<1>2. events' \in Seq(Peer) /\ delayed' \in BOOLEAN /\ QueueStaysShort'
  BY NextQueue
<1>3. TypeOK'
  BY <1>1, <1>2 DEF Sets, Flags, Handlers, TypeOK
<1> QED BY <1>1, <1>2, <1>3 DEF IInv, Peers

LEMMA AlwaysIInv == Spec => []IInv
BY InitIInv, NextIInv, PTL DEF Spec

----------------------------------------------------------------------------
(* The fields of the behaviour keep their types, for any peers.            *)
THEOREM TypeCorrect == Spec => []TypeOK
<1>1. IInv => TypeOK
  BY DEF IInv
<1> QED BY <1>1, AlwaysIInv, PTL

(* The event queue never gets longer than a heartbeat and the delayed      *)
(* sync, however many peers there are.                                     *)
THEOREM QueueIsShort == Spec => []QueueStaysShort
<1>1. IInv => QueueStaysShort
  BY DEF IInv
<1> QED BY <1>1, AlwaysIInv, PTL

(* Only a peer that had two connections at a time can be connected and     *)
(* unknown.                                                                *)
THEOREM ForgetsOverlapped == Spec => []ForgottenOnlyIfOverlapped
<1>1. IInv => ForgottenOnlyIfOverlapped
  BY DEF IInv
<1> QED BY <1>1, AlwaysIInv, PTL

(* Only a peer that mDNS announced can be known and unconnected.           *)
THEOREM WastesOnAnnounced == Spec => []WastedOnlyIfAnnounced
<1>1. IInv => WastedOnlyIfAnnounced
  BY DEF IInv
<1> QED BY <1>1, AlwaysIInv, PTL
=============================================================================
