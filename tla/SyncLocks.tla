----------------------------- MODULE SyncLocks -----------------------------
(***************************************************************************)
(* Who holds and who waits for the lock of each node's chain while nodes   *)
(* synchronise (node/src/protocols/chain_sync/protocol.rs): the two        *)
(* futures of every exchange, over a stream of limited capacity, and the   *)
(* event loop (node/src/main.rs).  ChainSync is about what is exchanged;   *)
(* here chains are only heights and responses only what they tell the      *)
(* initiator to do next.                                                   *)
(*                                                                         *)
(* Requests never fill their stream: a request is small, and unless the    *)
(* responder waits for one there are no more of them than blocks.  The     *)
(* task of a connection is always polled, and so are both its futures.     *)
(***************************************************************************)
EXTENDS Integers, Sequences

CONSTANTS
    Node,
    Link,       \* the pairs <<n, m>> such that n initiates syncs with m
    MaxHeight,  \* bound: the height an exchange starts its search at
    MaxBlocks,  \* bound: the blocks of a fragment
    Window      \* responses a stream takes before somebody reads them

ASSUME LinkAssumption == Link \subseteq {l \in Node \X Node : l[1] # l[2]}
ASSUME BoundAssumption == MaxHeight \in Nat \ {0} /\ MaxBlocks \in Nat \ {0}
ASSUME WindowAssumption == Window \in Nat \ {0}

NoOwner == <<"nobody">>
Initiator(l) == <<"initiator", l>>
Responder(l) == <<"responder", l>>

VARIABLES
    owner,      \* node -> the future that holds the lock of its chain
    waits,      \* node -> how often its event loop must still take the lock
                \* before it polls the swarm again
    forced,     \* links whose handler has been asked for a sync
    out,        \* link -> the line send_sync is at
    height,     \* link -> its variable height
    inn,        \* link -> the line recv_sync is at
    left,       \* link -> blocks recv_sync has still to send
    request,    \* links on which a request waits to be read
    stream      \* link -> responses on their way

sessions == <<out, height, inn, left, request, stream>>
vars == <<owner, waits, forced, sessions>>

Init ==
    /\ owner = [n \in Node |-> NoOwner]
    /\ waits = [n \in Node |-> 0]
    /\ forced = {}
    /\ out = [l \in Link |-> "none"]
    /\ height = [l \in Link |-> 1]
    /\ inn = [l \in Link |-> "none"]
    /\ left = [l \in Link |-> 0]
    /\ request = {}
    /\ stream = [l \in Link |-> <<>>]

Free(n) == owner[n] = NoOwner

----------------------------------------------------------------------------
(* The event loop of n takes an event: a valid ballot, for which it locks  *)
(* the chain in pool_ballot and in try_resolve, or the delay, after which  *)
(* it locks it once.                                                       *)
MainBusy(n) ==
    /\ waits[n] = 0
    /\ \E k \in 1..2 : waits' = [waits EXCEPT ![n] = k]
    /\ UNCHANGED <<owner, forced, sessions>>

(* It gets the lock, and lets it go before it waits for anything else. *)
MainLocks(n) ==
    /\ waits[n] > 0
    /\ Free(n)
    /\ waits' = [waits EXCEPT ![n] = waits[n] - 1]
    /\ UNCHANGED <<owner, forced, sessions>>

(* A heartbeat, or the delay: the swarm is polled and has a sync forced. *)
ForceSync(l) ==
    /\ waits[l[1]] = 0
    /\ l \notin forced
    /\ forced' = forced \cup {l}
    /\ UNCHANGED <<owner, waits, sessions>>

OwnersWithoutBug(l) == owner

(* The owners when the futures on l are dropped, with what they hold. *)
OwnersWithout(l) ==
    [n \in Node |-> IF owner[n] \in {Initiator(l), Responder(l)} THEN NoOwner ELSE owner[n]]

(* A stream is negotiated for l.  Both handlers replace the future they    *)
(* had.                                                                    *)
Negotiated(l) ==
    /\ l \in forced
    /\ forced' = forced \ {l}
    /\ owner' = OwnersWithout(l)
    /\ out' = [out EXCEPT ![l] = "start"]
    /\ height' = [height EXCEPT ![l] = 1]
    /\ inn' = [inn EXCEPT ![l] = "read"]
    /\ left' = [left EXCEPT ![l] = 0]
    /\ request' = request \ {l}
    /\ stream' = [stream EXCEPT ![l] = <<>>]
    /\ UNCHANGED waits

----------------------------------------------------------------------------
(* The initiator locks the chain for its height, and lets it go. *)
ReadHeight(l) ==
    /\ out[l] = "start"
    /\ Free(l[1])
    /\ out' = [out EXCEPT ![l] = "ask"]
    /\ \E h \in 1..MaxHeight : height' = [height EXCEPT ![l] = h]
    /\ UNCHANGED <<owner, waits, forced, inn, left, request, stream>>

(* It locks the chain for the hash, within the statement that sends it ... *)
Ask(l) ==
    /\ out[l] = "ask"
    /\ Free(l[1])
    /\ out' = [out EXCEPT ![l] = "asking"]
    /\ owner' = [owner EXCEPT ![l[1]] = Initiator(l)]
    /\ UNCHANGED <<waits, forced, height, inn, left, request, stream>>

AskedBug(l) ==
    /\ out[l] = "asking"
    /\ out' = [out EXCEPT ![l] = "read"]
    /\ request' = IF inn[l] = "read" THEN request \cup {l} ELSE request
    /\ UNCHANGED <<owner, waits, forced, height, inn, left, stream>>

(* ... and the guard is dropped at the end of the statement, when the      *)
(* request is sent.  Only a responder that waits for one reads it.         *)
Asked(l) ==
    /\ out[l] = "asking"
    /\ out' = [out EXCEPT ![l] = "read"]
    /\ owner' = [owner EXCEPT ![l[1]] = NoOwner]
    /\ request' = IF inn[l] = "read" THEN request \cup {l} ELSE request
    /\ UNCHANGED <<waits, forced, height, inn, left, stream>>

AfterBug(l) ==
    CASE Head(stream[l]) = "block" -> "ask"
      [] Head(stream[l]) = "last" -> "update"
      [] OTHER -> "ask"

(* After a block it asks again; after the last it updates its chain; after *)
(* NotFound it asks for the height below, or gives up at genesis.          *)
After(l) ==
    CASE Head(stream[l]) = "block" -> "ask"
      [] Head(stream[l]) = "last" -> "update"
      [] OTHER -> IF height[l] = 1 THEN "none" ELSE "ask"

ReadResponse(l) ==
    /\ out[l] = "read"
    /\ stream[l] # <<>>
    /\ stream' = [stream EXCEPT ![l] = Tail(stream[l])]
    /\ out' = [out EXCEPT ![l] = After(l)]
    /\ height' = [height EXCEPT ![l] =
           IF Head(stream[l]) = "not_found" /\ height[l] > 1 THEN height[l] - 1 ELSE height[l]]
    /\ UNCHANGED <<owner, waits, forced, inn, left, request>>

(* The responder has returned, and nothing is left to read. *)
ReadEnd(l) ==
    /\ out[l] = "read"
    /\ stream[l] = <<>>
    /\ inn[l] = "none"
    /\ out' = [out EXCEPT ![l] = "none"]
    /\ UNCHANGED <<owner, waits, forced, height, inn, left, request, stream>>

Update(l) ==
    /\ out[l] = "update"
    /\ Free(l[1])
    /\ out' = [out EXCEPT ![l] = "none"]
    /\ UNCHANGED <<owner, waits, forced, height, inn, left, request, stream>>

----------------------------------------------------------------------------
ReadRequest(l) ==
    /\ inn[l] = "read"
    /\ l \in request
    /\ request' = request \ {l}
    /\ inn' = [inn EXCEPT ![l] = "lock"]
    /\ UNCHANGED <<owner, waits, forced, out, height, left, stream>>

(* The responder locks its chain and looks the hash up: it has no block at *)
(* that height and returns, or it sends one response or more.              *)
Lookup(l) ==
    /\ inn[l] = "lock"
    /\ Free(l[2])
    /\ \/ /\ inn' = [inn EXCEPT ![l] = "none"]
          /\ UNCHANGED <<owner, left>>
       \/ /\ inn' = [inn EXCEPT ![l] = "refuse"]
          /\ owner' = [owner EXCEPT ![l[2]] = Responder(l)]
          /\ UNCHANGED left
       \/ /\ inn' = [inn EXCEPT ![l] = "send"]
          /\ owner' = [owner EXCEPT ![l[2]] = Responder(l)]
          /\ \E k \in 1..MaxBlocks : left' = [left EXCEPT ![l] = k]
    /\ UNCHANGED <<waits, forced, out, height, request, stream>>

HasRoomBug(l) == TRUE

HasRoom(l) == Len(stream[l]) < Window

Response(l, r) == stream' = [stream EXCEPT ![l] = Append(stream[l], r)]

SendNotFoundBug(l) ==
    /\ inn[l] = "refuse"
    /\ HasRoom(l)
    /\ Response(l, "not_found")
    /\ inn' = [inn EXCEPT ![l] = "read"]
    /\ UNCHANGED <<owner, waits, forced, out, height, left, request>>

(* It sends with the chain locked, and when the stream is full waits so.   *)
SendNotFound(l) ==
    /\ inn[l] = "refuse"
    /\ HasRoom(l)
    /\ Response(l, "not_found")
    /\ inn' = [inn EXCEPT ![l] = "read"]
    /\ owner' = [owner EXCEPT ![l[2]] = NoOwner]
    /\ UNCHANGED <<waits, forced, out, height, left, request>>

SendBlock(l) ==
    /\ inn[l] = "send"
    /\ HasRoom(l)
    /\ left' = [left EXCEPT ![l] = left[l] - 1]
    /\ Response(l, IF left[l] = 1 THEN "last" ELSE "block")
    /\ IF left[l] = 1
       THEN /\ inn' = [inn EXCEPT ![l] = "none"]
            /\ owner' = [owner EXCEPT ![l[2]] = NoOwner]
       ELSE UNCHANGED <<inn, owner>>
    /\ UNCHANGED <<waits, forced, out, height, request>>

----------------------------------------------------------------------------
(* What goes on unless it must wait for a lock, for room or for a message. *)
TakesLock(l) == ReadHeight(l) \/ Ask(l) \/ Update(l) \/ Lookup(l)
TakesNone(l) ==
    \/ Negotiated(l) \/ Asked(l) \/ ReadResponse(l) \/ ReadEnd(l)
    \/ ReadRequest(l) \/ SendNotFound(l) \/ SendBlock(l)

Progress == (\E n \in Node : MainLocks(n)) \/ (\E l \in Link : TakesLock(l) \/ TakesNone(l))

Next == Progress \/ (\E n \in Node : MainBusy(n)) \/ (\E l \in Link : ForceSync(l))

Spec == Init /\ [][Next]_vars

(* Tasks are polled when they can go on, and the lock lets nobody wait for *)
(* ever while it is free again and again (async_std's lets nobody overtake *)
(* a future that has waited for some time).  The ticker fires, and is      *)
(* polled whenever the event loop comes back to the swarm; the peer is one *)
(* that is known (see SyncBehaviour for when it is not).  Nothing is asked *)
(* of the event loop itself.                                               *)
Fairness ==
    \A l \in Link : WF_vars(TakesNone(l)) /\ SF_vars(TakesLock(l)) /\ SF_vars(ForceSync(l))

FairSpec == Spec /\ Fairness
----------------------------------------------------------------------------
(* Type invariant; streams never take more than their window. *)
TypeOK ==
    /\ owner \in [Node -> {NoOwner} \cup {Initiator(l) : l \in Link}
                                    \cup {Responder(l) : l \in Link}]
    /\ waits \in [Node -> 0..2]
    /\ forced \subseteq Link
    /\ out \in [Link -> {"none", "start", "ask", "asking", "read", "update"}]
    /\ height \in [Link -> 1..MaxHeight]
    /\ inn \in [Link -> {"none", "read", "lock", "refuse", "send"}]
    /\ left \in [Link -> 0..MaxBlocks]
    /\ request \subseteq Link
    /\ stream \in [Link -> Seq({"block", "last", "not_found"})]
    /\ \A l \in Link : Len(stream[l]) <= Window

(* The responder on l holds its chain's lock and cannot go on, because its *)
(* stream is full and the initiator waits for the lock of its own chain.   *)
HeldUp(l) ==
    /\ owner[l[2]] = Responder(l)
    /\ inn[l] = "send"
    /\ Len(stream[l]) = Window
    /\ out[l] = "ask"
    /\ ~Free(l[1])

(* One of the futures on l can take a next step that lets a lock go, or    *)
(* that makes room for its partner to take one.                            *)
CanGoOn(l) ==
    \/ out[l] = "asking"
    \/ out[l] = "read" /\ stream[l] # <<>>
    \/ out[l] = "ask" /\ Free(l[1])
    \/ inn[l] \in {"refuse", "send"} /\ HasRoom(l)

(* When a lock is held and nobody can go on, that is because of a circle   *)
(* of responders that send blocks into full streams (protocol.rs:151), to  *)
(* initiators that want a lock to ask once more between two blocks         *)
(* (protocol.rs:62).  There is no other deadlock: not of initiators that   *)
(* send, nor of NotFound, nor with the event loop.                         *)
OnlyHeldUp ==
    (\A l \in Link : ~CanGoOn(l))
        => \A n \in Node : ~Free(n) => \E l \in Link : l[2] = n /\ HeldUp(l)

(* The same of one lock at a time, while others go on: a lock is held only *)
(* by a future that can go on, or whose partner can, or that is held up:   *)
(* never by one that waits for a message of its partner (protocol.rs:66,   *)
(* 116).                                                                   *)
HolderGoesOn ==
    \A n \in Node : ~Free(n) =>
        \E l \in Link : /\ owner[n] \in {Initiator(l), Responder(l)}
                        /\ CanGoOn(l) \/ HeldUp(l)

(* Heartbeats end such a circle, because they replace the future that      *)
(* holds a lock: if the event loop of some node comes back to its swarm    *)
(* again and again, no lock is kept for ever.  (When a ballot reaches both *)
(* nodes of a circle, both event loops wait for their locks, and it stays.) *)
LocksFreed ==
    (\E n \in Node : []<>(waits[n] = 0)) => \A n \in Node : []<>Free(n)

(* Nothing but a race for locks keeps an exchange from its end: once no    *)
(* heartbeat replaces one that is still running (an exchange takes less    *)
(* than the 20 s between them), and no lock is kept for ever (not in the   *)
(* circle), every exchange ends.                                           *)
NeverReplaced == <>[][\A l \in Link : Negotiated(l) => out[l] = "none"]_vars

SyncEnds ==
    NeverReplaced /\ (\A n \in Node : []<>Free(n))
        => \A l \in Link : out[l] # "none" ~> out[l] = "none"
=============================================================================
