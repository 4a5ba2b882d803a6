-------------------------- MODULE SyncLocksProofs --------------------------
(***************************************************************************)
(* The types of SyncLocks, and who can keep a lock, for any nodes, links   *)
(* and bounds.                                                             *)
(***************************************************************************)
EXTENDS SyncLocks, SequenceTheorems, TLAPS

(* A future that holds a lock is one on a link of its node, at a line that *)
(* keeps the guard.                                                        *)
OwnersHold ==
    \A n \in Node :
        \/ Free(n)
        \/ \E l \in Link : l[1] = n /\ owner[n] = Initiator(l) /\ out[l] = "asking"
        \/ \E l \in Link :
               l[2] = n /\ owner[n] = Responder(l) /\ inn[l] \in {"refuse", "send"}

(* Questions and answers alternate until the first block is sent.          *)
Alternates(l) ==
    /\ l \in request => inn[l] = "read" /\ out[l] = "read" /\ stream[l] = <<>>
    /\ inn[l] \in {"lock", "refuse"} => out[l] = "read" /\ stream[l] = <<>>
    /\ inn[l] = "read" /\ out[l] # "read" => stream[l] = <<>>
    /\ inn[l] = "read" /\ stream[l] # <<>> => stream[l] = <<"not_found">>
    /\ inn[l] = "send" => /\ out[l] \in {"read", "ask", "asking"}
                          /\ left[l] > 0
                          /\ \A i \in 1..Len(stream[l]) : stream[l][i] = "block"
    /\ out[l] \in {"start", "update"} => inn[l] \in {"read", "none"}

IInv ==
    /\ TypeOK
    /\ OwnersHold
    /\ \A l \in Link : Alternates(l)

----------------------------------------------------------------------------
(* Streams: what is sent comes last, what is read came first.              *)
LEMMA Sending ==
    ASSUME NEW s, s \in Seq({"block", "last", "not_found"}),
           NEW r \in {"block", "last", "not_found"}
    PROVE  /\ Append(s, r) \in Seq({"block", "last", "not_found"})
           /\ Len(Append(s, r)) = Len(s) + 1
           /\ Len(s) \in Nat
           /\ \A i \in 1..Len(s) : Append(s, r)[i] = s[i]
           /\ Append(s, r)[Len(s) + 1] = r
BY AppendProperties, LenProperties

LEMMA Reading ==
    ASSUME NEW s, s \in Seq({"block", "last", "not_found"}), s # <<>>
    PROVE  /\ Tail(s) \in Seq({"block", "last", "not_found"})
           /\ Head(s) \in {"block", "last", "not_found"}
           /\ Head(s) = s[1]
           /\ Len(s) \in Nat \ {0}
           /\ Len(Tail(s)) = Len(s) - 1
           /\ \A i \in 1..Len(Tail(s)) : Tail(s)[i] = s[i + 1]
BY HeadTailProperties, EmptySeq, LenProperties

LEMMA EmptyStream ==
    /\ <<>> \in Seq({"block", "last", "not_found"})
    /\ Len(<<>>) = 0
BY EmptySeq

LEMMA InitIInv == Init => IInv
<1> SUFFICES ASSUME Init PROVE IInv
  OBVIOUS
<1>1. TypeOK
  BY EmptyStream, BoundAssumption, WindowAssumption DEF Init, TypeOK
<1>2. OwnersHold
  BY DEF Init, OwnersHold, Free
<1>3. \A l \in Link : Alternates(l)
  BY DEF Init, Alternates
<1> QED BY <1>1, <1>2, <1>3 DEF IInv

(* Steps that leave the streams alone. *)
LEMMA MainBusyKeeps ==
    ASSUME IInv, NEW n \in Node, MainBusy(n)
    PROVE  IInv'
<1>1. TypeOK /\ OwnersHold /\ \A k \in Link : Alternates(k)
  BY DEF IInv
<1>2. TypeOK'
  BY <1>1 DEF TypeOK, MainBusy, sessions
<1>3. OwnersHold'
  BY <1>1, LinkAssumption DEF TypeOK, OwnersHold, Free, Initiator, Responder, NoOwner,
     MainBusy, sessions
<1>4. ASSUME NEW k \in Link PROVE Alternates(k)'
  BY <1>1 DEF TypeOK, Alternates, MainBusy, sessions
<1> QED BY <1>2, <1>3, <1>4 DEF IInv

LEMMA MainLocksKeeps ==
    ASSUME IInv, NEW n \in Node, MainLocks(n)
    PROVE  IInv'
<1>1. TypeOK /\ OwnersHold /\ \A k \in Link : Alternates(k)
  BY DEF IInv
<1>2. TypeOK'
  BY <1>1 DEF TypeOK, MainLocks, sessions
<1>3. OwnersHold'
  BY <1>1, LinkAssumption DEF TypeOK, OwnersHold, Free, Initiator, Responder, NoOwner,
     MainLocks, sessions
<1>4. ASSUME NEW k \in Link PROVE Alternates(k)'
  BY <1>1 DEF TypeOK, Alternates, MainLocks, sessions
<1> QED BY <1>2, <1>3, <1>4 DEF IInv

LEMMA ForceSyncKeeps ==
    ASSUME IInv, NEW l \in Link, ForceSync(l)
    PROVE  IInv'
<1>1. TypeOK /\ OwnersHold /\ \A k \in Link : Alternates(k)
  BY DEF IInv
<1>2. TypeOK'
  BY <1>1 DEF TypeOK, ForceSync, sessions
<1>3. OwnersHold'
  BY <1>1, LinkAssumption DEF TypeOK, OwnersHold, Free, Initiator, Responder, NoOwner,
     ForceSync, sessions
<1>4. ASSUME NEW k \in Link PROVE Alternates(k)'
  BY <1>1 DEF TypeOK, Alternates, ForceSync, sessions
<1> QED BY <1>2, <1>3, <1>4 DEF IInv

LEMMA ReadHeightKeeps ==
    ASSUME IInv, NEW l \in Link, ReadHeight(l)
    PROVE  IInv'
<1>1. TypeOK /\ OwnersHold /\ \A k \in Link : Alternates(k)
  BY DEF IInv
<1>2. TypeOK'
  BY <1>1, BoundAssumption DEF TypeOK, ReadHeight, sessions
<1>3. OwnersHold'
  BY <1>1, LinkAssumption DEF TypeOK, OwnersHold, Free, Initiator, Responder, NoOwner,
     ReadHeight, sessions
<1>4. ASSUME NEW k \in Link PROVE Alternates(k)'
  BY <1>1 DEF TypeOK, Alternates, ReadHeight, sessions
<1> QED BY <1>2, <1>3, <1>4 DEF IInv

LEMMA AskKeeps ==
    ASSUME IInv, NEW l \in Link, Ask(l)
    PROVE  IInv'
<1>1. TypeOK /\ OwnersHold /\ \A k \in Link : Alternates(k)
  BY DEF IInv
<1>2. TypeOK'
  BY <1>1 DEF TypeOK, Ask, sessions
<1>3. OwnersHold'
  BY <1>1, LinkAssumption DEF TypeOK, OwnersHold, Free, Initiator, Responder, NoOwner,
     Ask, sessions
<1>4. ASSUME NEW k \in Link PROVE Alternates(k)'
  BY <1>1 DEF TypeOK, Alternates, Ask, sessions
<1> QED BY <1>2, <1>3, <1>4 DEF IInv

LEMMA AskedKeeps ==
    ASSUME IInv, NEW l \in Link, Asked(l)
    PROVE  IInv'
<1>1. TypeOK /\ OwnersHold /\ \A k \in Link : Alternates(k)
  BY DEF IInv
<1>2. TypeOK'
  BY <1>1 DEF TypeOK, Asked, sessions
<1>3. OwnersHold'
  BY <1>1, LinkAssumption DEF TypeOK, OwnersHold, Free, Initiator, Responder, NoOwner,
     Asked, sessions
<1>4. ASSUME NEW k \in Link PROVE Alternates(k)'
  BY <1>1 DEF TypeOK, Alternates, Asked, sessions
<1> QED BY <1>2, <1>3, <1>4 DEF IInv

LEMMA ReadEndKeeps ==
    ASSUME IInv, NEW l \in Link, ReadEnd(l)
    PROVE  IInv'
<1>1. TypeOK /\ OwnersHold /\ \A k \in Link : Alternates(k)
  BY DEF IInv
<1>2. TypeOK'
  BY <1>1 DEF TypeOK, ReadEnd, sessions
<1>3. OwnersHold'
  BY <1>1, LinkAssumption DEF TypeOK, OwnersHold, Free, Initiator, Responder, NoOwner,
     ReadEnd, sessions
<1>4. ASSUME NEW k \in Link PROVE Alternates(k)'
  BY <1>1 DEF TypeOK, Alternates, ReadEnd, sessions
<1> QED BY <1>2, <1>3, <1>4 DEF IInv

LEMMA UpdateKeeps ==
    ASSUME IInv, NEW l \in Link, Update(l)
    PROVE  IInv'
<1>1. TypeOK /\ OwnersHold /\ \A k \in Link : Alternates(k)
  BY DEF IInv
<1>2. TypeOK'
  BY <1>1 DEF TypeOK, Update, sessions
<1>3. OwnersHold'
  BY <1>1, LinkAssumption DEF TypeOK, OwnersHold, Free, Initiator, Responder, NoOwner,
     Update, sessions
<1>4. ASSUME NEW k \in Link PROVE Alternates(k)'
  BY <1>1 DEF TypeOK, Alternates, Update, sessions
<1> QED BY <1>2, <1>3, <1>4 DEF IInv

LEMMA ReadRequestKeeps ==
    ASSUME IInv, NEW l \in Link, ReadRequest(l)
    PROVE  IInv'
<1>1. TypeOK /\ OwnersHold /\ \A k \in Link : Alternates(k)
  BY DEF IInv
<1>2. TypeOK'
  BY <1>1 DEF TypeOK, ReadRequest, sessions
<1>3. OwnersHold'
  BY <1>1, LinkAssumption DEF TypeOK, OwnersHold, Free, Initiator, Responder, NoOwner,
     ReadRequest, sessions
<1>4. ASSUME NEW k \in Link PROVE Alternates(k)'
  BY <1>1 DEF TypeOK, Alternates, ReadRequest, sessions
<1> QED BY <1>2, <1>3, <1>4 DEF IInv

(* New futures: an owner that stays is on another link. *)
LEMMA NegotiatedKeeps ==
    ASSUME IInv, NEW l \in Link, Negotiated(l)
    PROVE  IInv'
<1>1. TypeOK /\ OwnersHold /\ \A k \in Link : Alternates(k)
  BY DEF IInv
<1>2. TypeOK'
  <2>1. owner' \in [Node -> {NoOwner} \cup {Initiator(k) : k \in Link}
                                      \cup {Responder(k) : k \in Link}]
    BY <1>1 DEF TypeOK, Negotiated, OwnersWithout
  <2>2. /\ stream' \in [Link -> Seq({"block", "last", "not_found"})]
        /\ \A k \in Link : Len(stream'[k]) <= Window
    BY <1>1, EmptyStream, WindowAssumption DEF TypeOK, Negotiated
  <2>3. height' \in [Link -> 1..MaxHeight] /\ left' \in [Link -> 0..MaxBlocks]
    BY <1>1, BoundAssumption DEF TypeOK, Negotiated
  <2> QED BY <1>1, <2>1, <2>2, <2>3 DEF TypeOK, Negotiated
<1>3. OwnersHold'
  BY <1>1 DEF TypeOK, OwnersHold, Free, Initiator, Responder, NoOwner,
     Negotiated, OwnersWithout
<1>4. ASSUME NEW k \in Link PROVE Alternates(k)'
  <2>1. CASE k = l
    BY <1>1, <2>1, EmptyStream DEF TypeOK, Alternates, Negotiated
  <2>2. CASE k # l
    BY <1>1, <2>2 DEF TypeOK, Alternates, Negotiated
  <2> QED BY <2>1, <2>2
<1> QED BY <1>2, <1>3, <1>4 DEF IInv

(* A response is read: what is left of the stream is shorter. *)
LEMMA ReadResponseKeeps ==
    ASSUME IInv, NEW l \in Link, ReadResponse(l)
    PROVE  IInv'
<1>1. TypeOK /\ OwnersHold /\ \A k \in Link : Alternates(k)
  BY DEF IInv
<1>2. PICK s : s = stream[l]
  OBVIOUS
<1>3. /\ s \in Seq({"block", "last", "not_found"}) /\ s # <<>> /\ Len(s) <= Window
      /\ out[l] = "read" /\ stream' = [stream EXCEPT ![l] = Tail(s)]
      /\ UNCHANGED <<owner, waits, forced, inn, left, request>>
  BY <1>1, <1>2 DEF TypeOK, ReadResponse
<1>4. /\ Tail(s) \in Seq({"block", "last", "not_found"})
      /\ Head(s) \in {"block", "last", "not_found"} /\ Head(s) = s[1]
      /\ Len(s) \in Nat \ {0} /\ Len(Tail(s)) = Len(s) - 1
      /\ \A i \in 1..Len(Tail(s)) : Tail(s)[i] = s[i + 1]
  BY <1>3, Reading
<1>5. /\ out' = [out EXCEPT ![l] = out'[l]]
      /\ out'[l] \in {"ask", "update", "none"}
      /\ out'[l] = "update" => Head(s) = "last"
      /\ out'[l] = "none" => Head(s) = "not_found"
  BY <1>1, <1>2, <1>4 DEF TypeOK, ReadResponse, After
<1>6. TypeOK'
  <2>1. /\ stream' \in [Link -> Seq({"block", "last", "not_found"})]
        /\ \A k \in Link : Len(stream'[k]) <= Window
    BY <1>1, <1>3, <1>4, WindowAssumption DEF TypeOK
  <2>2. height' \in [Link -> 1..MaxHeight]
    <3>1. PICK h : /\ height' = [height EXCEPT ![l] = h]
                   /\ h = height[l] \/ (height[l] > 1 /\ h = height[l] - 1)
      <4>1. CASE Head(stream[l]) = "not_found" /\ height[l] > 1
        BY <4>1 DEF ReadResponse
      <4>2. CASE ~(Head(stream[l]) = "not_found" /\ height[l] > 1)
        BY <4>2 DEF ReadResponse
      <4> QED BY <4>1, <4>2
    <3>2. height[l] \in 1..MaxHeight /\ MaxHeight \in Nat
      BY <1>1, BoundAssumption DEF TypeOK
    <3>3. h \in 1..MaxHeight
      BY <3>1, <3>2
    <3> QED BY <1>1, <3>1, <3>3 DEF TypeOK
  <2>3. out' \in [Link -> {"none", "start", "ask", "asking", "read", "update"}]
    BY <1>1, <1>5 DEF TypeOK
  <2> QED BY <1>1, <1>3, <2>1, <2>2, <2>3 DEF TypeOK
<1>7. OwnersHold'
  BY <1>1, <1>3, <1>5 DEF TypeOK, OwnersHold, Free
<1>8. ASSUME NEW k \in Link PROVE Alternates(k)'
  <2>1. CASE k = l
    <3>1. stream'[l] = Tail(s) /\ inn'[l] = inn[l] /\ left'[l] = left[l] /\ request' = request
      BY <1>1, <1>3 DEF TypeOK
    <3>2. l \notin request /\ inn[l] \notin {"lock", "refuse"}
      BY <1>1, <1>2, <1>3 DEF Alternates
    <3>3. inn[l] = "read" => Tail(s) = <<>>
      <4>1. inn[l] = "read" => s = <<"not_found">>
        BY <1>1, <1>2, <1>3 DEF Alternates
      <4>2. Tail(<<"not_found">>) = <<>>
        OBVIOUS
      <4> QED BY <4>1, <4>2
    <3>4. inn[l] = "send" => /\ out'[l] = "ask" /\ left[l] > 0
                             /\ \A i \in 1..Len(Tail(s)) : Tail(s)[i] = "block"
      <4> SUFFICES ASSUME inn[l] = "send"
                   PROVE  /\ out'[l] = "ask" /\ left[l] > 0
                          /\ \A i \in 1..Len(Tail(s)) : Tail(s)[i] = "block"
        OBVIOUS
      <4>1. left[l] > 0 /\ \A i \in 1..Len(s) : s[i] = "block"
        BY <1>1, <1>2 DEF Alternates
      <4>2. Head(s) = "block"
        BY <1>4, <4>1
      <4>3. \A i \in 1..Len(Tail(s)) : Tail(s)[i] = "block"
        BY <1>4, <4>1
      <4> QED BY <1>5, <4>1, <4>2, <4>3
    <3>5. out'[l] = "update" => inn[l] \in {"read", "none"}
      BY <1>1, <1>5, <3>2, <3>4 DEF TypeOK
    <3> QED BY <1>5, <2>1, <3>1, <3>2, <3>3, <3>4, <3>5 DEF Alternates
  <2>2. CASE k # l
    BY <1>1, <1>3, <1>5, <2>2 DEF TypeOK, Alternates
  <2> QED BY <2>1, <2>2
<1> QED BY <1>6, <1>7, <1>8 DEF IInv

(* The responder's three ways on. *)
LEMMA LookupKeeps ==
    ASSUME IInv, NEW l \in Link, Lookup(l)
    PROVE  IInv'
<1>1. TypeOK /\ OwnersHold /\ \A k \in Link : Alternates(k)
  BY DEF IInv
<1>2. /\ inn[l] = "lock" /\ Free(l[2]) /\ l[1] \in Node /\ l[2] \in Node
      /\ UNCHANGED <<waits, forced, out, height, request, stream>>
  BY LinkAssumption DEF Lookup
<1>3. \/ inn' = [inn EXCEPT ![l] = "none"] /\ UNCHANGED <<owner, left>>
      \/ /\ inn' = [inn EXCEPT ![l] = "refuse"] /\ left' = left
         /\ owner' = [owner EXCEPT ![l[2]] = Responder(l)]
      \/ /\ inn' = [inn EXCEPT ![l] = "send"]
         /\ owner' = [owner EXCEPT ![l[2]] = Responder(l)]
         /\ \E k \in 1..MaxBlocks : left' = [left EXCEPT ![l] = k]
  BY DEF Lookup
<1>4. TypeOK'
  <2>1. left' \in [Link -> 0..MaxBlocks]
    <3>1. 1..MaxBlocks \subseteq 0..MaxBlocks
      BY BoundAssumption
    <3> QED BY <1>1, <1>3, <3>1 DEF TypeOK
  <2>2. owner' \in [Node -> {NoOwner} \cup {Initiator(k) : k \in Link}
                                      \cup {Responder(k) : k \in Link}]
    <3>1. CASE owner' = owner
      BY <1>1, <3>1 DEF TypeOK
    <3>2. CASE owner' = [owner EXCEPT ![l[2]] = Responder(l)]
      BY <1>1, <3>2 DEF TypeOK
    <3> QED BY <1>3, <3>1, <3>2
  <2>3. inn' \in [Link -> {"none", "read", "lock", "refuse", "send"}]
    BY <1>1, <1>3 DEF TypeOK
  <2> QED BY <1>1, <1>2, <2>1, <2>2, <2>3 DEF TypeOK
<1>5. OwnersHold'
  <2> SUFFICES ASSUME NEW n \in Node, owner'[n] # NoOwner
               PROVE  \/ \E k \in Link : k[1] = n /\ owner'[n] = Initiator(k) /\ out'[k] = "asking"
                      \/ \E k \in Link : k[2] = n /\ owner'[n] = Responder(k)
                                                  /\ inn'[k] \in {"refuse", "send"}
    BY DEF OwnersHold, Free
  <2>1. CASE owner'[n] = owner[n]
    <3>1. inn' \in [Link -> {"none", "read", "lock", "refuse", "send"}]
          /\ \A k \in Link : inn[k] \in {"refuse", "send"} => inn'[k] = inn[k]
      BY <1>1, <1>2, <1>3 DEF TypeOK
    <3>2. \/ \E k \in Link : k[1] = n /\ owner[n] = Initiator(k) /\ out[k] = "asking"
          \/ \E k \in Link : k[2] = n /\ owner[n] = Responder(k) /\ inn[k] \in {"refuse", "send"}
      BY <1>1, <2>1 DEF OwnersHold, Free
    <3> QED BY <1>2, <2>1, <3>1, <3>2
  <2>2. CASE owner'[n] # owner[n]
    <3>1. n = l[2] /\ owner'[n] = Responder(l)
      BY <1>1, <1>2, <1>3, <2>2 DEF TypeOK
    <3>2. inn'[l] \in {"refuse", "send"}
      BY <1>1, <1>3, <2>2 DEF TypeOK
    <3> QED BY <3>1, <3>2
  <2> QED BY <2>1, <2>2
<1>6. ASSUME NEW k \in Link PROVE Alternates(k)'
  <2>1. CASE k = l
    <3>1. out[l] = "read" /\ stream[l] = <<>> /\ l \notin request
      BY <1>1, <1>2 DEF Alternates
    <3> QED BY <1>1, <1>2, <1>3, <2>1, <3>1, EmptyStream DEF TypeOK, Alternates
  <2>2. CASE k # l
    BY <1>1, <1>2, <1>3, <2>2 DEF TypeOK, Alternates
  <2> QED BY <2>1, <2>2
<1> QED BY <1>4, <1>5, <1>6 DEF IInv

(* A response is sent: the stream has had room for it. *)
LEMMA SendNotFoundKeeps ==
    ASSUME IInv, NEW l \in Link, SendNotFound(l)
    PROVE  IInv'
<1>1. TypeOK /\ OwnersHold /\ \A k \in Link : Alternates(k)
  BY DEF IInv
<1>2. PICK s : s = stream[l]
  OBVIOUS
<1>3. PICK r \in {"block", "last", "not_found"} :
          stream' = [stream EXCEPT ![l] = Append(s, r)] /\ r = "not_found"
  BY <1>2 DEF SendNotFound, Response
<1>4. /\ s \in Seq({"block", "last", "not_found"}) /\ Len(s) < Window
      /\ UNCHANGED <<waits, forced, out, height, request>>
  BY <1>1, <1>2 DEF TypeOK, SendNotFound, HasRoom
<1>5. /\ Append(s, r) \in Seq({"block", "last", "not_found"})
      /\ Len(Append(s, r)) = Len(s) + 1 /\ Len(s) \in Nat
      /\ \A i \in 1..Len(s) : Append(s, r)[i] = s[i]
      /\ Append(s, r)[Len(s) + 1] = r
  BY <1>4, Sending
<1>6. /\ inn[l] = "refuse" /\ inn' = [inn EXCEPT ![l] = "read"] /\ left' = left
      /\ owner' = [owner EXCEPT ![l[2]] = NoOwner]
  BY DEF SendNotFound
<1>7. TypeOK'
  <2>1. /\ stream' \in [Link -> Seq({"block", "last", "not_found"})]
        /\ \A k \in Link : Len(stream'[k]) <= Window
    BY <1>1, <1>3, <1>4, <1>5, WindowAssumption DEF TypeOK
  <2>2. inn' \in [Link -> {"none", "read", "lock", "refuse", "send"}]
    BY <1>1, <1>6 DEF TypeOK
  <2>3. left' \in [Link -> 0..MaxBlocks]
    BY <1>1, <1>6 DEF TypeOK
  <2>4. owner' \in [Node -> {NoOwner} \cup {Initiator(k) : k \in Link}
                                      \cup {Responder(k) : k \in Link}]
    BY <1>1, <1>6 DEF TypeOK
  <2> QED BY <1>1, <1>4, <2>1, <2>2, <2>3, <2>4 DEF TypeOK
<1>8. OwnersHold'
  BY <1>1, <1>4, <1>6, LinkAssumption DEF TypeOK, OwnersHold, Free, Responder, Initiator, NoOwner
<1>9. ASSUME NEW k \in Link PROVE Alternates(k)'
  <2>1. CASE k # l
    BY <1>1, <1>3, <1>4, <1>6, <2>1 DEF TypeOK, Alternates
  <2>2. CASE k = l
    <3>1. stream'[l] = Append(s, r) /\ out'[l] = out[l] /\ request' = request
      BY <1>1, <1>3, <1>4 DEF TypeOK
    <3>2. inn[l] = "refuse" /\ s = <<>> /\ out[l] = "read" /\ l \notin request
      BY <1>1, <1>2, <1>6 DEF Alternates
    <3>3. Append(<<>>, "not_found") = <<"not_found">>
      OBVIOUS
    <3> QED BY <1>1, <1>3, <1>6, <2>2, <3>1, <3>2, <3>3 DEF TypeOK, Alternates
  <2> QED BY <2>1, <2>2
<1> QED BY <1>7, <1>8, <1>9 DEF IInv

LEMMA SendBlockKeeps ==
    ASSUME IInv, NEW l \in Link, SendBlock(l)
    PROVE  IInv'
<1>1. TypeOK /\ OwnersHold /\ \A k \in Link : Alternates(k)
  BY DEF IInv
<1>2. PICK s : s = stream[l]
  OBVIOUS
<1>3. PICK r \in {"block", "last", "not_found"} :
          stream' = [stream EXCEPT ![l] = Append(s, r)] /\ r = IF left[l] = 1 THEN "last" ELSE "block"
  BY <1>2 DEF SendBlock, Response
<1>4. /\ s \in Seq({"block", "last", "not_found"}) /\ Len(s) < Window
      /\ UNCHANGED <<waits, forced, out, height, request>>
  BY <1>1, <1>2 DEF TypeOK, SendBlock, HasRoom
<1>5. /\ Append(s, r) \in Seq({"block", "last", "not_found"})
      /\ Len(Append(s, r)) = Len(s) + 1 /\ Len(s) \in Nat
      /\ \A i \in 1..Len(s) : Append(s, r)[i] = s[i]
      /\ Append(s, r)[Len(s) + 1] = r
  BY <1>4, Sending
<1>6. /\ inn[l] = "send" /\ left' = [left EXCEPT ![l] = left[l] - 1] /\ left[l] > 0
      /\ \/ /\ left[l] = 1 /\ inn' = [inn EXCEPT ![l] = "none"]
            /\ owner' = [owner EXCEPT ![l[2]] = NoOwner]
         \/ left[l] # 1 /\ inn' = inn /\ owner' = owner
  BY <1>1 DEF SendBlock, Alternates
<1>7. TypeOK'
  <2>1. /\ stream' \in [Link -> Seq({"block", "last", "not_found"})]
        /\ \A k \in Link : Len(stream'[k]) <= Window
    BY <1>1, <1>3, <1>4, <1>5, WindowAssumption DEF TypeOK
  <2>2. inn' \in [Link -> {"none", "read", "lock", "refuse", "send"}]
    BY <1>1, <1>6 DEF TypeOK
  <2>3. left' \in [Link -> 0..MaxBlocks]
    <3>1. left[l] \in 0..MaxBlocks /\ MaxBlocks \in Nat
      BY <1>1, BoundAssumption DEF TypeOK
    <3>2. left[l] - 1 \in 0..MaxBlocks
      BY <1>6, <3>1
    <3> QED BY <1>1, <1>6, <3>2 DEF TypeOK
  <2>4. owner' \in [Node -> {NoOwner} \cup {Initiator(k) : k \in Link}
                                      \cup {Responder(k) : k \in Link}]
    BY <1>1, <1>6 DEF TypeOK
  <2> QED BY <1>1, <1>4, <2>1, <2>2, <2>3, <2>4 DEF TypeOK
<1>8. OwnersHold'
  <2>1. CASE left[l] # 1
    BY <1>1, <1>4, <1>6, <2>1 DEF OwnersHold, Free
  <2>2. CASE left[l] = 1
    <3>1. /\ inn' = [inn EXCEPT ![l] = "none"] /\ owner' = [owner EXCEPT ![l[2]] = NoOwner]
          /\ out' = out /\ l[2] \in Node
      BY <1>4, <1>6, <2>2, LinkAssumption
    <3> QED BY <1>1, <3>1 DEF TypeOK, OwnersHold, Free, Responder, Initiator, NoOwner
  <2> QED BY <2>1, <2>2
<1>9. ASSUME NEW k \in Link PROVE Alternates(k)'
  <2>1. CASE k # l
    BY <1>1, <1>3, <1>4, <1>6, <2>1 DEF TypeOK, Alternates
  <2>2. CASE k = l
    <3>1. stream'[l] = Append(s, r) /\ out'[l] = out[l] /\ request' = request
      BY <1>1, <1>3, <1>4 DEF TypeOK
    <3>2. /\ out[l] \in {"read", "ask", "asking"} /\ l \notin request /\ left[l] > 0
          /\ \A i \in 1..Len(s) : s[i] = "block"
      BY <1>1, <1>2, <1>6 DEF Alternates
    <3>3. CASE left[l] = 1
      <4>1. inn'[l] = "none"
        BY <1>1, <1>6, <3>3 DEF TypeOK
      <4> QED BY <2>2, <3>1, <3>2, <4>1 DEF Alternates
    <3>4. CASE left[l] # 1
      <4>1. inn'[l] = "send" /\ left'[l] > 0 /\ r = "block"
        BY <1>1, <1>3, <1>6, <3>2, <3>4 DEF TypeOK
      <4>2. \A i \in 1..Len(Append(s, r)) : Append(s, r)[i] = "block"
        BY <1>5, <3>2, <4>1
      <4> QED BY <2>2, <3>1, <3>2, <4>1, <4>2 DEF Alternates
    <3> QED BY <3>3, <3>4
  <2> QED BY <2>1, <2>2
<1> QED BY <1>7, <1>8, <1>9 DEF IInv

LEMMA NextIInv == IInv /\ [Next]_vars => IInv'
<1> SUFFICES ASSUME IInv, [Next]_vars PROVE IInv'
  OBVIOUS
<1>1. CASE UNCHANGED vars
  BY <1>1 DEF vars, sessions, IInv, TypeOK, OwnersHold, Free, Alternates
<1>2. CASE \E n \in Node : MainLocks(n) \/ MainBusy(n)
  BY <1>2, MainLocksKeeps, MainBusyKeeps
<1>3. CASE \E l \in Link : ForceSync(l)
  BY <1>3, ForceSyncKeeps
<1>4. CASE \E l \in Link : TakesLock(l)
  BY <1>4, ReadHeightKeeps, AskKeeps, UpdateKeeps, LookupKeeps DEF TakesLock
<1>5. CASE \E l \in Link : TakesNone(l)
  BY <1>5, NegotiatedKeeps, AskedKeeps, ReadResponseKeeps, ReadEndKeeps, ReadRequestKeeps,
     SendNotFoundKeeps, SendBlockKeeps DEF TakesNone
<1> QED BY <1>1, <1>2, <1>3, <1>4, <1>5 DEF Next, Progress

LEMMA AlwaysIInv == Spec => []IInv
BY InitIInv, NextIInv, PTL DEF Spec

(* A responder that holds its lock fills the stream, and then it is up to  *)
(* the initiator.                                                          *)
LEMMA ResponderHeldUp ==
    ASSUME IInv, NEW l \in Link, owner[l[2]] = Responder(l),
           inn[l] \in {"refuse", "send"}, ~CanGoOn(l)
    PROVE  HeldUp(l)
<1>1. /\ Alternates(l) /\ Len(stream[l]) \in Nat /\ Len(stream[l]) <= Window
      /\ Window \in Nat \ {0} /\ ~HasRoom(l)
  BY WindowAssumption, LenProperties DEF IInv, TypeOK, CanGoOn
<1>2. Len(stream[l]) = Window /\ stream[l] # <<>>
  BY <1>1, EmptyStream DEF HasRoom
<1>3. inn[l] = "send"
  BY <1>1, <1>2 DEF Alternates
<1>4. out[l] = "ask" /\ ~Free(l[1])
  BY <1>1, <1>2, <1>3 DEF Alternates, CanGoOn
<1> QED BY <1>2, <1>3, <1>4 DEF HeldUp

LEMMA StuckOnlyHeldUp == IInv => OnlyHeldUp
<1> SUFFICES ASSUME IInv, \A l \in Link : ~CanGoOn(l), NEW n \in Node, ~Free(n)
             PROVE  \E l \in Link : l[2] = n /\ HeldUp(l)
  BY DEF OnlyHeldUp
<1>1. \A l \in Link : out[l] # "asking"
  BY DEF CanGoOn
<1>2. PICK l \in Link : l[2] = n /\ owner[n] = Responder(l) /\ inn[l] \in {"refuse", "send"}
  BY <1>1 DEF IInv, OwnersHold
<1>3. HeldUp(l)
  BY <1>2, ResponderHeldUp
<1> QED BY <1>2, <1>3

LEMMA HoldersGoOn == IInv => HolderGoesOn
<1> SUFFICES ASSUME IInv, NEW n \in Node, ~Free(n)
             PROVE  \E l \in Link : /\ owner[n] \in {Initiator(l), Responder(l)}
                                    /\ CanGoOn(l) \/ HeldUp(l)
  BY DEF HolderGoesOn
<1>1. CASE \E l \in Link : owner[n] = Initiator(l) /\ out[l] = "asking"
  BY <1>1 DEF CanGoOn
<1>2. ASSUME NEW l \in Link, l[2] = n, owner[n] = Responder(l),
             inn[l] \in {"refuse", "send"}, ~CanGoOn(l)
      PROVE  HeldUp(l)
  BY <1>2, ResponderHeldUp
<1>3. \/ \E l \in Link : owner[n] = Initiator(l) /\ out[l] = "asking"
      \/ \E l \in Link : l[2] = n /\ owner[n] = Responder(l) /\ inn[l] \in {"refuse", "send"}
  BY DEF IInv, OwnersHold
<1>4. CASE \E l \in Link : l[2] = n /\ owner[n] = Responder(l) /\ inn[l] \in {"refuse", "send"}
  BY <1>2, <1>4
<1> QED BY <1>1, <1>3, <1>4

----------------------------------------------------------------------------
(* Owners, futures and streams keep their types, and streams their window, *)
(* for any nodes, links and bounds.                                        *)
THEOREM TypeCorrect == Spec => []TypeOK
<1>1. IInv => TypeOK
  BY DEF IInv
<1> QED BY <1>1, AlwaysIInv, PTL

(* Whoever holds a lock goes on, or is a responder that sends blocks into  *)
(* a full stream to an initiator that wants a lock which is held too, in   *)
(* any network and with streams of any size.                               *)
THEOREM HoldersGoOnOrAreHeldUp == Spec => []HolderGoesOn
BY AlwaysIInv, HoldersGoOn, PTL

(* When nobody can go on, every lock that is held is one of a circle of    *)
(* responders that send blocks into full streams: for any network, length  *)
(* of fragments and window this is the only deadlock.                      *)
THEOREM NoOtherDeadlock == Spec => []OnlyHeldUp
BY AlwaysIInv, StuckOnlyHeldUp, PTL
=============================================================================
