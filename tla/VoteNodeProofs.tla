--------------------------- MODULE VoteNodeProofs ---------------------------
(***************************************************************************)
(* What holds of voting nodes for every set of nodes, links and ballots,   *)
(* every block size and every bound: that they are nodes of ChainSync,     *)
(* whose ballots they hold, how often they hold one, what a head vouches   *)
(* for, and what a tally counts.                                           *)
(***************************************************************************)
EXTENDS VoteNode, ChainSyncProofs, WeightProofs

Pools ==
    /\ pool = [n \in Node |-> pool[n]]
    /\ \A n \in Node : pool[n] \in Seq(Ballot) /\ chain[n].ballot_pool = <<>>

Control ==
    /\ main = [n \in Node |-> main[n]]
    /\ \A n \in Node : main[n] \in {"select", "resolve"}
    /\ heard \in [Node -> [Ballot -> Nat]]
    /\ restarts \in 0..MaxRestarts
    /\ steady \subseteq Node

NodeTyped == Typed /\ Pools /\ Control

----------------------------------------------------------------------------
(* The chain of a node with its pool goes as Chain says, while that of     *)
(* ChainSync goes as ChainSync says.                                       *)

LEMMA OwnTyped ==
    ASSUME Typed, Pools, NEW n \in Node
    PROVE  /\ ChainTyped(Own(n)) /\ ChainTyped(chain[n])
           /\ Own(n) = [db |-> chain[n].db, height |-> chain[n].height, ballot_pool |-> pool[n]]
           /\ Own(n).db = chain[n].db /\ Own(n).height = chain[n].height
           /\ Own(n).ballot_pool = pool[n]
<1>1. StoreOK(chain[n]) /\ BlocksOK(chain[n]) /\ ChainTyped(chain[n])
  BY DEF Typed, ChainTyped
<1>2. PICK o : o = Own(n)
  OBVIOUS
<1>3. o = [db |-> chain[n].db, height |-> chain[n].height, ballot_pool |-> pool[n]]
  BY <1>1, <1>2, PoolReplaced DEF Own
<1>4. StoreOK(o) /\ o.db = chain[n].db /\ o.height = chain[n].height
  BY <1>1, <1>2, WithPool DEF Own
<1>5. o.ballot_pool = pool[n]
  BY <1>3
<1>6. ChainTyped(o)
  BY <1>1, <1>4, <1>5 DEF Pools, ChainTyped, BlocksOK, PoolOK
<1> QED BY <1>1, <1>2, <1>3, <1>4, <1>5, <1>6

(* Own(n) becomes d, and the others stay what they are. *)
OwnBecomes(n, d) == Own(n)' = d /\ \A k \in Node \ {n} : Own(k)' = Own(k)

LEMMA Becomes ==
    ASSUME Typed, Pools, NEW n \in Node, NEW d, ChainTyped(d),
           chain' = [chain EXCEPT ![n] = [d EXCEPT !.ballot_pool = <<>>]],
           pool' = [pool EXCEPT ![n] = d.ballot_pool]
    PROVE  OwnBecomes(n, d) /\ Pools'
<1>1. PICK e : e = [d EXCEPT !.ballot_pool = <<>>]
  OBVIOUS
<1>2. StoreOK(d) /\ d.ballot_pool \in Seq(Ballot)
  BY DEF ChainTyped, PoolOK
<1>3. d = [db |-> d.db, height |-> d.height, ballot_pool |-> d.ballot_pool]
  BY <1>2 DEF StoreOK
<1>4. e = [db |-> d.db, height |-> d.height, ballot_pool |-> <<>>]
  BY <1>1, <1>2, PoolReplaced
<1>5. /\ \A k \in Node : chain'[k] = IF k = n THEN e ELSE chain[k]
      /\ \A k \in Node : pool'[k] = IF k = n THEN d.ballot_pool ELSE pool[k]
      /\ pool' = [k \in Node |-> pool'[k]]
  BY <1>1 DEF Typed, Pools
<1>6. [e EXCEPT !.ballot_pool = d.ballot_pool] = d
  BY <1>3, <1>4
<1>7. OwnBecomes(n, d)
  BY <1>5, <1>6 DEF OwnBecomes, Own
<1>8. e.ballot_pool = <<>>
  BY <1>4
<1>9. Pools'
  BY <1>2, <1>5, <1>8 DEF Pools
<1> QED BY <1>7, <1>9

(* A chain as a record, and with another pool. *)
ChainOf(db, h, q) == [db |-> db, height |-> h, ballot_pool |-> q]

Repool(c, q) == [c EXCEPT !.ballot_pool = q]

LEMMA Repooled ==
    ASSUME NEW db, NEW h, NEW q, NEW r
    PROVE  /\ Repool(ChainOf(db, h, q), r) = ChainOf(db, h, r)
           /\ ChainOf(db, h, q).db = db /\ ChainOf(db, h, q).height = h
           /\ ChainOf(db, h, q).ballot_pool = q
BY DEF ChainOf, Repool

LEMMA IsChainOf ==
    ASSUME NEW c, StoreOK(c)
    PROVE  c = ChainOf(c.db, c.height, c.ballot_pool)
BY DEF StoreOK, ChainOf

(* Pooling a ballot appends a full block of ballots, or leaves everything  *)
(* but the pool as it is.                                                  *)
FullBlock(c, ts, committed, e) ==
    /\ HasBlock(c, c.height)
    /\ \E ballots \in [1..BlockSize -> Ballot] :
           e = TryAppend(c, NewBlock(c.db[c.height], ts, ballots), committed)

LEMMA PoolingIsExtending ==
    ASSUME NEW c, StoreOK(c), c.ballot_pool = <<>>, NEW q \in Seq(Ballot), NEW m \in Ballot,
           NEW ts, NEW committed
    PROVE  LET e == Repool(PoolBallot(Repool(c, q), m, ts, committed), <<>>)
           IN  e = c \/ FullBlock(c, ts, committed, e)
<1>1. PICK o : o = Repool(c, q)
  OBVIOUS
<1>2. PICK d : d = PoolBallot(o, m, ts, committed)
  OBVIOUS
<1>3. PICK e : e = Repool(d, <<>>)
  OBVIOUS
<1>4. PICK db, h : c = ChainOf(db, h, <<>>) /\ c.db = db /\ c.height = h
  BY IsChainOf
<1>5. o = ChainOf(db, h, q) /\ o.db = db /\ o.height = h /\ o.ballot_pool = q
  BY <1>1, <1>4, Repooled
<1>6. PICK p : p = Append(q, m)
  OBVIOUS
<1>7. p \in Seq(Ballot) /\ Len(p) \in Nat
  BY <1>6, AppendProperties, LenProperties
<1>8. PICK rest : rest = ChainOf(db, h, Remaining(p))
  OBVIOUS
<1>9. rest = Repool(o, Remaining(p)) /\ rest.height = h /\ rest.db = db
  BY <1>5, <1>8, Repooled
<1>10. d = IF Len(p) < BlockSize THEN Repool(o, p)
          ELSE IF ~HasBlock(o, h) THEN rest
          ELSE TryAppend(rest, NewBlock(db[h], ts, SplitOff(p)), committed)
  BY <1>2, <1>5, <1>6, <1>9, Zenon DEF PoolBallot, Repool
<1>11. ASSUME Len(p) < BlockSize PROVE e = c
  <2>1. d = Repool(o, p)
    BY <1>10, <1>11, Zenon
  <2>2. Repool(ChainOf(db, h, q), p) = ChainOf(db, h, p)
    BY Repooled
  <2>3. Repool(ChainOf(db, h, p), <<>>) = ChainOf(db, h, <<>>)
    BY Repooled
  <2> QED BY <1>3, <1>4, <1>5, <2>1, <2>2, <2>3, Zenon
<1>12. ASSUME ~(Len(p) < BlockSize), ~HasBlock(o, h) PROVE e = c
  <2>1. d = rest
    BY <1>10, <1>12, Zenon
  <2>2. Repool(ChainOf(db, h, Remaining(p)), <<>>) = ChainOf(db, h, <<>>)
    BY Repooled
  <2> QED BY <1>3, <1>4, <1>8, <2>1, <2>2, Zenon
<1>13. ASSUME ~(Len(p) < BlockSize), HasBlock(o, h), ~committed PROVE e = c
  <2>1. d = rest
    BY <1>10, <1>13, Zenon DEF TryAppend
  <2>2. Repool(ChainOf(db, h, Remaining(p)), <<>>) = ChainOf(db, h, <<>>)
    BY Repooled
  <2> QED BY <1>3, <1>4, <1>8, <2>1, <2>2, Zenon
<1>14. ASSUME ~(Len(p) < BlockSize), HasBlock(o, h), committed PROVE FullBlock(c, ts, committed, e)
  <2>1. PICK ballots : ballots = SplitOff(p)
    OBVIOUS
  <2>2. ballots \in [1..BlockSize -> Ballot]
    <3>1. BlockSize \in Nat \ {0} /\ BlockSize <= Len(p)
      BY <1>7, <1>14, BlockSizeAssumption
    <3>2. PICK j \in Nat \ {0} : j = Len(p) - BlockSize + 1
      <4>1. Len(p) - BlockSize + 1 \in Nat \ {0}
        BY <1>7, <3>1
      <4> QED BY <4>1
    <3>3. \A i \in j..Len(p) : p[i] \in Ballot
      BY <1>7, <3>2, ElementOfSeq
    <3>4. ballots \in Seq(Ballot) /\ Len(ballots) = Len(p) - j + 1
      BY <1>7, <2>1, <3>1, <3>2, <3>3, SubSeqProperties DEF SplitOff
    <3>5. Len(ballots) = BlockSize
      BY <1>7, <3>1, <3>2, <3>4
    <3> QED BY <3>4, <3>5, LenProperties
  <2>3. PICK b : b = NewBlock(db[h], ts, ballots)
    OBVIOUS
  <2>4. IsValid(b, db[h])
    BY <2>3 DEF NewBlock, IsValid
  <2>5. HasBlock(c, h) /\ HasBlock(rest, h)
    BY <1>4, <1>5, <1>9, <1>14 DEF HasBlock
  <2>6. TryAppend(c, b, committed) = Appended(c, b)
    BY <1>4, <1>14, <2>4, <2>5 DEF TryAppend, AcceptsBlock
  <2>7. d = Appended(rest, b)
    BY <1>9, <1>10, <1>14, <2>1, <2>3, <2>4, <2>5, Zenon DEF TryAppend, AcceptsBlock
  <2>8. PICK table : table = [i \in DOMAIN db \cup {h + 1} |-> IF i = h + 1 THEN b ELSE db[i]]
    OBVIOUS
  <2>9. Appended(c, b) = ChainOf(table, h + 1, <<>>)
    BY <1>4, <2>8 DEF Appended, WithBlocks, ChainOf
  <2>10. d = ChainOf(table, h + 1, Remaining(p))
    <3>1. rest.ballot_pool = Remaining(p)
      BY <1>8, Repooled
    <3> QED BY <1>9, <2>7, <2>8, <3>1, Zenon DEF Appended, WithBlocks, ChainOf
  <2>11. e = TryAppend(c, b, committed)
    BY <1>3, <2>6, <2>9, <2>10, Repooled
  <2> QED BY <1>4, <2>2, <2>3, <2>5, <2>11 DEF FullBlock
<1>15. e = c \/ FullBlock(c, ts, committed, e)
  BY <1>11, <1>12, <1>13, <1>14, Zenon
<1> QED BY <1>1, <1>2, <1>3, <1>15, Zenon

LEMMA UpdateIs ==
    ASSUME NEW c, NEW fork, NEW bs, NEW committed
    PROVE  TryUpdateLongest(c, fork, bs, committed)
             = IF ~AcceptsFork(c, fork, bs) THEN c
               ELSE IF ~committed THEN Repool(c, c.ballot_pool \o LostBallots(c, fork))
               ELSE WithBlocks(Repool(c, c.ballot_pool \o LostBallots(c, fork)),
                               Replaced(c, fork, bs), fork + Len(bs) - 1)
BY Zenon DEF TryUpdateLongest, Repool

(* Whatever the pool, an update does the same to everything else. *)
LEMMA UpdateOwn ==
    ASSUME NEW c, StoreOK(c), NEW q, NEW fork, NEW bs, NEW committed
    PROVE  Repool(TryUpdateLongest(Repool(c, q), fork, bs, committed), <<>>)
             = Repool(TryUpdateLongest(c, fork, bs, committed), <<>>)
<1>1. PICK db, h, z : c = ChainOf(db, h, z)
  BY IsChainOf
<1>2. PICK o : o = Repool(c, q)
  OBVIOUS
<1>3. o = ChainOf(db, h, q)
  BY <1>1, <1>2, Repooled
<1>4. c.db = o.db /\ c.height = o.height
  BY <1>1, <1>3, Repooled
<1>5. AcceptsFork(c, fork, bs) <=> AcceptsFork(o, fork, bs)
  BY <1>4 DEF AcceptsFork, HasBlock
<1>6. PICK new : new = Replaced(c, fork, bs) /\ new = Replaced(o, fork, bs)
  BY <1>4 DEF Replaced, Stripped
<1>7. PICK d : d = TryUpdateLongest(c, fork, bs, committed)
  OBVIOUS
<1>8. PICK e : e = TryUpdateLongest(o, fork, bs, committed)
  OBVIOUS
<1>9. PICK k : k = fork + Len(bs) - 1
  OBVIOUS
<1>10. PICK x : x = c.ballot_pool \o LostBallots(c, fork)
  OBVIOUS
<1>11. PICK y : y = o.ballot_pool \o LostBallots(o, fork)
  OBVIOUS
<1>12. /\ d = IF ~AcceptsFork(c, fork, bs) THEN c
              ELSE IF ~committed THEN Repool(c, x) ELSE WithBlocks(Repool(c, x), new, k)
       /\ e = IF ~AcceptsFork(c, fork, bs) THEN o
              ELSE IF ~committed THEN Repool(o, y) ELSE WithBlocks(Repool(o, y), new, k)
  <2>1. d = IF ~AcceptsFork(c, fork, bs) THEN c
            ELSE IF ~committed THEN Repool(c, x) ELSE WithBlocks(Repool(c, x), new, k)
    BY <1>6, <1>7, <1>9, <1>10, UpdateIs, Zenon
  <2>2. e = IF ~AcceptsFork(o, fork, bs) THEN o
            ELSE IF ~committed THEN Repool(o, y) ELSE WithBlocks(Repool(o, y), new, k)
    BY <1>6, <1>8, <1>9, <1>11, UpdateIs, Zenon
  <2> QED BY <1>5, <2>1, <2>2, Zenon
<1>13. Repool(c, x) = ChainOf(db, h, x) /\ Repool(o, y) = ChainOf(db, h, y)
  BY <1>1, <1>3, Repooled
<1>14. \E a, b, v, w : d = ChainOf(a, b, v) /\ e = ChainOf(a, b, w)
  <2>1. CASE ~AcceptsFork(c, fork, bs)
    BY <1>1, <1>3, <1>12, <2>1, Zenon
  <2>2. CASE AcceptsFork(c, fork, bs) /\ ~committed
    BY <1>12, <1>13, <2>2, Zenon
  <2>3. CASE AcceptsFork(c, fork, bs) /\ committed
    <3>1. ChainOf(db, h, x).ballot_pool = x /\ ChainOf(db, h, y).ballot_pool = y
      BY Repooled
    <3>2. d = ChainOf(new, k, x) /\ e = ChainOf(new, k, y)
      BY <1>12, <1>13, <2>3, <3>1, Zenon DEF WithBlocks, ChainOf
    <3> QED BY <3>2
  <2> QED BY <2>1, <2>2, <2>3
<1>15. Repool(e, <<>>) = Repool(d, <<>>)
  BY <1>14, Repooled
<1> QED BY <1>2, <1>7, <1>8, <1>15, Zenon

----------------------------------------------------------------------------
(* What the actions do to chains with their pools. *)

LEMMA ReceiveOwn ==
    ASSUME NodeTyped, NEW n \in Node, NEW m \in Ballot, Receive(n, m), Accepted(m)
    PROVE  \E ts \in Timestamp : \E committed, d :
               /\ committed = TRUE /\ d = PoolBallot(Own(n), m, ts, committed)
               /\ ChainTyped(d) /\ OwnBecomes(n, d) /\ Pools'
               /\ SetChain(n, Repool(d, <<>>), Link)
<1>1. PICK committed : committed = TRUE
  OBVIOUS
<1>2. PICK ts \in Timestamp :
          LET c == PoolBallot(Own(n), m, ts, TRUE)
          IN  /\ SetChain(n, [c EXCEPT !.ballot_pool = <<>>], Link)
              /\ pool' = [pool EXCEPT ![n] = c.ballot_pool]
  BY DEF Receive
<1>3. PICK d : d = PoolBallot(Own(n), m, ts, TRUE)
  OBVIOUS
<1>4. d = PoolBallot(Own(n), m, ts, committed)
  BY <1>1, <1>3
<1>5. SetChain(n, Repool(d, <<>>), Link) /\ pool' = [pool EXCEPT ![n] = d.ballot_pool]
  BY <1>2, <1>3, Zenon DEF Repool
<1>6. ChainTyped(Own(n))
  BY OwnTyped DEF NodeTyped
<1>7. ChainTyped(d)
  BY <1>4, <1>6, PoolBallotTyped
<1>8. chain' = [chain EXCEPT ![n] = [d EXCEPT !.ballot_pool = <<>>]]
  BY <1>5 DEF SetChain, Repool
<1>9. OwnBecomes(n, d) /\ Pools'
  BY <1>5, <1>7, <1>8, Becomes DEF NodeTyped
<1> QED BY <1>1, <1>4, <1>5, <1>7, <1>9

LEMMA AdoptOwn ==
    ASSUME NodeTyped, NEW l \in Link, Adopt(l)
    PROVE  \E fork \in Nat \ {0} : \E bs, committed, d :
               /\ bs = Append(sync[l].buffer, Head(sync[l].responses).block)
               /\ Blocks(bs) /\ Len(bs) # 0 /\ committed = TRUE
               /\ d = TryUpdateLongest(Own(l[1]), fork, bs, committed)
               /\ OwnBecomes(l[1], d) /\ Pools'
<1>1. l[1] \in Node /\ FinishSync(l)
  BY LinkEnds DEF Adopt
<1>2. PICK fork, c, bs, d0 :
          /\ fork \in Nat \ {0}
          /\ Updates(l, c, fork, bs, d0)
          /\ fork = Head(sync[l].responses).fork_index
          /\ bs = Append(sync[l].buffer, Head(sync[l].responses).block)
          /\ ChainTyped(c) /\ Blocks(bs) /\ Len(bs) # 0
  BY <1>1, LastReceived DEF NodeTyped
<1>3. PICK committed : committed = TRUE
  OBVIOUS
<1>4. PICK d : d = TryUpdateLongest(Own(l[1]), fork, bs, committed)
  OBVIOUS
<1>5. pool' = [pool EXCEPT ![l[1]] = d.ballot_pool]
  BY <1>2, <1>3, <1>4 DEF Adopt
<1>6. ChainTyped(Own(l[1]))
  BY <1>1, OwnTyped DEF NodeTyped
<1>7. ChainTyped(d)
  <2>1. Len(bs) \in Nat \ {0} /\ \A k \in 1..Len(bs) : IsBlock(bs[k])
    BY <1>2 DEF Blocks, SeqLike
  <2>2. fork \in Nat \ {0}
    BY <1>2
  <2> QED BY <1>4, <1>6, <2>1, <2>2, UpdateTyped
<1>8. chain' = [chain EXCEPT ![l[1]] = [d EXCEPT !.ballot_pool = <<>>]]
  <2>1. c = chain[l[1]] /\ StoreOK(c) /\ d0 = TryUpdateLongest(c, fork, bs, committed)
    BY <1>2, <1>3 DEF Updates, ChainTyped
  <2>2. PICK o : o = Own(l[1])
    OBVIOUS
  <2>3. PICK q : q = pool[l[1]]
    OBVIOUS
  <2>4. o = Repool(c, q) /\ d = TryUpdateLongest(o, fork, bs, committed)
    BY <1>4, <2>1, <2>2, <2>3, Zenon DEF Own, Repool
  <2>5. Repool(d0, <<>>) = Repool(d, <<>>)
    <3>1. Repool(TryUpdateLongest(Repool(c, q), fork, bs, committed), <<>>)
            = Repool(TryUpdateLongest(c, fork, bs, committed), <<>>)
      BY <2>1, UpdateOwn
    <3> QED BY <2>1, <2>4, <3>1, Zenon
  <2>6. chain' = [chain EXCEPT ![l[1]] = Repool(d0, <<>>)]
    BY <1>2 DEF Updates, Repool
  <2> QED BY <2>5, <2>6 DEF Repool
<1>9. OwnBecomes(l[1], d) /\ Pools'
  BY <1>1, <1>5, <1>7, <1>8, Becomes DEF NodeTyped
<1> QED BY <1>2, <1>3, <1>4, <1>9

LEMMA ReopenOwn ==
    ASSUME NodeTyped, NEW n \in Node, Reopen(n)
    PROVE  \E d : d = Open(Own(n).db) /\ OwnBecomes(n, d) /\ Pools'
<1>1. Own(n).db = chain[n].db /\ ChainTyped(chain[n])
  BY OwnTyped DEF NodeTyped
<1>2. PICK d : d = Open(chain[n].db)
  OBVIOUS
<1>3. chain' = [chain EXCEPT ![n] = d] /\ pool' = [pool EXCEPT ![n] = <<>>]
  BY <1>2 DEF Reopen, Restart
<1>4. ChainTyped(d) /\ d.ballot_pool = <<>>
  BY <1>1, <1>2, OpenTyped DEF Open
<1>5. [d EXCEPT !.ballot_pool = <<>>] = d
  <2>1. Repool(ChainOf(d.db, d.height, <<>>), <<>>) = ChainOf(d.db, d.height, <<>>)
    BY Repooled
  <2>2. d = ChainOf(d.db, d.height, <<>>)
    BY <1>4, IsChainOf DEF ChainTyped
  <2>3. Repool(d, <<>>) = d
    BY <2>1, <2>2
  <2> QED BY <2>3 DEF Repool
<1>6. OwnBecomes(n, d) /\ Pools'
  BY <1>3, <1>4, <1>5, Becomes DEF NodeTyped
<1> QED BY <1>1, <1>2, <1>6

(* The other actions leave chains and pools alone. *)
LEMMA OthersOwn ==
    ASSUME Pools, UNCHANGED <<chain, pool>>
    PROVE  Pools' /\ \A n \in Node : Own(n)' = Own(n)
BY DEF Pools, Own

(* Every step is one of ChainSync, or none. *)
LEMMA NodeStepSyncs == ASSUME NodeTyped, NodeNext PROVE [Next]_vars
<1>1. ASSUME UNCHANGED <<chain, sync, raced>>, Noted PROVE UNCHANGED vars
  <2>1. \A n \in Node : chain[n].height \in Nat
    BY DEF NodeTyped, Typed, ChainTyped, StoreOK
  <2>2. \A n \in Node : ~(chain[n].height < chain[n].height)
    BY <2>1
  <2> QED BY <1>1, <2>2 DEF Noted, vars
<1>2. Noted
  BY DEF NodeNext
<1>3. ASSUME NEW n \in Node, NEW m \in Ballot, Receive(n, m) PROVE [Next]_vars
  <2>1. CASE ~Accepted(m)
    BY <1>1, <1>2, <1>3, <2>1 DEF Receive
  <2>2. CASE Accepted(m)
    <3>1. PICK ts, committed, d :
              /\ ts \in Timestamp
              /\ committed = TRUE /\ d = PoolBallot(Own(n), m, ts, committed)
              /\ SetChain(n, Repool(d, <<>>), Link)
      BY <1>3, <2>2, ReceiveOwn
    <3>2. StoreOK(chain[n]) /\ chain[n].ballot_pool = <<>> /\ pool[n] \in Seq(Ballot)
      BY DEF NodeTyped, Typed, Pools, ChainTyped
    <3>3. PICK c : c = chain[n]
      OBVIOUS
    <3>4. PICK q : q = pool[n]
      OBVIOUS
    <3>5. PICK e : e = Repool(d, <<>>)
      OBVIOUS
    <3>6. Own(n) = Repool(c, q)
      BY <3>3, <3>4, Zenon DEF Own, Repool
    <3>7. e = c \/ FullBlock(c, ts, committed, e)
      <4>1. StoreOK(c) /\ c.ballot_pool = <<>> /\ q \in Seq(Ballot)
        BY <3>2, <3>3, <3>4
      <4>2. LET f == Repool(PoolBallot(Repool(c, q), m, ts, committed), <<>>)
            IN  f = c \/ FullBlock(c, ts, committed, f)
        BY <4>1, PoolingIsExtending
      <4> QED BY <3>1, <3>5, <3>6, <4>2, Zenon
    <3>8. SetChain(n, e, Link) /\ UNCHANGED sync /\ chain[n].height < MaxHeight
      BY <1>3, <3>1, <3>5 DEF Receive
    <3>9. CASE e = c
      <4>1. UNCHANGED <<chain, sync, raced>>
        BY <3>3, <3>8, <3>9 DEF SetChain, NodeTyped, Typed
      <4> QED BY <1>1, <1>2, <4>1
    <3>10. CASE e # c
      <4>1. PICK ballots \in [1..BlockSize -> Ballot] :
                e = TryAppend(c, NewBlock(c.db[c.height], ts, ballots), TRUE)
        BY <3>1, <3>7, <3>10 DEF FullBlock
      <4>2. ballots \in Payload(n)
        BY BlockAssumption
      <4>3. ts \in Timestamp
        BY <3>1
      <4>4. ExtendChain(n)
        BY <3>3, <3>7, <3>8, <3>10, <4>1, <4>2, <4>3 DEF ExtendChain, FullBlock
      <4> QED BY <1>2, <4>4 DEF Next, Step
    <3> QED BY <3>9, <3>10
  <2> QED BY <2>1, <2>2
<1>4. ASSUME NEW n \in Node, TryResolve(n) PROVE [Next]_vars
  BY <1>4 DEF TryResolve
<1>5. ASSUME NEW n \in Node, Reopen(n) PROVE [Next]_vars
  BY <1>2, <1>5 DEF Reopen, Next, Step
<1>6. ASSUME NEW l \in Link, Adopt(l) \/ Exchange(l) PROVE [Next]_vars
  BY <1>2, <1>6 DEF Adopt, Exchange, Next, Step, LinkStep, SyncStep
<1> QED BY <1>3, <1>4, <1>5, <1>6 DEF NodeNext, NodeStep

LEMMA NodeNextSyncs == ASSUME NodeTyped, [NodeNext]_nodeVars PROVE [Next]_vars
BY NodeStepSyncs DEF nodeVars, vars

LEMMA InitNodeTyped == NodeInit => NodeTyped
<1> SUFFICES ASSUME NodeInit PROVE NodeTyped
  OBVIOUS
<1>1. Typed
  BY InitTyped DEF NodeInit
<1>2. PICK c : c = Open([i \in {} |-> GenesisBlock])
  OBVIOUS
<1>3. c.ballot_pool = <<>> /\ \A n \in Node : chain[n] = c
  BY <1>2 DEF NodeInit, Init, Open
<1>4. Pools
  BY <1>3, EmptySeq DEF NodeInit, Pools
<1>5. Control
  BY RestartsAssumption DEF NodeInit, Control
<1> QED BY <1>1, <1>4, <1>5 DEF NodeTyped

LEMMA NextNodeTyped == NodeTyped /\ [NodeNext]_nodeVars => NodeTyped'
<1> SUFFICES ASSUME NodeTyped, [NodeNext]_nodeVars PROVE NodeTyped'
  OBVIOUS
<1>1. Typed'
  BY NodeNextSyncs, NextTyped DEF NodeTyped
<1>2. ASSUME NEW n \in Node, NEW m \in Ballot, Receive(n, m) PROVE Pools' /\ Control'
  <2>1. CASE ~Accepted(m)
    BY <1>2, <2>1, OthersOwn DEF Receive, NodeTyped, Control
  <2>2. CASE Accepted(m)
    <3>1. Pools'
      BY <1>2, <2>2, ReceiveOwn
    <3>2. /\ heard' = [heard EXCEPT ![n][m] = heard[n][m] + 1]
          /\ main' = [main EXCEPT ![n] = "resolve"] /\ UNCHANGED <<restarts, steady>>
      BY <1>2, <2>2 DEF Receive
    <3>3. heard' \in [Node -> [Ballot -> Nat]]
      BY <3>2 DEF NodeTyped, Control
    <3> QED BY <3>1, <3>2, <3>3 DEF NodeTyped, Control
  <2> QED BY <2>1, <2>2
<1>3. ASSUME NEW n \in Node, TryResolve(n) PROVE Pools' /\ Control'
  BY <1>3, OthersOwn DEF TryResolve, vars, NodeTyped, Control
<1>4. ASSUME NEW n \in Node, Reopen(n) PROVE Pools' /\ Control'
  <2>1. restarts' \in 0..MaxRestarts
    BY <1>4, RestartsAssumption DEF Reopen, NodeTyped, Control
  <2> QED BY <1>4, <2>1, ReopenOwn DEF Reopen, NodeTyped, Control
<1>5. ASSUME NEW l \in Link, Adopt(l) PROVE Pools' /\ Control'
  <2>1. steady' \subseteq steady /\ UNCHANGED <<main, heard, restarts>>
    BY <1>5 DEF Adopt
  <2> QED BY <1>5, <2>1, AdoptOwn DEF NodeTyped, Control
<1>6. ASSUME NEW l \in Link, Exchange(l) PROVE Pools' /\ Control'
  <2>1. UNCHANGED <<chain, pool, loop>>
    BY <1>6 DEF Exchange, StartSync, PreemptSync, Disconnect, Ask, AskPanics, Answer,
                ReceiveBlock, ReceiveNotFound, ReceiveEnd
  <2> QED BY <2>1, OthersOwn DEF loop, NodeTyped, Control
<1>7. ASSUME UNCHANGED nodeVars PROVE Pools' /\ Control'
  BY <1>7, OthersOwn DEF nodeVars, vars, loop, NodeTyped, Control
<1> QED BY <1>1, <1>2, <1>3, <1>4, <1>5, <1>6, <1>7 DEF NodeTyped, NodeNext, NodeStep

LEMMA AlwaysNodeTyped == NodeSpec => []NodeTyped
BY InitNodeTyped, NextNodeTyped, PTL DEF NodeSpec

----------------------------------------------------------------------------
(* A network of voting nodes is one of ChainSync, so that whatever is      *)
(* proved there holds here: the ballots that gossip brings, and when, only *)
(* decide which blocks are appended when.                                  *)
THEOREM VotingIsSyncing == NodeSpec => Spec
<1>1. NodeInit => Init
  BY DEF NodeInit
<1>2. NodeTyped /\ [NodeNext]_nodeVars => [Next]_vars
  BY NodeNextSyncs
<1> QED BY <1>1, <1>2, AlwaysNodeTyped, PTL DEF NodeSpec, Spec

(* Chains, pools, exchanges and event loops are of their types, whatever   *)
(* arrives when.                                                           *)
THEOREM NodesTypeCorrect == NodeSpec => []NodeTypeOK
<1>1. NodeTyped /\ TypeOK => NodeTypeOK
  BY DEF NodeTyped, Pools, Control, NodeTypeOK
<1> QED BY <1>1, AlwaysNodeTyped, VotingIsSyncing, TypeCorrect, PTL

----------------------------------------------------------------------------
(* Whose ballots are held.  An exchange brings only blocks of the peer.    *)

BlocksOf(s) ==
    {s.buffer[k] : k \in 1..Len(s.buffer)} \cup {s.responses[k].block : k \in 1..Len(s.responses)}

StoredBy(c) == {c.db[i] : i \in DOMAIN c.db}

LEMMA NoBlocks == BlocksOf(Idle) = {} /\ \A n : BlocksOf(Started(n)) = {}
<1>1. ASSUME NEW s, s.buffer = <<>>, s.responses = <<>> PROVE BlocksOf(s) = {}
  BY <1>1 DEF BlocksOf
<1>2. Idle.buffer = <<>> /\ Idle.responses = <<>>
  BY DEF Idle
<1>3. ASSUME NEW n PROVE Started(n).buffer = <<>> /\ Started(n).responses = <<>>
  BY DEF Started, Idle
<1> QED BY <1>1, <1>2, <1>3

LEMMA SameMessages ==
    ASSUME NEW s, NEW t, t.buffer = s.buffer, t.responses = s.responses
    PROVE  BlocksOf(t) = BlocksOf(s)
BY DEF BlocksOf

LEMMA AnswerBrings ==
    ASSUME NEW s, NEW p, SessionTyped(s), ChainTyped(p), s.listening, s.requests # <<>>
    PROVE  BlocksOf(Answered(s, p)) \subseteq {GenesisBlock} \cup StoredBy(p)
<1> DEFINE request == Head(s.requests)
<1>1. PICK t : t = Answered(s, p)
  OBVIOUS
<1>2. /\ s.buffer = <<>> /\ s.responses = <<>> /\ Shaped(s) /\ IsRequest(s.requests)
  BY DEF SessionTyped, Alternating
<1>3. PICK i \in Nat \ {0} : \E h : s.requests = <<[index |-> i, hash |-> h]>>
  BY <1>2 DEF IsRequest
<1>4. request.index = i
  BY <1>3
<1>5. PICK rest : rest = [s EXCEPT !.requests = Tail(s.requests)]
  OBVIOUS
<1>6. Shaped(rest) /\ rest.buffer = <<>> /\ rest.responses = <<>>
  BY <1>2, <1>5 DEF Shaped
<1>7. ASSUME NEW q, t.buffer = <<>>, t.responses = q, Len(q) \in Nat,
             \A k \in 1..Len(q) : q[k].block \in {GenesisBlock} \cup StoredBy(p)
      PROVE  BlocksOf(t) \subseteq {GenesisBlock} \cup StoredBy(p)
  BY <1>7 DEF BlocksOf
<1>8. CASE t = [rest EXCEPT !.listening = FALSE]
  <2>1. t.buffer = <<>> /\ t.responses = <<>>
    BY <1>6, <1>8 DEF Shaped
  <2> QED BY <1>1, <1>7, <2>1
<1>9. CASE t = [rest EXCEPT !.responses = Append(s.responses, NotFound)]
  <2>1. t.buffer = <<>> /\ t.responses = <<NotFound>>
    BY <1>2, <1>6, <1>9 DEF Shaped
  <2>2. PICK q : q = <<NotFound>>
    OBVIOUS
  <2>3. Len(q) = 1 /\ \A k \in 1..1 : q[k] = NotFound
    BY <2>2
  <2>4. NotFound.block = GenesisBlock
    BY DEF NotFound
  <2> QED BY <1>1, <1>7, <2>1, <2>2, <2>3, <2>4
<1>10. CASE t = [rest EXCEPT !.listening = FALSE,
                             !.responses = s.responses \o Found(i, BlocksFrom(p, i))]
  <2>1. PICK F : F = BlocksFrom(p, i)
    OBVIOUS
  <2>2. PICK q : q = Found(i, F)
    OBVIOUS
  <2>3. Responses(q)
    BY <2>1, <2>2, FoundTyped
  <2>4. s.responses \o q = q
    <3>1. q \in Seq(Range(q))
      BY <2>3, OneByOne DEF Responses, SeqLike
    <3> QED BY <1>2, <3>1, ConcatEmptySeq
  <2>5. t.buffer = <<>> /\ t.responses = q
    BY <1>6, <1>10, <2>1, <2>2, <2>4 DEF Shaped
  <2>6. Len(F) \in Nat /\ \A k \in 1..Len(F) : F[k] \in StoredBy(p)
    BY <2>1, BlocksFromHeld DEF StoredBy
  <2>7. Len(q) = Len(F) /\ \A k \in 1..Len(F) : q[k].block = F[k]
    BY <2>2, <2>6 DEF Found
  <2> QED BY <1>1, <1>7, <2>5, <2>6, <2>7
<1>11. \/ t = [rest EXCEPT !.listening = FALSE]
       \/ t = [rest EXCEPT !.responses = Append(s.responses, NotFound)]
       \/ t = [rest EXCEPT !.listening = FALSE,
                           !.responses = s.responses \o Found(i, BlocksFrom(p, i))]
  BY <1>1, <1>4, <1>5 DEF Answered
<1> QED BY <1>8, <1>9, <1>10, <1>11

(* The first response is one of them, and so are the others. *)
LEMMA ResponseBlocks ==
    ASSUME NEW s, Responses(s.responses), s.responses # <<>>
    PROVE  /\ Head(s.responses).block \in BlocksOf(s)
           /\ \A k \in 1..Len(Tail(s.responses)) : Tail(s.responses)[k].block \in BlocksOf(s)
<1>1. PICK q : q = s.responses
  OBVIOUS
<1>2. PICK n \in Nat : n = Len(q) /\ q = [k \in 1..n |-> q[k]]
  BY <1>1 DEF Responses, SeqLike
<1>3. n # 0
  BY <1>1, <1>2
<1>4. Head(q) = q[1] /\ Tail(q) = [k \in 1..n - 1 |-> q[k + 1]]
  BY <1>2, <1>3, TailOf
<1>5. n - 1 \in Nat /\ 1 \in 1..n /\ \A k \in 1..n - 1 : k + 1 \in 1..n
  BY <1>3
<1>6. PICK m \in Nat : m = n - 1
  BY <1>5
<1>7. Len(Tail(q)) = m
  BY <1>4, <1>6
<1>8. \A k \in 1..n : q[k].block \in BlocksOf(s)
  BY <1>1, <1>2 DEF BlocksOf
<1> QED BY <1>1, <1>4, <1>5, <1>6, <1>7, <1>8

(* What is buffered with the block just received. *)
LEMMA BufferedBlocks ==
    ASSUME NEW s, SessionTyped(s), s.responses # <<>>,
           NEW bs, bs = Append(s.buffer, Head(s.responses).block)
    PROVE  Len(bs) \in Nat /\ \A k \in 1..Len(bs) : bs[k] \in BlocksOf(s)
<1>1. PICK n \in Nat : n = Len(s.buffer) /\ s.buffer = [k \in 1..n |-> s.buffer[k]]
  BY DEF SessionTyped, Blocks, SeqLike
<1>2. PICK b : b = Head(s.responses).block /\ b \in BlocksOf(s)
  BY ResponseBlocks DEF SessionTyped
<1>3. bs = [k \in 1..n + 1 |-> IF k = n + 1 THEN b ELSE s.buffer[k]]
  BY <1>1, <1>2, AppendOf
<1>4. Len(bs) = n + 1
  BY <1>3
<1>5. \A k \in 1..n : s.buffer[k] \in BlocksOf(s)
  BY <1>1 DEF BlocksOf
<1> QED BY <1>2, <1>3, <1>4, <1>5

LEMMA StepBrings ==
    ASSUME Typed, [Next]_vars, NEW l \in Link
    PROVE  BlocksOf(sync'[l]) \subseteq BlocksOf(sync[l]) \cup {GenesisBlock} \cup StoredBy(chain[l[2]])
<1>1. ASSUME sync'[l] = sync[l] \/ sync'[l] = Idle \/ sync'[l] = Started(l[1])
      PROVE  BlocksOf(sync'[l]) \subseteq BlocksOf(sync[l])
  BY <1>1, NoBlocks
<1>2. CASE \E n \in Node : ExtendChain(n) \/ Restart(n)
  BY <1>1, <1>2 DEF ExtendChain, Restart
<1>3. CASE UNCHANGED vars
  BY <1>1, <1>3 DEF vars
<1>4. ASSUME NEW k \in Link, LinkStep(k)
      PROVE  BlocksOf(sync'[l]) \subseteq BlocksOf(sync[l]) \cup {GenesisBlock} \cup StoredBy(chain[l[2]])
  <2> DEFINE s == sync[k]
  <2>1. CASE StartSync(k) \/ PreemptSync(k) \/ Disconnect(k) \/ AskPanics(k) \/ ReceiveEnd(k)
               \/ FinishSync(k)
    <3>1. sync'[l] = sync[l] \/ sync'[l] = Idle \/ sync'[l] = Started(l[1])
      BY <2>1 DEF StartSync, PreemptSync, Disconnect, AskPanics, ReceiveEnd, FinishSync, Dropped, Typed
    <3> QED BY <1>1, <3>1
  <2>2. ASSUME NEW t, sync' = [sync EXCEPT ![k] = t],
               BlocksOf(t) \subseteq BlocksOf(s) \cup {GenesisBlock} \cup StoredBy(chain[k[2]])
        PROVE  BlocksOf(sync'[l]) \subseteq BlocksOf(sync[l]) \cup {GenesisBlock} \cup StoredBy(chain[l[2]])
    <3>1. sync'[l] = IF l = k THEN t ELSE sync[l]
      BY <2>2 DEF Typed
    <3> QED BY <2>2, <3>1
  <2>3. SessionTyped(s) /\ Shaped(s) /\ ChainTyped(chain[k[2]])
    BY LinkEnds DEF Typed, SessionTyped
  <2>4. CASE Ask(k)
    <3>1. PICK q, t : t = [s EXCEPT !.state = "wait", !.requests = q] /\ sync' = [sync EXCEPT ![k] = t]
      BY <2>3, <2>4 DEF Ask, Typed
    <3>2. t.buffer = s.buffer /\ t.responses = s.responses
      BY <2>3, <3>1 DEF Shaped
    <3> QED BY <2>2, <3>1, <3>2, SameMessages
  <2>5. CASE Answer(k)
    BY <2>2, <2>3, <2>5, AnswerBrings DEF Answer
  <2>6. CASE ReceiveBlock(k)
    <3>1. PICK bs, q, t :
              /\ bs = Append(s.buffer, Head(s.responses).block) /\ q = Tail(s.responses)
              /\ t = [s EXCEPT !.state = "ask", !.buffer = bs, !.responses = q]
              /\ sync' = [sync EXCEPT ![k] = t] /\ s.responses # <<>>
      BY <2>3, <2>6 DEF ReceiveBlock, CanReceive, Typed
    <3>2. t.buffer = bs /\ t.responses = q
      BY <2>3, <3>1 DEF Shaped
    <3>3. \A j \in 1..Len(bs) : bs[j] \in BlocksOf(s)
      BY <2>3, <3>1, BufferedBlocks
    <3>4. \A j \in 1..Len(q) : q[j].block \in BlocksOf(s)
      BY <2>3, <3>1, ResponseBlocks DEF SessionTyped
    <3>5. BlocksOf(t) \subseteq BlocksOf(s)
      <4>1. BlocksOf(t) = {bs[j] : j \in 1..Len(bs)} \cup {q[j].block : j \in 1..Len(q)}
        BY <3>2 DEF BlocksOf
      <4> QED BY <3>3, <3>4, <4>1
    <3> QED BY <2>2, <3>1, <3>5
  <2>7. CASE ReceiveNotFound(k)
    <3>1. PICK q, t :
              /\ q = Tail(s.responses) /\ s.responses # <<>>
              /\ t = IF s.height = 1 THEN Idle
                     ELSE [s EXCEPT !.state = "ask", !.height = s.height - 1, !.responses = q]
              /\ sync' = [sync EXCEPT ![k] = t]
      BY <2>7 DEF ReceiveNotFound, CanReceive
    <3>2. CASE t = Idle
      BY <2>2, <3>1, <3>2, NoBlocks
    <3>3. CASE t = [s EXCEPT !.state = "ask", !.height = s.height - 1, !.responses = q]
      <4>1. t.buffer = s.buffer /\ t.responses = q
        BY <2>3, <3>3 DEF Shaped
      <4>2. \A j \in 1..Len(q) : q[j].block \in BlocksOf(s)
        BY <2>3, <3>1, ResponseBlocks DEF SessionTyped
      <4>3. BlocksOf(t) = {s.buffer[j] : j \in 1..Len(s.buffer)} \cup {q[j].block : j \in 1..Len(q)}
        BY <4>1 DEF BlocksOf
      <4>4. {s.buffer[j] : j \in 1..Len(s.buffer)} \subseteq BlocksOf(s)
        BY DEF BlocksOf
      <4>5. BlocksOf(t) \subseteq BlocksOf(s)
        BY <4>2, <4>3, <4>4
      <4> QED BY <2>2, <3>1, <4>5
    <3> QED BY <3>1, <3>2, <3>3
  <2> QED BY <1>4, <2>1, <2>4, <2>5, <2>6, <2>7 DEF LinkStep, SyncStep
<1> QED BY <1>2, <1>3, <1>4 DEF Next, Step

(* Every ballot at a node or underway was accepted by some node.           *)
Fit(b) == \A x \in ToSet(b.ballots) : Accepted(x)

Vouched ==
    /\ \A n \in Node : \A b \in Held(Own(n)) : Accepted(b)
    /\ \A l \in Link : \A b \in BlocksOf(sync[l]) : Fit(b)

LEMMA HeldIs ==
    ASSUME Typed, Pools, NEW n \in Node
    PROVE  /\ Held(Own(n)) = BallotsOf(n)
           /\ \A b \in StoredBy(chain[n]) : ToSet(b.ballots) \subseteq Held(Own(n))
BY OwnTyped DEF Held, InPool, BallotsIn, BallotsOf, StoredBy

LEMMA InitVouched == NodeInit => Vouched
<1> SUFFICES ASSUME NodeInit PROVE Vouched
  OBVIOUS
<1>1. PICK c : c = Open([i \in {} |-> GenesisBlock])
  OBVIOUS
<1>2. Held(c) = {} /\ c.ballot_pool = <<>>
  BY <1>1, OpenNewTyped DEF Open
<1>3. \A n \in Node : chain[n] = c /\ pool[n] = <<>>
  BY <1>1 DEF NodeInit, Init
<1>4. \A n \in Node : BallotsOf(n) = {}
  BY <1>2, <1>3 DEF BallotsOf, Held, InPool
<1>5. \A n \in Node : Held(Own(n)) = {}
  BY <1>4, InitNodeTyped, HeldIs DEF NodeTyped
<1>6. \A l \in Link : BlocksOf(sync[l]) = {}
  BY NoBlocks DEF NodeInit, Init
<1> QED BY <1>5, <1>6 DEF Vouched

LEMMA NextVouched == ASSUME NodeTyped, Vouched, [NodeNext]_nodeVars PROVE Vouched'
<1>1. ASSUME NEW l \in Link, NEW b \in BlocksOf(sync'[l]) PROVE Fit(b)
  <2>1. b \in BlocksOf(sync[l]) \/ b = GenesisBlock \/ b \in StoredBy(chain[l[2]])
    BY <1>1, NodeNextSyncs, StepBrings DEF NodeTyped
  <2>2. CASE b \in BlocksOf(sync[l])
    BY <2>2 DEF Vouched
  <2>3. CASE b = GenesisBlock
    BY <2>3 DEF GenesisBlock, Fit, ToSet
  <2>4. CASE b \in StoredBy(chain[l[2]])
    BY <2>4, LinkEnds, HeldIs DEF NodeTyped, Vouched, Fit
  <2> QED BY <2>1, <2>2, <2>3, <2>4
<1>2. ASSUME NEW n \in Node, NEW d, OwnBecomes(n, d), \A b \in Held(d) : Accepted(b)
      PROVE  \A k \in Node : \A b \in Held(Own(k)') : Accepted(b)
  BY <1>2 DEF OwnBecomes, Vouched
<1>3. ASSUME UNCHANGED <<chain, pool>>
      PROVE  \A k \in Node : \A b \in Held(Own(k)') : Accepted(b)
  BY <1>3, OthersOwn DEF NodeTyped, Vouched
<1>4. ASSUME NEW n \in Node, NEW m \in Ballot, Receive(n, m)
      PROVE  \A k \in Node : \A b \in Held(Own(k)') : Accepted(b)
  <2>1. CASE ~Accepted(m)
    BY <1>3, <1>4, <2>1 DEF Receive
  <2>2. CASE Accepted(m)
    <3>1. PICK ts, committed, d :
              /\ ts \in Timestamp
              /\ d = PoolBallot(Own(n), m, ts, committed) /\ OwnBecomes(n, d)
      BY <1>4, <2>2, ReceiveOwn
    <3>2. ChainTyped(Own(n))
      BY OwnTyped DEF NodeTyped
    <3>3. Held(d) \subseteq Held(Own(n)) \cup {m}
      BY <3>1, <3>2, PoolBallotTyped
    <3> QED BY <1>2, <2>2, <3>1, <3>3 DEF Vouched
  <2> QED BY <2>1, <2>2
<1>5. ASSUME NEW n \in Node, TryResolve(n)
      PROVE  \A k \in Node : \A b \in Held(Own(k)') : Accepted(b)
  BY <1>3, <1>5 DEF TryResolve, vars
<1>6. ASSUME NEW n \in Node, Reopen(n)
      PROVE  \A k \in Node : \A b \in Held(Own(k)') : Accepted(b)
  <2>1. PICK d : d = Open(Own(n).db) /\ OwnBecomes(n, d)
    BY <1>6, ReopenOwn
  <2>2. Held(d) \subseteq Held(Own(n))
    BY <2>1, OwnTyped, OpenTyped DEF NodeTyped
  <2> QED BY <1>2, <2>1, <2>2 DEF Vouched
<1>7. ASSUME NEW l \in Link, Adopt(l)
      PROVE  \A k \in Node : \A b \in Held(Own(k)') : Accepted(b)
  <2>1. PICK fork, bs, committed, d :
            /\ fork \in Nat \ {0}
            /\ bs = Append(sync[l].buffer, Head(sync[l].responses).block)
            /\ Blocks(bs) /\ Len(bs) # 0
            /\ d = TryUpdateLongest(Own(l[1]), fork, bs, committed)
            /\ OwnBecomes(l[1], d)
    BY <1>7, AdoptOwn
  <2>2. sync[l].responses # <<>> /\ SessionTyped(sync[l])
    BY <1>7 DEF Adopt, FinishSync, CanReceive, NodeTyped, Typed
  <2>3. \A k \in 1..Len(bs) : Fit(bs[k])
    BY <2>1, <2>2, BufferedBlocks DEF Vouched
  <2>4. ChainTyped(Own(l[1])) /\ l[1] \in Node
    BY LinkEnds, OwnTyped DEF NodeTyped
  <2>5. Len(bs) \in Nat \ {0} /\ \A k \in 1..Len(bs) : IsBlock(bs[k])
    BY <2>1 DEF Blocks, SeqLike
  <2>6. \A x \in Held(d) : x \in Held(Own(l[1])) \/ \E k \in 1..Len(bs) : x \in ToSet(bs[k].ballots)
    BY <2>1, <2>4, <2>5, UpdateTyped
  <2>7. \A x \in Held(d) : Accepted(x)
    BY <2>3, <2>4, <2>6 DEF Vouched, Fit
  <2> QED BY <1>2, <2>1, <2>4, <2>7
<1>8. ASSUME NEW l \in Link, Exchange(l)
      PROVE  \A k \in Node : \A b \in Held(Own(k)') : Accepted(b)
  BY <1>3, <1>8 DEF Exchange, StartSync, PreemptSync, Disconnect, Ask, AskPanics, Answer,
                    ReceiveBlock, ReceiveNotFound, ReceiveEnd
<1>9. CASE UNCHANGED nodeVars
  BY <1>1, <1>3, <1>9 DEF nodeVars, vars, Vouched
<1>10. \A k \in Node : \A b \in Held(Own(k)') : Accepted(b)
  BY <1>3, <1>4, <1>5, <1>6, <1>7, <1>8, <1>9 DEF NodeNext, NodeStep, nodeVars, vars
<1> QED BY <1>1, <1>10 DEF Vouched

LEMMA AlwaysVouched == NodeSpec => []Vouched
BY InitVouched, NextVouched, AlwaysNodeTyped, PTL DEF NodeSpec

(* No node ever pools or stores a ballot that is not validly signed by a   *)
(* member of the census, although it checks only what gossip brings it and *)
(* takes any block that synchronisation does.                              *)
THEOREM HoldsOnlyTheCensus == NodeSpec => []CensusOnly
<1>1. NodeTyped /\ Vouched => CensusOnly
  BY HeldIs DEF NodeTyped, Vouched, Accepted, ContainsVoter, CensusOnly
<1> QED BY <1>1, AlwaysNodeTyped, AlwaysVouched, PTL

----------------------------------------------------------------------------
(* How often a sequence has a value. *)

Times(s, b) == Cardinality({i \in DOMAIN s : s[i] = b})

LEMMA TimesType ==
    ASSUME NEW S, NEW s \in Seq(S), NEW b
    PROVE  IsFiniteSet({i \in DOMAIN s : s[i] = b}) /\ Times(s, b) \in Nat
<1>1. Len(s) \in Nat /\ DOMAIN s = 1..Len(s)
  BY LenProperties
<1>2. IsFiniteSet(1..Len(s)) /\ {i \in DOMAIN s : s[i] = b} \subseteq 1..Len(s)
  BY <1>1, FS_Interval
<1>3. IsFiniteSet({i \in DOMAIN s : s[i] = b})
  BY <1>2, FS_Subset
<1> QED BY <1>3, FS_CardinalityType DEF Times

LEMMA NoTimes ==
    ASSUME NEW s, NEW b, b \notin ToSet(s)
    PROVE  Times(s, b) = 0
<1>1. {i \in DOMAIN s : s[i] = b} = {}
  BY DEF ToSet
<1> QED BY <1>1, FS_EmptySet DEF Times

(* As many as there are in both parts. *)
LEMMA TimesConcat ==
    ASSUME NEW S, NEW s \in Seq(S), NEW t \in Seq(S), NEW b
    PROVE  Times(s \o t, b) = Times(s, b) + Times(t, b)
<1>1. PICK m \in Nat : m = Len(s)
  BY LenProperties
<1>2. PICK n \in Nat : n = Len(t)
  BY LenProperties
<1>3. PICK u : u = s \o t
  OBVIOUS
<1>4. DOMAIN s = 1..m /\ DOMAIN t = 1..n /\ DOMAIN u = 1..(m + n)
  BY <1>1, <1>2, <1>3, LenProperties, ConcatProperties
<1>5. \A i \in 1..(m + n) : u[i] = IF i <= m THEN s[i] ELSE t[i - m]
  BY <1>1, <1>2, <1>3, ConcatProperties
<1> DEFINE A == {i \in 1..m : s[i] = b}
           B == {j \in 1..n : t[j] = b}
           C == {i \in (m + 1)..(m + n) : t[i - m] = b}
<1>6. IsFiniteSet(A) /\ IsFiniteSet(B)
  BY <1>4, TimesType
<1>7. IsFiniteSet(C) /\ Cardinality(C) = Cardinality(B)
  <2>1. PICK f : f = [j \in B |-> m + j]
    OBVIOUS
  <2>2. f \in Bijection(B, C)
    <3>1. ASSUME NEW j \in B PROVE m + j \in C
      BY <3>1
    <3>2. f \in [B -> C]
      BY <2>1, <3>1
    <3>3. ASSUME NEW j \in B, NEW k \in B, f[j] = f[k] PROVE j = k
      <4>1. m + j = m + k /\ j \in Nat /\ k \in Nat
        BY <2>1, <3>3
      <4> QED BY <4>1
    <3>4. ASSUME NEW i \in C PROVE \E j \in B : f[j] = i
      <4>1. i - m \in B /\ m + (i - m) = i
        BY <3>4
      <4>2. f[i - m] = m + (i - m)
        BY <2>1, <4>1
      <4> QED BY <4>1, <4>2
    <3> HIDE DEF B, C
    <3> QED BY <3>2, <3>3, <3>4 DEF Bijection, Injection, Surjection, IsInjective
  <2>3. ExistsBijection(B, C)
    BY <2>2 DEF ExistsBijection
  <2> HIDE DEF B, C
  <2> QED BY <1>6, <2>3, FS_Bijection
<1>8. {i \in DOMAIN u : u[i] = b} = A \cup C
  <2>1. ASSUME NEW i \in 1..(m + n), u[i] = b PROVE i \in A \cup C
    <3>1. CASE i <= m
      BY <1>5, <2>1, <3>1
    <3>2. CASE ~(i <= m)
      <4>1. i \in (m + 1)..(m + n)
        BY <2>1, <3>2
      <4> QED BY <1>5, <2>1, <3>2, <4>1
    <3> QED BY <3>1, <3>2
  <2>2. ASSUME NEW i \in A PROVE i \in 1..(m + n) /\ u[i] = b
    <3>1. i \in 1..(m + n) /\ i <= m
      BY <2>2
    <3> QED BY <1>5, <2>2, <3>1
  <2>3. ASSUME NEW i \in C PROVE i \in 1..(m + n) /\ u[i] = b
    <3>1. i \in 1..(m + n) /\ ~(i <= m)
      BY <2>3
    <3> QED BY <1>5, <2>3, <3>1
  <2> HIDE DEF A, C
  <2> QED BY <1>4, <2>1, <2>2, <2>3
<1>9. A \cap C = {}
  OBVIOUS
<1>10. Times(s, b) = Cardinality(A) /\ Times(t, b) = Cardinality(B)
  BY <1>4 DEF Times
<1> HIDE DEF A, B, C
<1>11. Cardinality(A \cup C) = Cardinality(A) + Cardinality(C)
  <2>1. Cardinality(A \cap C) = 0
    BY <1>9, FS_EmptySet
  <2>2. Cardinality(A \cup C) = Cardinality(A) + Cardinality(C) - Cardinality(A \cap C)
    BY <1>6, <1>7, FS_Union
  <2>3. Cardinality(A) \in Nat /\ Cardinality(C) \in Nat
    BY <1>6, <1>7, FS_CardinalityType
  <2> QED BY <2>1, <2>2, <2>3
<1> QED BY <1>3, <1>7, <1>8, <1>10, <1>11 DEF Times

LEMMA TimesOne ==
    ASSUME NEW a, NEW b
    PROVE  Times(<<a>>, b) = IF a = b THEN 1 ELSE 0
<1>1. PICK s : s = <<a>>
  OBVIOUS
<1>2. DOMAIN s = {1} /\ s[1] = a
  BY <1>1
<1>3. CASE a = b
  <2>1. {i \in DOMAIN s : s[i] = b} = {1}
    BY <1>2, <1>3
  <2> QED BY <1>1, <1>3, <2>1, FS_Singleton DEF Times
<1>4. CASE a # b
  <2>1. {i \in DOMAIN s : s[i] = b} = {}
    BY <1>2, <1>4
  <2> QED BY <1>1, <1>4, <2>1, FS_EmptySet DEF Times
<1> QED BY <1>3, <1>4

----------------------------------------------------------------------------
(* All the ballots of a chain in a row: its blocks', then its pool's.      *)

InOrder(c) == FlattenSeq([i \in 1..c.height |-> c.db[i].ballots])

Everything(c) == InOrder(c) \o c.ballot_pool

LEMMA InOrderTyped ==
    ASSUME NEW c, ChainTyped(c), Clean(c)
    PROVE  /\ InOrder(c) \in Seq(Ballot) /\ c.ballot_pool \in Seq(Ballot)
           /\ ToSet(InOrder(c)) = UNION {ToSet(c.db[i].ballots) : i \in 1..c.height}
<1>1. PICK h \in Nat : h = c.height
  BY DEF ChainTyped, StoreOK
<1>2. PICK s : s = [i \in 1..h |-> c.db[i].ballots]
  OBVIOUS
<1>3. Len(s) = h /\ s = [i \in 1..Len(s) |-> s[i]]
  BY <1>2
<1>4. \A i \in 1..Len(s) : s[i] \in Seq(Ballot)
  BY <1>1, <1>2, <1>3 DEF ChainTyped, Clean, BlocksOK, IsBlock
<1>5. /\ FlattenSeq(s) \in Seq(Ballot)
      /\ ToSet(FlattenSeq(s)) = UNION {ToSet(s[i]) : i \in 1..Len(s)}
  BY <1>3, <1>4, FlattenProperties
<1>6. UNION {ToSet(s[i]) : i \in 1..Len(s)} = UNION {ToSet(c.db[i].ballots) : i \in 1..h}
  BY <1>2, <1>3
<1>7. InOrder(c) = FlattenSeq(s)
  BY <1>1, <1>2 DEF InOrder
<1> QED BY <1>1, <1>5, <1>6, <1>7 DEF ChainTyped, PoolOK

LEMMA AppendAddsOne ==
    ASSUME NEW s \in Seq(Ballot), NEW a \in Ballot, NEW b
    PROVE  /\ Times(Append(s, a), b) \in Nat /\ Times(s, b) \in Nat
           /\ a = b => Times(Append(s, a), b) = Times(s, b) + 1
           /\ a # b => Times(Append(s, a), b) = Times(s, b)
<1>1. PICK t : t = <<a>>
  OBVIOUS
<1>2. Append(s, a) = s \o t /\ t \in Seq(Ballot) /\ Append(s, a) \in Seq(Ballot)
  BY <1>1, AppendIsConcat
<1>3. Times(s \o t, b) = Times(s, b) + Times(t, b)
  BY <1>2, TimesConcat
<1>4. Times(t, b) = IF a = b THEN 1 ELSE 0
  BY <1>1, TimesOne
<1>5. PICK x \in Nat : x = Times(s, b)
  BY TimesType
<1>6. Times(Append(s, a), b) = x + (IF a = b THEN 1 ELSE 0)
  BY <1>2, <1>3, <1>4, <1>5
<1> QED BY <1>5, <1>6

(* What becomes of the ballots pooled, if nothing fails. *)
Moves(c, q, ts, d) ==
    PoolGrows(c, q, d) \/ (Len(q) >= BlockSize /\ PoolMoved(c, q, ts, d))

AllKept(c, q, d) ==
    \A b : /\ Times(Everything(d), b) = Times(InOrder(c), b) + Times(q, b)
           /\ Times(Everything(c), b) = Times(InOrder(c), b) + Times(c.ballot_pool, b)
           /\ Times(InOrder(c), b) \in Nat

(* Once the ballot is in the pool, moving ballots into a block changes at  *)
(* most the order of them all.                                             *)
LEMMA PoolingKeepsAll ==
    ASSUME NEW c, ChainTyped(c), Clean(c), NEW ts, NEW q, q \in Seq(Ballot), NEW d,
           Moves(c, q, ts, d)
    PROVE  AllKept(c, q, d)
<1> SUFFICES ASSUME NEW b
             PROVE  /\ Times(Everything(d), b) = Times(InOrder(c), b) + Times(q, b)
                    /\ Times(Everything(c), b) = Times(InOrder(c), b) + Times(c.ballot_pool, b)
                    /\ Times(InOrder(c), b) \in Nat
  BY DEF AllKept
<1>2. PICK h \in Nat \ {0} : h = c.height
  BY DEF ChainTyped, StoreOK
<1>7. /\ InOrder(c) \in Seq(Ballot) /\ c.ballot_pool \in Seq(Ballot)
  BY InOrderTyped
<1>9. /\ Times(InOrder(c), b) \in Nat
      /\ Times(Everything(c), b) = Times(InOrder(c), b) + Times(c.ballot_pool, b)
  BY <1>7, TimesType, TimesConcat DEF Everything
<1>10. CASE PoolGrows(c, q, d)
  <2>1. InOrder(d) = InOrder(c) /\ d.ballot_pool = q
    BY <1>10 DEF PoolGrows, InOrder
  <2>2. Everything(d) = InOrder(c) \o q
    BY <2>1 DEF Everything
  <2> QED BY <1>7, <1>9, <2>2, TimesConcat
<1>11. CASE Len(q) >= BlockSize /\ PoolMoved(c, q, ts, d)
  <2>1. PICK rest \in Seq(Ballot), new \in Seq(Ballot) :
            rest = Remaining(q) /\ new = SplitOff(q) /\ rest \o new = q
    BY <1>11, SplitPool
  <2>2. /\ d.ballot_pool = rest /\ d.height = h + 1 /\ DOMAIN c.db = 1..h
        /\ d.db[h + 1].ballots = new
        /\ \A i \in 1..h : d.db[i] = c.db[i]
    <3>1. d.db[c.height + 1] = NewBlock(c.db[c.height], ts, SplitOff(q))
      BY <1>11 DEF PoolMoved
    <3>2. PICK e : e = NewBlock(c.db[c.height], ts, SplitOff(q))
      OBVIOUS
    <3>3. e.ballots = SplitOff(q)
      BY <3>2 DEF NewBlock
    <3>4. DOMAIN c.db = 1..h
      BY <1>2 DEF Clean
    <3>5. \A i \in 1..h : i # h + 1
      OBVIOUS
    <3>6. \A i \in DOMAIN c.db : i # c.height + 1 => d.db[i] = c.db[i]
      BY <1>11 DEF PoolMoved
    <3>7. d.ballot_pool = rest /\ d.height = h + 1
      BY <1>2, <1>11, <2>1 DEF PoolMoved
    <3>8. \A i \in 1..h : d.db[i] = c.db[i]
      BY <1>2, <3>4, <3>5, <3>6
    <3> QED BY <1>2, <2>1, <3>1, <3>2, <3>3, <3>4, <3>7, <3>8
  <2>3. InOrder(d) = InOrder(c) \o new
    <3>1. PICK s : s = [i \in 1..(h + 1) |-> d.db[i].ballots]
      OBVIOUS
    <3>2. PICK t : t = [i \in 1..h |-> c.db[i].ballots]
      OBVIOUS
    <3>3. Len(s) = h + 1 /\ s[h + 1] = new
      <4>1. h + 1 \in 1..(h + 1) /\ h + 1 \in Nat
        OBVIOUS
      <4>2. s[h + 1] = d.db[h + 1].ballots
        BY <3>1, <4>1
      <4>3. Len(s) = h + 1
        BY <3>1, <4>1
      <4> QED BY <2>2, <4>2, <4>3
    <3>4. Len(t) = h
      BY <3>2
    <3>5. \A i \in 1..h : s[i] = t[i]
      <4>1. \A i \in 1..h : i \in 1..(h + 1)
        OBVIOUS
      <4>2. \A i \in 1..h : s[i] = d.db[i].ballots /\ t[i] = c.db[i].ballots
        BY <3>1, <3>2, <4>1
      <4>3. \A i \in 1..h : d.db[i] = c.db[i]
        BY <2>2
      <4> QED BY <4>2, <4>3
    <3>6. s[h + 1] \in Seq(Ballot)
      BY <2>1, <3>3
    <3>7. FlattenSeq(s) = FlattenSeq(t) \o s[h + 1]
      BY <1>2, <3>3, <3>4, <3>5, <3>6, FlattenLonger
    <3>8. InOrder(d) = FlattenSeq(s) /\ InOrder(c) = FlattenSeq(t)
      BY <1>2, <2>2, <3>1, <3>2 DEF InOrder
    <3> QED BY <3>3, <3>7, <3>8
  <2>4. Times(Everything(d), b) = Times(InOrder(c) \o new, b) + Times(rest, b)
    <3>1. InOrder(c) \o new \in Seq(Ballot)
      BY <1>7, <2>1, ConcatProperties
    <3>2. Everything(d) = (InOrder(c) \o new) \o rest
      BY <2>2, <2>3 DEF Everything
    <3>3. PICK both \in Seq(Ballot) : both = InOrder(c) \o new
      BY <3>1
    <3>4. Times(both \o rest, b) = Times(both, b) + Times(rest, b)
      BY <2>1, TimesConcat
    <3> QED BY <3>2, <3>3, <3>4
  <2>5. Times(InOrder(c) \o new, b) = Times(InOrder(c), b) + Times(new, b)
    BY <1>7, <2>1, TimesConcat
  <2>6. Times(q, b) = Times(rest, b) + Times(new, b)
    <3>1. Times(rest \o new, b) = Times(rest, b) + Times(new, b)
      BY TimesConcat
    <3> QED BY <2>1, <3>1
  <2>7. Times(rest, b) \in Nat /\ Times(new, b) \in Nat
    BY <2>1, TimesType
  <2>8. PICK x \in Nat, y \in Nat, z \in Nat :
            x = Times(InOrder(c), b) /\ y = Times(new, b) /\ z = Times(rest, b)
    BY <1>9, <2>7
  <2>9. Times(Everything(d), b) = (x + y) + z
    BY <2>4, <2>5, <2>8
  <2>10. Times(InOrder(c), b) + Times(q, b) = x + (z + y)
    BY <2>6, <2>8
  <2>11. (x + y) + z = x + (z + y)
    OBVIOUS
  <2> QED BY <1>9, <2>9, <2>10, <2>11
<1> QED BY <1>10, <1>11 DEF Moves

(* A node that is still steady holds everything as often as it heard it.   *)
KeptSoFar ==
    \A n \in steady :
        /\ Clean(Own(n))
        /\ \A b \in Ballot : Times(Everything(Own(n)), b) = heard[n][b]

LEMMA InitKept == NodeInit => KeptSoFar
<1> SUFFICES ASSUME NodeInit, NEW n \in steady
             PROVE  Clean(Own(n)) /\ \A b \in Ballot : Times(Everything(Own(n)), b) = heard[n][b]
  BY DEF KeptSoFar
<1>1. PICK c : c = Open([i \in {} |-> GenesisBlock])
  OBVIOUS
<1>2. n \in Node /\ chain[n] = c /\ pool[n] = <<>> /\ \A b \in Ballot : heard[n][b] = 0
  BY <1>1 DEF NodeInit, Init
<1>3. Clean(c) /\ Held(c) = {}
  BY <1>1, OpenNewTyped, OpenEmpty
<1>4. PICK o : o = Own(n)
  OBVIOUS
<1>5. ChainTyped(o) /\ o.db = c.db /\ o.height = c.height
  BY <1>2, <1>4, InitNodeTyped, OwnTyped DEF NodeTyped
<1>6. Clean(o)
  BY <1>3, <1>5 DEF Clean
<1>7. Held(o) = {}
  <2>1. BallotsOf(n) = {}
    BY <1>2, <1>3 DEF BallotsOf, Held, InPool, ToSet
  <2> QED BY <1>2, <1>4, <2>1, InitNodeTyped, HeldIs DEF NodeTyped
<1>8. /\ InOrder(o) \in Seq(Ballot) /\ o.ballot_pool \in Seq(Ballot)
      /\ ToSet(InOrder(o)) = UNION {ToSet(o.db[i].ballots) : i \in 1..o.height}
  BY <1>5, <1>6, InOrderTyped
<1>9. ToSet(InOrder(o)) = {} /\ ToSet(o.ballot_pool) = {}
  BY <1>6, <1>7, <1>8 DEF Held, InPool, BallotsIn, Clean
<1>10. ToSet(Everything(o)) = {}
  BY <1>8, <1>9, ToSetConcat DEF Everything
<1> QED BY <1>2, <1>4, <1>6, <1>10, NoTimes

(* A ballot that is pooled is held once more, and no other is.             *)
OneMore(c, m, d) ==
    \A b : /\ m = b => Times(Everything(d), b) = Times(Everything(c), b) + 1
           /\ m # b => Times(Everything(d), b) = Times(Everything(c), b)

LEMMA MovingAddsOne ==
    ASSUME NEW c, ChainTyped(c), Clean(c), NEW m \in Ballot, NEW ts,
           NEW q, q = Append(c.ballot_pool, m), q \in Seq(Ballot), NEW d, Moves(c, q, ts, d)
    PROVE  OneMore(c, m, d)
<1> SUFFICES ASSUME NEW b
             PROVE  /\ m = b => Times(Everything(d), b) = Times(Everything(c), b) + 1
                    /\ m # b => Times(Everything(d), b) = Times(Everything(c), b)
  BY DEF OneMore
<1>1. AllKept(c, q, d)
  BY PoolingKeepsAll, Zenon
<1>2. c.ballot_pool \in Seq(Ballot)
  BY DEF ChainTyped, PoolOK
<1>3. /\ Times(q, b) \in Nat /\ Times(c.ballot_pool, b) \in Nat
      /\ m = b => Times(q, b) = Times(c.ballot_pool, b) + 1
      /\ m # b => Times(q, b) = Times(c.ballot_pool, b)
  BY <1>2, AppendAddsOne
<1>4. PICK x \in Nat, y \in Nat, z \in Nat :
          x = Times(InOrder(c), b) /\ y = Times(q, b) /\ z = Times(c.ballot_pool, b)
  BY <1>1, <1>3 DEF AllKept
<1> QED BY <1>1, <1>3, <1>4 DEF AllKept

LEMMA PoolingAddsOne ==
    ASSUME NEW c, ChainTyped(c), Clean(c), NEW m \in Ballot, NEW ts, NEW committed,
           committed = TRUE, NEW d, d = PoolBallot(c, m, ts, committed)
    PROVE  Clean(d) /\ OneMore(c, m, d)
<1>1. HasBlock(c, c.height) /\ StoreOK(c) /\ PoolOK(c)
  <2>1. PICK h \in Nat \ {0} : h = c.height
    BY DEF ChainTyped, StoreOK
  <2>2. h \in 1..h
    OBVIOUS
  <2> QED BY <2>1, <2>2 DEF HasBlock, Clean, ChainTyped
<1>2. Clean(d)
  BY <1>1, PoolBallotChain
<1>3. PICK q : q = Append(c.ballot_pool, m)
  OBVIOUS
<1>4. q \in Seq(Ballot) /\ Moves(c, q, ts, d)
  BY <1>1, <1>3, PoolBallotCases DEF Moves
<1>5. OneMore(c, m, d)
  BY <1>3, <1>4, MovingAddsOne, Zenon
<1> QED BY <1>2, <1>5

LEMMA NextKept == ASSUME NodeTyped, KeptSoFar, [NodeNext]_nodeVars PROVE KeptSoFar'
<1>1. ASSUME UNCHANGED <<chain, pool, heard, steady>> PROVE KeptSoFar'
  BY <1>1, OthersOwn DEF NodeTyped, Control, KeptSoFar
<1>2. ASSUME NEW n \in Node, NEW d, OwnBecomes(n, d), steady' = steady \ {n}, heard' = heard
      PROVE  KeptSoFar'
  BY <1>2 DEF OwnBecomes, NodeTyped, Control, KeptSoFar
<1>3. ASSUME NEW n \in Node, NEW m \in Ballot, Receive(n, m) PROVE KeptSoFar'
  <2>1. CASE ~Accepted(m)
    BY <1>1, <1>3, <2>1 DEF Receive
  <2>2. CASE Accepted(m)
    <3>1. PICK ts, committed, d :
              /\ ts \in Timestamp
              /\ committed = TRUE /\ d = PoolBallot(Own(n), m, ts, committed)
              /\ OwnBecomes(n, d)
      BY <1>3, <2>2, ReceiveOwn
    <3>2. /\ \A k \in Node \ {n} : Own(k)' = Own(k) /\ heard'[k] = heard[k]
          /\ Own(n)' = d /\ steady' = steady /\ steady \subseteq Node
          /\ \A b \in Ballot : heard'[n][b] = IF b = m THEN heard[n][m] + 1 ELSE heard[n][b]
      BY <1>3, <2>2, <3>1 DEF Receive, OwnBecomes, NodeTyped, Control
    <3> SUFFICES ASSUME NEW k \in steady, NEW b \in Ballot
                 PROVE  Clean(Own(k)') /\ Times(Everything(Own(k)'), b) = heard'[k][b]
      BY <1>3, <3>2 DEF KeptSoFar
    <3>3. CASE k # n
      BY <3>2, <3>3 DEF KeptSoFar
    <3>4. CASE k = n
      <4>1. ChainTyped(Own(n)) /\ Clean(Own(n))
        BY <3>4, OwnTyped DEF NodeTyped, KeptSoFar
      <4>2. Clean(d) /\ OneMore(Own(n), m, d)
        BY <3>1, <4>1, PoolingAddsOne, Zenon
      <4>3. Times(Everything(Own(n)), b) = heard[n][b]
        BY <3>4 DEF KeptSoFar
      <4> QED BY <3>2, <3>4, <4>2, <4>3 DEF OneMore
    <3> QED BY <3>3, <3>4
  <2> QED BY <2>1, <2>2
<1>4. ASSUME NEW n \in Node, TryResolve(n) PROVE KeptSoFar'
  BY <1>1, <1>4 DEF TryResolve, vars
<1>5. ASSUME NEW n \in Node, Reopen(n) PROVE KeptSoFar'
  BY <1>2, <1>5, ReopenOwn DEF Reopen
<1>6. ASSUME NEW l \in Link, Adopt(l) PROVE KeptSoFar'
  <2>1. heard' = heard /\ steady' = IF UNCHANGED <<chain, pool>> THEN steady ELSE steady \ {l[1]}
    BY <1>6 DEF Adopt
  <2>2. CASE UNCHANGED <<chain, pool>>
    BY <1>1, <2>1, <2>2
  <2>3. CASE ~UNCHANGED <<chain, pool>>
    <3>1. PICK d : OwnBecomes(l[1], d)
      BY <1>6, AdoptOwn
    <3> QED BY <1>2, <2>1, <2>3, <3>1, LinkEnds
  <2> QED BY <2>2, <2>3
<1>7. ASSUME NEW l \in Link, Exchange(l) PROVE KeptSoFar'
  BY <1>1, <1>7 DEF Exchange, loop, StartSync, PreemptSync, Disconnect, Ask, AskPanics, Answer,
                    ReceiveBlock, ReceiveNotFound, ReceiveEnd
<1>8. ASSUME UNCHANGED nodeVars PROVE KeptSoFar'
  BY <1>1, <1>8 DEF nodeVars, vars, loop
<1> QED BY <1>3, <1>4, <1>5, <1>6, <1>7, <1>8 DEF NodeNext, NodeStep

LEMMA AlwaysKept == NodeSpec => []KeptSoFar
BY InitKept, NextKept, AlwaysNodeTyped, PTL DEF NodeSpec

(* A node that has neither adopted a chain nor restarted holds every       *)
(* ballot as often as gossip brought it, in its blocks and its pool.       *)
THEOREM KeepsAsDelivered == NodeSpec => []KeptAsDelivered
<1>1. ASSUME NodeTyped, KeptSoFar PROVE KeptAsDelivered
  <2> SUFFICES ASSUME NEW n \in steady, NEW b \in Ballot
               PROVE  LET blocks == [i \in 1..chain[n].height |-> chain[n].db[i].ballots]
                          all    == FlattenSeq(blocks) \o pool[n]
                      IN  Cardinality({i \in DOMAIN all : all[i] = b}) = heard[n][b]
    BY DEF KeptAsDelivered
  <2>1. n \in Node
    BY <1>1 DEF NodeTyped, Control
  <2>2. Times(Everything(Own(n)), b) = heard[n][b]
    BY <1>1 DEF KeptSoFar
  <2>3. Everything(Own(n))
          = FlattenSeq([i \in 1..chain[n].height |-> chain[n].db[i].ballots]) \o pool[n]
    BY <1>1, <2>1, OwnTyped DEF NodeTyped, Everything, InOrder
  <2> QED BY <2>2, <2>3 DEF Times
<1> QED BY <1>1, AlwaysNodeTyped, AlwaysKept, PTL

----------------------------------------------------------------------------
(* Folds over finite sets.                                                 *)

(* The value of a fold for s, from its values for smaller sets. *)
FoldStep(it, base, first, step, s) ==
    IF s = {} THEN base ELSE step[first[s]][it[s \ {first[s]}]]

(* A fold over S with values in A that picks first[s] of s next. *)
HasFold(S, A, base, first, step) ==
    /\ IsFiniteSet(S)
    /\ base \in A
    /\ \A s \in SUBSET S : s # {} => first[s] \in s
    /\ \A x \in S : \A a \in A : step[x][a] \in A

IsFoldOf(it, S, A, base, first, step) ==
    /\ it \in [SUBSET S -> A]
    /\ \A s \in SUBSET S : it[s] = FoldStep(it, base, first, step, s)

(* It has a value for every subset. *)
LEMMA FoldExists ==
    ASSUME NEW S, NEW A, NEW base, NEW first, NEW step, HasFold(S, A, base, first, step)
    PROVE  \E it : IsFoldOf(it, S, A, base, first, step)
<1> USE DEF HasFold, IsFoldOf
<1> DEFINE Upto(m) == {s \in SUBSET S : Cardinality(s) <= m}
           T == {m \in Nat : \E it \in [SUBSET S -> A] :
                    \A s \in Upto(m) : it[s] = FoldStep(it, base, first, step, s)}
<1>1. \A s \in SUBSET S : IsFiniteSet(s) /\ Cardinality(s) \in Nat
  BY FS_Subset, FS_CardinalityType
<1>2. 0 \in T
  <2>1. PICK it \in [SUBSET S -> A] : it = [s \in SUBSET S |-> base]
    OBVIOUS
  <2>2. ASSUME NEW s \in Upto(0) PROVE it[s] = FoldStep(it, base, first, step, s)
    <3>1. Cardinality(s) = 0
      BY <1>1
    <3>2. s = {}
      BY <1>1, <3>1, FS_EmptySet
    <3> QED BY <2>1, <3>2 DEF FoldStep
  <2> QED BY <2>2
<1>3. ASSUME NEW m \in Nat, m \in T PROVE m + 1 \in T
  <2>1. PICK it \in [SUBSET S -> A] : \A s \in Upto(m) : it[s] = FoldStep(it, base, first, step, s)
    BY <1>3
  <2>2. PICK more : more = [s \in SUBSET S |-> FoldStep(it, base, first, step, s)]
    OBVIOUS
  <2>3. ASSUME NEW s \in SUBSET S PROVE FoldStep(it, base, first, step, s) \in A
    <3>1. CASE s = {}
      BY <3>1 DEF FoldStep
    <3>2. CASE s # {}
      <4>1. first[s] \in S /\ s \ {first[s]} \in SUBSET S
        BY <3>2
      <4>2. it[s \ {first[s]}] \in A
        BY <4>1
      <4> QED BY <3>2, <4>1, <4>2 DEF FoldStep
    <3> QED BY <3>1, <3>2
  <2>4. more \in [SUBSET S -> A]
    BY <2>2, <2>3
  <2>5. ASSUME NEW s \in Upto(m + 1) PROVE more[s] = FoldStep(more, base, first, step, s)
    <3>1. more[s] = FoldStep(it, base, first, step, s)
      BY <2>2
    <3>2. CASE s = {}
      BY <3>1, <3>2 DEF FoldStep
    <3>3. CASE s # {}
      <4>1. PICK t : t = s \ {first[s]}
        OBVIOUS
      <4>2. t \in SUBSET S /\ first[s] \in s
        BY <3>3, <4>1
      <4>3. Cardinality(t) = Cardinality(s) - 1
        BY <1>1, <4>1, <4>2, FS_RemoveElement
      <4>4. t \in Upto(m)
        BY <1>1, <4>2, <4>3
      <4>5. it[t] = FoldStep(it, base, first, step, t) /\ more[t] = FoldStep(it, base, first, step, t)
        BY <2>1, <2>2, <4>2, <4>4
      <4>6. it[t] = more[t]
        BY <4>5
      <4> QED BY <3>1, <3>3, <4>1, <4>6 DEF FoldStep
    <3> QED BY <3>2, <3>3
  <2> HIDE DEF Upto
  <2> QED BY <2>4, <2>5
<1>4. Cardinality(S) \in T
  <2> HIDE DEF T
  <2>1. Cardinality(S) \in Nat
    BY FS_CardinalityType
  <2> QED BY <1>2, <1>3, <2>1, Induction
<1>5. PICK it \in [SUBSET S -> A] :
         \A s \in Upto(Cardinality(S)) : it[s] = FoldStep(it, base, first, step, s)
  BY <1>4
<1>6. \A s \in SUBSET S : s \in Upto(Cardinality(S))
  BY FS_Subset
<1> HIDE DEF Upto
<1> QED BY <1>5, <1>6

(* A fold that adds up the sizes of sets that have nothing in common       *)
(* returns the size of their union.                                        *)
Some(s) == CHOOSE x \in s : TRUE

Sums(it, P, S) ==
    \A s \in SUBSET S : it[s] = IF s = {} THEN 0 ELSE Cardinality(P[Some(s)]) + it[s \ {Some(s)}]

Joined(P, s) == UNION {P[x] : x \in s}

LEMMA SumCounts ==
    ASSUME NEW S, IsFiniteSet(S), NEW it, NEW P, Sums(it, P, S),
           \A x \in S : IsFiniteSet(P[x]),
           \A x, y \in S : x # y => P[x] \cap P[y] = {}
    PROVE  it[S] = Cardinality(Joined(P, S))
<1> DEFINE T == {m \in Nat : \A s \in SUBSET S : Cardinality(s) = m =>
                    IsFiniteSet(Joined(P, s)) /\ it[s] = Cardinality(Joined(P, s))}
<1>1. \A s \in SUBSET S : IsFiniteSet(s) /\ Cardinality(s) \in Nat
  BY FS_Subset, FS_CardinalityType
<1>2. 0 \in T
  <2>1. ASSUME NEW s \in SUBSET S, Cardinality(s) = 0
        PROVE  IsFiniteSet(Joined(P, s)) /\ it[s] = Cardinality(Joined(P, s))
    <3>1. s = {}
      BY <1>1, <2>1, FS_EmptySet
    <3>2. Joined(P, s) = {}
      BY <3>1 DEF Joined
    <3>3. it[s] = 0
      BY <3>1 DEF Sums
    <3> QED BY <3>2, <3>3, FS_EmptySet
  <2> QED BY <2>1
<1>3. ASSUME NEW m \in Nat, m \in T PROVE m + 1 \in T
  <2>1. ASSUME NEW s \in SUBSET S, Cardinality(s) = m + 1
        PROVE  IsFiniteSet(Joined(P, s)) /\ it[s] = Cardinality(Joined(P, s))
    <3>1. s # {}
      BY <2>1, FS_EmptySet
    <3>2. PICK x : x = Some(s)
      OBVIOUS
    <3>3. x \in s
      BY <3>1, <3>2 DEF Some
    <3>4. PICK t : t = s \ {x}
      OBVIOUS
    <3>5. t \in SUBSET S /\ Cardinality(t) = m
      <4>1. Cardinality(s \ {x}) = Cardinality(s) - 1
        BY <1>1, <3>3, FS_RemoveElement
      <4> QED BY <2>1, <3>4, <4>1
    <3>6. IsFiniteSet(Joined(P, t)) /\ it[t] = Cardinality(Joined(P, t))
      BY <1>3, <3>5
    <3>7. it[s] = Cardinality(P[x]) + it[t]
      BY <3>1, <3>2, <3>4 DEF Sums
    <3>8. Joined(P, s) = P[x] \cup Joined(P, t)
      BY <3>3, <3>4 DEF Joined
    <3>9. P[x] \cap Joined(P, t) = {}
      <4>1. \A y \in t : P[x] \cap P[y] = {}
        BY <3>3, <3>4
      <4> QED BY <4>1 DEF Joined
    <3>10. IsFiniteSet(P[x])
      BY <3>3
    <3>11. PICK Q : Q = Joined(P, t)
      OBVIOUS
    <3>12. /\ IsFiniteSet(P[x] \cup Q)
           /\ Cardinality(P[x] \cup Q) = Cardinality(P[x]) + Cardinality(Q) - Cardinality(P[x] \cap Q)
      BY <3>6, <3>10, <3>11, FS_Union
    <3>13. Cardinality(P[x] \cap Q) = 0
      BY <3>9, <3>11, FS_EmptySet
    <3>14. PICK a \in Nat, b \in Nat : a = Cardinality(P[x]) /\ b = Cardinality(Q)
      BY <3>6, <3>10, <3>11, FS_CardinalityType
    <3>15. Cardinality(P[x] \cup Q) = a + b
      BY <3>12, <3>13, <3>14
    <3>16. it[s] = a + b
      BY <3>6, <3>7, <3>11, <3>14
    <3> QED BY <3>8, <3>11, <3>12, <3>15, <3>16
  <2> QED BY <2>1
<1>4. Cardinality(S) \in T
  <2> HIDE DEF T
  <2>1. Cardinality(S) \in Nat
    BY FS_CardinalityType
  <2> QED BY <1>2, <1>3, <2>1, Induction
<1> QED BY <1>4

----------------------------------------------------------------------------
(* The ballots that are counted: the loop over the ballots read.           *)

Signers == {b.signer : b \in Ballot}

(* What the loop may have in its hands. *)
Tables == UNION {[V -> Ballot] : V \in SUBSET Signers}

LEMMA EntryIs ==
    ASSUME NEW f \in Tables, NEW b \in Ballot
    PROVE  /\ Entry(f, b) \in Tables
           /\ DOMAIN Entry(f, b) = DOMAIN f \cup {b.signer}
           /\ \A v \in DOMAIN f : v # b.signer => Entry(f, b)[v] = f[v]
           /\ IF b.signer \in DOMAIN f /\ ~(b.timestamp > f[b.signer].timestamp)
              THEN Entry(f, b)[b.signer] = f[b.signer]
              ELSE Entry(f, b)[b.signer] = b
<1>1. PICK V \in SUBSET Signers : f \in [V -> Ballot]
  BY DEF Tables
<1>2. PICK w : w = b.signer
  OBVIOUS
<1>3. w \in Signers
  BY <1>2 DEF Signers
<1>4. PICK g : g = [v \in V \cup {w} |-> IF v = w THEN b ELSE f[v]]
  OBVIOUS
<1>5. g \in [V \cup {w} -> Ballot] /\ V \cup {w} \in SUBSET Signers
  BY <1>1, <1>3, <1>4
<1>6. g \in Tables
  BY <1>5 DEF Tables
<1>7. CASE w \in V /\ ~(b.timestamp > f[w].timestamp)
  <2>1. Entry(f, b) = f
    BY <1>1, <1>2, <1>7 DEF Entry
  <2> QED BY <1>1, <1>2, <1>7, <2>1
<1>8. CASE ~(w \in V /\ ~(b.timestamp > f[w].timestamp))
  <2>1. Entry(f, b) = g
    <3>1. CASE w \in V
      <4>1. Entry(f, b) = [f EXCEPT ![w] = b]
        BY <1>1, <1>2, <1>8, <3>1 DEF Entry
      <4> QED BY <1>1, <1>4, <3>1, <4>1
    <3>2. CASE w \notin V
      BY <1>1, <1>2, <1>4, <3>2 DEF Entry
    <3> QED BY <3>1, <3>2
  <2> QED BY <1>1, <1>2, <1>4, <1>5, <1>6, <1>8, <2>1
<1> QED BY <1>7, <1>8

(* A set of numbers up to h has a highest one. *)
LEMMA Highest ==
    ASSUME NEW h \in Nat, NEW S \in SUBSET (1..h), S # {}
    PROVE  Max(S) \in S
<1>1. PICK T : T = {h - i : i \in S}
  OBVIOUS
<1>2. T \subseteq Nat /\ T # {}
  <2>1. \A i \in S : h - i \in Nat
    OBVIOUS
  <2> QED BY <1>1, <2>1
<1>3. PICK x \in T : \A y \in T : ~(y < x)
  BY <1>2, Least
<1>4. PICK i \in S : x = h - i
  BY <1>1, <1>3
<1>5. ASSUME NEW j \in S PROVE i >= j
  <2>1. h - j \in T
    BY <1>1
  <2>2. ~(h - j < h - i)
    BY <1>3, <1>4, <2>1
  <2> QED BY <2>2
<1>6. \E k \in S : \A j \in S : k >= j
  BY <1>4, <1>5
<1> QED BY <1>6 DEF Max

LEMMA MaxInterval == ASSUME NEW n \in Nat \ {0} PROVE Max(1..n) = n
<1>1. n \in 1..n /\ \A y \in 1..n : n >= y
  OBVIOUS
<1>2. \E x \in 1..n : \A y \in 1..n : x >= y
  BY <1>1
<1>3. Max(1..n) \in 1..n /\ \A y \in 1..n : Max(1..n) >= y
  BY <1>2 DEF Max
<1> QED BY <1>1, <1>3

NoTable == [v \in {} |-> 0]

(* The equation of the fold that CountedBallots is. *)
Folded(it, seq) ==
    it = [s \in SUBSET (DOMAIN seq) |->
             IF s = {} THEN [v \in {} |-> 0] ELSE Entry(it[s \ {Max(s)}], seq[Max(s)])]

LEMMA FoldedExists ==
    ASSUME NEW seq \in Seq(Ballot)
    PROVE  \E it : Folded(it, seq)
<1>1. PICK n \in Nat : n = Len(seq) /\ DOMAIN seq = 1..n
  OBVIOUS
<1>2. IsFiniteSet(1..n)
  BY FS_Interval
<1>3. NoTable \in Tables
  <2>1. NoTable \in [{} -> Ballot] /\ {} \in SUBSET Signers
    BY DEF NoTable
  <2> QED BY <2>1 DEF Tables
<1>4. PICK first : first = [s \in SUBSET (1..n) |-> Max(s)]
  OBVIOUS
<1>5. \A s \in SUBSET (1..n) : s # {} => first[s] = Max(s) /\ first[s] \in s
  BY <1>4, Highest
<1>6. PICK step : step = [x \in 1..n |-> [a \in Tables |-> Entry(a, seq[x])]]
  OBVIOUS
<1>7. \A x \in 1..n : \A a \in Tables : step[x][a] = Entry(a, seq[x]) /\ step[x][a] \in Tables
  <2>1. \A x \in 1..n : seq[x] \in Ballot
    BY <1>1
  <2>2. \A x \in 1..n : \A a \in Tables : Entry(a, seq[x]) \in Tables
    BY <2>1, EntryIs
  <2> QED BY <1>6, <2>2
<1>8. PICK it : /\ it \in [SUBSET (1..n) -> Tables]
                /\ \A s \in SUBSET (1..n) : it[s] = FoldStep(it, NoTable, first, step, s)
  <2>1. \A s \in SUBSET (1..n) : s # {} => first[s] \in s
    BY <1>5
  <2>2. \A x \in 1..n : \A a \in Tables : step[x][a] \in Tables
    BY <1>7
  <2>3. HasFold(1..n, Tables, NoTable, first, step)
    BY <1>2, <1>3, <2>1, <2>2 DEF HasFold
  <2>4. PICK it : IsFoldOf(it, 1..n, Tables, NoTable, first, step)
    BY <2>3, FoldExists
  <2> QED BY <2>4 DEF IsFoldOf
<1>9. ASSUME NEW s \in SUBSET (1..n)
      PROVE  it[s] = IF s = {} THEN [v \in {} |-> 0] ELSE Entry(it[s \ {Max(s)}], seq[Max(s)])
  <2>1. CASE s = {}
    BY <1>8, <2>1 DEF FoldStep, NoTable
  <2>2. CASE s # {}
    <3>1. PICK x : x = Max(s)
      OBVIOUS
    <3>2. x = first[s] /\ x \in 1..n /\ s \ {x} \in SUBSET (1..n)
      BY <1>5, <2>2, <3>1
    <3>3. it[s] = step[x][it[s \ {x}]]
      BY <1>8, <2>2, <3>2 DEF FoldStep
    <3>4. it[s \ {x}] \in Tables
      BY <1>8, <3>2
    <3>5. it[s] = Entry(it[s \ {x}], seq[x])
      BY <1>7, <3>2, <3>3, <3>4
    <3> QED BY <2>2, <3>1, <3>5
  <2> QED BY <2>1, <2>2
<1>10. it = [s \in SUBSET (1..n) |-> IF s = {} THEN [v \in {} |-> 0]
                                     ELSE Entry(it[s \ {Max(s)}], seq[Max(s)])]
  BY <1>8, <1>9
<1> QED BY <1>1, <1>10 DEF Folded

LEMMA FoldIs ==
    ASSUME NEW seq \in Seq(Ballot)
    PROVE  \E it : Folded(it, seq) /\ FoldLeft(Entry, [v \in {} |-> 0], seq) = it[DOMAIN seq]
<1> DEFINE U == CHOOSE it :
                   it = [s \in SUBSET (DOMAIN seq) |->
                            IF s = {} THEN [v \in {} |-> 0]
                            ELSE Entry(it[s \ {Max(s)}], seq[Max(s)])]
<1>1. Folded(U, seq)
  BY FoldedExists DEF Folded
<1>2. FoldLeft(Entry, [v \in {} |-> 0], seq) = U[DOMAIN seq]
  BY DEF FoldLeft, MapThenFoldSet
<1> QED BY <1>1, <1>2

(* The newest ballot of v among the first m is the i-th: of the same time  *)
(* there is none before it.                                                *)
Newest(seq, m, v, i) ==
    /\ i \in 1..m /\ seq[i].signer = v
    /\ \A j \in 1..m : seq[j].signer = v =>
           IF j < i THEN seq[j].timestamp < seq[i].timestamp
           ELSE seq[j].timestamp <= seq[i].timestamp

(* What the loop has in its hands after m ballots. *)
HasCounted(f, seq, m) ==
    /\ f \in Tables
    /\ DOMAIN f = {seq[i].signer : i \in 1..m}
    /\ \A v \in DOMAIN f : \E i \in 1..m : Newest(seq, m, v, i) /\ f[v] = seq[i]

LEMMA CountsNext ==
    ASSUME NEW seq \in Seq(Ballot), NEW m \in Nat, m + 1 <= Len(seq), NEW f, HasCounted(f, seq, m)
    PROVE  HasCounted(Entry(f, seq[m + 1]), seq, m + 1)
<1>1. PICK b : b = seq[m + 1]
  OBVIOUS
<1>2. \A i \in 1..(m + 1) : seq[i] \in Ballot /\ seq[i].timestamp \in Int
  BY BallotAssumption
<1>3. b \in Ballot
  BY <1>1, <1>2
<1>4. PICK g : g = Entry(f, b)
  OBVIOUS
<1>5. /\ g \in Tables /\ DOMAIN g = DOMAIN f \cup {b.signer}
      /\ \A v \in DOMAIN f : v # b.signer => g[v] = f[v]
      /\ IF b.signer \in DOMAIN f /\ ~(b.timestamp > f[b.signer].timestamp)
         THEN g[b.signer] = f[b.signer] ELSE g[b.signer] = b
  BY <1>3, <1>4, EntryIs DEF HasCounted
<1>6. \A i : i \in 1..(m + 1) <=> i \in 1..m \/ i = m + 1
  OBVIOUS
<1>7. DOMAIN g = {seq[i].signer : i \in 1..(m + 1)}
  BY <1>1, <1>5, <1>6 DEF HasCounted
<1>8. ASSUME NEW v \in DOMAIN g
      PROVE  \E i \in 1..(m + 1) : Newest(seq, m + 1, v, i) /\ g[v] = seq[i]
  <2>1. CASE v # b.signer
    <3>1. PICK i \in 1..m : Newest(seq, m, v, i) /\ f[v] = seq[i]
      BY <1>5, <2>1 DEF HasCounted
    <3>2. g[v] = seq[i]
      BY <1>5, <2>1, <3>1
    <3>3. Newest(seq, m + 1, v, i)
      BY <1>1, <1>6, <2>1, <3>1 DEF Newest
    <3> QED BY <1>6, <3>2, <3>3
  <2>2. CASE v = b.signer /\ v \in DOMAIN f /\ ~(b.timestamp > f[v].timestamp)
    <3>1. PICK i \in 1..m : Newest(seq, m, v, i) /\ f[v] = seq[i]
      BY <2>2 DEF HasCounted
    <3>2. g[v] = seq[i]
      BY <1>5, <2>2, <3>1
    <3>3. seq[m + 1].timestamp <= seq[i].timestamp /\ ~(m + 1 < i)
      BY <1>1, <1>2, <1>6, <2>2, <3>1
    <3>4. Newest(seq, m + 1, v, i)
      BY <1>6, <3>1, <3>3 DEF Newest
    <3> QED BY <1>6, <3>2, <3>4
  <2>3. CASE v = b.signer /\ ~(v \in DOMAIN f /\ ~(b.timestamp > f[v].timestamp))
    <3>1. g[v] = b
      BY <1>5, <2>3
    <3>2. ASSUME NEW j \in 1..m, seq[j].signer = v
          PROVE  seq[j].timestamp < b.timestamp
      <4>1. v \in DOMAIN f
        BY <3>2 DEF HasCounted
      <4>2. PICK i \in 1..m : Newest(seq, m, v, i) /\ f[v] = seq[i]
        BY <4>1 DEF HasCounted
      <4>3. b.timestamp > seq[i].timestamp
        BY <2>3, <4>1, <4>2
      <4>4. seq[j].timestamp <= seq[i].timestamp
        <5>1. IF j < i THEN seq[j].timestamp < seq[i].timestamp
              ELSE seq[j].timestamp <= seq[i].timestamp
          BY <3>2, <4>2 DEF Newest
        <5> QED BY <1>2, <1>6, <5>1
      <4>5. seq[i].timestamp \in Int /\ seq[j].timestamp \in Int /\ b.timestamp \in Int
        BY <1>1, <1>2, <1>6
      <4> QED BY <4>3, <4>4, <4>5
    <3>3. \A j \in 1..m : j < m + 1
      OBVIOUS
    <3>4. seq[m + 1].timestamp <= seq[m + 1].timestamp /\ ~(m + 1 < m + 1)
      BY <1>2, <1>6
    <3>5. Newest(seq, m + 1, v, m + 1)
      BY <1>1, <1>6, <2>3, <3>2, <3>3, <3>4 DEF Newest
    <3> QED BY <1>1, <1>6, <3>1, <3>5
  <2> QED BY <2>1, <2>2, <2>3
<1> QED BY <1>1, <1>4, <1>5, <1>7, <1>8 DEF HasCounted

LEMMA CountsAll ==
    ASSUME NEW seq \in Seq(Ballot)
    PROVE  HasCounted(FoldLeft(Entry, [v \in {} |-> 0], seq), seq, Len(seq))
<1>1. PICK it : Folded(it, seq) /\ FoldLeft(Entry, [v \in {} |-> 0], seq) = it[DOMAIN seq]
  BY FoldIs
<1>2. PICK n \in Nat : n = Len(seq) /\ DOMAIN seq = 1..n
  OBVIOUS
<1>3. \A s \in SUBSET (1..n) :
         it[s] = IF s = {} THEN NoTable ELSE Entry(it[s \ {Max(s)}], seq[Max(s)])
  BY <1>1, <1>2 DEF Folded, NoTable
<1> DEFINE T == {m \in Nat : m <= n => HasCounted(it[1..m], seq, m)}
<1>4. 0 \in T
  <2>1. it[1..0] = NoTable
    BY <1>3
  <2>2. NoTable \in Tables /\ DOMAIN NoTable = {}
    <3>1. NoTable \in [{} -> Ballot] /\ {} \in SUBSET Signers /\ DOMAIN NoTable = {}
      BY DEF NoTable
    <3> QED BY <3>1 DEF Tables
  <2>3. HasCounted(it[1..0], seq, 0)
    BY <2>1, <2>2 DEF HasCounted
  <2> QED BY <2>3
<1>5. ASSUME NEW m \in Nat, m \in T PROVE m + 1 \in T
  <2> SUFFICES ASSUME m + 1 <= n PROVE HasCounted(it[1..(m + 1)], seq, m + 1)
    OBVIOUS
  <2>1. HasCounted(it[1..m], seq, m)
    BY <1>5
  <2>2. Max(1..(m + 1)) = m + 1
    BY MaxInterval
  <2>3. 1..(m + 1) \in SUBSET (1..n) /\ 1..(m + 1) # {} /\ (1..(m + 1)) \ {m + 1} = 1..m
    <3>1. \A i : i \in 1..(m + 1) => i \in 1..n
      OBVIOUS
    <3>2. \A i : i \in 1..m <=> i \in 1..(m + 1) /\ i # m + 1
      OBVIOUS
    <3>3. m + 1 \in 1..(m + 1)
      OBVIOUS
    <3> QED BY <3>1, <3>2, <3>3
  <2>4. it[1..(m + 1)] = Entry(it[1..m], seq[m + 1])
    BY <1>3, <2>2, <2>3
  <2> QED BY <1>2, <2>1, <2>4, CountsNext
<1>6. n \in T
  <2> HIDE DEF T
  <2> QED BY <1>4, <1>5, Induction
<1>7. HasCounted(it[1..n], seq, n)
  BY <1>6
<1> QED BY <1>1, <1>2, <1>7

----------------------------------------------------------------------------
(* What a tally counts on a chain: one ballot for every voter.             *)

LEMMA ReadTyped ==
    ASSUME NEW c, ChainTyped(c), CanReadBlocks(c)
    PROVE  BallotsRead(c) \in Seq(Ballot) /\ ToSet(BallotsRead(c)) \subseteq Held(c)
<1>1. PICK h \in Nat \ {0} : h = c.height
  BY DEF ChainTyped, StoreOK
<1>2. PICK g \in Nat : g = h - 1
  OBVIOUS
<1>3. PICK r : r = BlocksRead(c)
  OBVIOUS
<1>4. r = [i \in 1..g |-> c.db[i]] /\ Len(r) = g
  BY <1>1, <1>2, <1>3 DEF BlocksRead
<1>5. PICK s : s = [i \in 1..g |-> r[i].ballots]
  OBVIOUS
<1>6. Len(s) = g /\ s = [i \in 1..Len(s) |-> s[i]]
  BY <1>5
<1>7. \A i \in 1..g : i \in DOMAIN c.db /\ s[i] = c.db[i].ballots /\ s[i] \in Seq(Ballot)
  <2>1. \A i \in 1..g : i \in DOMAIN c.db
    BY <1>1, <1>2 DEF CanReadBlocks, HasBlock
  <2> QED BY <1>4, <1>5, <2>1 DEF ChainTyped, BlocksOK, IsBlock
<1>8. /\ FlattenSeq(s) \in Seq(Ballot)
      /\ ToSet(FlattenSeq(s)) = UNION {ToSet(s[i]) : i \in 1..Len(s)}
  BY <1>6, <1>7, FlattenProperties
<1>9. BallotsRead(c) = FlattenSeq(s)
  BY <1>3, <1>4, <1>5 DEF BallotsRead
<1>10. \A i \in 1..g : ToSet(s[i]) \subseteq Held(c)
  BY <1>7 DEF Held, BallotsIn
<1> QED BY <1>6, <1>8, <1>9, <1>10

LEMMA NewestUnique ==
    ASSUME NEW seq \in Seq(Ballot), NEW m \in Nat, m <= Len(seq), NEW v, NEW i, NEW j,
           Newest(seq, m, v, i), Newest(seq, m, v, j)
    PROVE  i = j
<1>1. i \in 1..m /\ j \in 1..m /\ seq[i].signer = v /\ seq[j].signer = v
  BY DEF Newest
<1>2. seq[i].timestamp \in Int /\ seq[j].timestamp \in Int
  BY <1>1, BallotAssumption
<1>3. /\ IF j < i THEN seq[j].timestamp < seq[i].timestamp
         ELSE seq[j].timestamp <= seq[i].timestamp
      /\ IF i < j THEN seq[i].timestamp < seq[j].timestamp
         ELSE seq[i].timestamp <= seq[j].timestamp
  BY <1>1 DEF Newest
<1>4. ~(i < j) /\ ~(j < i)
  BY <1>1, <1>2, <1>3
<1> QED BY <1>1, <1>4

LEMMA CountedIs ==
    ASSUME NEW c, ChainTyped(c), CanReadBlocks(c)
    PROVE  /\ DOMAIN CountedBallots(c) = VoterSet(c)
           /\ \A v \in VoterSet(c) : \E i \in DOMAIN BallotsRead(c) :
                  /\ NewestRead(c, v) = {i}
                  /\ CountedBallots(c)[v] = BallotsRead(c)[i]
                  /\ BallotsRead(c)[i] \in Ballot
<1>1. PICK read \in Seq(Ballot) : read = BallotsRead(c)
  BY ReadTyped
<1>2. PICK m \in Nat : m = Len(read) /\ DOMAIN read = 1..m
  OBVIOUS
<1>3. PICK f : f = CountedBallots(c)
  OBVIOUS
<1>4. HasCounted(f, read, m)
  BY <1>1, <1>2, <1>3, CountsAll DEF CountedBallots
<1>5. VoterSet(c) = {read[i].signer : i \in 1..m}
  BY <1>1, <1>2 DEF VoterSet, ToSet
<1>6. DOMAIN f = VoterSet(c)
  BY <1>4, <1>5 DEF HasCounted
<1>7. ASSUME NEW v, NEW i PROVE i \in NewestRead(c, v) <=> Newest(read, m, v, i)
  BY <1>1, <1>2 DEF NewestRead, Newest
<1>8. ASSUME NEW v \in VoterSet(c)
      PROVE  \E i \in DOMAIN read : NewestRead(c, v) = {i} /\ f[v] = read[i] /\ read[i] \in Ballot
  <2>1. PICK i \in 1..m : Newest(read, m, v, i) /\ f[v] = read[i]
    BY <1>4, <1>6 DEF HasCounted
  <2>2. \A j : Newest(read, m, v, j) => j = i
    BY <1>2, <2>1, NewestUnique
  <2>3. NewestRead(c, v) = {i}
    BY <1>7, <2>1, <2>2
  <2> QED BY <1>2, <2>1, <2>3
<1> QED BY <1>1, <1>3, <1>6, <1>8

----------------------------------------------------------------------------
(* The sums.                                                               *)

(* Who gives its vote to that side through v. *)
Following(counted, map, vs, yes) ==
    [v \in vs |-> IF counted[v].verdict = yes THEN Represented(map, vs, v) ELSE {}]

(* What a ballot adds to the sum of a side, and the sum for that side. *)
Votes(ballot, yes) == IF yes THEN VotesFor(ballot) ELSE VotesAgainst(ballot)

Result(c, map, yes) == IF yes THEN ResultFor(c, map) ELSE ResultAgainst(c, map)

(* The equation of the fold that such a sum is. *)
Added(it, counted, map, vs, yes) ==
    it = [s \in SUBSET (DOMAIN counted) |->
             IF s = {} THEN 0
             ELSE Weighted(Votes(counted[CHOOSE x \in s : TRUE], yes),
                           Weight(map, vs, CHOOSE x \in s : TRUE))
                      + it[s \ {CHOOSE x \in s : TRUE}]]

(* The two that the code has. *)
AddedFor(it, counted, map, vs) ==
    it = [s \in SUBSET (DOMAIN counted) |->
             IF s = {} THEN 0
             ELSE Weighted(VotesFor(counted[CHOOSE x \in s : TRUE]),
                           Weight(map, vs, CHOOSE x \in s : TRUE))
                      + it[s \ {CHOOSE x \in s : TRUE}]]

AddedAgainst(it, counted, map, vs) ==
    it = [s \in SUBSET (DOMAIN counted) |->
             IF s = {} THEN 0
             ELSE Weighted(VotesAgainst(counted[CHOOSE x \in s : TRUE]),
                           Weight(map, vs, CHOOSE x \in s : TRUE))
                      + it[s \ {CHOOSE x \in s : TRUE}]]

LEMMA ResultIsSum ==
    ASSUME NEW c, NEW map, NEW yes \in BOOLEAN,
           \E it : Added(it, CountedBallots(c), map, VoterSet(c), yes)
    PROVE  \E it : /\ Added(it, CountedBallots(c), map, VoterSet(c), yes)
                   /\ Result(c, map, yes) = it[DOMAIN CountedBallots(c)]
<1>1. CASE yes = TRUE
  <2> DEFINE U == CHOOSE it :
                      it = [s \in SUBSET (DOMAIN CountedBallots(c)) |->
                               IF s = {} THEN 0
                               ELSE Weighted(VotesFor(CountedBallots(c)[CHOOSE x \in s : TRUE]),
                                             Weight(map, VoterSet(c), CHOOSE x \in s : TRUE))
                                        + it[s \ {CHOOSE x \in s : TRUE}]]
  <2>1. ASSUME NEW it
        PROVE  Added(it, CountedBallots(c), map, VoterSet(c), yes)
                 <=> AddedFor(it, CountedBallots(c), map, VoterSet(c))
    BY <1>1 DEF Added, AddedFor, Votes
  <2>2. \E it : AddedFor(it, CountedBallots(c), map, VoterSet(c))
    BY <2>1
  <2>3. AddedFor(U, CountedBallots(c), map, VoterSet(c))
    BY <2>2 DEF AddedFor
  <2>4. ResultFor(c, map) = U[DOMAIN CountedBallots(c)]
    BY DEF ResultFor, MapThenSumSet, MapThenFoldSet
  <2>5. Result(c, map, yes) = ResultFor(c, map)
    BY <1>1 DEF Result
  <2> HIDE DEF U
  <2> QED BY <2>1, <2>3, <2>4, <2>5
<1>2. CASE yes = FALSE
  <2> DEFINE U == CHOOSE it :
                      it = [s \in SUBSET (DOMAIN CountedBallots(c)) |->
                               IF s = {} THEN 0
                               ELSE Weighted(VotesAgainst(CountedBallots(c)[CHOOSE x \in s : TRUE]),
                                             Weight(map, VoterSet(c), CHOOSE x \in s : TRUE))
                                        + it[s \ {CHOOSE x \in s : TRUE}]]
  <2>1. ASSUME NEW it
        PROVE  Added(it, CountedBallots(c), map, VoterSet(c), yes)
                 <=> AddedAgainst(it, CountedBallots(c), map, VoterSet(c))
    BY <1>2 DEF Added, AddedAgainst, Votes
  <2>2. \E it : AddedAgainst(it, CountedBallots(c), map, VoterSet(c))
    BY <2>1
  <2>3. AddedAgainst(U, CountedBallots(c), map, VoterSet(c))
    BY <2>2 DEF AddedAgainst
  <2>4. ResultAgainst(c, map) = U[DOMAIN CountedBallots(c)]
    BY DEF ResultAgainst, MapThenSumSet, MapThenFoldSet
  <2>5. Result(c, map, yes) = ResultAgainst(c, map)
    BY <1>2 DEF Result
  <2> HIDE DEF U
  <2> QED BY <2>1, <2>3, <2>4, <2>5
<1> QED BY <1>1, <1>2

(* A sum of sizes exists. *)
LEMMA SumsExist ==
    ASSUME NEW S, IsFiniteSet(S), NEW P, \A x \in S : IsFiniteSet(P[x])
    PROVE  \E it : it = [s \in SUBSET S |-> it[s]] /\ Sums(it, P, S)
<1>1. PICK first : first = [s \in SUBSET S |-> Some(s)]
  OBVIOUS
<1>2. PICK step : step = [x \in S |-> [a \in Nat |-> Cardinality(P[x]) + a]]
  OBVIOUS
<1>3. \A s \in SUBSET S : s # {} => first[s] = Some(s) /\ first[s] \in s
  BY <1>1 DEF Some
<1>4. \A x \in S : \A a \in Nat : step[x][a] = Cardinality(P[x]) + a /\ step[x][a] \in Nat
  <2>1. \A x \in S : Cardinality(P[x]) \in Nat
    BY FS_CardinalityType
  <2> QED BY <1>2, <2>1
<1>5. HasFold(S, Nat, 0, first, step)
  BY <1>3, <1>4 DEF HasFold
<1>6. PICK it : IsFoldOf(it, S, Nat, 0, first, step)
  BY <1>5, FoldExists
<1>7. ASSUME NEW s \in SUBSET S
      PROVE  it[s] = IF s = {} THEN 0 ELSE Cardinality(P[Some(s)]) + it[s \ {Some(s)}]
  <2>1. CASE s = {}
    BY <1>6, <2>1 DEF IsFoldOf, FoldStep
  <2>2. CASE s # {}
    <3>1. PICK x : x = Some(s)
      OBVIOUS
    <3>2. x = first[s] /\ x \in S /\ s \ {x} \in SUBSET S
      BY <1>3, <2>2, <3>1
    <3>3. it[s] = step[x][it[s \ {x}]] /\ it[s \ {x}] \in Nat
      BY <1>6, <2>2, <3>2 DEF IsFoldOf, FoldStep
    <3>4. it[s] = Cardinality(P[x]) + it[s \ {x}]
      BY <1>4, <3>2, <3>3
    <3> QED BY <2>2, <3>1, <3>4
  <2> QED BY <2>1, <2>2
<1>8. it = [s \in SUBSET S |-> it[s]]
  BY <1>6 DEF IsFoldOf
<1> QED BY <1>7, <1>8 DEF Sums

(* A ballot for one side adds the weight of its voter to that side only.   *)
LEMMA ShareIs ==
    ASSUME NEW counted, NEW map, NEW vs, NEW v \in vs, counted[v].verdict \in BOOLEAN,
           NEW yes \in BOOLEAN
    PROVE  LET P == Following(counted, map, vs, yes)
           IN  /\ IsFiniteSet(P[v])
               /\ Weighted(Votes(counted[v], yes), Weight(map, vs, v)) = Cardinality(P[v])
<1>1. PICK R : R = Represented(map, vs, v)
  OBVIOUS
<1>2. R \subseteq Key
  BY <1>1 DEF Represented
<1>3. IsFiniteSet(R) /\ Cardinality(R) \in Nat
  BY <1>2, CensusAssumption, FS_Subset, FS_CardinalityType
<1>4. PICK w \in Nat : w = Cardinality(R) /\ w = Weight(map, vs, v)
  BY <1>1, <1>3 DEF Weight
<1>5. 1 * w = w /\ 0 * w = 0
  OBVIOUS
<1>6. IsFiniteSet({}) /\ Cardinality({}) = 0
  BY FS_EmptySet
<1>7. CASE counted[v].verdict = yes
  <2>1. Following(counted, map, vs, yes)[v] = R
    BY <1>1, <1>7 DEF Following
  <2>2. Votes(counted[v], yes) = 1
    BY <1>7 DEF Votes, VotesFor, VotesAgainst
  <2> QED BY <1>3, <1>4, <1>5, <2>1, <2>2 DEF Weighted
<1>8. CASE counted[v].verdict # yes
  <2>1. Following(counted, map, vs, yes)[v] = {}
    BY <1>8 DEF Following
  <2>2. Votes(counted[v], yes) = 0
    BY <1>8 DEF Votes, VotesFor, VotesAgainst
  <2> QED BY <1>4, <1>5, <1>6, <2>1, <2>2 DEF Weighted
<1> QED BY <1>7, <1>8

(* No key follows two voters. *)
LEMMA FollowingApart ==
    ASSUME NEW counted, NEW map \in DelegationMaps, NEW vs \in SUBSET Key, NEW yes
    PROVE  LET P == Following(counted, map, vs, yes)
           IN  /\ \A v, w \in vs : v # w => P[v] \cap P[w] = {}
               /\ Joined(P, vs) = {k \in Key : /\ NearestVoter(map, vs, "nobody")[k] \in vs
                                               /\ counted[NearestVoter(map, vs, "nobody")[k]].verdict = yes}
<1>1. PICK P : P = Following(counted, map, vs, yes)
  OBVIOUS
<1>2. PICK none : none = "nobody"
  OBVIOUS
<1>3. PICK nearest : nearest = NearestVoter(map, vs, none)
  OBVIOUS
<1>4. none \notin Key
  BY <1>2, NobodyAssumption
<1>5. \A v \in vs : Represented(map, vs, v) = {k \in Key : nearest[k] = v}
  <2>1. \A v \in vs : v \in vs \cap Key
    OBVIOUS
  <2> QED BY <1>3, <1>4, <2>1, NearestIsRepresented
<1>6. \A v \in vs : P[v] = IF counted[v].verdict = yes THEN {k \in Key : nearest[k] = v} ELSE {}
  BY <1>1, <1>5 DEF Following
<1>7. ASSUME NEW v \in vs, NEW k
      PROVE  k \in P[v] <=> k \in Key /\ nearest[k] = v /\ counted[v].verdict = yes
  BY <1>6
<1>8. \A v, w \in vs : v # w => P[v] \cap P[w] = {}
  <2> SUFFICES ASSUME NEW v \in vs, NEW w \in vs, v # w, NEW k \in P[v], k \in P[w]
               PROVE  FALSE
    OBVIOUS
  <2> QED BY <1>7
<1>9. Joined(P, vs) = {k \in Key : nearest[k] \in vs /\ counted[nearest[k]].verdict = yes}
  <2>1. ASSUME NEW k
        PROVE  k \in Joined(P, vs)
                 <=> k \in Key /\ nearest[k] \in vs /\ counted[nearest[k]].verdict = yes
    <3>1. k \in Joined(P, vs) <=> \E v \in vs : k \in P[v]
      BY DEF Joined
    <3> QED BY <3>1, <1>7
  <2> QED BY <2>1
<1> QED BY <1>1, <1>2, <1>3, <1>8, <1>9

(* A sum of shares is the number of those who follow.                      *)
LEMMA ResultIs ==
    ASSUME NEW c, NEW map \in DelegationMaps, NEW counted, counted = CountedBallots(c),
           NEW vs \in SUBSET Key, vs = VoterSet(c), DOMAIN counted = vs,
           \A v \in vs : counted[v].verdict \in BOOLEAN, NEW yes \in BOOLEAN
    PROVE  Result(c, map, yes) = Cardinality(Joined(Following(counted, map, vs, yes), vs))
<1>1. PICK P : P = Following(counted, map, vs, yes)
  OBVIOUS
<1>2. ASSUME NEW v \in vs
      PROVE  /\ IsFiniteSet(P[v])
             /\ Weighted(Votes(counted[v], yes), Weight(map, vs, v)) = Cardinality(P[v])
  <2>1. counted[v].verdict \in BOOLEAN
    OBVIOUS
  <2>2. LET Q == Following(counted, map, vs, yes)
        IN  /\ IsFiniteSet(Q[v])
            /\ Weighted(Votes(counted[v], yes), Weight(map, vs, v)) = Cardinality(Q[v])
    BY <2>1, ShareIs
  <2> QED BY <1>1, <2>2
<1>3. IsFiniteSet(vs)
  BY CensusAssumption, FS_Subset
<1>4. ASSUME NEW it, it = [s \in SUBSET vs |-> it[s]]
      PROVE  Added(it, counted, map, vs, yes) <=> Sums(it, P, vs)
  <2>1. ASSUME NEW s \in SUBSET vs
        PROVE  (IF s = {} THEN 0
                ELSE Weighted(Votes(counted[CHOOSE x \in s : TRUE], yes), Weight(map, vs, CHOOSE x \in s : TRUE))
                         + it[s \ {CHOOSE x \in s : TRUE}])
               = (IF s = {} THEN 0 ELSE Cardinality(P[Some(s)]) + it[s \ {Some(s)}])
    <3>1. CASE s = {}
      BY <3>1
    <3>2. CASE s # {}
      <4>1. PICK x : x = CHOOSE y \in s : TRUE
        OBVIOUS
      <4>2. x \in vs /\ x = Some(s)
        BY <3>2, <4>1 DEF Some
      <4>3. Weighted(Votes(counted[x], yes), Weight(map, vs, x)) = Cardinality(P[x])
        BY <1>2, <4>2
      <4> QED BY <3>2, <4>1, <4>2, <4>3
    <3> QED BY <3>1, <3>2
  <2>2. Added(it, counted, map, vs, yes) <=> \A s \in SUBSET vs : it[s] =
          (IF s = {} THEN 0
           ELSE Weighted(Votes(counted[CHOOSE x \in s : TRUE], yes), Weight(map, vs, CHOOSE x \in s : TRUE))
                    + it[s \ {CHOOSE x \in s : TRUE}])
    BY <1>4 DEF Added
  <2> QED BY <2>1, <2>2 DEF Sums
<1>5. \E it : Added(it, counted, map, vs, yes)
  <2>1. PICK it : it = [s \in SUBSET vs |-> it[s]] /\ Sums(it, P, vs)
    BY <1>2, <1>3, SumsExist
  <2> QED BY <1>4, <2>1
<1>6. PICK it : Added(it, counted, map, vs, yes) /\ Result(c, map, yes) = it[vs]
  BY <1>5, ResultIsSum
<1>7. it = [s \in SUBSET vs |-> it[s]]
  BY <1>6 DEF Added
<1>8. Sums(it, P, vs)
  BY <1>4, <1>6, <1>7
<1>9. \A v, w \in vs : v # w => P[v] \cap P[w] = {}
  BY <1>1, FollowingApart
<1>10. it[vs] = Cardinality(Joined(P, vs))
  BY <1>2, <1>3, <1>8, <1>9, SumCounts
<1> QED BY <1>1, <1>6, <1>10

(* Those who vote for a side: whose nearest voter's newest ballot read is  *)
(* for it.                                                                 *)
VotingFor(c, map, yes) ==
    {k \in Key : /\ NearestVoter(map, VoterSet(c), "nobody")[k] \in VoterSet(c)
                 /\ \E i \in NewestRead(c, NearestVoter(map, VoterSet(c), "nobody")[k]) :
                        BallotsRead(c)[i].verdict = yes}

LEMMA ResultCounts ==
    ASSUME NEW c, ChainTyped(c), CanReadBlocks(c), \A b \in Held(c) : Accepted(b),
           NEW map \in DelegationMaps, NEW yes \in BOOLEAN
    PROVE  Result(c, map, yes) = Cardinality(VotingFor(c, map, yes))
<1>1. PICK vs : vs = VoterSet(c)
  OBVIOUS
<1>2. PICK counted : counted = CountedBallots(c)
  OBVIOUS
<1>4. vs \in SUBSET Key
  <2>1. \A b \in ToSet(BallotsRead(c)) : b.signer \in Census
    BY ReadTyped DEF Accepted, ContainsVoter
  <2> QED BY <1>1, <2>1, CensusAssumption DEF VoterSet
<1>5. /\ DOMAIN counted = vs
      /\ \A v \in vs : \E i \in DOMAIN BallotsRead(c) :
             /\ NewestRead(c, v) = {i}
             /\ counted[v] = BallotsRead(c)[i]
             /\ BallotsRead(c)[i] \in Ballot
  BY <1>1, <1>2, CountedIs
<1>6. \A v \in vs : counted[v].verdict \in BOOLEAN
  BY <1>5, BallotAssumption
<1>7. Result(c, map, yes) = Cardinality(Joined(Following(counted, map, vs, yes), vs))
  BY <1>1, <1>2, <1>4, <1>5, <1>6, ResultIs
<1>8. PICK nearest : nearest = NearestVoter(map, vs, "nobody")
  OBVIOUS
<1>9. Joined(Following(counted, map, vs, yes), vs)
        = {k \in Key : nearest[k] \in vs /\ counted[nearest[k]].verdict = yes}
  <2>1. Joined(Following(counted, map, vs, yes), vs)
          = {k \in Key : /\ NearestVoter(map, vs, "nobody")[k] \in vs
                         /\ counted[NearestVoter(map, vs, "nobody")[k]].verdict = yes}
    BY <1>4, FollowingApart
  <2> QED BY <1>8, <2>1
<1>10. \A v \in vs : counted[v].verdict = yes
           <=> \E i \in NewestRead(c, v) : BallotsRead(c)[i].verdict = yes
  BY <1>5
<1>11. VotingFor(c, map, yes) = {k \in Key : nearest[k] \in vs /\ counted[nearest[k]].verdict = yes}
  BY <1>1, <1>8, <1>10 DEF VotingFor
<1> QED BY <1>7, <1>9, <1>11

(* A tally gives one vote to every key, whoever voted, in whatever order   *)
(* and however often the ballots came into the chain, and whatever         *)
(* delegations are drawn.                                                  *)
THEOREM TallyGivesOneVote == NodeSpec => []OneVoteEach
<1>1. ASSUME NodeTyped, Vouched PROVE OneVoteEach
  <2> SUFFICES ASSUME NEW n \in Node, CanReadBlocks(chain[n]), NEW map \in Drawn
               PROVE  LET c == chain[n]
                          vs == VoterSet(c)
                          voterOf == NearestVoter(map, vs, "nobody")
                          voting(yes) ==
                              {k \in Key : /\ voterOf[k] \in vs
                                           /\ \E i \in NewestRead(c, voterOf[k]) :
                                                  BallotsRead(c)[i].verdict = yes}
                      IN  /\ ResultFor(c, map) = Cardinality(voting(TRUE))
                          /\ ResultAgainst(c, map) = Cardinality(voting(FALSE))
    BY DEF OneVoteEach
  <2>1. map \in DelegationMaps
    BY DrawnAssumption
  <2>2. PICK c : c = chain[n]
    OBVIOUS
  <2>3. ChainTyped(c) /\ CanReadBlocks(c) /\ \A b \in Held(c) : Accepted(b)
    <3>1. ChainTyped(chain[n])
      BY <1>1, OwnTyped DEF NodeTyped
    <3>2. Held(chain[n]) \subseteq Held(Own(n))
      BY <1>1, OwnTyped DEF NodeTyped, Pools, Held, InPool, BallotsIn, ToSet
    <3> QED BY <1>1, <2>2, <3>1, <3>2 DEF Vouched
  <2>4. PICK yes \in BOOLEAN : yes = TRUE
    OBVIOUS
  <2>5. PICK no \in BOOLEAN : no = FALSE
    OBVIOUS
  <2>6. ResultFor(c, map) = Cardinality(VotingFor(c, map, yes))
    <3>1. Result(c, map, yes) = ResultFor(c, map)
      BY <2>4 DEF Result
    <3> QED BY <2>1, <2>3, <3>1, ResultCounts
  <2>7. ResultAgainst(c, map) = Cardinality(VotingFor(c, map, no))
    <3>1. Result(c, map, no) = ResultAgainst(c, map)
      BY <2>5 DEF Result
    <3> QED BY <2>1, <2>3, <3>1, ResultCounts
  <2> QED BY <2>2, <2>4, <2>5, <2>6, <2>7 DEF VotingFor
<1> QED BY <1>1, AlwaysNodeTyped, AlwaysVouched, PTL

----------------------------------------------------------------------------
(* What the hash of a head vouches for. *)

LEMMA FirstOnes ==
    ASSUME NEW f, NEW g \in Nat, f = [i \in 1..g |-> f[i]], NEW k \in Nat, k <= g
    PROVE  SubSeq(f, 1, k) = [i \in 1..k |-> f[i]]
<1>1. PICK S : S = {f[i] : i \in 1..g}
  OBVIOUS
<1>2. \A i \in 1..k : f[i] \in S
  BY <1>1
<1>3. /\ SubSeq(f, 1, k) \in Seq(S)
      /\ Len(SubSeq(f, 1, k)) = IF 1 <= k THEN k - 1 + 1 ELSE 0
      /\ \A i \in 1..(k - 1 + 1) : SubSeq(f, 1, k)[i] = f[1 + i - 1]
  <2>1. PICK one \in Int : one = 1
    OBVIOUS
  <2>2. k \in Int /\ \A i \in one..k : f[i] \in S
    BY <1>2, <2>1
  <2>3. SubSeq(f, one, k) \in Seq(S)
    BY <2>2, SubSeqProperties
  <2>4. Len(SubSeq(f, one, k)) = IF one <= k THEN k - one + 1 ELSE 0
    BY <2>2, SubSeqProperties
  <2>5. ASSUME NEW i \in 1..(k - one + 1) PROVE SubSeq(f, one, k)[i] = f[one + i - 1]
    BY <2>2, SubSeqProperties
  <2> QED BY <2>1, <2>3, <2>4, <2>5, Zenon
<1>4. PICK s \in Seq(S) : s = SubSeq(f, 1, k)
  BY <1>3
<1>5. Len(s) = k /\ \A i \in 1..k : s[i] = f[i]
  BY <1>3, <1>4
<1>6. s \in [1..k -> S]
  BY <1>5, LenProperties
<1> QED BY <1>4, <1>5, <1>6

(* A block with the hash of the head of c is the head of what a tally of   *)
(* c reads, wherever it is.                                                *)
LEMMA HashVouches ==
    ASSUME NEW c, NEW p, Sound(c), Sound(p), Rooted(c), Rooted(p),
           NEW i \in 1..p.height, Hash(p.db[i]) = Hash(c.db[c.height])
    PROVE  i = c.height /\ SubSeq(BlocksRead(p), 1, i - 1) = BlocksRead(c)
<1>1. c.height \in Nat \ {0} /\ p.height \in Nat \ {0}
  BY DEF Sound, StoreOK
<1>2. PICK h \in 1..c.height : h = c.height
  BY <1>1
<1>3. i = h /\ \A j \in 1..i : p.db[j] = c.db[j]
  <2>1. Hash(p.db[i]) = Hash(c.db[h])
    BY <1>2, Zenon
  <2> QED BY <2>1, SameHashSameBlocks
<1>4. PICK f : f = BlocksRead(p)
  OBVIOUS
<1>5. PICK g \in Nat : g = p.height - 1
  BY <1>1
<1>6. PICK k \in Nat : k = i - 1 /\ k <= g
  BY <1>1, <1>5
<1>7. f = [j \in 1..g |-> p.db[j]]
  BY <1>4, <1>5 DEF BlocksRead
<1>8. SubSeq(f, 1, k) = [j \in 1..k |-> f[j]]
  <2>1. f = [j \in 1..g |-> f[j]]
    BY <1>7
  <2> QED BY <1>6, <2>1, FirstOnes
<1>9. \A j \in 1..k : f[j] = c.db[j]
  BY <1>1, <1>3, <1>5, <1>6, <1>7
<1>10. BlocksRead(c) = [j \in 1..k |-> c.db[j]]
  BY <1>2, <1>3, <1>6 DEF BlocksRead
<1>11. SubSeq(f, 1, k) = BlocksRead(c)
  BY <1>8, <1>9, <1>10
<1> QED BY <1>2, <1>3, <1>4, <1>6, <1>11

(* Between nodes whose chains never got shorter the hash of a head         *)
(* vouches for its height and for every block that a tally below it reads, *)
(* whatever raced.                                                         *)
THEOREM HeadsVouch == NodeSpec => []HeadVouches
<1>1. ASSUME Typed, Sturdy PROVE HeadVouches
  <2> SUFFICES ASSUME NEW n \in Node \ shortened, NEW m \in Node \ shortened,
                      NEW i \in 1..chain[m].height,
                      Hash(chain[m].db[i]) = Hash(chain[n].db[chain[n].height])
               PROVE  /\ i = chain[n].height
                      /\ SubSeq(BlocksRead(chain[m]), 1, i - 1) = BlocksRead(chain[n])
    BY DEF HeadVouches
  <2>1. \A k \in Node \ shortened : Sound(chain[k]) /\ Rooted(chain[k])
    BY <1>1 DEF Typed, Sturdy, Intact, Sound, ChainTyped
  <2>2. PICK c, p : c = chain[n] /\ p = chain[m]
    OBVIOUS
  <2>3. i = c.height /\ SubSeq(BlocksRead(p), 1, i - 1) = BlocksRead(c)
    BY <2>1, <2>2, HashVouches
  <2> QED BY <2>2, <2>3
<1> QED BY <1>1, VotingIsSyncing, AlwaysTyped, AlwaysSturdy, PTL
=============================================================================
