------------------------- MODULE BlockchainProofs -------------------------
(***************************************************************************)
(* What holds of one node's chain for every set of ballots, clock readings *)
(* and fragments, every block size and every bound.                        *)
(***************************************************************************)
EXTENDS Blockchain, ChainProofs

(* The types of the chain, and a stored block at the head or above it:     *)
(* this is inductive, and what restarts and updates need to know.          *)
HeadStoredOrBelow == HasBlock(chain, chain.height) \/ \E i \in DOMAIN chain.db : i > chain.height

IInv == ChainTyped(chain) /\ HeadStoredOrBelow

(* Everything the properties say of one step. *)
StepKeeps ==
    /\ Clean(chain) /\ Linked(chain) => Linked(chain')
    /\ Clean(chain) => Clean(chain') \/ chain'.height < chain.height

LEMMA InitIInv == Init => IInv /\ Clean(chain) /\ Linked(chain)
<1> SUFFICES ASSUME Init PROVE IInv /\ Clean(chain) /\ Linked(chain)
  OBVIOUS
<1>1. ChainTyped(chain) /\ Clean(chain) /\ Linked(chain)
  BY OpenEmpty, OpenNewTyped DEF Init
<1>2. HasBlock(chain, chain.height)
  BY <1>1 DEF ChainTyped, StoreOK, Clean, HasBlock
<1> QED BY <1>1, <1>2 DEF IInv, HeadStoredOrBelow

(* A chain that kept its table and height, or whose head is stored, keeps  *)
(* the second half of the invariant.                                       *)
LEMMA HeadStored ==
    ASSUME IInv,
           \/ chain'.db = chain.db /\ chain'.height = chain.height
           \/ HasBlock(chain', chain'.height)
    PROVE  HeadStoredOrBelow'
BY DEF IInv, HeadStoredOrBelow, HasBlock

(* A restart counts the blocks, so it can only name a missing head when    *)
(* one of them lies above the count.                                       *)
LEMMA RestartIInv == ASSUME IInv, Restart PROVE IInv' /\ StepKeeps
<1>1. /\ chain'.db = chain.db
      /\ chain'.height = Cardinality(DOMAIN chain.db)
      /\ StoreOK(chain') /\ ChainTyped(chain')
  BY OpenStored, OpenTyped DEF IInv, Restart, ChainTyped
<1>2. HeadStoredOrBelow'
  <2> SUFFICES ASSUME \A i \in DOMAIN chain.db : ~(i > chain'.height)
               PROVE  HasBlock(chain', chain'.height)
    BY <1>1 DEF HeadStoredOrBelow
  <2>1. chain'.height \in Nat \ {0} /\ DOMAIN chain.db \subseteq Nat \ {0}
    BY <1>1 DEF StoreOK
  <2>2. \A i \in DOMAIN chain.db : i <= Cardinality(DOMAIN chain.db)
    BY <1>1, <2>1
  <2>3. IsFiniteSet(DOMAIN chain.db)
    BY DEF IInv, ChainTyped, StoreOK
  <2>4. DOMAIN chain.db = 1..Cardinality(DOMAIN chain.db)
    BY <2>1, <2>2, <2>3, FullInterval
  <2> QED BY <1>1, <2>1, <2>4 DEF HasBlock
<1>3. ASSUME Clean(chain) PROVE chain'.height = chain.height
  BY <1>3, OpenClean DEF IInv, ChainTyped, Restart
<1>4. StepKeeps
  BY <1>1, <1>3 DEF StepKeeps, Clean, Linked, HasBlock
<1> QED BY <1>1, <1>2, <1>4 DEF IInv

LEMMA NextIInv == ASSUME IInv, [Next]_chain PROVE IInv' /\ StepKeeps
<1>1. ASSUME NEW ballot \in Ballot, ReceiveBallot(ballot) PROVE IInv' /\ StepKeeps
  <2> PICK ts \in Timestamp, committed \in BOOLEAN :
               chain' = PoolBallot(chain, ballot, ts, committed)
    BY <1>1 DEF ReceiveBallot
  <2>1. /\ ChainTyped(chain')
        /\ Linked(chain) => Linked(chain')
        /\ Clean(chain) => Clean(chain')
        /\ \/ chain'.db = chain.db /\ chain'.height = chain.height
           \/ HasBlock(chain', chain'.height)
    BY PoolBallotChain, PoolBallotTyped DEF IInv, ChainTyped
  <2> QED BY <2>1, HeadStored DEF IInv, StepKeeps
<1>2. ASSUME NEW i \in DOMAIN chain.db, NEW ballot \in Ballot, AppendBlock(i, ballot)
      PROVE  IInv' /\ StepKeeps
  <2> PICK ts \in Timestamp, committed \in BOOLEAN :
               chain' = TryAppend(chain, NewBlock(chain.db[i], ts, <<ballot>>), committed)
    BY <1>2 DEF AppendBlock
  <2>0. IsBlock(NewBlock(chain.db[i], ts, <<ballot>>))
    BY TimestampAssumption DEF IsBlock, NewBlock
  <2>1. /\ ChainTyped(chain')
        /\ Linked(chain) => Linked(chain')
        /\ Clean(chain) => Clean(chain')
        /\ \/ chain'.db = chain.db /\ chain'.height = chain.height
           \/ HasBlock(chain', chain'.height)
    BY <2>0, TryAppendChain, TryAppendTyped DEF IInv, ChainTyped
  <2> QED BY <2>1, HeadStored DEF IInv, StepKeeps
<1>3. ASSUME NEW f \in Fragment, NEW committed \in BOOLEAN,
             UpdateLongest(f.fork_index, f.blocks, committed)
      PROVE  IInv' /\ StepKeeps
  <2>1. chain' = TryUpdateLongest(chain, f.fork_index, f.blocks, committed)
    BY <1>3 DEF UpdateLongest
  <2>2. /\ f.fork_index \in Nat \ {0} /\ Len(f.blocks) \in Nat \ {0}
        /\ \A k \in 1..Len(f.blocks) : IsBlock(f.blocks[k])
    BY FragmentAssumption
  <2>3. /\ ChainTyped(chain')
        /\ Clean(chain) /\ Linked(chain) => Linked(chain')
        /\ Clean(chain) => Clean(chain') \/ chain'.height < chain.height
        /\ \/ chain'.db = chain.db /\ chain'.height = chain.height
           \/ HasBlock(chain', chain'.height)
    BY <2>1, <2>2, TryUpdateLongestChain, UpdateTyped DEF IInv, ChainTyped
  <2> QED BY <2>3, HeadStored DEF IInv, StepKeeps
<1>4. ASSUME Restart PROVE IInv' /\ StepKeeps
  BY <1>4, RestartIInv
<1>5. ASSUME UNCHANGED chain PROVE IInv' /\ StepKeeps
  BY <1>5 DEF IInv, HeadStoredOrBelow, HasBlock, StepKeeps
<1> QED BY <1>1, <1>2, <1>3, <1>4, <1>5 DEF Next

LEMMA Invariance == Spec => []IInv
<1>1. Init => IInv
  BY InitIInv
<1>2. IInv /\ [Next]_chain => IInv'
  BY NextIInv
<1> QED BY <1>1, <1>2, PTL DEF Spec

(* The table is always a finite non-empty set of blocks at positive        *)
(* indices, the height is positive, and blocks and pool hold ballots: also *)
(* when blocks are stripped, and their ballots flattened into the pool.    *)
THEOREM TypeCorrect == Spec => []TypeOK
<1>1. IInv => TypeOK
  BY DEF IInv, ChainTyped, TypeOK
<1> QED BY <1>1, Invariance, PTL

(* A node whose head cannot be read stores a block above it. *)
THEOREM UnreadableHeadIsBelowAnOrphan == Spec => []UnreadableHeadHasOrphan
<1>1. IInv => UnreadableHeadHasOrphan
  BY DEF IInv, HeadStoredOrBelow, UnreadableHeadHasOrphan
<1> QED BY <1>1, Invariance, PTL

(* No operation, no argument and no restart breaks the links of a chain    *)
(* that has no block left over.                                            *)
THEOREM IntegrityKept == Spec => KeepsIntegrity
<1>0. ASSUME IInv, Linked(chain), Appends PROVE Linked(chain')
  <2>1. CASE \E ballot \in Ballot : ReceiveBallot(ballot)
    <3> PICK ballot \in Ballot, ts \in Timestamp, committed \in BOOLEAN :
                 chain' = PoolBallot(chain, ballot, ts, committed)
      BY <2>1 DEF ReceiveBallot
    <3> QED BY <1>0, PoolBallotChain DEF IInv, ChainTyped
  <2>2. CASE \E i \in DOMAIN chain.db, ballot \in Ballot : AppendBlock(i, ballot)
    <3> PICK i \in DOMAIN chain.db, ballot \in Ballot, ts \in Timestamp, committed \in BOOLEAN :
                 chain' = TryAppend(chain, NewBlock(chain.db[i], ts, <<ballot>>), committed)
      BY <2>2 DEF AppendBlock
    <3> QED BY <1>0, TryAppendChain DEF IInv, ChainTyped
  <2> QED BY <1>0, <2>1, <2>2 DEF Appends
<1>1. IInv /\ [Next]_chain => [Linked(chain) /\ (Clean(chain) \/ Appends) => Linked(chain')]_chain
  BY <1>0, NextIInv DEF StepKeeps
<1> QED BY <1>1, Invariance, PTL DEF Spec, KeepsIntegrity

(* Only a step that shortens the chain leaves a block above the head. *)
THEOREM OrphansComeFromShrinking == Spec => OrphanNeedsShrink
<1>1. IInv /\ [Next]_chain =>
        [Clean(chain) => Clean(chain') \/ chain'.height < chain.height]_chain
  BY NextIInv DEF StepKeeps
<1> QED BY <1>1, Invariance, PTL DEF Spec, OrphanNeedsShrink

(* A crash loses neither blocks nor height when the table is clean. *)
THEOREM CrashSafe == Spec => RestartKeepsChain
<1>1. IInv => [Restart /\ Clean(chain) =>
                 chain'.db = chain.db /\ chain'.height = chain.height]_chain
  BY OpenStored, OpenClean DEF IInv, ChainTyped, Restart
<1> QED BY <1>1, Invariance, PTL DEF RestartKeepsChain

(* While the process runs, its head can be read and its writes commit, a   *)
(* ballot that is in the pool or in a block below the head stays with the  *)
(* node, whatever arrives and whatever chain replaces its own.             *)
THEOREM OnlyHeadForgotten == Spec => ForgetsOnlyHead
<1> DEFINE Kept == InPool(chain) \cup BallotsIn(chain, 1..(chain.height - 1))
           Pools == \E b \in Ballot, ts \in Timestamp : chain' = PoolBallot(chain, b, ts, TRUE)
           Updates == \E f \in Fragment, committed \in BOOLEAN :
                          UpdateLongest(f.fork_index, f.blocks, committed)
<1>1. ASSUME IInv, HasBlock(chain, chain.height), Pools \/ Updates, NEW x \in Kept
      PROVE  x \in InPool(chain') \cup OnChain(chain')
  <2>1. CASE Pools
    <3>1. PICK b \in Ballot, ts \in Timestamp : chain' = PoolBallot(chain, b, ts, TRUE)
      BY <2>1
    <3>2. x \in InPool(chain) \cup BallotsIn(chain, 1..chain.height)
      <4>1. chain.height \in Nat
        BY <1>1 DEF IInv, ChainTyped, StoreOK
      <4>2. 1..(chain.height - 1) \subseteq 1..chain.height
        BY <4>1
      <4> QED BY <1>1, <4>2 DEF BallotsIn
    <3> QED BY <1>1, <3>1, <3>2, PoolBallotKeeps DEF IInv, ChainTyped, OnChain
  <2>2. CASE Updates
    <3>1. PICK f \in Fragment, committed \in BOOLEAN :
                   chain' = TryUpdateLongest(chain, f.fork_index, f.blocks, committed)
      BY <2>2 DEF UpdateLongest
    <3>2. f.fork_index \in Nat \ {0} /\ Len(f.blocks) \in Nat \ {0}
      BY FragmentAssumption
    <3> QED BY <1>1, <3>1, <3>2, UpdateKeeps DEF IInv, OnChain
  <2> QED BY <1>1, <2>1, <2>2
<1>2. IInv => [HasBlock(chain, chain.height) /\ (Pools \/ Updates)
                 => Kept \subseteq InPool(chain') \cup OnChain(chain')]_chain
  BY <1>1
<1> QED BY <1>2, Invariance, PTL DEF ForgetsOnlyHead

----------------------------------------------------------------------------
(* A pool keeps what it has at its first places when it gets shorter by    *)
(* fewer ballots than a block takes, and no place changes hands.           *)
LEMMA OldPlaces ==
    ASSUME NEW s \in Seq(Ballot), NEW w \in Seq(Ballot),
           Len(s) - BlockSize + 1 <= Len(w),
           \A i \in 1..Len(s) : i <= Len(s) - BlockSize + 1 => w[i] = s[i]
    PROVE  IsPrefix(SubSeq(s, 1, Len(s) - BlockSize + 1), w)
<1>1. Len(s) \in Nat /\ Len(w) \in Nat /\ BlockSize \in Nat \ {0}
  BY LenProperties, BlockSizeAssumption
<1>2. PICK k \in Int : k = Len(s) - BlockSize + 1
  BY <1>1
<1>3. PICK q : q = SubSeq(s, 1, k)
  OBVIOUS
<1>4. CASE k < 1
  <2>1. q = <<>> /\ Len(q) = 0
    BY <1>2, <1>3, <1>4, SubSeqEmpty, EmptySeq
  <2>2. SubSeq(q, 1, 0) = <<>> /\ SubSeq(w, 1, 0) = <<>>
    BY SubSeqEmpty
  <2>3. IsPrefix(q, w)
    BY <1>1, <2>1, <2>2 DEF IsPrefix
  <2> QED BY <1>2, <1>3, <2>3
<1>5. CASE ~(k < 1)
  <2>1. k \in 1..Len(s) /\ k <= Len(w)
    BY <1>1, <1>2, <1>5
  <2>2. \A i \in 1..k : s[i] \in Ballot /\ w[i] \in Ballot /\ w[i] = s[i]
    <3>1. \A i \in 1..k : i \in 1..Len(s) /\ i \in 1..Len(w)
      BY <1>1, <2>1
    <3> QED BY <1>2, <3>1, ElementOfSeq
  <2>3. /\ q \in Seq(Ballot) /\ Len(q) = k
        /\ \A i \in 1..k : q[i] = s[i]
    <3>1. /\ SubSeq(s, 1, k) \in Seq(Ballot)
          /\ Len(SubSeq(s, 1, k)) = IF 1 <= k THEN k - 1 + 1 ELSE 0
          /\ \A i \in 1..k - 1 + 1 : SubSeq(s, 1, k)[i] = s[1 + i - 1]
      BY <2>2, SubSeqProperties
    <3> QED BY <1>3, <1>5, <3>1
  <2>4. /\ SubSeq(w, 1, k) \in Seq(Ballot) /\ Len(SubSeq(w, 1, k)) = k
        /\ \A i \in 1..k : SubSeq(w, 1, k)[i] = w[i]
    <3>1. /\ SubSeq(w, 1, k) \in Seq(Ballot)
          /\ Len(SubSeq(w, 1, k)) = IF 1 <= k THEN k - 1 + 1 ELSE 0
          /\ \A i \in 1..k - 1 + 1 : SubSeq(w, 1, k)[i] = w[1 + i - 1]
      BY <2>2, SubSeqProperties
    <3> QED BY <1>5, <3>1
  <2>5. q = SubSeq(w, 1, k)
    BY <2>2, <2>3, <2>4, SeqEqual
  <2>6. SubSeq(q, 1, Len(q)) = q
    BY <2>3, SubSeqFull
  <2>7. IsPrefix(q, w)
    BY <1>1, <2>1, <2>3, <2>5, <2>6 DEF IsPrefix
  <2> QED BY <1>2, <1>3, <2>7
<1> QED BY <1>4, <1>5

LEMMA SamePoolStays ==
    ASSUME NEW c, PoolOK(c), NEW d, d.ballot_pool = c.ballot_pool
    PROVE  IsPrefix(OldBallots(c), d.ballot_pool)
<1>1. Len(c.ballot_pool) \in Nat /\ BlockSize \in Nat \ {0}
  BY LenProperties, BlockSizeAssumption DEF PoolOK
<1>2. Len(c.ballot_pool) - BlockSize + 1 <= Len(c.ballot_pool)
  BY <1>1
<1> QED BY <1>2, OldPlaces DEF PoolOK, OldBallots

LEMMA PoolingStays ==
    ASSUME NEW c, ChainTyped(c), NEW ballot \in Ballot, NEW ts \in Timestamp,
           NEW committed \in BOOLEAN, NEW d, d = PoolBallot(c, ballot, ts, committed)
    PROVE  IsPrefix(OldBallots(c), d.ballot_pool)
<1> DEFINE s == c.ballot_pool
<1>1. PICK pool : pool = Append(s, ballot)
  OBVIOUS
<1>2. /\ pool \in Seq(Ballot)
      /\ d.ballot_pool = pool \/ (Len(pool) >= BlockSize /\ d.ballot_pool = Remaining(pool))
  <2>1. StoreOK(c) /\ PoolOK(c)
    BY DEF ChainTyped
  <2>2. /\ pool \in Seq(Ballot)
        /\ \/ PoolGrows(c, pool, d)
           \/ /\ Len(pool) >= BlockSize
              /\ PoolDropped(c, pool, d) \/ PoolMoved(c, pool, ts, d)
    BY <1>1, <2>1, PoolBallotCases
  <2> QED BY <2>2 DEF PoolGrows, PoolDropped, PoolMoved
<1>3. /\ s \in Seq(Ballot) /\ Len(s) \in Nat /\ BlockSize \in Nat \ {0}
      /\ Len(pool) = Len(s) + 1 /\ \A i \in 1..Len(s) : pool[i] = s[i]
  BY <1>1, LenProperties, AppendProperties, BlockSizeAssumption DEF ChainTyped, PoolOK
<1>4. CASE d.ballot_pool = pool
  <2>1. Len(s) - BlockSize + 1 <= Len(pool)
    BY <1>3
  <2> QED BY <1>2, <1>3, <1>4, <2>1, OldPlaces DEF OldBallots
<1>5. CASE Len(pool) >= BlockSize /\ d.ballot_pool = Remaining(pool)
  <2>1. PICK k \in Nat : k = Len(pool) - BlockSize
    <3>1. PICK m, b : m = Len(pool) /\ b = BlockSize
      OBVIOUS
    <3>2. m \in Nat /\ b \in Nat /\ m >= b
      BY <1>3, <1>5, <3>1
    <3>3. m - b \in Nat
      BY <3>2
    <3> QED BY <3>1, <3>3
  <2>2. k = Len(s) - BlockSize + 1 /\ k <= Len(s)
    BY <1>3, <2>1
  <2>3. PICK w : w = Remaining(pool)
    OBVIOUS
  <2>4. w = SubSeq(pool, 1, k)
    BY <2>1, <2>3 DEF Remaining
  <2>5. \A i \in 1..k : pool[i] \in Ballot /\ pool[i] = s[i]
    <3>1. \A i \in 1..k : i \in 1..Len(s) /\ i \in 1..Len(pool)
      BY <1>3, <2>2
    <3> QED BY <1>2, <1>3, <3>1, ElementOfSeq
  <2>6. w \in Seq(Ballot) /\ Len(w) = k /\ \A i \in 1..k : w[i] = s[i]
    <3>1. /\ SubSeq(pool, 1, k) \in Seq(Ballot)
          /\ Len(SubSeq(pool, 1, k)) = IF 1 <= k THEN k - 1 + 1 ELSE 0
          /\ \A i \in 1..k - 1 + 1 : SubSeq(pool, 1, k)[i] = pool[1 + i - 1]
      BY <2>5, SubSeqProperties
    <3> QED BY <2>4, <2>5, <3>1
  <2>7. Len(s) - BlockSize + 1 <= Len(w)
    BY <2>2, <2>6
  <2>8. \A i \in 1..Len(s) : i <= Len(s) - BlockSize + 1 => w[i] = s[i]
    BY <1>3, <2>2, <2>6
  <2> QED BY <1>3, <1>5, <2>3, <2>6, <2>7, <2>8, OldPlaces DEF OldBallots
<1> QED BY <1>2, <1>4, <1>5

LEMMA UpdateStays ==
    ASSUME NEW c, ChainTyped(c), NEW fork \in Nat \ {0}, NEW bs, Len(bs) \in Nat \ {0},
           NEW committed \in BOOLEAN, NEW d, d = TryUpdateLongest(c, fork, bs, committed)
    PROVE  IsPrefix(OldBallots(c), d.ballot_pool)
<1>1. d = c \/ Pooled(c, fork, d)
  BY UpdateCases DEF UpdateReplaced, ChainTyped
<1>2. CASE d = c
  BY <1>2, SamePoolStays DEF ChainTyped
<1>3. CASE Pooled(c, fork, d)
  <2>1. PICK s, t, w : s = c.ballot_pool /\ t = LostBallots(c, fork) /\ w = s \o t
    OBVIOUS
  <2>2. s \in Seq(Ballot) /\ t \in Seq(Ballot)
    BY <2>1, LostBallotsProperties DEF ChainTyped, PoolOK
  <2>3. /\ w \in Seq(Ballot) /\ Len(w) = Len(s) + Len(t)
        /\ \A i \in 1..Len(s) + Len(t) : w[i] = IF i <= Len(s) THEN s[i] ELSE t[i - Len(s)]
    BY <2>1, <2>2, ConcatProperties
  <2>4. Len(s) \in Nat /\ Len(t) \in Nat /\ BlockSize \in Nat \ {0}
    BY <2>2, LenProperties, BlockSizeAssumption
  <2>5. Len(s) - BlockSize + 1 <= Len(w) /\ \A i \in 1..Len(s) : w[i] = s[i]
    BY <2>3, <2>4
  <2>6. IsPrefix(SubSeq(s, 1, Len(s) - BlockSize + 1), w)
    BY <2>2, <2>3, <2>5, OldPlaces
  <2> QED BY <1>3, <2>1, <2>6 DEF Pooled, OldBallots
<1> QED BY <1>1, <1>2, <1>3

(* Whatever is called and whatever fails, nothing but a restart takes an   *)
(* old ballot out of the pool or out of its place there: what pool_ballot  *)
(* splits off, for a block or to be lost, is always newer.                 *)
THEOREM OldBallotsNeverLeave == Spec => OldBallotsStay
<1>1. ASSUME IInv, Next, ~Restart PROVE IsPrefix(OldBallots(chain), chain'.ballot_pool)
  <2>1. ASSUME NEW ballot \in Ballot, ReceiveBallot(ballot)
        PROVE  IsPrefix(OldBallots(chain), chain'.ballot_pool)
    <3>1. PICK ts \in Timestamp, committed \in BOOLEAN :
                   chain' = PoolBallot(chain, ballot, ts, committed)
      BY <2>1 DEF ReceiveBallot
    <3> QED BY <1>1, <3>1, PoolingStays DEF IInv
  <2>2. ASSUME NEW i \in DOMAIN chain.db, NEW ballot \in Ballot, AppendBlock(i, ballot)
        PROVE  IsPrefix(OldBallots(chain), chain'.ballot_pool)
    <3>1. PICK b, committed : chain' = TryAppend(chain, b, committed)
      BY <2>2 DEF AppendBlock
    <3>2. chain'.ballot_pool = chain.ballot_pool
      BY <3>1 DEF TryAppend, Appended, WithBlocks
    <3> QED BY <1>1, <3>2, SamePoolStays DEF IInv, ChainTyped
  <2>3. ASSUME NEW f \in Fragment, NEW committed \in BOOLEAN,
               UpdateLongest(f.fork_index, f.blocks, committed)
        PROVE  IsPrefix(OldBallots(chain), chain'.ballot_pool)
    <3>1. /\ chain' = TryUpdateLongest(chain, f.fork_index, f.blocks, committed)
          /\ f.fork_index \in Nat \ {0} /\ Len(f.blocks) \in Nat \ {0}
      BY <2>3, FragmentAssumption DEF UpdateLongest
    <3> QED BY <1>1, <3>1, UpdateStays DEF IInv
  <2> QED BY <1>1, <2>1, <2>2, <2>3 DEF Next
<1>2. IInv /\ [Next]_chain => [~Restart => IsPrefix(OldBallots(chain), chain'.ballot_pool)]_chain
  BY <1>1
<1> QED BY <1>2, Invariance, PTL DEF Spec, OldBallotsStay

(* What makes the store correct: in a behaviour whose chain never gets     *)
(* shorter, the table always holds exactly the blocks up to the head, each *)
(* naming the hash of its predecessor, through any crashes and failed      *)
(* transactions.                                                           *)
THEOREM IntegrityWithoutShrinking ==
    Spec /\ [][chain'.height >= chain.height]_chain => [](Clean(chain) /\ Linked(chain))
<1> DEFINE Good  == IInv /\ Clean(chain) /\ Linked(chain)
           Grows == chain'.height >= chain.height
<1>1. Init => Good
  BY InitIInv
<1>2. Good /\ [Next]_chain /\ [Grows]_chain => Good'
  <2> SUFFICES ASSUME Good, [Next]_chain, [Grows]_chain PROVE Good'
    OBVIOUS
  <2>1. IInv' /\ StepKeeps
    BY NextIInv
  <2>2. CASE UNCHANGED chain
    BY <2>1, <2>2 DEF Clean, Linked, HasBlock
  <2>3. CASE Grows
    BY <2>1, <2>3 DEF IInv, ChainTyped, StoreOK, StepKeeps
  <2> QED BY <2>2, <2>3
<1>3. Good => Clean(chain) /\ Linked(chain)
  OBVIOUS
<1> QED BY <1>1, <1>2, <1>3, PTL DEF Spec
=============================================================================
