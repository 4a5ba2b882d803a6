---------------------------- MODULE ChainProofs ----------------------------
(***************************************************************************)
(* What the operations of Chain preserve, whatever the chain, the block or *)
(* the fragment they are applied to: first the table and the height, then  *)
(* the ballots in blocks and pool.                                         *)
(***************************************************************************)
EXTENDS Chain, FiniteSetTheorems, SequenceTheorems, WellFoundedInduction, TLAPS

(* Two blocks with the same hash name the same predecessor. *)
LEMMA SameHashSamePrevious ==
    ASSUME NEW a, NEW b, Hash(a) = Hash(b)
    PROVE  a.previous_hash = b.previous_hash
BY DEF Hash

(* A set of n positive numbers none of which exceeds n is 1..n. *)
LEMMA FullInterval ==
    ASSUME NEW S, S \subseteq Nat \ {0}, IsFiniteSet(S),
           \A i \in S : i <= Cardinality(S)
    PROVE  S = 1..Cardinality(S)
<1>1. Cardinality(S) \in Nat
  BY FS_CardinalityType
<1>2. S \in SUBSET (1..Cardinality(S))
  BY <1>1
<1>3. /\ IsFiniteSet(1..Cardinality(S))
      /\ Cardinality(1..Cardinality(S)) = Cardinality(S)
  <2>1. CASE Cardinality(S) = 0
    BY <2>1, FS_Interval
  <2>2. CASE Cardinality(S) # 0
    BY <1>1, <2>2, FS_Interval
  <2> QED BY <2>1, <2>2
<1> QED BY <1>2, <1>3, FS_Subset

----------------------------------------------------------------------------
(* Opening a table. *)

(* An empty table gets the genesis block. *)
LEMMA OpenEmpty ==
    LET c == Open([i \in {} |-> GenesisBlock])
    IN  StoreOK(c) /\ Clean(c) /\ Linked(c)
<1> DEFINE c == Open([i \in {} |-> GenesisBlock])
<1>1. c = [db |-> [i \in {1} |-> GenesisBlock], height |-> 1, ballot_pool |-> <<>>]
  BY DEF Open
<1>2. IsFiniteSet({1})
  BY FS_Singleton
<1> HIDE DEF c
<1>3. DOMAIN c.db = {1} /\ c.height = 1
  BY <1>1
<1>4. StoreOK(c)
  BY <1>1, <1>2 DEF StoreOK
<1>5. Clean(c) /\ Linked(c)
  BY <1>3 DEF Clean, Linked
<1> QED BY <1>4, <1>5 DEF c

(* A table that holds blocks keeps them, and is counted. *)
LEMMA OpenStored ==
    ASSUME NEW c, StoreOK(c)
    PROVE  /\ Open(c.db).db = c.db
           /\ Open(c.db).height = Cardinality(DOMAIN c.db)
           /\ StoreOK(Open(c.db))
<1>1. Cardinality(DOMAIN c.db) \in Nat
  BY FS_CardinalityType DEF StoreOK
<1>2. Cardinality(DOMAIN c.db) # 0
  BY FS_EmptySet DEF StoreOK
<1>3. Open(c.db) = [db |-> c.db, height |-> Cardinality(DOMAIN c.db), ballot_pool |-> <<>>]
  BY DEF Open, StoreOK
<1> DEFINE d == Open(c.db)
<1>4. d.db = c.db /\ d.height = Cardinality(DOMAIN c.db) /\ d.ballot_pool = <<>>
  BY <1>3
<1> QED BY <1>1, <1>2, <1>3, <1>4 DEF StoreOK

(* A clean table is counted to the height it had. *)
LEMMA OpenClean ==
    ASSUME NEW c, StoreOK(c), Clean(c)
    PROVE  Open(c.db).height = c.height
<1>1. c.height \in Nat \ {0} /\ DOMAIN c.db = 1..c.height
  BY DEF StoreOK, Clean
<1>2. Cardinality(1..c.height) = c.height
  BY <1>1, FS_Interval
<1> QED BY <1>1, <1>2, OpenStored

----------------------------------------------------------------------------
(* Appending. *)

(* A chain with another pool. *)
LEMMA WithPool ==
    ASSUME NEW c, StoreOK(c), NEW pool
    PROVE  /\ StoreOK([c EXCEPT !.ballot_pool = pool])
           /\ [c EXCEPT !.ballot_pool = pool].db = c.db
           /\ [c EXCEPT !.ballot_pool = pool].height = c.height
<1>1. PICK x, y, z : c = [db |-> x, height |-> y, ballot_pool |-> z]
  BY DEF StoreOK
<1>2. [c EXCEPT !.ballot_pool = pool] = [db |-> x, height |-> y, ballot_pool |-> pool]
  BY <1>1
<1>3. c.db = x /\ c.height = y
  BY <1>1
<1> QED BY <1>2, <1>3 DEF StoreOK

(* What one appended block changes. *)
LEMMA AppendedChain ==
    ASSUME NEW c, NEW b, StoreOK(c)
    PROVE  LET d == Appended(c, b)
           IN  /\ StoreOK(d)
               /\ DOMAIN d.db = DOMAIN c.db \cup {c.height + 1}
               /\ d.height = c.height + 1
               /\ d.db[c.height + 1] = b
               /\ \A i \in DOMAIN c.db : i # c.height + 1 => d.db[i] = c.db[i]
<1> DEFINE h == c.height + 1
           db == [i \in DOMAIN c.db \cup {h} |-> IF i = h THEN b ELSE c.db[i]]
<1>1. Appended(c, b) = [db |-> db, height |-> h, ballot_pool |-> c.ballot_pool]
  BY DEF Appended, WithBlocks
<1>2. IsFiniteSet(DOMAIN c.db \cup {h})
  BY FS_AddElement DEF StoreOK
<1>3. DOMAIN db = DOMAIN c.db \cup {h} /\ db = [i \in DOMAIN db |-> db[i]]
  OBVIOUS
<1>4. db[h] = b /\ \A i \in DOMAIN c.db : i # h => db[i] = c.db[i]
  OBVIOUS
<1>5. h \in Nat \ {0} /\ DOMAIN c.db \subseteq Nat \ {0}
  BY DEF StoreOK
<1> HIDE DEF db
<1> DEFINE d == Appended(c, b)
<1>6. d.db = db /\ d.height = h /\ d.ballot_pool = c.ballot_pool
  BY <1>1
<1>7. StoreOK(d)
  BY <1>1, <1>2, <1>3, <1>5, <1>6 DEF StoreOK
<1> QED BY <1>3, <1>4, <1>6, <1>7

(* Whatever its pool does meanwhile, a chain to which append is applied    *)
(* keeps its shape, stays linked, stays clean, and its head stays readable *)
(* or below a stored block.                                                *)
LEMMA TryAppendChain ==
    ASSUME NEW c, NEW b, NEW committed, StoreOK(c)
    PROVE  LET d == TryAppend(c, b, committed)
           IN  /\ StoreOK(d)
               /\ Linked(c) => Linked(d)
               /\ Clean(c) => Clean(d)
               /\ d.height >= c.height
               /\ \/ d.db = c.db /\ d.height = c.height
                  \/ HasBlock(d, d.height)
<1>1. CASE TryAppend(c, b, committed) = c
  BY <1>1 DEF StoreOK
<1>2. CASE AcceptsBlock(c, b) /\ TryAppend(c, b, committed) = Appended(c, b)
  <2> DEFINE d == Appended(c, b)
  <2>1. /\ StoreOK(d)
        /\ DOMAIN d.db = DOMAIN c.db \cup {c.height + 1}
        /\ d.height = c.height + 1
        /\ d.db[c.height + 1] = b
        /\ \A i \in DOMAIN c.db : i # c.height + 1 => d.db[i] = c.db[i]
    BY AppendedChain
  <2>2. c.height \in Nat \ {0}
    BY DEF StoreOK
  <2> HIDE DEF d
  <2>3. c.height \in DOMAIN c.db /\ IsValid(b, c.db[c.height])
    BY <1>2 DEF AcceptsBlock, HasBlock
  <2>4. ASSUME Linked(c) PROVE Linked(d)
    <3> SUFFICES ASSUME NEW i \in 2..d.height
                 PROVE  /\ HasBlock(d, i) /\ HasBlock(d, i - 1)
                        /\ IsValid(d.db[i], d.db[i-1])
      BY DEF Linked
    <3>1. CASE i = c.height + 1
      BY <2>1, <2>2, <2>3, <3>1 DEF HasBlock
    <3>2. CASE i \in 2..c.height
      BY <2>1, <2>2, <2>4, <3>2 DEF Linked, HasBlock
    <3> QED BY <2>1, <2>2, <3>1, <3>2
  <2>5. Clean(c) => Clean(d)
    BY <2>1, <2>2 DEF Clean
  <2>6. HasBlock(d, d.height) /\ d.height >= c.height
    BY <2>1, <2>2 DEF HasBlock
  <2> QED BY <1>2, <2>1, <2>4, <2>5, <2>6 DEF d
<1> QED BY <1>1, <1>2 DEF TryAppend

(* The same of a whole pool_ballot, which moves ballots first. *)
LEMMA PoolBallotChain ==
    ASSUME NEW c, NEW ballot, NEW ts, NEW committed, StoreOK(c)
    PROVE  LET d == PoolBallot(c, ballot, ts, committed)
           IN  /\ StoreOK(d)
               /\ Linked(c) => Linked(d)
               /\ Clean(c) => Clean(d)
               /\ d.height >= c.height
               /\ \/ d.db = c.db /\ d.height = c.height
                  \/ HasBlock(d, d.height)
<1> DEFINE d == PoolBallot(c, ballot, ts, committed)
<1>1. PICK pool, b, e : /\ e = [c EXCEPT !.ballot_pool = pool]
                        /\ d = e \/ d = TryAppend(e, b, committed)
  BY DEF PoolBallot
<1>2. StoreOK(e) /\ e.db = c.db /\ e.height = c.height
  BY <1>1, WithPool
<1>3. (Linked(c) => Linked(e)) /\ (Clean(c) => Clean(e)) /\ e.height \in Nat
  BY <1>2 DEF Linked, Clean, HasBlock, StoreOK
<1> HIDE DEF d
<1>4. CASE d = e
  BY <1>2, <1>3, <1>4 DEF d
<1>5. CASE d = TryAppend(e, b, committed)
  BY <1>2, <1>3, <1>5, TryAppendChain DEF d
<1> QED BY <1>1, <1>4, <1>5

----------------------------------------------------------------------------
(* Replacing the end of the chain. *)

(* The table db holds the fragment from fork on, the blocks of c below     *)
(* fork, and those of c at its head or above that the fragment does not    *)
(* reach.                                                                  *)
ReplacesFrom(c, fork, bs, db) ==
    LET last == fork + Len(bs) - 1
    IN  /\ DOMAIN db = (DOMAIN c.db \ (fork..(c.height - 1))) \cup (fork..last)
        /\ \A i \in fork..last : db[i] = bs[i - fork + 1]
        /\ \A i \in DOMAIN c.db :
               i < fork \/ (i > last /\ i >= c.height) => db[i] = c.db[i]

(* That is the table try_update_longest writes. *)
LEMMA ReplacedTable ==
    ASSUME NEW c, StoreOK(c), NEW fork \in Nat \ {0}, NEW bs, Len(bs) \in Nat \ {0}
    PROVE  /\ ReplacesFrom(c, fork, bs, Replaced(c, fork, bs))
           /\ StoreOK(WithBlocks(c, Replaced(c, fork, bs), fork + Len(bs) - 1))
<1> DEFINE last == fork + Len(bs) - 1
           db == Replaced(c, fork, bs)
<1>1. last \in Nat \ {0} /\ c.height \in Nat \ {0}
  BY DEF StoreOK
<1>2. db = [i \in (DOMAIN c.db \ (fork..(c.height - 1))) \cup (fork..last) |->
              IF i \in fork..last THEN bs[i - fork + 1] ELSE c.db[i]]
  BY DEF Replaced, Stripped
<1> HIDE DEF db
<1>3. DOMAIN db = (DOMAIN c.db \ (fork..(c.height - 1))) \cup (fork..last)
  BY <1>2
<1>4. \A i \in fork..last : db[i] = bs[i - fork + 1]
  BY <1>2
<1>5. \A i \in DOMAIN c.db :
          i < fork \/ (i > last /\ i >= c.height) => db[i] = c.db[i]
  BY <1>1, <1>2 DEF StoreOK
<1>6. IsFiniteSet(DOMAIN db)
  <2>1. IsFiniteSet(DOMAIN c.db \ (fork..(c.height - 1)))
    BY FS_Difference DEF StoreOK
  <2>2. IsFiniteSet(fork..last)
    BY <1>1, FS_Interval
  <2>3. IsFiniteSet((DOMAIN c.db \ (fork..(c.height - 1))) \cup (fork..last))
    BY <2>1, <2>2, FS_Union
  <2> QED BY <1>3, <2>3
<1>7. DOMAIN db \subseteq Nat \ {0} /\ DOMAIN db # {}
  BY <1>1, <1>3 DEF StoreOK
<1>8. db = [i \in DOMAIN db |-> db[i]]
  BY <1>2
<1>9. StoreOK(WithBlocks(c, db, last))
  BY <1>1, <1>6, <1>7, <1>8 DEF StoreOK, WithBlocks
<1> QED BY <1>3, <1>4, <1>5, <1>9 DEF db, ReplacesFrom

(* What a whole update preserves: a linked chain without left-over blocks  *)
(* stays linked, and stays clean unless it gets shorter.                   *)
LEMMA TryUpdateLongestChain ==
    ASSUME NEW c, StoreOK(c), NEW fork \in Nat \ {0}, NEW bs, Len(bs) \in Nat \ {0},
           NEW committed
    PROVE  LET d == TryUpdateLongest(c, fork, bs, committed)
           IN  /\ StoreOK(d)
               /\ Clean(c) /\ Linked(c) => Linked(d)
               /\ Clean(c) => Clean(d) \/ d.height < c.height
               /\ \/ d.db = c.db /\ d.height = c.height
                  \/ HasBlock(d, d.height)
<1> DEFINE d == TryUpdateLongest(c, fork, bs, committed)
           last == fork + Len(bs) - 1
           db == Replaced(c, fork, bs)
<1>1. CASE d = c
  BY <1>1 DEF StoreOK
<1>2. PICK pool, pooled :
          /\ pooled = [c EXCEPT !.ballot_pool = pool]
          /\ \/ d = c \/ d = pooled
             \/ /\ AcceptsFork(c, fork, bs)
                /\ d = WithBlocks(pooled, Replaced(c, fork, bs), last)
  BY DEF TryUpdateLongest
<1> HIDE DEF d
<1>3. StoreOK(pooled) /\ pooled.db = c.db /\ pooled.height = c.height
  BY <1>2, WithPool
<1>4. CASE d = pooled
  BY <1>3, <1>4 DEF d, Linked, Clean, HasBlock
<1>5. CASE AcceptsFork(c, fork, bs) /\ d = WithBlocks(pooled, Replaced(c, fork, bs), last)
  <2>1. db = Replaced(pooled, fork, bs)
    BY <1>3 DEF Replaced, Stripped
  <2>2. StoreOK(d)
    BY <1>3, <1>5, <2>1, ReplacedTable
  <2>3. /\ DOMAIN db = (DOMAIN c.db \ (fork..(c.height - 1))) \cup (fork..last)
        /\ \A i \in fork..last : db[i] = bs[i - fork + 1]
        /\ \A i \in DOMAIN c.db :
               i < fork \/ (i > last /\ i >= c.height) => db[i] = c.db[i]
    <3>1. ReplacesFrom(c, fork, bs, db)
      BY ReplacedTable
    <3> QED BY <3>1 DEF ReplacesFrom
  <2>4. d.db = db /\ d.height = last /\ last \in Nat \ {0} /\ c.height \in Nat \ {0}
    BY <1>5 DEF WithBlocks, StoreOK
  <2>5. /\ fork \in DOMAIN c.db /\ Hash(bs[1]) = Hash(c.db[fork])
        /\ \A i \in 1..(Len(bs) - 1) : IsValid(bs[i+1], bs[i])
    BY <1>5 DEF AcceptsFork, HasBlock, IsValidChain
  <2> HIDE DEF db
  <2>6. ASSUME Clean(c), Linked(c) PROVE Linked(d)
    <3>1. DOMAIN c.db = 1..c.height
      BY <2>6 DEF Clean
    <3> SUFFICES ASSUME NEW i \in 2..d.height
                 PROVE  /\ HasBlock(d, i) /\ HasBlock(d, i - 1)
                        /\ IsValid(d.db[i], d.db[i-1])
      BY DEF Linked
    <3>2. CASE i < fork
      <4>1. i \in 2..c.height /\ i \in DOMAIN c.db /\ i - 1 \in DOMAIN c.db
        BY <2>4, <2>5, <3>1, <3>2
      <4>2. IsValid(c.db[i], c.db[i-1])
        BY <2>6, <4>1 DEF Linked
      <4> QED BY <2>3, <2>4, <3>2, <4>1, <4>2 DEF HasBlock
    <3>3. CASE i = fork
      <4>1. i \in 2..c.height /\ i - 1 \in DOMAIN c.db
        BY <2>4, <2>5, <3>1, <3>3
      <4>2. IsValid(c.db[i], c.db[i-1])
        BY <2>6, <4>1 DEF Linked
      <4>3. db[i] = bs[1] /\ db[i-1] = c.db[i-1]
        BY <2>3, <2>4, <3>3, <4>1
      <4>4. bs[1].previous_hash = c.db[fork].previous_hash
        BY <2>5, SameHashSamePrevious
      <4>5. i \in DOMAIN db /\ i - 1 \in DOMAIN db
        BY <2>3, <2>4, <3>3, <4>1
      <4> QED BY <2>4, <3>3, <4>2, <4>3, <4>4, <4>5 DEF HasBlock, IsValid
    <3>4. CASE i > fork
      <4>1. i \in fork..last /\ i - 1 \in fork..last
        BY <2>4, <3>4
      <4>2. db[i] = bs[i - fork + 1] /\ db[i-1] = bs[i - fork]
        BY <2>3, <4>1
      <4>3. i - fork \in 1..(Len(bs) - 1) /\ (i - fork) + 1 = i - fork + 1
        BY <3>4, <4>1
      <4>4. IsValid(bs[i - fork + 1], bs[i - fork])
        BY <2>5, <4>3
      <4> QED BY <2>3, <2>4, <4>1, <4>2, <4>4 DEF HasBlock
    <3> QED BY <3>2, <3>3, <3>4, <2>4
  <2>7. Clean(c) => Clean(d) \/ d.height < c.height
    BY <2>3, <2>4, <2>5 DEF Clean
  <2>8. HasBlock(d, d.height)
    BY <2>3, <2>4 DEF HasBlock
  <2> QED BY <2>2, <2>6, <2>7, <2>8 DEF d
<1> QED BY <1>1, <1>2, <1>4, <1>5 DEF d

----------------------------------------------------------------------------
(* Induction over the natural numbers, as a fact about sets of them.       *)

(* A non-empty set of numbers has a least element.                         *)
LEMMA Least ==
    ASSUME NEW T, T \subseteq Nat, T # {}
    PROVE  \E x \in T : \A y \in T : ~(y < x)
<1>1. \E x \in T : \A y \in T : ~(<<y, x>> \in OpToRel(<, Nat))
  BY NatLessThanWellFounded, WFMin
<1> QED BY <1>1 DEF OpToRel

LEMMA Induction ==
    ASSUME NEW T, 0 \in T, \A n \in Nat : n \in T => n + 1 \in T
    PROVE  Nat \subseteq T
<1> SUFFICES ASSUME Nat \ T # {} PROVE FALSE
  OBVIOUS
<1>1. PICK x \in Nat \ T : \A y \in Nat \ T : ~(y < x)
  BY Least, Nat \ T \subseteq Nat
<1>2. x # 0 /\ x - 1 \in Nat /\ x - 1 < x /\ (x - 1) + 1 = x
  BY <1>1
<1> QED BY <1>1, <1>2

----------------------------------------------------------------------------
(* The elements of a concatenation, and of a part of a sequence.           *)
LEMMA ToSetConcat ==
    ASSUME NEW S, NEW s \in Seq(S), NEW t \in Seq(S)
    PROVE  ToSet(s \o t) = ToSet(s) \cup ToSet(t)
<1>1. /\ Len(s) \in Nat /\ DOMAIN s = 1..Len(s) /\ Len(t) \in Nat /\ DOMAIN t = 1..Len(t)
  BY LenProperties
<1>2. /\ s \o t \in Seq(S) /\ Len(s \o t) = Len(s) + Len(t)
      /\ \A i \in 1..(Len(s) + Len(t)) :
             (s \o t)[i] = IF i <= Len(s) THEN s[i] ELSE t[i - Len(s)]
  BY ConcatProperties
<1>3. DOMAIN (s \o t) = 1..(Len(s) + Len(t))
  BY <1>2, LenProperties
<1>4. PICK u : u = s \o t
  OBVIOUS
<1>5. ASSUME NEW x \in ToSet(u) PROVE x \in ToSet(s) \cup ToSet(t)
  <2>1. PICK i \in 1..(Len(s) + Len(t)) : u[i] = x
    BY <1>3, <1>4 DEF ToSet
  <2>2. CASE i <= Len(s)
    BY <1>1, <1>2, <1>4, <2>1, <2>2 DEF ToSet
  <2>3. CASE ~(i <= Len(s))
    <3>1. i - Len(s) \in 1..Len(t) /\ x = t[i - Len(s)]
      BY <1>1, <1>2, <1>4, <2>1, <2>3
    <3> QED BY <1>1, <3>1 DEF ToSet
  <2> QED BY <2>2, <2>3
<1>6. ASSUME NEW x \in ToSet(s) PROVE x \in ToSet(u)
  <2>1. PICK i \in 1..Len(s) : s[i] = x
    BY <1>1 DEF ToSet
  <2>2. i \in 1..(Len(s) + Len(t)) /\ u[i] = x
    BY <1>1, <1>2, <1>4, <2>1
  <2> QED BY <1>3, <1>4, <2>2 DEF ToSet
<1>7. ASSUME NEW x \in ToSet(t) PROVE x \in ToSet(u)
  <2>1. PICK i \in 1..Len(t) : t[i] = x
    BY <1>1 DEF ToSet
  <2>2. /\ Len(s) + i \in 1..(Len(s) + Len(t)) /\ ~(Len(s) + i <= Len(s))
        /\ (Len(s) + i) - Len(s) = i
    BY <1>1, <2>1
  <2>3. u[Len(s) + i] = x
    BY <1>2, <1>4, <2>1, <2>2
  <2> QED BY <1>3, <1>4, <2>2, <2>3 DEF ToSet
<1> QED BY <1>4, <1>5, <1>6, <1>7

(* Sequences of sequences, one after another (FlattenSeq).                 *)

(* f[i] is the first i members of s in a row. *)
Flattens(f, s, n) == f = [i \in 1..n |-> IF i = 1 THEN s[i] ELSE f[i-1] \o s[i]]

LEMMA FlattenExists ==
    ASSUME NEW s, NEW n \in Nat
    PROVE  \E f : Flattens(f, s, n)
<1> DEFINE T == {m \in Nat : \E f : Flattens(f, s, m)}
<1>1. 0 \in T
  <2>1. PICK f : f = [i \in 1..0 |-> s[i]]
    OBVIOUS
  <2>2. Flattens(f, s, 0)
    BY <2>1 DEF Flattens
  <2> QED BY <2>2
<1>2. ASSUME NEW m \in Nat, m \in T PROVE m + 1 \in T
  <2>1. PICK f : Flattens(f, s, m)
    BY <1>2
  <2>2. PICK g : g = [i \in 1..(m+1) |-> IF i \in 1..m THEN f[i]
                                         ELSE IF i = 1 THEN s[i] ELSE f[m] \o s[i]]
    OBVIOUS
  <2>3. \A i \in 1..(m+1) : g[i] = IF i = 1 THEN s[i] ELSE g[i-1] \o s[i]
    <3> SUFFICES ASSUME NEW i \in 1..(m+1)
                 PROVE  g[i] = IF i = 1 THEN s[i] ELSE g[i-1] \o s[i]
      OBVIOUS
    <3>1. CASE i \in 1..m
      <4>1. g[i] = f[i] /\ (i # 1 => g[i-1] = f[i-1])
        BY <2>2, <3>1
      <4>2. f[i] = IF i = 1 THEN s[i] ELSE f[i-1] \o s[i]
        BY <2>1, <3>1 DEF Flattens
      <4> QED BY <4>1, <4>2
    <3>2. CASE i \notin 1..m
      <4>1. i = m + 1
        BY <3>2
      <4>2. CASE i = 1
        BY <2>2, <3>2, <4>2
      <4>3. CASE i # 1
        <5>1. m \in 1..m /\ i - 1 = m
          BY <4>1, <4>3
        <5>2. g[i-1] = f[m]
          BY <2>2, <5>1
        <5> QED BY <2>2, <3>2, <4>3, <5>2
      <4> QED BY <4>2, <4>3
    <3> QED BY <3>1, <3>2
  <2>4. Flattens(g, s, m + 1)
    BY <2>2, <2>3 DEF Flattens
  <2>5. \E h : Flattens(h, s, m + 1)
    BY <2>4
  <2>6. m + 1 \in Nat
    OBVIOUS
  <2> QED BY <2>5, <2>6
<1> HIDE DEF T
<1>3. n \in T
  BY <1>1, <1>2, Induction
<1> QED BY <1>3 DEF T

LEMMA FlattenDef ==
    ASSUME NEW s, Len(s) \in Nat \ {0}
    PROVE  \E f : Flattens(f, s, Len(s)) /\ FlattenSeq(s) = f[Len(s)]
<1> DEFINE F == CHOOSE f : f = [i \in 1..Len(s) |-> IF i = 1 THEN s[i] ELSE f[i-1] \o s[i]]
<1>1. Flattens(F, s, Len(s))
  <2>1. \E f : f = [i \in 1..Len(s) |-> IF i = 1 THEN s[i] ELSE f[i-1] \o s[i]]
    BY FlattenExists DEF Flattens
  <2>2. F = [i \in 1..Len(s) |-> IF i = 1 THEN s[i] ELSE F[i-1] \o s[i]]
    BY <2>1
  <2> QED BY <2>2 DEF Flattens
<1>2. FlattenSeq(s) = F[Len(s)]
  BY DEF FlattenSeq
<1> QED BY <1>1, <1>2

(* The first i members in a row depend on no other.                        *)
LEMMA FlattensAgree ==
    ASSUME NEW f, NEW s, NEW m \in Nat, NEW g, NEW t, NEW n \in Nat,
           Flattens(f, s, m), Flattens(g, t, n), m <= n,
           \A i \in 1..m : s[i] = t[i]
    PROVE  \A i \in 1..m : f[i] = g[i]
<1> DEFINE T == {i \in Nat : i \in 1..m => f[i] = g[i]}
<1>1. 0 \in T
  OBVIOUS
<1>2. ASSUME NEW i \in Nat, i \in T PROVE i + 1 \in T
  <2> SUFFICES ASSUME i + 1 \in 1..m PROVE f[i + 1] = g[i + 1]
    OBVIOUS
  <2>1. /\ f[i + 1] = IF i + 1 = 1 THEN s[i + 1] ELSE f[(i + 1) - 1] \o s[i + 1]
        /\ g[i + 1] = IF i + 1 = 1 THEN t[i + 1] ELSE g[(i + 1) - 1] \o t[i + 1]
    <3>1. i + 1 \in 1..n
      OBVIOUS
    <3> QED BY <3>1 DEF Flattens
  <2>2. s[i + 1] = t[i + 1] /\ (i + 1) - 1 = i
    OBVIOUS
  <2>3. i + 1 # 1 => f[i] = g[i]
    BY <1>2
  <2> QED BY <2>1, <2>2, <2>3
<1> HIDE DEF T
<1>3. Nat \subseteq T
  BY <1>1, <1>2, Induction
<1> QED BY <1>3 DEF T

(* One more member comes after those before it.                            *)
LEMMA FlattenLonger ==
    ASSUME NEW S, NEW s, NEW n \in Nat, Len(s) = n + 1, s[n + 1] \in Seq(S),
           NEW t, Len(t) = n, \A i \in 1..n : s[i] = t[i], n = 0 => t = <<>>
    PROVE  FlattenSeq(s) = FlattenSeq(t) \o s[n + 1]
<1>1. PICK f : Flattens(f, s, n + 1) /\ FlattenSeq(s) = f[n + 1]
  BY FlattenDef
<1>2. f[n + 1] = IF n + 1 = 1 THEN s[n + 1] ELSE f[(n + 1) - 1] \o s[n + 1]
  <2>1. n + 1 \in 1..(n + 1)
    OBVIOUS
  <2> QED BY <1>1, <2>1 DEF Flattens
<1>3. CASE n = 0
  <2>1. FlattenSeq(t) = <<>>
    BY <1>3 DEF FlattenSeq
  <2>2. f[n + 1] = s[n + 1]
    BY <1>2, <1>3
  <2>3. <<>> \o s[n + 1] = s[n + 1]
    BY ConcatEmptySeq
  <2> QED BY <1>1, <2>1, <2>2, <2>3
<1>4. CASE n # 0
  <2>1. PICK g : Flattens(g, t, n) /\ FlattenSeq(t) = g[n]
    BY <1>4, FlattenDef
  <2>2. g[n] = f[n]
    <3>1. \A i \in 1..n : t[i] = s[i]
      OBVIOUS
    <3>2. n <= n + 1 /\ n + 1 \in Nat /\ n \in 1..n
      BY <1>4
    <3> QED BY <1>1, <2>1, <3>1, <3>2, FlattensAgree
  <2>3. n + 1 # 1 /\ (n + 1) - 1 = n
    BY <1>4
  <2> QED BY <1>1, <1>2, <2>1, <2>2, <2>3
<1> QED BY <1>3, <1>4

(* What flattening gives: a sequence of the members' elements.             *)
LEMMA FlattenProperties ==
    ASSUME NEW S, NEW s, Len(s) \in Nat, s = [i \in 1..Len(s) |-> s[i]],
           \A i \in 1..Len(s) : s[i] \in Seq(S)
    PROVE  /\ FlattenSeq(s) \in Seq(S)
           /\ ToSet(FlattenSeq(s)) = UNION {ToSet(s[i]) : i \in 1..Len(s)}
<1>1. CASE Len(s) = 0
  <2>1. s = <<>> /\ FlattenSeq(s) = <<>>
    BY <1>1 DEF FlattenSeq
  <2>2. ToSet(<<>>) = {}
    BY DEF ToSet
  <2>3. UNION {ToSet(s[i]) : i \in 1..0} = {}
    OBVIOUS
  <2> QED BY <1>1, <2>1, <2>2, <2>3, EmptySeq
<1>2. CASE Len(s) # 0
  <2>1. PICK f : Flattens(f, s, Len(s)) /\ FlattenSeq(s) = f[Len(s)]
    BY <1>2, FlattenDef
  <2> DEFINE T == {n \in Nat : n \in 1..Len(s) =>
                       /\ f[n] \in Seq(S)
                       /\ ToSet(f[n]) = UNION {ToSet(s[i]) : i \in 1..n}}
  <2>2. 0 \in T
    OBVIOUS
  <2>3. ASSUME NEW n \in Nat, n \in T PROVE n + 1 \in T
    <3> SUFFICES ASSUME n + 1 \in 1..Len(s)
                 PROVE  /\ f[n + 1] \in Seq(S)
                        /\ ToSet(f[n + 1]) = UNION {ToSet(s[i]) : i \in 1..(n + 1)}
      OBVIOUS
    <3>1. f[n + 1] = IF n + 1 = 1 THEN s[n + 1] ELSE f[(n + 1) - 1] \o s[n + 1]
      BY <2>1 DEF Flattens
    <3>2. CASE n = 0
      <4>1. f[n + 1] = s[1] /\ 1..(n + 1) = {1} /\ s[1] \in Seq(S)
        BY <3>1, <3>2
      <4> QED BY <4>1
    <3>3. CASE n # 0
      <4>1. /\ f[n] \in Seq(S) /\ ToSet(f[n]) = UNION {ToSet(s[i]) : i \in 1..n}
            /\ s[n + 1] \in Seq(S) /\ f[n + 1] = f[n] \o s[n + 1]
            /\ 1..(n + 1) = 1..n \cup {n + 1}
        <5>1. n \in 1..Len(s) /\ n + 1 # 1 /\ (n + 1) - 1 = n
          BY <3>3
        <5>2. 1..(n + 1) = 1..n \cup {n + 1}
          OBVIOUS
        <5> QED BY <2>3, <3>1, <5>1, <5>2
      <4>2. f[n + 1] \in Seq(S)
        BY <4>1, ConcatProperties
      <4>3. ToSet(f[n] \o s[n + 1]) = ToSet(f[n]) \cup ToSet(s[n + 1])
        BY <4>1, ToSetConcat
      <4>4. UNION {ToSet(s[i]) : i \in 1..n \cup {n + 1}}
              = (UNION {ToSet(s[i]) : i \in 1..n}) \cup ToSet(s[n + 1])
        OBVIOUS
      <4> QED BY <4>1, <4>2, <4>3, <4>4
    <3> QED BY <3>2, <3>3
  <2> HIDE DEF T
  <2>4. Len(s) \in T
    BY <2>2, <2>3, Induction
  <2> QED BY <1>2, <2>1, <2>4 DEF T
<1> QED BY <1>1, <1>2

----------------------------------------------------------------------------
(* Ballots: what the operations do with the blocks' contents and the pool. *)

ChainTyped(c) == StoreOK(c) /\ BlocksOK(c) /\ PoolOK(c)

(* The ballots of a chain, wherever it keeps them. *)
Held(c) == InPool(c) \cup BallotsIn(c, DOMAIN c.db)

LEMMA InBlocks ==
    ASSUME NEW c, NEW I, NEW b
    PROVE  b \in BallotsIn(c, I) <=> \E i \in I \cap DOMAIN c.db : b \in ToSet(c.db[i].ballots)
BY DEF BallotsIn

(* An update of the pool. *)
LEMMA PoolReplaced ==
    ASSUME NEW c, StoreOK(c), NEW pool
    PROVE  [c EXCEPT !.ballot_pool = pool]
             = [db |-> c.db, height |-> c.height, ballot_pool |-> pool]
<1>1. PICK x, y, z : c = [db |-> x, height |-> y, ballot_pool |-> z]
  BY DEF StoreOK
<1> QED BY <1>1

(* The pool is cut in two parts.                                           *)
LEMMA SplitPool ==
    ASSUME NEW pool \in Seq(Ballot), Len(pool) >= BlockSize
    PROVE  /\ Remaining(pool) \in Seq(Ballot)
           /\ SplitOff(pool) \in Seq(Ballot)
           /\ Remaining(pool) \o SplitOff(pool) = pool
           /\ ToSet(Remaining(pool)) \cup ToSet(SplitOff(pool)) = ToSet(pool)
<1>1. Len(pool) \in Nat /\ BlockSize \in Nat \ {0}
  BY LenProperties, BlockSizeAssumption
<1>2. PICK k \in 0..Len(pool) : k = Len(pool) - BlockSize
  <2>1. Len(pool) - BlockSize \in 0..Len(pool)
    BY <1>1
  <2> QED BY <2>1
<1>3. Remaining(pool) = SubSeq(pool, 1, k) /\ SplitOff(pool) = SubSeq(pool, k + 1, Len(pool))
  BY <1>2 DEF Remaining, SplitOff
<1>4. \A i \in 1..Len(pool) : pool[i] \in Ballot
  BY ElementOfSeq
<1>5. SubSeq(pool, 1, k) \in Seq(Ballot)
  BY <1>1, <1>2, <1>4, SubSeqProperties
<1>6. SubSeq(pool, k + 1, Len(pool)) \in Seq(Ballot)
  BY <1>1, <1>2, <1>4, SubSeqProperties
<1>7. SubSeq(pool, 1, k) \o SubSeq(pool, k + 1, Len(pool)) = SubSeq(pool, 1, Len(pool))
  <2>1. /\ 1 \in 1..(Len(pool) + 1) /\ k \in (1 - 1)..Len(pool) /\ Len(pool) \in k..Len(pool)
    BY <1>1, <1>2
  <2> QED BY <2>1, ConcatAdjacentSubSeq
<1>8. SubSeq(pool, 1, Len(pool)) = pool
  BY SubSeqFull
<1>9. Remaining(pool) \in Seq(Ballot) /\ SplitOff(pool) \in Seq(Ballot)
  BY <1>3, <1>5, <1>6
<1>10. Remaining(pool) \o SplitOff(pool) = pool
  BY <1>3, <1>7, <1>8
<1>11. ToSet(Remaining(pool) \o SplitOff(pool)) = ToSet(Remaining(pool)) \cup ToSet(SplitOff(pool))
  BY <1>9, ToSetConcat
<1> QED BY <1>9, <1>10, <1>11

(* pool_ballot adds the ballot to the pool, and either leaves it at that,  *)
(* or drops the newest ballots, or moves them into a block.                *)
PoolGrows(c, pool, d) ==
    d.ballot_pool = pool /\ d.db = c.db /\ d.height = c.height /\ Len(pool) < BlockSize

PoolDropped(c, pool, d) ==
    d.ballot_pool = Remaining(pool) /\ d.db = c.db /\ d.height = c.height

PoolMoved(c, pool, ts, d) ==
    /\ HasBlock(c, c.height)
    /\ d.ballot_pool = Remaining(pool)
    /\ d.height = c.height + 1
    /\ DOMAIN d.db = DOMAIN c.db \cup {c.height + 1}
    /\ d.db[c.height + 1] = NewBlock(c.db[c.height], ts, SplitOff(pool))
    /\ \A i \in DOMAIN c.db : i # c.height + 1 => d.db[i] = c.db[i]

LEMMA PoolBallotCases ==
    ASSUME NEW c, StoreOK(c), PoolOK(c), NEW ballot \in Ballot, NEW ts, NEW committed,
           NEW d, d = PoolBallot(c, ballot, ts, committed)
    PROVE  LET pool == Append(c.ballot_pool, ballot)
           IN  /\ pool \in Seq(Ballot)
               /\ ToSet(pool) = InPool(c) \cup {ballot}
               /\ \/ PoolGrows(c, pool, d)
                  \/ /\ Len(pool) >= BlockSize
                     /\ \/ (~HasBlock(c, c.height) \/ ~committed) /\ PoolDropped(c, pool, d)
                        \/ PoolMoved(c, pool, ts, d)
<1>1. PICK pool : pool = Append(c.ballot_pool, ballot)
  OBVIOUS
<1>2. pool \in Seq(Ballot)
  BY <1>1, AppendProperties DEF PoolOK
<1>3. ToSet(pool) = InPool(c) \cup {ballot}
  <2>1. pool = c.ballot_pool \o <<ballot>>
    BY <1>1, AppendIsConcat DEF PoolOK
  <2>2. PICK t : t = <<ballot>>
    OBVIOUS
  <2>3. t \in Seq(Ballot) /\ ToSet(t) = {ballot}
    BY <2>2 DEF ToSet
  <2>4. ToSet(c.ballot_pool \o t) = ToSet(c.ballot_pool) \cup ToSet(t)
    BY <2>3, ToSetConcat DEF PoolOK
  <2> QED BY <2>1, <2>2, <2>3, <2>4 DEF InPool
<1>4. Len(pool) \in Nat /\ BlockSize \in Nat
  BY <1>2, LenProperties, BlockSizeAssumption
<1>5. CASE Len(pool) < BlockSize
  <2>1. d = [c EXCEPT !.ballot_pool = pool]
    BY <1>1, <1>5 DEF PoolBallot
  <2>2. PoolGrows(c, pool, d)
    BY <1>5, <2>1, PoolReplaced DEF PoolGrows
  <2> QED BY <1>1, <1>2, <1>3, <2>2
<1>6. CASE ~(Len(pool) < BlockSize)
  <2>1. PICK e : e = [c EXCEPT !.ballot_pool = Remaining(pool)]
    OBVIOUS
  <2>2. /\ StoreOK(e) /\ e.db = c.db /\ e.height = c.height
        /\ e.ballot_pool = Remaining(pool)
    BY <2>1, WithPool, PoolReplaced
  <2>3. PICK b : b = NewBlock(c.db[c.height], ts, SplitOff(pool))
    OBVIOUS
  <2>4. d = IF ~HasBlock(c, c.height) THEN e ELSE TryAppend(e, b, committed)
    BY <1>1, <1>6, <2>1, <2>3 DEF PoolBallot
  <2>5. CASE d = e /\ (~HasBlock(c, c.height) \/ ~committed)
    BY <1>1, <1>2, <1>3, <1>4, <1>6, <2>2, <2>5 DEF PoolDropped
  <2>6. CASE HasBlock(c, c.height) /\ d = TryAppend(e, b, committed) /\ committed
    <3>1. AcceptsBlock(e, b)
      BY <2>2, <2>3, <2>6 DEF AcceptsBlock, IsValid, NewBlock, HasBlock
    <3>2. d = Appended(e, b)
      BY <2>6, <3>1 DEF TryAppend
    <3>3. d.ballot_pool = e.ballot_pool
      BY <3>2 DEF Appended, WithBlocks
    <3>4. /\ d.height = e.height + 1
          /\ DOMAIN d.db = DOMAIN e.db \cup {e.height + 1}
          /\ d.db[e.height + 1] = b
          /\ \A i \in DOMAIN e.db : i # e.height + 1 => d.db[i] = e.db[i]
      BY <3>2 DEF Appended, WithBlocks
    <3>5. PoolMoved(c, pool, ts, d)
      BY <2>2, <2>3, <2>6, <3>3, <3>4 DEF PoolMoved
    <3> QED BY <1>1, <1>2, <1>3, <1>4, <1>6, <3>5
  <2>7. CASE HasBlock(c, c.height) /\ ~committed
    BY <2>4, <2>5, <2>7 DEF TryAppend
  <2>8. CASE HasBlock(c, c.height) /\ committed
    BY <2>4, <2>6, <2>8
  <2> QED BY <2>4, <2>5, <2>7, <2>8
<1> QED BY <1>5, <1>6

(* It keeps the types and brings no other ballot.                          *)
LEMMA PoolBallotTyped ==
    ASSUME NEW c, ChainTyped(c), NEW ballot \in Ballot, NEW ts \in Timestamp, NEW committed,
           NEW d, d = PoolBallot(c, ballot, ts, committed)
    PROVE  ChainTyped(d) /\ Held(d) \subseteq Held(c) \cup {ballot}
<1>1. PICK pool : pool = Append(c.ballot_pool, ballot)
  OBVIOUS
<1>2. StoreOK(c) /\ BlocksOK(c) /\ PoolOK(c) /\ StoreOK(d)
  BY PoolBallotChain DEF ChainTyped
<1>3. /\ pool \in Seq(Ballot) /\ ToSet(pool) = InPool(c) \cup {ballot}
      /\ \/ PoolGrows(c, pool, d)
         \/ /\ Len(pool) >= BlockSize
            /\ PoolDropped(c, pool, d) \/ PoolMoved(c, pool, ts, d)
  BY <1>1, <1>2, PoolBallotCases
<1>4. CASE PoolGrows(c, pool, d)
  BY <1>2, <1>3, <1>4 DEF PoolGrows, ChainTyped, BlocksOK, PoolOK, Held, InPool, BallotsIn
<1>5. ASSUME Len(pool) >= BlockSize
      PROVE  /\ Remaining(pool) \in Seq(Ballot) /\ ToSet(Remaining(pool)) \subseteq ToSet(pool)
             /\ SplitOff(pool) \in Seq(Ballot) /\ ToSet(SplitOff(pool)) \subseteq ToSet(pool)
  BY <1>3, <1>5, SplitPool
<1>6. CASE Len(pool) >= BlockSize /\ PoolDropped(c, pool, d)
  BY <1>2, <1>3, <1>5, <1>6
     DEF PoolDropped, ChainTyped, BlocksOK, PoolOK, Held, InPool, BallotsIn
<1>7. CASE Len(pool) >= BlockSize /\ PoolMoved(c, pool, ts, d)
  <2>1. PICK b : b = NewBlock(c.db[c.height], ts, SplitOff(pool))
    OBVIOUS
  <2>2. IsBlock(b) /\ ToSet(b.ballots) \subseteq ToSet(pool)
    <3>1. ts \in Nat
      BY TimestampAssumption
    <3> QED BY <1>5, <1>7, <2>1, <3>1 DEF NewBlock, IsBlock
  <2>3. /\ DOMAIN d.db = DOMAIN c.db \cup {c.height + 1} /\ d.db[c.height + 1] = b
        /\ \A i \in DOMAIN c.db : i # c.height + 1 => d.db[i] = c.db[i]
        /\ d.ballot_pool = Remaining(pool)
    BY <1>7, <2>1 DEF PoolMoved
  <2>4. BlocksOK(d) /\ PoolOK(d)
    BY <1>2, <1>5, <1>7, <2>2, <2>3 DEF BlocksOK, PoolOK
  <2>5. ASSUME NEW x \in Held(d) PROVE x \in Held(c) \cup {ballot}
    <3>1. CASE x \in InPool(d)
      BY <1>3, <1>5, <1>7, <2>3, <3>1 DEF InPool, Held
    <3>2. CASE x \in BallotsIn(d, DOMAIN d.db)
      <4>1. PICK i \in DOMAIN d.db : x \in ToSet(d.db[i].ballots)
        BY <3>2, InBlocks
      <4>2. CASE i = c.height + 1
        BY <1>3, <2>2, <2>3, <4>1, <4>2 DEF Held
      <4>3. CASE i # c.height + 1
        <5>1. i \in DOMAIN c.db /\ x \in ToSet(c.db[i].ballots)
          BY <2>3, <4>1, <4>3
        <5> QED BY <5>1, InBlocks DEF Held
      <4> QED BY <4>2, <4>3
    <3> QED BY <2>5, <3>1, <3>2 DEF Held
  <2> QED BY <1>2, <2>4, <2>5 DEF ChainTyped
<1> QED BY <1>3, <1>4, <1>6, <1>7

(* It loses none, unless the head cannot be read or the write fails.       *)
LEMMA PoolBallotKeeps ==
    ASSUME NEW c, StoreOK(c), PoolOK(c), NEW ballot \in Ballot, NEW ts,
           NEW d, d = PoolBallot(c, ballot, ts, TRUE), HasBlock(c, c.height),
           NEW x \in InPool(c) \cup BallotsIn(c, 1..c.height)
    PROVE  x \in InPool(d) \cup BallotsIn(d, 1..d.height)
<1>1. PICK pool : pool = Append(c.ballot_pool, ballot)
  OBVIOUS
<1>2. /\ pool \in Seq(Ballot) /\ InPool(c) \subseteq ToSet(pool)
      /\ \/ PoolGrows(c, pool, d)
         \/ Len(pool) >= BlockSize /\ PoolMoved(c, pool, ts, d)
  <2>1. PICK committed : committed = TRUE
    OBVIOUS
  <2>2. d = PoolBallot(c, ballot, ts, committed)
    BY <2>1
  <2>3. /\ pool \in Seq(Ballot) /\ ToSet(pool) = InPool(c) \cup {ballot}
        /\ \/ PoolGrows(c, pool, d)
           \/ /\ Len(pool) >= BlockSize
              /\ \/ (~HasBlock(c, c.height) \/ ~committed) /\ PoolDropped(c, pool, d)
                 \/ PoolMoved(c, pool, ts, d)
    BY <1>1, <2>2, PoolBallotCases
  <2> QED BY <2>1, <2>3
<1>3. CASE PoolGrows(c, pool, d)
  BY <1>2, <1>3 DEF PoolGrows, InPool, BallotsIn
<1>4. CASE Len(pool) >= BlockSize /\ PoolMoved(c, pool, ts, d)
  <2>1. ToSet(pool) = InPool(d) \cup ToSet(SplitOff(pool))
    BY <1>2, <1>4, SplitPool DEF PoolMoved, InPool
  <2>2. PICK h \in Nat : h = c.height
    BY DEF StoreOK
  <2>5. /\ d.db[h + 1].ballots = SplitOff(pool)
        /\ h + 1 \in DOMAIN d.db /\ d.height = h + 1
    <3>1. PICK b : b = NewBlock(c.db[c.height], ts, SplitOff(pool))
      OBVIOUS
    <3>2. b.ballots = SplitOff(pool)
      BY <3>1 DEF NewBlock
    <3>3. d.db[h + 1] = b /\ h + 1 \in DOMAIN d.db /\ d.height = h + 1
      BY <1>4, <2>2, <3>1 DEF PoolMoved
    <3> QED BY <3>2, <3>3
  <2>3. CASE x \in InPool(c)
    <3>1. CASE x \in ToSet(SplitOff(pool))
      <4>1. h + 1 \in 1..(h + 1)
        OBVIOUS
      <4>2. h + 1 \in (1..d.height) \cap DOMAIN d.db
        BY <2>5, <4>1
      <4>3. x \in BallotsIn(d, 1..d.height)
        BY <2>5, <3>1, <4>2, InBlocks
      <4> QED BY <4>3
    <3> QED BY <1>2, <2>1, <2>3, <3>1
  <2>4. CASE x \in BallotsIn(c, 1..c.height)
    <3>1. PICK i \in 1..c.height : i \in DOMAIN c.db /\ x \in ToSet(c.db[i].ballots)
      BY <2>4, InBlocks
    <3>2. i # c.height + 1 /\ i \in 1..d.height
      <4>1. i \in 1..h
        BY <2>2, <3>1
      <4>2. i # h + 1 /\ i \in 1..(h + 1)
        BY <4>1
      <4> QED BY <2>2, <2>5, <4>2
    <3>3. i \in DOMAIN d.db /\ d.db[i] = c.db[i]
      BY <1>4, <3>1, <3>2 DEF PoolMoved
    <3> QED BY <3>1, <3>2, <3>3, InBlocks
  <2> QED BY <2>3, <2>4
<1> QED BY <1>2, <1>3, <1>4

(* The ballots an update strips come into the pool.                        *)
LEMMA LostBallotsProperties ==
    ASSUME NEW c, ChainTyped(c), NEW fork \in Nat \ {0}
    PROVE  /\ LostBallots(c, fork) \in Seq(Ballot)
           /\ ToSet(LostBallots(c, fork)) = BallotsIn(c, Stripped(c, fork))
<1> DEFINE s == [k \in 1..(c.height - fork) |->
                    IF HasBlock(c, fork + k - 1) THEN c.db[fork + k - 1].ballots ELSE <<>>]
<1>1. c.height \in Nat \ {0} /\ DOMAIN c.db \subseteq Nat \ {0}
  BY DEF ChainTyped, StoreOK
<1>2. PICK n \in Nat : 1..(c.height - fork) = 1..n /\ (n = c.height - fork \/ n = 0)
  <2>1. CASE c.height - fork >= 0
    BY <1>1, <2>1
  <2>2. CASE ~(c.height - fork >= 0)
    <3>1. 1..(c.height - fork) = 1..0
      BY <1>1, <2>2
    <3> QED BY <3>1
  <2> QED BY <2>1, <2>2
<1>3. s = [k \in 1..n |-> s[k]] /\ Len(s) = n
  <2>1. s = [k \in 1..n |-> IF HasBlock(c, fork + k - 1) THEN c.db[fork + k - 1].ballots ELSE <<>>]
    BY <1>2
  <2> HIDE DEF s
  <2>2. DOMAIN s = 1..n /\ s = [k \in 1..n |-> s[k]]
    BY <2>1
  <2>3. s \in Seq(Range(s))
    BY <2>2, SeqDef DEF Range
  <2> QED BY <2>2, <2>3
<1>4. \A k \in 1..n : s[k] = IF HasBlock(c, fork + k - 1) THEN c.db[fork + k - 1].ballots
                             ELSE <<>>
  BY <1>2
<1>5. LostBallots(c, fork) = FlattenSeq(s)
  BY DEF LostBallots
<1> HIDE DEF s
<1>6. ASSUME NEW k \in 1..Len(s) PROVE s[k] \in Seq(Ballot)
  BY <1>3, <1>4, EmptySeq DEF ChainTyped, BlocksOK, IsBlock, HasBlock
<1>7. /\ FlattenSeq(s) \in Seq(Ballot)
      /\ ToSet(FlattenSeq(s)) = UNION {ToSet(s[k]) : k \in 1..Len(s)}
  BY <1>3, <1>6, FlattenProperties
<1>8. ASSUME NEW k \in 1..n, NEW x \in ToSet(s[k]) PROVE x \in BallotsIn(c, Stripped(c, fork))
  <2>1. HasBlock(c, fork + k - 1) /\ x \in ToSet(c.db[fork + k - 1].ballots)
    <3>1. ToSet(<<>>) = {}
      BY DEF ToSet
    <3> QED BY <1>4, <1>8, <3>1
  <2>2. fork + k - 1 \in Stripped(c, fork)
    BY <1>1, <1>2 DEF Stripped
  <2> QED BY <2>1, <2>2, InBlocks DEF HasBlock
<1>9. ASSUME NEW x \in BallotsIn(c, Stripped(c, fork)) PROVE \E k \in 1..n : x \in ToSet(s[k])
  <2>1. PICK i \in fork..(c.height - 1) : i \in DOMAIN c.db /\ x \in ToSet(c.db[i].ballots)
    BY <1>9, InBlocks DEF Stripped
  <2>2. i - fork + 1 \in 1..(c.height - fork) /\ fork + (i - fork + 1) - 1 = i
    BY <1>1, <2>1
  <2>3. s[i - fork + 1] = c.db[i].ballots
    BY <1>2, <1>4, <2>1, <2>2 DEF HasBlock
  <2> QED BY <1>2, <2>1, <2>2, <2>3
<1> QED BY <1>3, <1>5, <1>7, <1>8, <1>9

(* A block that is appended. *)
LEMMA TryAppendTyped ==
    ASSUME NEW c, ChainTyped(c), NEW b, IsBlock(b), NEW committed
    PROVE  ChainTyped(TryAppend(c, b, committed))
<1>1. PICK d : d = TryAppend(c, b, committed)
  OBVIOUS
<1>2. CASE d = c
  BY <1>1, <1>2
<1>3. CASE d = Appended(c, b)
  <2>1. StoreOK(d)
    BY <1>3, AppendedChain DEF ChainTyped
  <2>2. /\ d.ballot_pool = c.ballot_pool
        /\ d.db = [i \in DOMAIN c.db \cup {c.height + 1} |->
                      IF i = c.height + 1 THEN b ELSE c.db[i]]
    BY <1>3 DEF Appended, WithBlocks
  <2>3. PoolOK(d) /\ BlocksOK(d)
    BY <2>2 DEF ChainTyped, PoolOK, BlocksOK
  <2> QED BY <1>1, <2>1, <2>3 DEF ChainTyped
<1> QED BY <1>1, <1>2, <1>3 DEF TryAppend

(* Opening a store empties the pool. *)
LEMMA OpenTyped ==
    ASSUME NEW c, ChainTyped(c)
    PROVE  ChainTyped(Open(c.db)) /\ Held(Open(c.db)) \subseteq Held(c)
<1>1. PICK d : d = Open(c.db)
  OBVIOUS
<1>2. d.db = c.db /\ StoreOK(d)
  BY <1>1, OpenStored DEF ChainTyped
<1>3. d.ballot_pool = <<>>
  BY <1>1 DEF Open, ChainTyped, StoreOK
<1>4. PoolOK(d) /\ BlocksOK(d)
  BY <1>2, <1>3, EmptySeq DEF ChainTyped, PoolOK, BlocksOK
<1>5. InPool(d) = {}
  BY <1>3 DEF InPool, ToSet
<1>6. Held(d) \subseteq Held(c)
  BY <1>2, <1>5 DEF Held, BallotsIn
<1> QED BY <1>1, <1>2, <1>4, <1>6 DEF ChainTyped

LEMMA GenesisIsBlock == IsBlock(GenesisBlock)
BY EmptySeq DEF IsBlock, GenesisBlock

(* A new store holds no ballot. *)
LEMMA OpenNewTyped ==
    ASSUME NEW d, d = Open([i \in {} |-> GenesisBlock])
    PROVE  ChainTyped(d) /\ Held(d) = {}
<1>1. StoreOK(d)
  BY OpenEmpty
<1>2. d.db = [i \in {1} |-> GenesisBlock] /\ d.ballot_pool = <<>>
  BY DEF Open
<1>3. GenesisBlock.ballots = <<>> /\ ToSet(<<>>) = {}
  BY DEF GenesisBlock, ToSet
<1>4. BlocksOK(d) /\ PoolOK(d)
  BY <1>2, GenesisIsBlock, EmptySeq DEF BlocksOK, PoolOK
<1>5. Held(d) = {}
  BY <1>2, <1>3 DEF Held, InPool, BallotsIn
<1> QED BY <1>1, <1>4, <1>5 DEF ChainTyped

(* try_update_longest changes nothing, or puts the lost ballots into the   *)
(* pool, or replaces the end of the chain as well.                         *)
Pooled(c, fork, d) ==
    d.ballot_pool = c.ballot_pool \o LostBallots(c, fork)

UpdateReplaced(c, fork, bs, d) ==
    /\ AcceptsFork(c, fork, bs) /\ Pooled(c, fork, d)
    /\ ReplacesFrom(c, fork, bs, d.db) /\ d.height = fork + Len(bs) - 1

LEMMA UpdateCases ==
    ASSUME NEW c, StoreOK(c), NEW fork \in Nat \ {0}, NEW bs, Len(bs) \in Nat \ {0},
           NEW committed, NEW d, d = TryUpdateLongest(c, fork, bs, committed)
    PROVE  \/ d = c
           \/ ~committed /\ Pooled(c, fork, d) /\ d.db = c.db /\ d.height = c.height
           \/ UpdateReplaced(c, fork, bs, d)
<1>1. PICK pooled : pooled = [c EXCEPT !.ballot_pool = c.ballot_pool \o LostBallots(c, fork)]
  OBVIOUS
<1>2. pooled.db = c.db /\ pooled.height = c.height /\ StoreOK(pooled)
  BY <1>1, WithPool
<1>3. Pooled(c, fork, pooled)
  BY <1>1, PoolReplaced DEF Pooled
<1>4. CASE AcceptsFork(c, fork, bs) /\ d = WithBlocks(pooled, Replaced(c, fork, bs), fork + Len(bs) - 1)
  <2>1. /\ d.db = Replaced(c, fork, bs) /\ d.height = fork + Len(bs) - 1
        /\ d.ballot_pool = pooled.ballot_pool
    BY <1>4 DEF WithBlocks
  <2>2. ReplacesFrom(c, fork, bs, Replaced(c, fork, bs))
    BY ReplacedTable
  <2> QED BY <1>3, <1>4, <2>1, <2>2 DEF UpdateReplaced, Pooled
<1>5. CASE d = pooled /\ ~committed
  BY <1>2, <1>3, <1>5
<1> QED BY <1>1, <1>4, <1>5 DEF TryUpdateLongest

LEMMA UpdateTyped ==
    ASSUME NEW c, ChainTyped(c), NEW fork \in Nat \ {0}, NEW bs, Len(bs) \in Nat \ {0},
           \A k \in 1..Len(bs) : IsBlock(bs[k]),
           NEW committed, NEW d, d = TryUpdateLongest(c, fork, bs, committed)
    PROVE  /\ ChainTyped(d)
           /\ \A x \in Held(d) : x \in Held(c) \/ \E k \in 1..Len(bs) : x \in ToSet(bs[k].ballots)
<1> DEFINE New == UNION {ToSet(bs[k].ballots) : k \in 1..Len(bs)}
<1>1. StoreOK(c) /\ BlocksOK(c) /\ PoolOK(c) /\ StoreOK(d)
  BY TryUpdateLongestChain DEF ChainTyped
<1>2. CASE d = c
  BY <1>2
<1>3. /\ LostBallots(c, fork) \in Seq(Ballot)
      /\ ToSet(LostBallots(c, fork)) \subseteq BallotsIn(c, DOMAIN c.db)
  BY LostBallotsProperties DEF BallotsIn
<1>4. ASSUME Pooled(c, fork, d) PROVE PoolOK(d) /\ InPool(d) \subseteq Held(c)
  <2>1. d.ballot_pool \in Seq(Ballot)
    BY <1>1, <1>3, <1>4, ConcatProperties DEF Pooled, PoolOK
  <2>2. ToSet(d.ballot_pool) = ToSet(c.ballot_pool) \cup ToSet(LostBallots(c, fork))
    BY <1>1, <1>3, <1>4, ToSetConcat DEF Pooled, PoolOK
  <2> QED BY <1>3, <2>1, <2>2 DEF PoolOK, InPool, Held
<1>5. CASE Pooled(c, fork, d) /\ d.db = c.db
  <2>1. BlocksOK(d) /\ BallotsIn(d, DOMAIN d.db) = BallotsIn(c, DOMAIN c.db)
    BY <1>1, <1>5 DEF BlocksOK, BallotsIn
  <2> QED BY <1>1, <1>4, <1>5, <2>1 DEF ChainTyped, Held
<1>6. CASE UpdateReplaced(c, fork, bs, d)
  <2>1. ASSUME NEW i \in DOMAIN d.db
        PROVE  \/ \E k \in 1..Len(bs) : d.db[i] = bs[k]
               \/ i \in DOMAIN c.db /\ d.db[i] = c.db[i]
    <3>1. PICK last : last = fork + Len(bs) - 1 /\ last \in Nat
      OBVIOUS
    <3>2. /\ DOMAIN d.db = (DOMAIN c.db \ (fork..(c.height - 1))) \cup (fork..last)
          /\ \A j \in fork..last : d.db[j] = bs[j - fork + 1]
          /\ \A j \in DOMAIN c.db :
                 j < fork \/ (j > last /\ j >= c.height) => d.db[j] = c.db[j]
      BY <1>6, <3>1 DEF UpdateReplaced, ReplacesFrom
    <3>3. c.height \in Nat /\ DOMAIN c.db \subseteq Nat
      BY <1>1 DEF StoreOK
    <3>4. CASE i \in fork..last
      <4>1. i - fork + 1 \in 1..Len(bs)
        BY <3>1, <3>4
      <4> QED BY <3>2, <3>4, <4>1
    <3>5. CASE i \notin fork..last
      <4>1. i \in DOMAIN c.db /\ i \notin fork..(c.height - 1)
        BY <3>2, <3>5
      <4>2. i < fork \/ (i > last /\ i >= c.height)
        BY <3>1, <3>3, <3>5, <4>1
      <4> QED BY <3>2, <4>1, <4>2
    <3> QED BY <3>4, <3>5
  <2>2. BlocksOK(d)
    BY <1>1, <2>1 DEF BlocksOK
  <2>3. ASSUME NEW x \in BallotsIn(d, DOMAIN d.db) PROVE x \in Held(c) \cup New
    <3>1. PICK i \in DOMAIN d.db : x \in ToSet(d.db[i].ballots)
      BY <2>3, InBlocks
    <3>2. CASE \E k \in 1..Len(bs) : d.db[i] = bs[k]
      BY <3>1, <3>2
    <3>3. CASE i \in DOMAIN c.db /\ d.db[i] = c.db[i]
      BY <3>1, <3>3, InBlocks DEF Held
    <3> QED BY <2>1, <3>2, <3>3
  <2>4. PoolOK(d) /\ InPool(d) \subseteq Held(c)
    BY <1>4, <1>6 DEF UpdateReplaced
  <2> QED BY <1>1, <2>2, <2>3, <2>4 DEF ChainTyped, Held
<1> QED BY <1>1, <1>2, <1>5, <1>6, UpdateCases

(* Of the ballots in the pool and in blocks below the head, an update      *)
(* loses none: a block is stripped, and its ballots pooled, or it lies     *)
(* below the fork and stays, as all do when the update does not commit.    *)
LEMMA UpdateKeeps ==
    ASSUME NEW c, ChainTyped(c), NEW fork \in Nat \ {0}, NEW bs, Len(bs) \in Nat \ {0},
           NEW committed, NEW d, d = TryUpdateLongest(c, fork, bs, committed),
           NEW x \in InPool(c) \cup BallotsIn(c, 1..(c.height - 1))
    PROVE  x \in InPool(d) \cup BallotsIn(d, 1..d.height)
<1>1. c.height \in Nat \ {0} /\ StoreOK(c) /\ DOMAIN c.db \subseteq Nat
  BY DEF ChainTyped, StoreOK
<1>2. \/ d = c
      \/ Pooled(c, fork, d) /\ d.db = c.db /\ d.height = c.height
      \/ UpdateReplaced(c, fork, bs, d)
  BY <1>1, UpdateCases
<1>3. ASSUME Pooled(c, fork, d)
      PROVE  ToSet(d.ballot_pool) = ToSet(c.ballot_pool) \cup BallotsIn(c, Stripped(c, fork))
  <2>1. /\ LostBallots(c, fork) \in Seq(Ballot)
        /\ ToSet(LostBallots(c, fork)) = BallotsIn(c, Stripped(c, fork))
    BY LostBallotsProperties
  <2>2. ToSet(c.ballot_pool \o LostBallots(c, fork))
          = ToSet(c.ballot_pool) \cup ToSet(LostBallots(c, fork))
    BY <2>1, ToSetConcat DEF ChainTyped, PoolOK
  <2> QED BY <1>3, <2>1, <2>2 DEF Pooled
<1>4. CASE Pooled(c, fork, d) /\ d.db = c.db /\ d.height = c.height
  <2>1. 1..(c.height - 1) \subseteq 1..c.height
    BY <1>1
  <2> QED BY <1>3, <1>4, <2>1 DEF BallotsIn, InPool
<1>5. CASE d = c
  <2>1. 1..(c.height - 1) \subseteq 1..c.height
    BY <1>1
  <2> QED BY <1>5, <2>1 DEF BallotsIn
<1>6. CASE UpdateReplaced(c, fork, bs, d)
  <2>1. ToSet(d.ballot_pool) = ToSet(c.ballot_pool) \cup BallotsIn(c, Stripped(c, fork))
    BY <1>3, <1>6 DEF UpdateReplaced
  <2>2. CASE x \in InPool(c)
    BY <2>1, <2>2 DEF InPool
  <2>3. CASE x \in BallotsIn(c, 1..(c.height - 1))
    <3>1. PICK i \in 1..(c.height - 1) : i \in DOMAIN c.db /\ x \in ToSet(c.db[i].ballots)
      BY <2>3, InBlocks
    <3>2. CASE i >= fork
      <4>1. i \in Stripped(c, fork)
        BY <1>1, <3>1, <3>2 DEF Stripped
      <4>2. x \in BallotsIn(c, Stripped(c, fork))
        BY <3>1, <4>1, InBlocks
      <4> QED BY <2>1, <4>2 DEF InPool
    <3>3. CASE ~(i >= fork)
      <4>1. PICK last : last = fork + Len(bs) - 1 /\ last \in Nat /\ last >= fork
        OBVIOUS
      <4>2. i < fork /\ i \notin fork..(c.height - 1) /\ i \in 1..last
        BY <1>1, <3>1, <3>3, <4>1
      <4>3. i \in DOMAIN d.db /\ d.db[i] = c.db[i] /\ d.height = last
        BY <1>6, <3>1, <4>1, <4>2 DEF UpdateReplaced, ReplacesFrom
      <4> QED BY <3>1, <4>2, <4>3, InBlocks
    <3> QED BY <3>2, <3>3
  <2> QED BY <2>2, <2>3
<1> QED BY <1>2, <1>4, <1>5, <1>6

(* What a chain sends of itself is blocks it holds. *)
LEMMA BlocksFromHeld ==
    ASSUME NEW p, ChainTyped(p), NEW fork \in Nat \ {0}, NEW F, F = BlocksFrom(p, fork)
    PROVE  /\ Len(F) \in Nat
           /\ \A k \in 1..Len(F) : \E i \in DOMAIN p.db : F[k] = p.db[i]
<1>1. p.height \in Nat
  BY DEF ChainTyped, StoreOK
<1>2. PICK n \in Int : n = p.height - fork + 1
  BY <1>1
<1>3. CASE n \in Nat /\ \A i \in fork..p.height : HasBlock(p, i)
  <2>1. F = [k \in 1..n |-> p.db[fork + k - 1]]
    BY <1>2, <1>3 DEF BlocksFrom
  <2>2. Len(F) = n
    BY <1>3, <2>1
  <2>3. ASSUME NEW k \in 1..n PROVE \E i \in DOMAIN p.db : F[k] = p.db[i]
    <3>1. fork + k - 1 \in fork..p.height
      BY <1>1, <1>2, <1>3
    <3> QED BY <1>3, <2>1, <3>1 DEF HasBlock
  <2> QED BY <1>3, <2>2, <2>3
<1>4. CASE ~(n \in Nat /\ \A i \in fork..p.height : HasBlock(p, i))
  <2>1. F = <<>>
    <3>1. CASE n \notin Nat
      <4>1. 1..n = {}
        BY <1>2, <3>1
      <4>2. [k \in 1..n |-> p.db[fork + k - 1]] = <<>>
        BY <4>1
      <4> QED BY <1>2, <4>2 DEF BlocksFrom
    <3>2. CASE ~(\A i \in fork..p.height : HasBlock(p, i))
      BY <3>2 DEF BlocksFrom
    <3> QED BY <1>4, <3>1, <3>2
  <2>2. Len(F) = 0
    BY <2>1
  <2> QED BY <2>2
<1> QED BY <1>3, <1>4

(* F is a linked fragment that starts with the node's own block at fork    *)
(* and reaches its height.                                                 *)
Fits(F, fork, c) ==
    /\ fork \in 1..c.height
    /\ Len(F) \in Nat \ {0}
    /\ fork + Len(F) - 1 >= c.height
    /\ Hash(F[1]) = Hash(c.db[fork])
    /\ IsValidChain(F)

(* What the peer's own chain has from fork on fits, if it is no shorter.   *)
LEMMA PeersBlocksFit ==
    ASSUME NEW c, NEW p, StoreOK(c), StoreOK(p), Clean(p), Linked(p),
           NEW fork \in 1..c.height, HasBlock(p, fork),
           Hash(p.db[fork]) = Hash(c.db[fork]), p.height >= c.height
    PROVE  Fits(BlocksFrom(p, fork), fork, c)
<1> DEFINE n == p.height - fork + 1
<1>0. PICK F : F = BlocksFrom(p, fork)
  OBVIOUS
<1>1. /\ c.height \in Nat /\ p.height \in Nat /\ fork \in Nat /\ fork >= 1
      /\ DOMAIN p.db = 1..p.height /\ fork <= p.height
  BY DEF StoreOK, Clean, HasBlock
<1>2. F = [k \in 1..n |-> p.db[fork + k - 1]]
  BY <1>0, <1>1 DEF BlocksFrom, HasBlock
<1>3. n \in Nat \ {0} /\ n = p.height - fork + 1 /\ fork + n - 1 = p.height
  BY <1>1
<1> HIDE DEF n
<1>4. Len(F) = n
  BY <1>2, <1>3
<1>5. Hash(F[1]) = Hash(c.db[fork])
  <2>1. F[1] = p.db[fork + 1 - 1] /\ fork + 1 - 1 = fork
    BY <1>1, <1>2, <1>3
  <2> QED BY <2>1
<1>6. IsValidChain(F)
  <2> SUFFICES ASSUME NEW i \in 1..n - 1 PROVE IsValid(F[i + 1], F[i])
    BY <1>4 DEF IsValidChain
  <2>1. F[i] = p.db[fork + i - 1] /\ F[i + 1] = p.db[fork + (i + 1) - 1]
    BY <1>2, <1>3
  <2>2. /\ fork + i \in 2..p.height
        /\ fork + (i + 1) - 1 = fork + i /\ fork + i - 1 = (fork + i) - 1
    <3>1. i \in Int /\ 1 <= i /\ i <= n - 1
      BY <1>3
    <3>2. fork \in Int /\ p.height \in Int /\ n \in Int
      BY <1>1, <1>3
    <3>3. fork + i \in Int /\ 2 <= fork + i /\ fork + i <= p.height
      <4>1. fork + i >= 1 + 1
        BY <1>1, <3>1, <3>2
      <4>2. fork + i <= fork + n - 1
        BY <3>1, <3>2
      <4> QED BY <1>3, <3>1, <3>2, <4>1, <4>2
    <3>4. fork + (i + 1) - 1 = fork + i /\ fork + i - 1 = (fork + i) - 1
      BY <3>1, <3>2
    <3> QED BY <3>2, <3>3, <3>4
  <2>3. IsValid(p.db[fork + i], p.db[(fork + i) - 1])
    BY <2>2 DEF Linked
  <2> QED BY <2>1, <2>2, <2>3
<1>7. fork + Len(F) - 1 >= c.height
  BY <1>3, <1>4
<1>8. Fits(F, fork, c)
  BY <1>3, <1>4, <1>5, <1>6, <1>7 DEF Fits
<1> QED BY <1>0, <1>8

----------------------------------------------------------------------------
(* What a hash vouches for. *)

LEMMA SameHashSameBlock ==
    ASSUME NEW a, NEW b, IsBlock(a), IsBlock(b), Hash(a) = Hash(b)
    PROVE  a = b
<1>1. /\ a.timestamp = b.timestamp /\ a.previous_hash = b.previous_hash
      /\ a.ballots = b.ballots
  BY DEF Hash
<1> QED BY <1>1 DEF IsBlock

Sound(c) == StoreOK(c) /\ Clean(c) /\ Linked(c) /\ BlocksOK(c)

(* Chains that agree on a hash, at whatever heights, agree on every block  *)
(* before it that both have: one step below the first difference on the    *)
(* way down the hashes agree again.                                        *)
LEMMA SameHashSameHistory ==
    ASSUME NEW c, NEW p, Sound(c), Sound(p), NEW h \in 1..c.height, NEW k \in 1..p.height,
           h <= k, Hash(c.db[h]) = Hash(p.db[k])
    PROVE  \A j \in 0..(h - 1) : c.db[h - j] = p.db[k - j]
<1>1. /\ c.height \in Nat /\ p.height \in Nat
      /\ DOMAIN c.db = 1..c.height /\ DOMAIN p.db = 1..p.height
      /\ \A i \in 1..c.height : IsBlock(c.db[i])
      /\ \A i \in 1..p.height : IsBlock(p.db[i])
  BY DEF Sound, StoreOK, Clean, BlocksOK
<1> DEFINE D == {j \in 0..(h - 1) : c.db[h - j] # p.db[k - j]}
<1> SUFFICES ASSUME D # {} PROVE FALSE
  OBVIOUS
<1>2. PICK j \in D : \A i \in D : ~(i < j)
  BY Least, D \subseteq Nat, D # {}
<1>3. /\ j \in Nat /\ j <= h - 1 /\ c.db[h - j] # p.db[k - j]
      /\ h \in Nat /\ k \in Nat /\ h <= c.height /\ k <= p.height
  <2>1. h \in Nat /\ k \in Nat /\ h <= c.height /\ k <= p.height
    BY <1>1
  <2>2. j \in 0..(h - 1) /\ c.db[h - j] # p.db[k - j]
    OBVIOUS
  <2> HIDE DEF D
  <2> QED BY <2>1, <2>2
<1> HIDE DEF D
<1>4. Hash(c.db[h - j]) # Hash(p.db[k - j])
  <2>1. h - j \in 1..c.height /\ k - j \in 1..p.height
    BY <1>1, <1>3
  <2> QED BY <1>1, <1>3, <2>1, SameHashSameBlock
<1>5. j # 0
  <2>1. h - 0 = h /\ k - 0 = k
    BY <1>3
  <2> QED BY <1>4, <2>1
<1>6. c.db[h - (j - 1)] = p.db[k - (j - 1)]
  <2>1. j - 1 \in 0..(h - 1) /\ j - 1 < j
    BY <1>3, <1>5
  <2>2. j - 1 \notin D
    BY <1>2, <2>1
  <2> QED BY <2>1, <2>2 DEF D
<1>7. /\ h - (j - 1) \in 2..c.height /\ k - (j - 1) \in 2..p.height
      /\ (h - (j - 1)) - 1 = h - j /\ (k - (j - 1)) - 1 = k - j
  BY <1>1, <1>3, <1>5
<1>8. /\ IsValid(c.db[h - (j - 1)], c.db[h - j])
      /\ IsValid(p.db[k - (j - 1)], p.db[k - j])
  BY <1>7 DEF Sound, Linked
<1> QED BY <1>4, <1>6, <1>8 DEF IsValid

(* Every chain starts from the same block, which names no predecessor.     *)
Rooted(c) == c.db[1] = GenesisBlock

LEMMA NoLongerHistory ==
    ASSUME NEW c, NEW p, Sound(c), Sound(p), Rooted(c),
           NEW h \in 1..c.height, NEW k \in 1..p.height, h <= k, Hash(c.db[h]) = Hash(p.db[k])
    PROVE  h = k
<1>1. c.height \in Nat /\ p.height \in Nat
  BY DEF Sound, StoreOK
<1>2. h \in Nat \ {0} /\ k \in Nat \ {0} /\ k <= p.height
  BY <1>1
<1>3. \A j \in 0..(h - 1) : c.db[h - j] = p.db[k - j]
  <2>1. ASSUME NEW j \in 0..(h - 1) PROVE c.db[h - j] = p.db[k - j]
    BY SameHashSameHistory
  <2> QED BY <2>1
<1> SUFFICES ASSUME h # k PROVE FALSE
  BY <1>2
<1>4. c.db[1] = p.db[k - (h - 1)]
  <2>1. h - 1 \in 0..(h - 1) /\ h - (h - 1) = 1
    BY <1>2
  <2> QED BY <1>3, <2>1
<1>5. k - (h - 1) \in 2..p.height
  BY <1>1, <1>2
<1>6. PICK b : p.db[k - (h - 1)].previous_hash = Hash(b)
  BY <1>5 DEF Sound, Linked, IsValid
<1>7. <<>> = Hash(b)
  <2>1. GenesisBlock.previous_hash = <<>>
    BY DEF GenesisBlock
  <2> QED BY <1>4, <1>6, <2>1 DEF Rooted
<1>8. Hash(b) # <<>>
  BY DEF Hash
<1> QED BY <1>7, <1>8

(* The hash of a block fixes its height and every block up to it.          *)
LEMMA SameHashSameBlocks ==
    ASSUME NEW c, NEW p, Sound(c), Sound(p), Rooted(c), Rooted(p),
           NEW h \in 1..c.height, NEW k \in 1..p.height, Hash(c.db[h]) = Hash(p.db[k])
    PROVE  h = k /\ \A i \in 1..h : c.db[i] = p.db[i]
<1>1. c.height \in Nat /\ p.height \in Nat
  BY DEF Sound, StoreOK
<1>2. h \in Nat /\ k \in Nat
  BY <1>1
<1>3. h = k
  <2>1. CASE h <= k
    BY <2>1, NoLongerHistory
  <2>2. CASE k <= h
    BY <2>2, NoLongerHistory
  <2> QED BY <1>2, <2>1, <2>2
<1>4. \A j \in 0..(h - 1) : c.db[h - j] = p.db[k - j]
  <2>1. h <= k
    BY <1>2, <1>3
  <2>2. ASSUME NEW j \in 0..(h - 1) PROVE c.db[h - j] = p.db[k - j]
    BY <2>1, SameHashSameHistory
  <2> QED BY <2>2
<1>5. ASSUME NEW i \in 1..h PROVE c.db[i] = p.db[i]
  <2>1. h - i \in 0..(h - 1) /\ h - (h - i) = i
    BY <1>2
  <2> QED BY <1>3, <1>4, <2>1
<1> QED BY <1>3, <1>5

(* Pooling a ballot appends above the first block, and an update replaces  *)
(* it by one of the same hash if at all.                                   *)
LEMMA PoolBallotRooted ==
    ASSUME NEW c, ChainTyped(c), Clean(c), Rooted(c), NEW ballot \in Ballot, NEW ts,
           NEW committed, NEW d, d = PoolBallot(c, ballot, ts, committed)
    PROVE  Rooted(d)
<1>1. PICK h \in Nat \ {0} : h = c.height
  BY DEF ChainTyped, StoreOK
<1>2. 1 \in DOMAIN c.db /\ 1 # c.height + 1
  BY <1>1 DEF Clean
<1>3. PICK pool : pool = Append(c.ballot_pool, ballot)
  OBVIOUS
<1>4. PoolGrows(c, pool, d) \/ PoolDropped(c, pool, d) \/ PoolMoved(c, pool, ts, d)
  BY <1>3, PoolBallotCases DEF ChainTyped
<1> QED BY <1>2, <1>4 DEF PoolGrows, PoolDropped, PoolMoved, Rooted

LEMMA UpdateRooted ==
    ASSUME NEW c, ChainTyped(c), Clean(c), Rooted(c), NEW fork \in Nat \ {0},
           NEW bs, Len(bs) \in Nat \ {0}, IsBlock(bs[1]),
           NEW committed, NEW d, d = TryUpdateLongest(c, fork, bs, committed)
    PROVE  Rooted(d)
<1>1. 1 \in DOMAIN c.db
  BY DEF ChainTyped, StoreOK, Clean
<1>2. CASE d = c
  BY <1>2
<1>3. CASE d.db = c.db
  BY <1>3 DEF Rooted
<1>4. CASE UpdateReplaced(c, fork, bs, d)
  <2>1. ReplacesFrom(c, fork, bs, d.db) /\ Hash(bs[1]) = Hash(c.db[fork])
    BY <1>4 DEF UpdateReplaced, AcceptsFork
  <2>2. CASE fork = 1
    <3>1. d.db[1] = bs[1]
      <4>1. 1 \in fork..(fork + Len(bs) - 1) /\ 1 - fork + 1 = 1
        BY <2>2
      <4> QED BY <2>1, <4>1 DEF ReplacesFrom
    <3>2. bs[1] = GenesisBlock
      BY <2>1, <2>2, GenesisIsBlock, SameHashSameBlock DEF Rooted
    <3> QED BY <3>1, <3>2 DEF Rooted
  <2>3. CASE fork # 1
    <3>1. 1 < fork
      BY <2>3
    <3>2. d.db[1] = c.db[1]
      BY <1>1, <2>1, <3>1 DEF ReplacesFrom
    <3> QED BY <3>2 DEF Rooted
  <2> QED BY <2>2, <2>3
<1>5. d = c \/ d.db = c.db \/ UpdateReplaced(c, fork, bs, d)
  BY UpdateCases DEF ChainTyped
<1> QED BY <1>2, <1>3, <1>4, <1>5
=============================================================================
