------------------------- MODULE DelegationProofs -------------------------
(***************************************************************************)
(* What holds of resolve_power for every census, every delegation map and  *)
(* every set of voters.                                                    *)
(***************************************************************************)
EXTENDS Delegation, WeightProofs, SequenceTheorems

Distinct(s) == \A i, j \in DOMAIN s : s[i] = s[j] => i = j

Front(s) == SubSeq(s, 1, Len(s) - 1)
Last(s) == s[Len(s)]

----------------------------------------------------------------------------
(* Sequences as stacks. *)

LEMMA PopDistinct ==
    ASSUME NEW s \in Seq(Key), s # <<>>, Distinct(s)
    PROVE  /\ Front(s) \in Seq(Key) /\ Distinct(Front(s))
           /\ Last(s) \in Range(s)
           /\ Range(Front(s)) = Range(s) \ {Last(s)}
<1>0. Len(s) \in Nat /\ Len(s) >= 1
  BY EmptySeq
<1>1. DOMAIN s = 1..Len(s) /\ \A i \in 1..Len(s) : s[i] \in Key
  BY LenProperties
<1>2. /\ Front(s) \in Seq(Key)
      /\ Len(Front(s)) = Len(s) - 1
      /\ \A i \in 1..Len(s) - 1 : Front(s)[i] = s[i]
  <2>1. \A i \in 1..Len(s) - 1 : s[i] \in Key
    BY <1>0, <1>1
  <2>2. /\ Front(s) \in Seq(Key)
        /\ Len(Front(s)) = IF 1 <= Len(s) - 1 THEN Len(s) - 1 - 1 + 1 ELSE 0
        /\ \A i \in 1..Len(s) - 1 - 1 + 1 : Front(s)[i] = s[1 + i - 1]
    BY <1>0, <1>1, <2>1, SubSeqProperties, 1 \in Int, Len(s) - 1 \in Int DEF Front
  <2>3. ASSUME NEW i \in 1..Len(s) - 1 PROVE Front(s)[i] = s[i]
    <3>1. i \in 1..Len(s) - 1 - 1 + 1 /\ 1 + i - 1 = i
      BY <1>0
    <3> QED BY <2>2, <3>1
  <2>4. Len(Front(s)) = Len(s) - 1
    <3>1. \A n \in Nat : n >= 1 => (IF 1 <= n - 1 THEN n - 1 - 1 + 1 ELSE 0) = n - 1
      OBVIOUS
    <3> QED BY <1>0, <2>2, <3>1
  <2> QED BY <2>2, <2>3, <2>4
<1>3. DOMAIN Front(s) = 1..Len(s) - 1
  BY <1>0, <1>1, <1>2, LenProperties
<1>4. Distinct(Front(s))
  BY <1>0, <1>1, <1>2, <1>3 DEF Distinct
<1>5. Last(s) \in Range(s)
  BY <1>0, <1>1 DEF Last, Range
<1>6. ASSUME NEW x \in Range(Front(s)) PROVE x \in Range(s) \ {Last(s)}
  <2>1. PICK i \in 1..Len(s) - 1 : x = Front(s)[i]
    BY <1>3 DEF Range
  <2>2. i \in DOMAIN s /\ i # Len(s) /\ Len(s) \in DOMAIN s
    <3>1. i \in 1..Len(s) /\ i # Len(s) /\ Len(s) \in 1..Len(s)
      BY <1>0
    <3> QED BY <1>1, <3>1
  <2>3. x = s[i]
    BY <1>2, <2>1
  <2> QED BY <2>2, <2>3 DEF Distinct, Last, Range
<1>7. ASSUME NEW x \in Range(s) \ {Last(s)} PROVE x \in Range(Front(s))
  <2>1. PICK i \in 1..Len(s) : x = s[i]
    BY <1>0, <1>1 DEF Range
  <2>2. i \in 1..Len(s) - 1
    BY <1>0, <1>1, <2>1 DEF Last
  <2> QED BY <1>2, <1>3, <2>1, <2>2 DEF Range
<1> QED BY <1>2, <1>4, <1>5, <1>6, <1>7

LEMMA PushDistinct ==
    ASSUME NEW s \in Seq(Key), Distinct(s),
           NEW P \in SUBSET Key, IsFiniteSet(P), P \cap Range(s) = {},
           NEW t \in Listings(P)
    PROVE  /\ s \o t \in Seq(Key) /\ Distinct(s \o t)
           /\ Range(s \o t) = Range(s) \cup P
<1>1. /\ t \in [1..Cardinality(P) -> P] /\ Distinct(t)
      /\ \A x \in P : \E i \in DOMAIN t : t[i] = x
  BY DEF Listings, Distinct
<1>2. Cardinality(P) \in Nat
  BY FS_CardinalityType
<1>3. t \in Seq(Key)
  <2>1. t \in Seq(P)
    BY <1>1, <1>2
  <2>2. Len(t) \in Nat /\ DOMAIN t = 1..Len(t) /\ \A i \in 1..Len(t) : t[i] \in Key
    BY <1>1, <2>1, LenProperties
  <2>3. t \in [1..Len(t) -> Key]
    BY <1>1, <2>2
  <2> QED BY <2>2, <2>3
<1>4. /\ Len(s) \in Nat /\ DOMAIN s = 1..Len(s)
      /\ Len(t) \in Nat /\ DOMAIN t = 1..Len(t)
  BY <1>3, LenProperties
<1>5. /\ s \o t \in Seq(Key)
      /\ Len(s \o t) = Len(s) + Len(t)
      /\ \A i \in 1..Len(s) + Len(t) :
            (s \o t)[i] = IF i <= Len(s) THEN s[i] ELSE t[i - Len(s)]
  BY <1>3, ConcatProperties
<1>6. DOMAIN (s \o t) = 1..Len(s) + Len(t)
  BY <1>5, LenProperties
<1>7. \A i \in DOMAIN s, j \in DOMAIN t : s[i] # t[j]
  BY <1>1 DEF Range
<1>8. Distinct(s \o t)
  <2> SUFFICES ASSUME NEW i \in 1..Len(s) + Len(t), NEW j \in 1..Len(s) + Len(t),
                      (s \o t)[i] = (s \o t)[j]
               PROVE  i = j
    BY <1>6 DEF Distinct
  <2>1. CASE i <= Len(s) /\ j <= Len(s)
    BY <1>4, <1>5, <2>1 DEF Distinct
  <2>2. CASE i <= Len(s) /\ j > Len(s)
    BY <1>4, <1>5, <1>7, <2>2
  <2>3. CASE i > Len(s) /\ j <= Len(s)
    BY <1>4, <1>5, <1>7, <2>3
  <2>4. CASE i > Len(s) /\ j > Len(s)
    <3>1. i - Len(s) \in DOMAIN t /\ j - Len(s) \in DOMAIN t /\ t[i - Len(s)] = t[j - Len(s)]
      BY <1>4, <1>5, <2>4
    <3>2. i - Len(s) = j - Len(s)
      BY <1>1, <3>1 DEF Distinct
    <3> QED BY <1>4, <3>2
  <2> QED BY <1>4, <2>1, <2>2, <2>3, <2>4
<1>9. ASSUME NEW x \in Range(s \o t) PROVE x \in Range(s) \cup P
  <2>1. PICK i \in 1..Len(s) + Len(t) : x = (s \o t)[i]
    BY <1>6 DEF Range
  <2>2. CASE i <= Len(s)
    BY <1>4, <1>5, <2>1, <2>2 DEF Range
  <2>3. CASE i > Len(s)
    <3>1. i - Len(s) \in 1..Len(t)
      BY <1>4, <2>3
    <3>2. x = t[i - Len(s)]
      BY <1>4, <1>5, <2>1, <2>3
    <3> QED BY <1>1, <1>4, <3>1, <3>2
  <2> QED BY <1>4, <2>2, <2>3
<1>10. ASSUME NEW x \in Range(s) PROVE x \in Range(s \o t)
  <2>1. PICK i \in 1..Len(s) : x = s[i]
    BY <1>4 DEF Range
  <2>2. i \in 1..Len(s) + Len(t) /\ (s \o t)[i] = x
    BY <1>4, <1>5, <2>1
  <2> QED BY <1>6, <2>2 DEF Range
<1>11. ASSUME NEW x \in P PROVE x \in Range(s \o t)
  <2>1. PICK j \in 1..Len(t) : x = t[j]
    BY <1>1, <1>4
  <2>2. Len(s) + j \in 1..Len(s) + Len(t) /\ (s \o t)[Len(s) + j] = x
    BY <1>4, <1>5, <2>1
  <2> QED BY <1>6, <2>2 DEF Range
<1> QED BY <1>5, <1>8, <1>9, <1>10, <1>11

----------------------------------------------------------------------------
(* The invariant. *)

Found == visited \cup Range(stack)

Types ==
    /\ delegation_map \in DelegationMaps
    /\ voters \subseteq Key
    /\ DOMAIN weights \subseteq voters
    /\ \A v \in DOMAIN weights : weights[v] \in 1..Cardinality(Key)
    /\ current \in voters \cup {None}
    /\ stack \in Seq(Key)
    /\ visited \subseteq Key
    /\ accumulator \in Nat

(* Nothing is left on the stack between two voters. *)
Idle == current = None => stack = <<>>

(* The traversal has found its voter, and only what it must find ...       *)
Sound ==
    current # None =>
        /\ current \notin DOMAIN weights
        /\ current \in Found
        /\ \A S \in SUBSET Key :
              ClosedFor(delegation_map, voters, current, S) => Found \subseteq S

(* ... with everyone who delegates to a visited key ...                    *)
Complete ==
    current # None =>
        \A k \in visited : Delegators(delegation_map, k) \ voters \subseteq Found

(* ... and each key but the first through its one delegate, which has been *)
(* visited: whoever delegates to a key not visited yet is not found yet.   *)
FoundThroughDelegate ==
    current # None =>
        \A k \in Found \ {current} :
            k \in DOMAIN delegation_map /\ delegation_map[k] \in visited

IInv == Types /\ NoneTwice /\ Idle /\ Sound /\ Complete /\ FoundThroughDelegate

LEMMA FiniteKeys == \A S \in SUBSET Key : IsFiniteSet(S) /\ Cardinality(S) <= Cardinality(Key)
BY CensusAssumption, FS_Subset

LEMMA DelegatorsAreKeys ==
    ASSUME NEW map \in DelegationMaps, NEW k
    PROVE  Delegators(map, k) \subseteq Key
<1>1. DOMAIN map \subseteq Census
  BY DEF DelegationMaps
<1> QED BY <1>1, CensusAssumption DEF Delegators

LEMMA InitIInv == Init => IInv
<1> SUFFICES ASSUME Init PROVE IInv
  OBVIOUS
<1>1. Types
  BY EmptySeq DEF Init, Abstract!Init, Abstract!DelegationMaps, DelegationMaps, Types
<1>2. Range(stack) = {} /\ DOMAIN stack = {}
  BY DEF Init, Range
<1>3. NoneTwice
  BY <1>2, FS_EmptySet DEF Init, NoneTwice
<1>4. Idle /\ Sound /\ Complete /\ FoundThroughDelegate
  BY DEF Init, Idle, Sound, Complete, FoundThroughDelegate
<1> QED BY <1>1, <1>3, <1>4 DEF IInv

LEMMA ResolveIInv == ASSUME IInv, NEW v \in voters, Resolve(v) PROVE IInv'
<1>1. /\ stack' = <<v>> /\ visited' = {} /\ current' = v /\ accumulator' = 0
      /\ UNCHANGED <<delegation_map, voters, weights>>
      /\ v \in Key /\ v # None /\ v \notin DOMAIN weights
  BY NoneAssumption DEF IInv, Types, Resolve, ToResolve
<1>2. /\ <<v>> \in Seq(Key) /\ DOMAIN <<v>> = {1} /\ <<v>>[1] = v
      /\ Range(<<v>>) = {v}
  BY <1>1 DEF Range
<1>3. Types'
  BY <1>1, <1>2 DEF IInv, Types
<1>4. NoneTwice'
  BY <1>1, <1>2, FS_EmptySet DEF NoneTwice
<1>5. Found' = {v}
  BY <1>1, <1>2 DEF Found
<1>6. Idle' /\ Complete' /\ FoundThroughDelegate'
  BY <1>1, <1>5 DEF Idle, Complete, FoundThroughDelegate
<1>7. Sound'
  BY <1>1, <1>5 DEF Sound, ClosedFor
<1> QED BY <1>3, <1>4, <1>6, <1>7 DEF IInv

(* What a turn of the loop does to stack and visited, as sets.             *)
LEMMA VisitFinds ==
    ASSUME IInv, Visit
    PROVE  LET next == Last(stack)
           IN /\ stack # <<>> /\ current # None
              /\ next \in Range(stack) /\ next \in Key /\ next \notin visited
              /\ Pushed(next) \cap Range(stack) = {}
              /\ stack' \in Seq(Key) /\ Distinct(stack')
              /\ Range(stack') = (Range(stack) \ {next}) \cup Pushed(next)
              /\ Found' = Found \cup Pushed(next)
              /\ visited' = visited \cup {next}
<1> DEFINE next == Last(stack)
<1>1. /\ stack # <<>> /\ current # None /\ stack \in Seq(Key) /\ Distinct(stack)
      /\ visited' = visited \cup {next}
      /\ \E s \in Listings(Pushed(next)) : stack' = Front(stack) \o s
  BY DEF IInv, Types, Idle, NoneTwice, Distinct, Visit, Front, Last
<1>2. /\ Front(stack) \in Seq(Key) /\ Distinct(Front(stack))
      /\ next \in Range(stack)
      /\ Range(Front(stack)) = Range(stack) \ {next}
  BY <1>1, PopDistinct
<1>3. Range(stack) \subseteq Key /\ \A k \in Range(stack) : k \notin visited
  BY <1>1, LenProperties DEF IInv, NoneTwice, Range
<1>4. /\ Pushed(next) \in SUBSET Key
      /\ \A k \in Pushed(next) : k \notin voters /\ k # next /\ delegation_map[k] = next
  <2>1. Delegators(delegation_map, next) \subseteq Key
    BY DelegatorsAreKeys DEF IInv, Types
  <2> QED BY <2>1 DEF Pushed, Delegators
<1>5. Pushed(next) \cap Range(stack) = {}
  <2> SUFFICES ASSUME NEW k \in Pushed(next), k \in Range(stack) PROVE FALSE
    OBVIOUS
  <2>1. k # current
    BY <1>1, <1>4 DEF IInv, Types
  <2>2. delegation_map[k] \in visited
    BY <1>1, <2>1 DEF IInv, FoundThroughDelegate, Found
  <2> QED BY <1>2, <1>3, <1>4, <2>2
<1>6. IsFiniteSet(Pushed(next)) /\ Pushed(next) \cap Range(Front(stack)) = {}
  BY <1>2, <1>4, <1>5, FiniteKeys
<1>7. PICK s \in Listings(Pushed(next)) : stack' = Front(stack) \o s
  BY <1>1
<1>8. /\ stack' \in Seq(Key) /\ Distinct(stack')
      /\ Range(stack') = Range(Front(stack)) \cup Pushed(next)
  BY <1>2, <1>4, <1>6, <1>7, PushDistinct
<1>9. Range(stack') = (Range(stack) \ {next}) \cup Pushed(next)
  BY <1>2, <1>8
<1>10. Found' = Found \cup Pushed(next)
  BY <1>1, <1>2, <1>9 DEF Found
<1> QED BY <1>1, <1>2, <1>3, <1>5, <1>8, <1>9, <1>10

LEMMA VisitIInv == ASSUME IInv, Visit PROVE IInv'
<1> DEFINE next == Last(stack)
<1>1. /\ current # None
      /\ next \in Range(stack) /\ next \in Key /\ next \notin visited
      /\ Pushed(next) \cap Range(stack) = {}
      /\ stack' \in Seq(Key) /\ Distinct(stack')
      /\ Range(stack') = (Range(stack) \ {next}) \cup Pushed(next)
      /\ Found' = Found \cup Pushed(next)
      /\ visited' = visited \cup {next}
  BY VisitFinds
<1>2. /\ accumulator' = accumulator + 1
      /\ UNCHANGED <<delegation_map, voters, weights, current>>
  BY DEF Visit
<1>3. /\ Pushed(next) \subseteq Delegators(delegation_map, next) \ voters
      /\ \A k \in Pushed(next) : /\ k \notin visited /\ k # next
                                 /\ k \in DOMAIN delegation_map /\ delegation_map[k] = next
      /\ Delegators(delegation_map, next) \ voters \subseteq Found \cup Pushed(next)
  BY <1>1 DEF Pushed, Delegators, Found
<1>4. Types'
  BY <1>1, <1>2 DEF IInv, Types
<1>5. NoneTwice'
  <2>1. \A i \in DOMAIN stack : stack[i] \notin visited
    BY DEF IInv, NoneTwice
  <2>2. \A k \in Range(stack') : k \notin visited'
    BY <1>1, <1>3, <2>1 DEF Range
  <2>3. \A i \in DOMAIN stack' : stack'[i] \notin visited'
    BY <2>2 DEF Range
  <2>4. accumulator' = Cardinality(visited')
    <3>1. IsFiniteSet(visited) /\ accumulator = Cardinality(visited)
      BY FiniteKeys DEF IInv, Types, NoneTwice
    <3> QED BY <1>1, <1>2, <3>1, FS_AddElement
  <2> QED BY <1>1, <2>3, <2>4 DEF NoneTwice, Distinct
<1>6. Idle'
  BY <1>1, <1>2 DEF Idle
<1>7. Sound'
  <2>1. next \in Found
    BY <1>1 DEF Found
  <2>2. ASSUME NEW S \in SUBSET Key, ClosedFor(delegation_map, voters, current, S)
        PROVE  Found \cup Pushed(next) \subseteq S
    <3>1. Found \subseteq S
      BY <1>1, <2>2 DEF IInv, Sound
    <3>2. Delegators(delegation_map, next) \ voters \subseteq S
      BY <2>1, <2>2, <3>1 DEF ClosedFor
    <3> QED BY <1>3, <3>1, <3>2
  <2>3. current \notin DOMAIN weights /\ current \in Found
    BY <1>1 DEF IInv, Sound
  <2> QED BY <1>1, <1>2, <2>2, <2>3 DEF Sound
<1>8. Complete'
  <2>1. \A k \in visited : Delegators(delegation_map, k) \ voters \subseteq Found
    BY <1>1 DEF IInv, Complete
  <2> QED BY <1>1, <1>2, <1>3, <2>1 DEF Complete
<1>9. FoundThroughDelegate'
  <2>1. \A k \in Found \ {current} :
            k \in DOMAIN delegation_map /\ delegation_map[k] \in visited
    BY <1>1 DEF IInv, FoundThroughDelegate
  <2> QED BY <1>1, <1>2, <1>3, <2>1 DEF FoundThroughDelegate
<1> QED BY <1>4, <1>5, <1>6, <1>7, <1>8, <1>9 DEF IInv

(* When the stack is empty, the visited keys are closed, and so are the    *)
(* smallest closed set.                                                    *)
LEMMA VisitedIsRepresented ==
    ASSUME IInv, Insert
    PROVE  /\ current \in voters \ DOMAIN weights
           /\ current \in visited
           /\ visited = Represented(delegation_map, voters, current)
           /\ accumulator = Weight(delegation_map, voters, current)
<1>1. current # None /\ stack = <<>>
  BY DEF Insert
<1>2. Found = visited
  BY <1>1 DEF Found, Range
<1>3. /\ current \in voters \ DOMAIN weights /\ current \in visited
      /\ visited \in SUBSET Key
  BY <1>1, <1>2 DEF IInv, Types, Sound
<1>4. ClosedFor(delegation_map, voters, current, visited)
  BY <1>1, <1>2, <1>3 DEF IInv, Complete, ClosedFor
<1>5. \A S \in SUBSET Key :
          ClosedFor(delegation_map, voters, current, S) => visited \subseteq S
  BY <1>1, <1>2 DEF IInv, Sound
<1>6. visited = Represented(delegation_map, voters, current)
  BY <1>3, <1>4, <1>5 DEF Represented
<1> QED BY <1>3, <1>6 DEF IInv, NoneTwice, Weight

LEMMA InsertAssigns == ASSUME IInv, Insert PROVE Abstract!Assign(current)
<1>1. \A k : Abstract!Delegators(delegation_map, k) = Delegators(delegation_map, k)
  BY DEF Abstract!Delegators, Delegators
<1>2. \A S : Abstract!ClosedFor(delegation_map, voters, current, S)
               <=> ClosedFor(delegation_map, voters, current, S)
  BY <1>1 DEF Abstract!ClosedFor, ClosedFor
<1>3. Abstract!Represented(delegation_map, voters, current)
        = Represented(delegation_map, voters, current)
  BY <1>2 DEF Abstract!Represented, Represented
<1>4. Abstract!Weight(delegation_map, voters, current)
        = Weight(delegation_map, voters, current)
  BY <1>3 DEF Abstract!Weight, Weight, Abstract!Cardinality, Cardinality
<1> QED BY <1>4, VisitedIsRepresented DEF Insert, Resolved, Abstract!Assign

LEMMA InsertIInv == ASSUME IInv, Insert PROVE IInv'
<1>1. /\ current \in voters \ DOMAIN weights /\ current \in visited
      /\ visited \in SUBSET Key
  BY VisitedIsRepresented DEF IInv, Types
<1>2. /\ weights' = Abstract!With(current, accumulator)
      /\ current' = None /\ stack = <<>>
      /\ UNCHANGED <<delegation_map, voters, stack, visited, accumulator>>
  BY DEF Insert, Resolved
<1>3. accumulator \in 1..Cardinality(Key)
  <2>1. IsFiniteSet(visited) /\ accumulator = Cardinality(visited)
    BY <1>1, FiniteKeys DEF IInv, NoneTwice
  <2>2. accumulator <= Cardinality(Key)
    BY <1>1, <2>1, FiniteKeys
  <2>3. accumulator # 0
    BY <1>1, <2>1, FS_EmptySet
  <2>4. accumulator \in Nat /\ Cardinality(Key) \in Nat
    BY CensusAssumption, FS_CardinalityType DEF IInv, Types
  <2> QED BY <2>2, <2>3, <2>4
<1>4. /\ DOMAIN weights' \subseteq voters
      /\ \A v \in DOMAIN weights' : weights'[v] \in 1..Cardinality(Key)
  <2>1. DOMAIN weights' = DOMAIN weights \cup {current}
    BY <1>2 DEF Abstract!With
  <2>2. \A v \in DOMAIN weights' :
            weights'[v] = IF v = current THEN accumulator ELSE weights[v]
    BY <1>2 DEF Abstract!With
  <2> QED BY <1>1, <1>3, <2>1, <2>2 DEF IInv, Types
<1>5. Types'
  BY <1>2, <1>4 DEF IInv, Types
<1>6. NoneTwice'
  BY <1>2 DEF IInv, NoneTwice
<1>7. Idle' /\ Sound' /\ Complete' /\ FoundThroughDelegate'
  BY <1>2 DEF Idle, Sound, Complete, FoundThroughDelegate
<1> QED BY <1>5, <1>6, <1>7 DEF IInv

LEMMA StutterIInv == IInv /\ UNCHANGED vars => IInv'
BY DEF vars, traversal, IInv, Types, NoneTwice, Idle, Sound, Complete,
       FoundThroughDelegate, Found, Range

LEMMA NextIInv == IInv /\ [Next]_vars => IInv'
BY ResolveIInv, VisitIInv, InsertIInv, StutterIInv DEF Next

LEMMA AlwaysIInv == Spec => []IInv
BY InitIInv, NextIInv, PTL DEF Spec

(* The weights inserted so far are the sizes of what their voters          *)
(* represent.                                                              *)
Weighed == \A v \in DOMAIN weights : weights[v] = Weight(delegation_map, voters, v)

LEMMA NextWeighed == ASSUME IInv, Weighed, [Next]_vars PROVE Weighed'
<1>1. CASE UNCHANGED <<delegation_map, voters, weights>>
  BY <1>1 DEF Weighed
<1>2. CASE Insert
  <2>1. /\ DOMAIN weights' = DOMAIN weights \cup {current}
        /\ \A v \in DOMAIN weights' :
               weights'[v] = IF v = current THEN accumulator ELSE weights[v]
        /\ UNCHANGED <<delegation_map, voters>>
    BY <1>2 DEF Insert, Resolved, Abstract!With
  <2>2. accumulator = Weight(delegation_map, voters, current)
    BY <1>2, VisitedIsRepresented
  <2> QED BY <2>1, <2>2 DEF Weighed
<1>3. \/ UNCHANGED <<delegation_map, voters, weights>>
      \/ Insert
  BY DEF Next, Resolve, Visit, vars
<1> QED BY <1>1, <1>2, <1>3

LEMMA AlwaysWeighed == Spec => []Weighed
<1>1. Init => Weighed
  BY DEF Init, Abstract!Init, Weighed
<1> QED BY <1>1, NextWeighed, AlwaysIInv, PTL DEF Spec

----------------------------------------------------------------------------
(* Every state is of the right type; weights lie between one and the       *)
(* number of keys.                                                         *)
THEOREM TypeCorrect == Spec => []TypeOK
<1>1. IInv => TypeOK
  BY DEF IInv, Types, TypeOK
<1> QED BY <1>1, AlwaysIInv, PTL

(* resolve_power counts no key twice, whatever cycles the delegations      *)
(* have.                                                                   *)
THEOREM CountsKeys == Spec => []NoneTwice
<1>1. IInv => NoneTwice
  BY DEF IInv
<1> QED BY <1>1, AlwaysIInv, PTL

(* generate_weights gives each voter the size of the smallest set that is  *)
(* closed under delegation to it by keys that did not vote.                *)
THEOREM WeighsRepresented == Spec => Implements
<1>1. Init => Abstract!Init
  BY DEF Init
<1>2. ASSUME IInv, [Next]_vars
      PROVE  [Abstract!Next]_<<delegation_map, voters, weights>>
  <2>1. CASE \E v \in voters : Resolve(v)
    BY <2>1 DEF Resolve
  <2>2. CASE Visit
    BY <2>2 DEF Visit
  <2>3. CASE Insert
    <3>1. Abstract!Assign(current) /\ current \in voters
      BY <1>2, <2>3, InsertAssigns, VisitedIsRepresented
    <3> QED BY <3>1 DEF Abstract!Next
  <2>4. CASE UNCHANGED vars
    BY <2>4 DEF vars
  <2> QED BY <1>2, <2>1, <2>2, <2>3, <2>4 DEF Next
<1> QED BY <1>1, <1>2, AlwaysIInv, PTL DEF Spec, Implements, Abstract!Spec

(* The traversal from the voters down gives each of them the keys that     *)
(* reach it first, going up from delegate to delegate: nobody's voice      *)
(* counts for two voters, on any delegation map.                           *)
THEOREM CountsNearest == Spec => []NearestVoterCounts
<1>1. ASSUME IInv, Weighed PROVE NearestVoterCounts
  <2>1. ASSUME NEW v \in DOMAIN weights
        PROVE  weights[v] = Cardinality({k \in Key :
                                NearestVoter(delegation_map, voters, None)[k] = v})
    <3>1. /\ delegation_map \in DelegationMaps /\ v \in voters \cap Key
          /\ weights[v] = Weight(delegation_map, voters, v)
      BY <1>1 DEF IInv, Types, Weighed
    <3>2. Represented(delegation_map, voters, v)
            = {k \in Key : NearestVoter(delegation_map, voters, None)[k] = v}
      BY <3>1, NoneAssumption, NearestIsRepresented
    <3> QED BY <3>1, <3>2 DEF Weight
  <2> QED BY <2>1 DEF NearestVoterCounts
<1> QED BY <1>1, AlwaysIInv, AlwaysWeighed, PTL
----------------------------------------------------------------------------
(* The measure of the call: every step lowers it. *)

Resolving == IF current = None THEN {} ELSE visited

NearestResolved ==
    {k \in Key : NearestVoter(delegation_map, voters, None)[k] \in DOMAIN weights}

(* What has been found for a voter represents it, and so is nearest to it. *)
LEMMA FoundIsNearest ==
    ASSUME IInv, current # None
    PROVE  /\ current \in voters \cap Key
           /\ \A k \in Found : k \in Key /\ NearestVoter(delegation_map, voters, None)[k] = current
<1>1. /\ current \in voters \cap Key /\ delegation_map \in DelegationMaps
      /\ \A S \in SUBSET Key :
            ClosedFor(delegation_map, voters, current, S) => Found \subseteq S
  BY DEF IInv, Types, Sound
<1>2. Found \subseteq Key
  <2>1. ClosedFor(delegation_map, voters, current, Key)
    <3>1. \A m : Delegators(delegation_map, m) \subseteq Key
      BY <1>1, DelegatorsAreKeys
    <3> QED BY <1>1, <3>1 DEF ClosedFor
  <2> QED BY <1>1, <2>1
<1>3. Found \subseteq Represented(delegation_map, voters, current)
  BY <1>1, <1>2 DEF Represented
<1>4. Represented(delegation_map, voters, current)
        = {k \in Key : NearestVoter(delegation_map, voters, None)[k] = current}
  BY <1>1, NoneAssumption, NearestIsRepresented
<1> QED BY <1>1, <1>2, <1>3, <1>4

(* The terms of the measure are numbers.                                   *)
Unresolved == Cardinality(voters \ DOMAIN weights)
Unreached == Cardinality(Key \ Reached)
Underway == IF current = None THEN 0 ELSE 1

Measured ==
    /\ Unresolved \in Nat /\ Unreached \in Nat /\ Underway \in {0, 1}
    /\ current # None => Unresolved >= 1
    /\ IsFiniteSet(voters \ DOMAIN weights) /\ IsFiniteSet(Key \ Reached)

LEMMA MeasureTyped == ASSUME IInv PROVE Measured
<1>1. /\ voters \ DOMAIN weights \in SUBSET Key /\ Key \ Reached \in SUBSET Key
  BY DEF IInv, Types
<1>2. IsFiniteSet(voters \ DOMAIN weights) /\ IsFiniteSet(Key \ Reached)
  BY <1>1, FiniteKeys
<1>3. Unresolved \in Nat /\ Unreached \in Nat
  BY <1>2, FS_CardinalityType DEF Unresolved, Unreached
<1>4. Underway \in {0, 1}
  BY DEF Underway
<1>5. ASSUME current # None PROVE Unresolved >= 1
  <2>1. current \in voters \ DOMAIN weights
    BY <1>5 DEF IInv, Types, Sound
  <2>2. Unresolved # 0
    BY <1>2, <2>1, FS_EmptySet DEF Unresolved
  <2> QED BY <1>3, <2>2
<1> QED BY <1>2, <1>3, <1>4, <1>5 DEF Measured

LEMMA ResolveRuns ==
    ASSUME IInv, IInv', NEW v \in voters, Resolve(v)
    PROVE  Unresolved' = Unresolved /\ Unreached' = Unreached /\ Underway = 0 /\ Underway' = 1
<1>1. /\ current = None /\ current' = v /\ v # None /\ visited' = {}
      /\ UNCHANGED <<delegation_map, voters, weights>>
  BY NoneAssumption DEF IInv, Types, Resolve
<1>2. Resolving = {} /\ Resolving' = {}
  BY <1>1 DEF Resolving
<1>3. NearestResolved' = NearestResolved
  BY <1>1 DEF NearestResolved
<1>4. Reached' = Reached
  BY <1>2, <1>3 DEF Reached, NearestResolved, Resolving
<1> QED BY <1>1, <1>4 DEF Unresolved, Unreached, Underway

(* The key a turn comes to was not reached before, for any voter. *)
LEMMA VisitRuns ==
    ASSUME IInv, IInv', Visit
    PROVE  Unresolved' = Unresolved /\ Unreached' = Unreached - 1 /\ Underway' = Underway
<1>1. PICK next : next = Last(stack)
  OBVIOUS
<1>2. /\ current # None /\ next \in Range(stack) /\ next \in Key /\ next \notin visited
      /\ visited' = visited \cup {next}
  BY <1>1, VisitFinds
<1>3. UNCHANGED <<delegation_map, voters, weights, current>>
  BY DEF Visit
<1>4. NearestVoter(delegation_map, voters, None)[next] = current
  <2>1. next \in Found
    BY <1>2 DEF Found
  <2> QED BY <1>2, <2>1, FoundIsNearest
<1>5. current \notin DOMAIN weights
  BY <1>2 DEF IInv, Sound
<1>6. next \in Key \ Reached
  BY <1>2, <1>4, <1>5 DEF Reached, NearestResolved, Resolving
<1>7. Key \ Reached' = (Key \ Reached) \ {next}
  <2>1. NearestResolved' = NearestResolved
    BY <1>3 DEF NearestResolved
  <2>2. Resolving' = Resolving \cup {next}
    BY <1>2, <1>3 DEF Resolving
  <2> QED BY <2>1, <2>2 DEF Reached, NearestResolved, Resolving
<1>8. Cardinality((Key \ Reached) \ {next}) = Cardinality(Key \ Reached) - 1
  BY <1>6, MeasureTyped, FS_RemoveElement DEF Measured
<1> QED BY <1>3, <1>7, <1>8 DEF Unresolved, Unreached, Underway

LEMMA InsertRuns ==
    ASSUME IInv, IInv', Insert
    PROVE  Unresolved' = Unresolved - 1 /\ Unreached' = Unreached /\ Underway = 1 /\ Underway' = 0
<1>1. /\ current # None /\ current' = None
      /\ DOMAIN weights' = DOMAIN weights \cup {current}
      /\ UNCHANGED <<delegation_map, voters>>
  BY DEF Insert, Abstract!With
<1>2. /\ current \in voters \ DOMAIN weights
      /\ visited = Represented(delegation_map, voters, current)
  BY VisitedIsRepresented
<1>3. visited = {k \in Key : NearestVoter(delegation_map, voters, None)[k] = current}
  <2>1. delegation_map \in DelegationMaps /\ current \in voters \cap Key
    BY <1>2 DEF IInv, Types
  <2> QED BY <1>2, <2>1, NoneAssumption, NearestIsRepresented
<1>4. Reached' = Reached
  <2>1. NearestResolved' = NearestResolved \cup visited
    BY <1>1, <1>3 DEF NearestResolved
  <2>2. Resolving = visited /\ Resolving' = {}
    BY <1>1 DEF Resolving
  <2> QED BY <2>1, <2>2 DEF Reached, NearestResolved, Resolving
<1>5. Unresolved' = Unresolved - 1
  <2>1. voters' \ DOMAIN weights' = (voters \ DOMAIN weights) \ {current}
    BY <1>1
  <2>2. Cardinality((voters \ DOMAIN weights) \ {current}) = Cardinality(voters \ DOMAIN weights) - 1
    BY <1>2, MeasureTyped, FS_RemoveElement DEF Measured
  <2> QED BY <2>1, <2>2 DEF Unresolved
<1> QED BY <1>1, <1>4, <1>5 DEF Unreached, Underway

(* On every delegation map and for every set of voters, generate_weights   *)
(* returns: each of its steps lowers a number that is never negative, from *)
(* twice the number of voters and the number of keys.                      *)
THEOREM TakesFewSteps == Spec => StepsRunDown
<1>1. ASSUME IInv, IInv', Measured, Measured', Next PROVE StepsLeft' \in Nat /\ StepsLeft' < StepsLeft
  <2>1. /\ Unresolved \in Nat /\ Unreached \in Nat /\ Underway \in {0, 1}
        /\ current # None => Unresolved >= 1
    BY <1>1 DEF Measured
  <2>2. /\ Unresolved' \in Nat /\ Unreached' \in Nat /\ Underway' \in {0, 1}
        /\ current' # None => Unresolved' >= 1
    BY <1>1 DEF Measured
  <2>3. StepsLeft = 2 * Unresolved + Unreached - Underway
    BY DEF StepsLeft, Unresolved, Unreached, Underway
  <2>4. StepsLeft' = 2 * Unresolved' + Unreached' - Underway'
    BY DEF StepsLeft, Unresolved, Unreached, Underway
  <2>5. Underway' = 0 \/ Unresolved' >= 1
    BY <2>2 DEF Underway
  <2>6. PICK a, b, c, d, e, f :
            /\ a = Unresolved /\ b = Unreached /\ c = Underway
            /\ d = Unresolved' /\ e = Unreached' /\ f = Underway'
    OBVIOUS
  <2>7. /\ a \in Nat /\ b \in Nat /\ c \in {0, 1}
        /\ d \in Nat /\ e \in Nat /\ f \in {0, 1}
        /\ (f = 0 \/ d >= 1)
    BY <2>1, <2>2, <2>5, <2>6
  <2>8. \/ d = a /\ e = b /\ c = 0 /\ f = 1
        \/ d = a /\ e = b - 1 /\ f = c
        \/ d = a - 1 /\ e = b /\ c = 1 /\ f = 0
    BY <1>1, <2>6, ResolveRuns, VisitRuns, InsertRuns DEF Next
  <2>9. 2 * d + e - f \in Nat /\ 2 * d + e - f < 2 * a + b - c
    BY <2>7, <2>8
  <2> QED BY <2>3, <2>4, <2>6, <2>9
<1>2. IInv /\ IInv' /\ Measured /\ Measured' /\ [Next]_vars
        => [StepsLeft' \in Nat /\ StepsLeft' < StepsLeft]_vars
  BY <1>1
<1>3. Spec => []Measured
  BY MeasureTyped, AlwaysIInv, PTL
<1> QED BY <1>2, <1>3, AlwaysIInv, PTL DEF Spec, StepsRunDown
=============================================================================
