---------------------------- MODULE WeightProofs ----------------------------
(***************************************************************************)
(* The two ways to say whose voice a voter has, from the voter down        *)
(* (Represented) and from the delegator up (NearestVoter), agree on every  *)
(* delegation map, cycles included.                                        *)
(***************************************************************************)
EXTENDS Delegations, FiniteSetTheorems, WellFoundedInduction, TLAPS

(* Induction up to a number, as a fact about sets of numbers. *)
LEMMA Climb ==
    ASSUME NEW N \in Nat, NEW T, 0 \in T, \A n \in Nat : n < N /\ n \in T => n + 1 \in T
    PROVE  0..N \subseteq T
<1> SUFFICES ASSUME (0..N) \ T # {} PROVE FALSE
  OBVIOUS
<1>1. (0..N) \ T \subseteq Nat
  OBVIOUS
<1>2. PICK x \in (0..N) \ T : \A y \in (0..N) \ T : ~(<<y, x>> \in OpToRel(<, Nat))
  BY <1>1, NatLessThanWellFounded, WFMin
<1>3. x \in Nat /\ x # 0 /\ x <= N
  OBVIOUS
<1>4. x - 1 \in 0..N /\ x - 1 \in Nat /\ x - 1 < N /\ x - 1 < x /\ (x - 1) + 1 = x
  BY <1>3
<1>5. x - 1 \in T
  BY <1>2, <1>3, <1>4 DEF OpToRel
<1> QED BY <1>4, <1>5

(* The function NearestVoter defines, for numbers of steps up to N. *)
Climbs(up, map, vs, none, N) ==
    up = [n \in 0..N |->
             [k \in Key |-> IF k \in vs THEN k
                            ELSE IF n = 0 \/ k \notin DOMAIN map THEN none
                            ELSE up[n-1][map[k]]]]

LEMMA ClimbsExist ==
    ASSUME NEW map, NEW vs, NEW none, NEW N \in Nat
    PROVE  \E up : Climbs(up, map, vs, none, N)
<1> DEFINE Step(up, n) ==
               [k \in Key |-> IF k \in vs THEN k
                              ELSE IF n = 0 \/ k \notin DOMAIN map THEN none
                              ELSE up[n-1][map[k]]]
           T == {m \in Nat : \E up : up = [n \in 0..m |-> Step(up, n)]}
<1>1. 0 \in T
  <2>1. PICK up : up = [n \in 0..0 |-> [k \in Key |-> IF k \in vs THEN k ELSE none]]
    OBVIOUS
  <2>2. \A n \in 0..0 : up[n] = Step(up, n)
    BY <2>1
  <2>3. up = [n \in 0..0 |-> Step(up, n)]
    BY <2>1, <2>2
  <2> QED BY <2>3
<1>2. ASSUME NEW m \in Nat, m \in T PROVE m + 1 \in T
  <2>1. PICK up : up = [n \in 0..m |-> Step(up, n)]
    BY <1>2
  <2>2. PICK more : more = [n \in 0..(m + 1) |-> IF n \in 0..m THEN up[n] ELSE Step(up, n)]
    OBVIOUS
  <2>3. ASSUME NEW n \in 0..(m + 1) PROVE more[n] = Step(more, n)
    <3>1. n # 0 => n - 1 \in 0..m /\ n - 1 \in 0..(m + 1)
      OBVIOUS
    <3>2. n # 0 => more[n - 1] = up[n - 1]
      BY <2>2, <3>1
    <3>3. Step(more, n) = Step(up, n)
      BY <3>2
    <3>4. more[n] = Step(up, n)
      <4> HIDE DEF Step
      <4> QED BY <2>1, <2>2
    <3> QED BY <3>3, <3>4
  <2> HIDE DEF Step
  <2>4. more = [n \in 0..(m + 1) |-> Step(more, n)]
    BY <2>2, <2>3
  <2> QED BY <2>4
<1> HIDE DEF T
<1>3. N \in T
  BY <1>1, <1>2, Climb
<1> QED BY <1>3 DEF T, Climbs

LEMMA NearestVoterIs ==
    ASSUME NEW map, NEW vs, NEW none
    PROVE  \E up : /\ Climbs(up, map, vs, none, Cardinality(Key))
                   /\ NearestVoter(map, vs, none) = up[Cardinality(Key)]
<1>1. Cardinality(Key) \in Nat
  BY CensusAssumption, FS_CardinalityType
<1> DEFINE U == CHOOSE up : up = [n \in 0..Cardinality(Key) |->
             [k \in Key |-> IF k \in vs THEN k
                            ELSE IF n = 0 \/ k \notin DOMAIN map THEN none
                            ELSE up[n-1][map[k]]]]
<1>2. Climbs(U, map, vs, none, Cardinality(Key))
  <2>1. \E up : Climbs(up, map, vs, none, Cardinality(Key))
    BY <1>1, ClimbsExist
  <2>2. \E up : up = [n \in 0..Cardinality(Key) |->
             [k \in Key |-> IF k \in vs THEN k
                            ELSE IF n = 0 \/ k \notin DOMAIN map THEN none
                            ELSE up[n-1][map[k]]]]
    BY <2>1 DEF Climbs
  <2>3. U = [n \in 0..Cardinality(Key) |->
             [k \in Key |-> IF k \in vs THEN k
                            ELSE IF n = 0 \/ k \notin DOMAIN map THEN none
                            ELSE U[n-1][map[k]]]]
    BY <2>2
  <2> QED BY <2>3 DEF Climbs
<1>3. NearestVoter(map, vs, none) = U[Cardinality(Key)]
  BY DEF NearestVoter
<1> QED BY <1>2, <1>3

(* The keys that find v when they look up n steps at most. *)
Finders(up, n, v) == {k \in Key : up[n][k] = v}

LEMMA WithinSteps ==
    ASSUME NEW map \in DelegationMaps, NEW vs, NEW none, none \notin Key, NEW v \in vs \cap Key,
           NEW N \in Nat, NEW up, Climbs(up, map, vs, none, N)
    PROVE  /\ Finders(up, 0, v) = {v}
           /\ \A n \in Nat : n < N =>
                  Finders(up, n + 1, v)
                    = {v} \cup {k \in DOMAIN map \ vs : map[k] \in Finders(up, n, v)}
<1> USE DEF Finders
<1> DEFINE D(n) == Finders(up, n, v)
<1>1. DOMAIN map \subseteq Key /\ \A k \in DOMAIN map : map[k] \in Key
  BY CensusAssumption DEF DelegationMaps
<1>2. ASSUME NEW n \in 0..N, NEW k \in Key
      PROVE  up[n][k] = IF k \in vs THEN k
                        ELSE IF n = 0 \/ k \notin DOMAIN map THEN none
                        ELSE up[n-1][map[k]]
  <2>1. up[n] = [j \in Key |-> IF j \in vs THEN j
                               ELSE IF n = 0 \/ j \notin DOMAIN map THEN none
                               ELSE up[n-1][map[j]]]
    BY DEF Climbs
  <2> QED BY <2>1
<1>3. D(0) = {v}
  <2>1. 0 \in 0..N
    OBVIOUS
  <2>2. \A k \in Key : up[0][k] = IF k \in vs THEN k ELSE none
    BY <1>2, <2>1
  <2> QED BY <2>2
<1>4. ASSUME NEW n \in Nat, n < N
      PROVE  D(n + 1) = {v} \cup {k \in DOMAIN map \ vs : map[k] \in D(n)}
  <2>1. n + 1 \in 0..N /\ n + 1 # 0 /\ (n + 1) - 1 = n
    BY <1>4
  <2>2. \A k \in Key : up[n + 1][k] = IF k \in vs THEN k
                                      ELSE IF k \notin DOMAIN map THEN none
                                      ELSE up[n][map[k]]
    BY <1>2, <2>1
  <2> QED BY <1>1, <2>2
<1> QED BY <1>3, <1>4

(* With every step it is more keys, or it is all of them: after as many    *)
(* steps as there are keys nobody is left who delegates to one of them.    *)
LEMMA StepsSuffice ==
    ASSUME NEW map \in DelegationMaps, NEW vs, NEW none, none \notin Key, NEW v \in vs \cap Key,
           NEW up, Climbs(up, map, vs, none, Cardinality(Key))
    PROVE  /\ ClosedFor(map, vs, v, Finders(up, Cardinality(Key), v))
           /\ \A S \in SUBSET Key : ClosedFor(map, vs, v, S)
                  => Finders(up, Cardinality(Key), v) \subseteq S
<1> DEFINE N == Cardinality(Key)
           D(n) == Finders(up, n, v)
           Closed(n) == ClosedFor(map, vs, v, D(n))
<1>1. N \in Nat /\ IsFiniteSet(Key)
  BY CensusAssumption, FS_CardinalityType
<1>2. /\ D(0) = {v}
      /\ \A n \in Nat : n < N => D(n + 1) = {v} \cup {k \in DOMAIN map \ vs : map[k] \in D(n)}
  BY <1>1, WithinSteps
<1>3. \A n \in Nat : IsFiniteSet(D(n)) /\ Cardinality(D(n)) \in Nat /\ Cardinality(D(n)) <= N
                        /\ D(n) \subseteq Key
  <2> SUFFICES ASSUME NEW n \in Nat
               PROVE  IsFiniteSet(D(n)) /\ Cardinality(D(n)) \in Nat
                        /\ Cardinality(D(n)) <= N /\ D(n) \subseteq Key
    OBVIOUS
  <2>1. D(n) \subseteq Key
    BY DEF Finders
  <2> HIDE DEF D
  <2> QED BY <1>1, <2>1, FS_Subset, FS_CardinalityType
<1> HIDE DEF D, N
<1>4. ASSUME NEW n \in Nat, n < N PROVE D(n) \subseteq D(n + 1)
  <2> DEFINE G == {i \in Nat : i < N => D(i) \subseteq D(i + 1)}
  <2>1. 0 \in G
    BY <1>1, <1>2
  <2>2. ASSUME NEW i \in Nat, i < N, i \in G PROVE i + 1 \in G
    <3> SUFFICES ASSUME i + 1 < N PROVE D(i + 1) \subseteq D((i + 1) + 1)
      OBVIOUS
    <3>1. D(i) \subseteq D(i + 1)
      BY <2>2
    <3>2. /\ D(i + 1) = {v} \cup {k \in DOMAIN map \ vs : map[k] \in D(i)}
          /\ D((i + 1) + 1) = {v} \cup {k \in DOMAIN map \ vs : map[k] \in D(i + 1)}
      BY <1>2, <2>2
    <3> QED BY <3>1, <3>2
  <2> HIDE DEF G
  <2>3. n \in G
    BY <1>1, <1>4, <2>1, <2>2, Climb
  <2> QED BY <1>4, <2>3 DEF G
<1>5. ASSUME NEW n \in Nat, n < N, Closed(n) PROVE Closed(n + 1)
  <2>1. D(n + 1) \subseteq D(n)
    BY <1>2, <1>5 DEF ClosedFor, Delegators
  <2>2. D(n + 1) = D(n)
    BY <1>4, <1>5, <2>1
  <2> QED BY <1>5, <2>2
<1>6. ASSUME NEW n \in Nat, n < N, ~Closed(n), Cardinality(D(n)) >= n + 1
      PROVE  Cardinality(D(n + 1)) >= (n + 1) + 1
  <2>1. v \in D(n)
    <3>1. CASE n = 0
      BY <1>2, <3>1
    <3>2. CASE n # 0
      <4>1. n - 1 \in Nat /\ n - 1 < N /\ (n - 1) + 1 = n
        BY <1>1, <1>6, <3>2
      <4> QED BY <1>2, <4>1
    <3> QED BY <3>1, <3>2
  <2>2. PICK k \in D(n) : ~(Delegators(map, k) \ vs \subseteq D(n))
    BY <1>6, <2>1 DEF ClosedFor
  <2>3. PICK d \in DOMAIN map \ vs : map[d] = k /\ d \notin D(n)
    BY <2>2 DEF Delegators
  <2>4. d \in D(n + 1) /\ D(n) \subseteq D(n + 1)
    BY <1>2, <1>4, <1>6, <2>3
  <2>5. n + 1 \in Nat
    OBVIOUS
  <2>6. Cardinality(D(n) \cup {d}) = Cardinality(D(n)) + 1
    BY <1>3, <2>3, FS_AddElement
  <2>7. Cardinality(D(n) \cup {d}) <= Cardinality(D(n + 1))
    BY <1>3, <2>4, <2>5, FS_Subset
  <2> QED BY <1>3, <1>6, <2>5, <2>6, <2>7
<1>7. Closed(N)
  <2> DEFINE G == {n \in Nat : Closed(n) \/ Cardinality(D(n)) >= n + 1}
  <2>1. 0 \in G
    <3>1. Cardinality({v}) = 1
      BY FS_Singleton
    <3> QED BY <1>2, <3>1
  <2>2. ASSUME NEW n \in Nat, n < N, n \in G PROVE n + 1 \in G
    BY <1>5, <1>6, <2>2
  <2> HIDE DEF G
  <2>3. N \in G
    BY <1>1, <2>1, <2>2, Climb
  <2>4. ~(Cardinality(D(N)) >= N + 1)
    BY <1>1, <1>3
  <2> QED BY <2>3, <2>4 DEF G
<1>8. ASSUME NEW S \in SUBSET Key, ClosedFor(map, vs, v, S) PROVE D(N) \subseteq S
  <2> DEFINE G == {n \in Nat : D(n) \subseteq S}
  <2>1. 0 \in G
    BY <1>2, <1>8 DEF ClosedFor
  <2>2. ASSUME NEW n \in Nat, n < N, n \in G PROVE n + 1 \in G
    BY <1>2, <1>8, <2>2 DEF ClosedFor, Delegators
  <2> HIDE DEF G
  <2>3. N \in G
    BY <1>1, <2>1, <2>2, Climb
  <2> QED BY <2>3 DEF G
<1> QED BY <1>7, <1>8 DEF D, N

(* The keys that find a voter first, going up, are those it represents.    *)
THEOREM NearestIsRepresented ==
    ASSUME NEW map \in DelegationMaps, NEW vs, NEW none, none \notin Key, NEW v \in vs \cap Key
    PROVE  Represented(map, vs, v) = {k \in Key : NearestVoter(map, vs, none)[k] = v}
<1>1. PICK up : /\ Climbs(up, map, vs, none, Cardinality(Key))
                /\ NearestVoter(map, vs, none) = up[Cardinality(Key)]
  BY NearestVoterIs
<1>2. PICK R : R = Finders(up, Cardinality(Key), v)
  OBVIOUS
<1>3. R \in SUBSET Key
  BY <1>2 DEF Finders
<1>4. /\ ClosedFor(map, vs, v, R)
      /\ \A S \in SUBSET Key : ClosedFor(map, vs, v, S) => R \subseteq S
  BY <1>1, <1>2, StepsSuffice
<1>5. Represented(map, vs, v) = R
  BY <1>3, <1>4 DEF Represented
<1> QED BY <1>1, <1>2, <1>5 DEF Finders
=============================================================================
