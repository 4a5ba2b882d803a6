-------------------------- MODULE ChainSyncProofs --------------------------
(***************************************************************************)
(* What holds of the sync protocol for every network: any nodes, links,    *)
(* ballots and heights.  Three parts: as long as there is no race, what an *)
(* exchange has under way fits the two chains; types, with and without     *)
(* races; and that the protocol implements Ledger.                         *)
(***************************************************************************)
EXTENDS ChainSync, ChainProofs

----------------------------------------------------------------------------
(* The phases of an exchange s of a node with chain c and a peer with      *)
(* chain p, as long as there is no race.                                   *)

Shaped(s) ==
    s = [state |-> s.state, height |-> s.height, buffer |-> s.buffer,
         requests |-> s.requests, listening |-> s.listening, responses |-> s.responses]

(* Nothing has been said about the node's whole chain yet, or the peer has *)
(* a block at its height.                                                  *)
HeightKnown(s, c, p) == s.height = c.height \/ p.height >= c.height

Probing(s, c, p) ==
    /\ s.state = "ask" /\ s.listening = TRUE
    /\ s.buffer = <<>> /\ s.requests = <<>> /\ s.responses = <<>>
    /\ HeightKnown(s, c, p)

Requested(s, c, p) ==
    /\ s.state = "wait" /\ s.listening = TRUE
    /\ s.buffer = <<>> /\ s.responses = <<>>
    /\ s.requests = <<[index |-> s.height, hash |-> Hash(c.db[s.height])]>>
    /\ HeightKnown(s, c, p)

Refused(s, c, p) ==
    /\ s.state = "wait" /\ s.listening = TRUE
    /\ s.buffer = <<>> /\ s.requests = <<>>
    /\ s.responses = <<NotFound>>
    /\ p.height >= c.height

Deserted(s) ==
    /\ s.state = "wait" /\ s.listening = FALSE
    /\ s.requests = <<>> /\ s.responses = <<>>

Sent(F, fork, d) ==
    [k \in 1..(Len(F) - d) |-> [found |-> TRUE, fork_index |-> fork, block |-> F[d + k],
                                remaining |-> Len(F) - d - k]]

Receiving(s, c) ==
    /\ s.state \in {"ask", "wait"} /\ s.listening = FALSE
    /\ s.requests = <<>>
    /\ \E F, fork : \E d \in 0..(Len(F) - 1) :
           /\ Fits(F, fork, c)
           /\ s.buffer = [k \in 1..d |-> F[k]]
           /\ s.responses = Sent(F, fork, d)

Phase(s, c, p) ==
    \/ Probing(s, c, p) \/ Requested(s, c, p) \/ Refused(s, c, p)
    \/ Deserted(s) \/ Receiving(s, c)

Follows(s, c, p) ==
    /\ Shaped(s)
    /\ s.state = "idle" => s = Idle
    /\ s.state # "idle" => s.height \in 1..c.height /\ Phase(s, c, p)

Steady ==
    /\ chain = [n \in Node |-> chain[n]]
    /\ sync = [l \in Link |-> sync[l]]
    /\ \A n \in Node : StoreOK(chain[n]) /\ Clean(chain[n]) /\ Linked(chain[n])
    /\ \A l \in Link : Follows(sync[l], chain[l[1]], chain[l[2]])

IInv == raced \in BOOLEAN /\ (raced \/ Steady)

Grows == \A n \in Node : chain'[n].height >= chain[n].height

----------------------------------------------------------------------------
(* Sequences. *)

LEMMA OneByOne ==
    ASSUME NEW n \in Nat, NEW r, r = [k \in 1..n |-> r[k]]
    PROVE  Len(r) = n /\ r \in Seq(Range(r))
<1>1. r \in [1..n -> Range(r)]
  BY DEF Range
<1>2. r \in Seq(Range(r))
  BY <1>1, SeqDef
<1>3. Len(r) \in Nat /\ DOMAIN r = 1..Len(r)
  BY <1>2, LenProperties
<1>4. 1..Len(r) = 1..n
  BY <1>3
<1> QED BY <1>2, <1>3, <1>4

LEMMA TailOf ==
    ASSUME NEW n \in Nat \ {0}, NEW r, r = [k \in 1..n |-> r[k]]
    PROVE  /\ r # <<>> /\ Len(r) = n /\ Head(r) = r[1]
           /\ Tail(r) = [k \in 1..n - 1 |-> r[k + 1]]
<1>1. Len(r) = n /\ r \in Seq(Range(r))
  BY OneByOne
<1>2. r # <<>>
  BY <1>1, EmptySeq
<1>3. /\ Tail(r) \in Seq(Range(r)) /\ Len(Tail(r)) = n - 1
      /\ \A i \in 1..Len(Tail(r)) : Tail(r)[i] = r[i + 1]
  BY <1>1, <1>2, HeadTailProperties
<1>4. Tail(r) = [k \in 1..Len(Tail(r)) |-> Tail(r)[k]]
  BY <1>3, LenProperties
<1>5. Tail(r) = [k \in 1..n - 1 |-> r[k + 1]]
  BY <1>3, <1>4
<1> QED BY <1>1, <1>2, <1>5

LEMMA AppendOf ==
    ASSUME NEW n \in Nat, NEW r, r = [k \in 1..n |-> r[k]], NEW x
    PROVE  Append(r, x) = [k \in 1..n + 1 |-> IF k = n + 1 THEN x ELSE r[k]]
<1> DEFINE S == Range(r) \cup {x}
<1>1. Len(r) = n /\ r \in Seq(Range(r))
  BY OneByOne
<1>2. r \in Seq(S)
  BY <1>1, SeqMonotonic
<1>3. /\ Append(r, x) \in Seq(S) /\ Len(Append(r, x)) = n + 1
      /\ \A i \in 1..n : Append(r, x)[i] = r[i]
      /\ Append(r, x)[n + 1] = x
  BY <1>1, <1>2, AppendProperties
<1>4. Append(r, x) = [k \in 1..Len(Append(r, x)) |-> Append(r, x)[k]]
  BY <1>3, LenProperties
<1>5. Append(r, x) = [k \in 1..n + 1 |-> Append(r, x)[k]]
  BY <1>3, <1>4
<1> QED BY <1>3, <1>5

----------------------------------------------------------------------------
(* How phases follow one another. *)

LEMMA LinkEnds == ASSUME NEW l \in Link PROVE l[1] \in Node /\ l[2] \in Node
BY LinkAssumption

LEMMA HeightType ==
    ASSUME Steady, NEW n \in Node
    PROVE  /\ StoreOK(chain[n]) /\ Clean(chain[n]) /\ Linked(chain[n])
           /\ chain[n].height \in Nat \ {0}
           /\ DOMAIN chain[n].db = 1..chain[n].height
BY DEF Steady, StoreOK, Clean

LEMMA IdleFollows == ASSUME NEW c, NEW p PROVE Follows(Idle, c, p)
BY DEF Idle, Follows, Shaped

(* A phase lasts while the own chain stays and the peer's does not shrink. *)
LEMMA PhaseLasts ==
    ASSUME NEW s, NEW c, NEW p, Follows(s, c, p), NEW d, NEW q,
           s.state = "idle" \/ (d.db = c.db /\ d.height = c.height),
           c.height \in Nat, p.height \in Nat, q.height \in Nat, q.height >= p.height
    PROVE  Follows(s, d, q)
<1>1. CASE s.state = "idle"
  BY <1>1 DEF Follows
<1>2. CASE d.db = c.db /\ d.height = c.height
  <2> SUFFICES ASSUME s.state # "idle" PROVE Phase(s, d, q)
    BY <1>2 DEF Follows
  <2>1. Phase(s, c, p)
    BY DEF Follows
  <2>2. p.height >= c.height => q.height >= d.height
    BY <1>2
  <2>3. HeightKnown(s, c, p) => HeightKnown(s, d, q)
    BY <1>2, <2>2 DEF HeightKnown
  <2>4. CASE Probing(s, c, p)
    BY <2>3, <2>4 DEF Probing, Phase
  <2>5. CASE Requested(s, c, p)
    BY <1>2, <2>3, <2>5 DEF Requested, Phase
  <2>6. CASE Refused(s, c, p)
    BY <2>2, <2>6 DEF Refused, Phase
  <2>7. CASE Deserted(s)
    BY <2>7 DEF Phase
  <2>8. CASE Receiving(s, c)
    <3>1. \A F, fork : Fits(F, fork, c) => Fits(F, fork, d)
      BY <1>2 DEF Fits
    <3> QED BY <2>8, <3>1 DEF Receiving, Phase
  <2> QED BY <2>1, <2>4, <2>5, <2>6, <2>7, <2>8 DEF Phase
<1> QED BY <1>1, <1>2

(* A step of exchanges only. *)
LEMMA SessionsStep ==
    ASSUME Steady, UNCHANGED chain, sync' = [l \in Link |-> sync'[l]],
           \A l \in Link : sync'[l] = sync[l] \/ Follows(sync'[l], chain[l[1]], chain[l[2]])
    PROVE  Steady' /\ Grows
<1>1. Steady'
  BY DEF Steady
<1>2. Grows
  BY HeightType DEF Grows
<1> QED BY <1>1, <1>2

(* A step of one chain, and of exchanges that end. *)
LEMMA ChainStep ==
    ASSUME Steady, NEW n \in Node, NEW c,
           chain' = [chain EXCEPT ![n] = c],
           StoreOK(c), Clean(c), Linked(c), c.height >= chain[n].height,
           sync' = [l \in Link |-> sync'[l]],
           \A l \in Link : sync'[l] = sync[l] \/ sync'[l] = Idle,
           \/ c.db = chain[n].db /\ c.height = chain[n].height
           \/ \A l \in Link : l[1] = n => sync'[l].state = "idle"
    PROVE  Steady' /\ Grows
<1>1. /\ chain' = [m \in Node |-> chain'[m]]
      /\ \A m \in Node : chain'[m] = IF m = n THEN c ELSE chain[m]
  BY DEF Steady
<1>2. \A m \in Node : /\ StoreOK(chain'[m]) /\ Clean(chain'[m]) /\ Linked(chain'[m])
                      /\ chain[m].height \in Nat /\ chain'[m].height \in Nat
                      /\ chain'[m].height >= chain[m].height
  <2>1. c.height \in Nat
    BY DEF StoreOK
  <2>2. TAKE m \in Node
  <2>3. CASE m = n
    BY <1>1, <2>1, <2>3, HeightType
  <2>4. CASE m # n
    BY <1>1, <2>4, HeightType
  <2> QED BY <2>3, <2>4
<1>3. ASSUME NEW l \in Link PROVE Follows(sync'[l], chain'[l[1]], chain'[l[2]])
  <2>1. CASE sync'[l] = Idle
    BY <2>1, IdleFollows
  <2>2. CASE sync'[l] = sync[l]
    <3>1. Follows(sync[l], chain[l[1]], chain[l[2]])
      BY DEF Steady
    <3>2. l[1] \in Node /\ l[2] \in Node
      BY LinkEnds
    <3>3. \/ sync[l].state = "idle"
          \/ chain'[l[1]].db = chain[l[1]].db /\ chain'[l[1]].height = chain[l[1]].height
      BY <1>1, <2>2, <3>2
    <3> QED BY <1>2, <2>2, <3>1, <3>2, <3>3, PhaseLasts
  <2> QED BY <2>1, <2>2
<1>4. Steady'
  BY <1>1, <1>2, <1>3 DEF Steady
<1> QED BY <1>2, <1>4 DEF Grows

----------------------------------------------------------------------------
(* One lemma for each action. *)

LEMMA StartedFollows ==
    ASSUME Steady, NEW l \in Link
    PROVE  Follows(Started(l[1]), chain[l[1]], chain[l[2]])
<1> DEFINE c == chain[l[1]]
<1>1. PICK s : s = Started(l[1])
  OBVIOUS
<1>2. c.height \in 1..c.height
  BY LinkEnds, HeightType
<1>3. /\ Shaped(s) /\ s.height = c.height
      /\ s.state = "ask" /\ s.listening = TRUE
      /\ s.buffer = <<>> /\ s.requests = <<>> /\ s.responses = <<>>
  BY <1>1 DEF Started, Idle, Shaped
<1>4. Phase(s, c, chain[l[2]])
  BY <1>3 DEF Probing, HeightKnown, Phase
<1>5. Follows(s, c, chain[l[2]])
  BY <1>2, <1>3, <1>4 DEF Follows
<1> QED BY <1>1, <1>5

LEMMA StartSteady ==
    ASSUME Steady, NEW l \in Link, StartSync(l) \/ PreemptSync(l)
    PROVE  Steady' /\ Grows
<1>1. chain' = chain /\ sync' = [sync EXCEPT ![l] = Started(l[1])]
  BY DEF StartSync, PreemptSync
<1>2. /\ sync' = [k \in Link |-> sync'[k]]
      /\ \A k \in Link : sync'[k] = IF k = l THEN Started(l[1]) ELSE sync[k]
  BY <1>1 DEF Steady
<1> QED BY <1>1, <1>2, StartedFollows, SessionsStep

LEMMA DroppedSteady ==
    ASSUME Steady, NEW l \in Link, UNCHANGED chain,
           sync' = Dropped(l) \/ sync' = [sync EXCEPT ![l] = Idle]
    PROVE  Steady' /\ Grows
<1>1. /\ sync' = [k \in Link |-> sync'[k]]
      /\ \A k \in Link : sync'[k] = sync[k] \/ sync'[k] = Idle
  BY DEF Dropped, Steady
<1> QED BY <1>1, IdleFollows, SessionsStep

LEMMA AskSteady ==
    ASSUME Steady, NEW l \in Link, Ask(l)
    PROVE  Steady' /\ Grows
<1> DEFINE s == sync[l]
           t == sync'[l]
           c == chain[l[1]]
           p == chain[l[2]]
<1>1. /\ s.state = "ask" /\ chain' = chain
      /\ sync' = [sync EXCEPT
               ![l].state = "wait",
               ![l].requests = IF s.listening
                               THEN Append(s.requests, [index |-> s.height,
                                                        hash |-> Hash(c.db[s.height])])
                               ELSE s.requests]
  BY DEF Ask
<1>2. /\ sync = [k \in Link |-> sync[k]] /\ Follows(s, c, p) /\ Shaped(s)
      /\ s.height \in 1..c.height
      /\ Probing(s, c, p) \/ Receiving(s, c)
  BY <1>1 DEF Steady, Follows, Phase, Requested, Refused, Deserted
<1>3. /\ sync' = [k \in Link |-> sync'[k]]
      /\ \A k \in Link \ {l} : sync'[k] = sync[k]
  BY <1>1, <1>2
<1>4. /\ Shaped(t) /\ t.state = "wait"
      /\ t.height = s.height /\ t.buffer = s.buffer
      /\ t.listening = s.listening /\ t.responses = s.responses
      /\ t.requests = IF s.listening
                      THEN Append(s.requests, [index |-> s.height,
                                               hash |-> Hash(c.db[s.height])])
                      ELSE s.requests
  BY <1>1, <1>2 DEF Shaped
<1>5. Phase(t, c, p)
  <2>1. CASE Probing(s, c, p)
    <3>1. t.requests = <<[index |-> t.height, hash |-> Hash(c.db[t.height])]>>
      BY <1>4, <2>1 DEF Probing
    <3>2. Requested(t, c, p)
      BY <1>4, <2>1, <3>1 DEF Probing, Requested, HeightKnown
    <3> QED BY <3>2 DEF Phase
  <2>2. CASE Receiving(s, c)
    <3>1. Receiving(t, c)
      BY <1>4, <2>2 DEF Receiving
    <3> QED BY <3>1 DEF Phase
  <2> QED BY <1>2, <2>1, <2>2
<1>6. Follows(t, c, p)
  BY <1>2, <1>4, <1>5 DEF Follows
<1> QED BY <1>1, <1>3, <1>6, SessionsStep

LEMMA FoundIsSent ==
    ASSUME NEW F, NEW fork, Len(F) \in Nat \ {0}
    PROVE  Found(fork, F) = Sent(F, fork, 0)
<1>1. PICK n \in Nat : n = Len(F)
  OBVIOUS
<1>2. /\ n - 0 = n
      /\ \A k \in 1..n : 0 + k = k /\ n - 0 - k = n - k
  OBVIOUS
<1> QED BY <1>1, <1>2 DEF Found, Sent

(* The responder that has the initiator's block sends its own from there.  *)
Sends(t, F, s, c) ==
    /\ Fits(F, s.height, c)
    /\ Shaped(t) /\ t.height = s.height /\ t.state = "wait"
    /\ t.listening = FALSE /\ t.requests = <<>> /\ t.buffer = <<>>
    /\ t.responses = Sent(F, s.height, 0)

LEMMA AnsweredFound ==
    ASSUME NEW s, NEW c, NEW p, Follows(s, c, p), s.state # "idle", Requested(s, c, p),
           StoreOK(c), StoreOK(p), Clean(p), Linked(p),
           HasBlock(p, s.height), Hash(p.db[s.height]) = Hash(c.db[s.height])
    PROVE  Sends(Answered(s, p), BlocksFrom(p, s.height), s, c)
<1> DEFINE request == Head(s.requests)
           F == BlocksFrom(p, s.height)
<1>1. PICK t : t = Answered(s, p)
  OBVIOUS
<1>2. /\ s.requests = <<[index |-> s.height, hash |-> Hash(c.db[s.height])]>>
      /\ s.responses = <<>> /\ s.buffer = <<>> /\ s.state = "wait" /\ s.listening = TRUE
      /\ HeightKnown(s, c, p) /\ Shaped(s) /\ s.height \in 1..c.height
      /\ c.height \in Nat /\ p.height \in Nat /\ DOMAIN p.db = 1..p.height
  BY DEF Follows, Requested, StoreOK, Clean
<1>3. /\ request.index = s.height /\ request.hash = Hash(c.db[s.height])
      /\ Tail(s.requests) = <<>>
  BY <1>2
<1>4. PICK rest : rest = [s EXCEPT !.requests = Tail(s.requests)]
  OBVIOUS
<1>5. /\ Shaped(rest) /\ rest.state = "wait" /\ rest.height = s.height
      /\ rest.buffer = <<>> /\ rest.requests = <<>> /\ rest.responses = <<>>
      /\ rest.listening = TRUE
  BY <1>2, <1>3, <1>4 DEF Shaped
<1>6. t = [rest EXCEPT !.listening = FALSE,
                       !.responses = s.responses \o Found(s.height, F)]
  BY <1>1, <1>3, <1>4 DEF Answered
<1>7. p.height >= c.height
  BY <1>2 DEF HasBlock, HeightKnown
<1>8. Fits(F, s.height, c)
  BY <1>2, <1>7, PeersBlocksFit
<1>9. Len(F) \in Nat \ {0}
  BY <1>8 DEF Fits
<1>10. Found(s.height, F) = Sent(F, s.height, 0)
  BY <1>9, FoundIsSent
<1>11. s.responses \o Found(s.height, F) = Found(s.height, F)
  <2>1. Found(s.height, F) \in Seq(Range(Found(s.height, F)))
    <3> HIDE DEF F
    <3>1. Found(s.height, F) = [k \in 1..Len(F) |-> Found(s.height, F)[k]]
      BY DEF Found
    <3> QED BY <1>9, <3>1, OneByOne
  <2> QED BY <1>2, <2>1, ConcatEmptySeq
<1>12. /\ Shaped(t) /\ t.height = s.height /\ t.state = "wait" /\ t.listening = FALSE
       /\ t.requests = <<>> /\ t.buffer = <<>> /\ t.responses = Sent(F, s.height, 0)
  BY <1>5, <1>6, <1>10, <1>11 DEF Shaped
<1> QED BY <1>1, <1>8, <1>12 DEF Sends

LEMMA AnsweredFollows ==
    ASSUME NEW s, NEW c, NEW p, Follows(s, c, p), s.state # "idle", Requested(s, c, p),
           StoreOK(c), StoreOK(p), Clean(p), Linked(p)
    PROVE  /\ Follows(Answered(s, p), c, p)
           /\ HasBlock(p, s.height) => \/ Answered(s, p).listening
                                       \/ Answered(s, p).responses # <<>>
<1> DEFINE request == Head(s.requests)
           F == BlocksFrom(p, s.height)
<1>1. PICK t : t = Answered(s, p)
  OBVIOUS
<1>2. /\ s.requests = <<[index |-> s.height, hash |-> Hash(c.db[s.height])]>>
      /\ s.responses = <<>> /\ s.buffer = <<>> /\ s.state = "wait" /\ s.listening = TRUE
      /\ HeightKnown(s, c, p) /\ Shaped(s) /\ s.height \in 1..c.height
      /\ c.height \in Nat /\ p.height \in Nat /\ DOMAIN p.db = 1..p.height
  BY DEF Follows, Requested, StoreOK, Clean
<1>3. /\ request.index = s.height /\ request.hash = Hash(c.db[s.height])
      /\ Tail(s.requests) = <<>>
  BY <1>2
<1>9. PICK rest : rest = [s EXCEPT !.requests = Tail(s.requests)]
  OBVIOUS
<1>4. /\ Shaped(rest) /\ rest.state = "wait" /\ rest.height = s.height
      /\ rest.buffer = <<>> /\ rest.requests = <<>> /\ rest.responses = <<>>
      /\ rest.listening = TRUE
  BY <1>2, <1>3, <1>9 DEF Shaped
<1>5. CASE ~HasBlock(p, s.height)
  <2>1. t = [rest EXCEPT !.listening = FALSE]
    BY <1>1, <1>3, <1>9, <1>5 DEF Answered
  <2>2. Shaped(t) /\ t.height = s.height /\ t.state = "wait" /\ Deserted(t)
    BY <1>4, <2>1 DEF Shaped, Deserted
  <2> QED BY <1>1, <1>2, <1>5, <2>2 DEF Follows, Phase
<1>6. CASE HasBlock(p, s.height) /\ Hash(p.db[s.height]) # Hash(c.db[s.height])
  <2>1. t = [rest EXCEPT !.responses = Append(s.responses, NotFound)]
    BY <1>1, <1>3, <1>9, <1>6 DEF Answered
  <2>2. Append(s.responses, NotFound) = <<NotFound>>
    BY <1>2
  <2>3. p.height >= c.height
    BY <1>2, <1>6 DEF HasBlock, HeightKnown
  <2>4. Shaped(t) /\ t.height = s.height /\ t.state = "wait" /\ Refused(t, c, p)
    BY <1>4, <2>1, <2>2, <2>3 DEF Shaped, Refused
  <2> QED BY <1>1, <1>2, <2>4 DEF Follows, Phase, Refused
<1>7. CASE HasBlock(p, s.height) /\ Hash(p.db[s.height]) = Hash(c.db[s.height])
  <2>1. /\ Fits(F, s.height, c)
        /\ Shaped(t) /\ t.height = s.height /\ t.state = "wait" /\ t.listening = FALSE
        /\ t.requests = <<>> /\ t.buffer = <<>> /\ t.responses = Sent(F, s.height, 0)
    BY <1>1, <1>7, AnsweredFound DEF Sends
  <2>2. 0 \in 0..(Len(F) - 1)
    BY <2>1 DEF Fits
  <2>3. t.buffer = [k \in 1..0 |-> F[k]]
    BY <2>1
  <2>4. Receiving(t, c)
    <3> HIDE DEF F
    <3> QED BY <2>1, <2>2, <2>3 DEF Receiving
  <2>5. t.responses # <<>>
    <3>1. Len(F) \in Nat \ {0}
      BY <2>1 DEF Fits
    <3>2. t.responses = [k \in 1..Len(F) |-> t.responses[k]]
      BY <2>1, <3>1 DEF Sent
    <3> HIDE DEF F
    <3> QED BY <3>1, <3>2, TailOf
  <2> QED BY <1>1, <1>2, <2>1, <2>4, <2>5 DEF Follows, Phase
<1> QED BY <1>5, <1>6, <1>7

LEMMA AnswerSteady ==
    ASSUME Steady, NEW l \in Link, Answer(l)
    PROVE  Steady' /\ Grows
<1> DEFINE s == sync[l]
           c == chain[l[1]]
           p == chain[l[2]]
<1>1. /\ s.listening /\ s.requests # <<>> /\ chain' = chain
      /\ sync' = [sync EXCEPT ![l] = Answered(s, p)]
  BY DEF Answer
<1>2. /\ sync' = [k \in Link |-> sync'[k]]
      /\ \A k \in Link : sync'[k] = IF k = l THEN Answered(s, p) ELSE sync[k]
  BY <1>1 DEF Steady
<1>3. Follows(s, c, p)
  BY DEF Steady
<1>4. CASE s.state = "idle"
  BY <1>1, <1>3, <1>4 DEF Follows, Idle
<1>5. CASE s.state # "idle"
  <2>1. Requested(s, c, p)
    BY <1>1, <1>3, <1>5 DEF Follows, Phase, Probing, Refused, Deserted, Receiving
  <2>2. Follows(Answered(s, p), c, p)
    BY <1>3, <1>5, <2>1, LinkEnds, HeightType, AnsweredFollows
  <2> QED BY <1>1, <1>2, <2>2, SessionsStep
<1> QED BY <1>4, <1>5

LEMMA ReceiveNotFoundSteady ==
    ASSUME Steady, NEW l \in Link, ReceiveNotFound(l)
    PROVE  Steady' /\ Grows
<1> DEFINE s == sync[l]
           c == chain[l[1]]
           p == chain[l[2]]
<1>1. PICK t : /\ t = IF s.height = 1 THEN Idle
                      ELSE [s EXCEPT !.state = "ask", !.height = s.height - 1,
                                     !.responses = Tail(s.responses)]
               /\ sync' = [sync EXCEPT ![l] = t]
               /\ chain' = chain
               /\ s.state = "wait" /\ s.responses # <<>> /\ ~Head(s.responses).found
  BY DEF ReceiveNotFound, CanReceive
<1>2. /\ sync' = [k \in Link |-> sync'[k]]
      /\ \A k \in Link : sync'[k] = IF k = l THEN t ELSE sync[k]
  BY <1>1 DEF Steady
<1>3. Follows(s, c, p) /\ Shaped(s) /\ Phase(s, c, p) /\ s.height \in 1..c.height
  BY <1>1 DEF Steady, Follows
<1>4. CASE Receiving(s, c)
  <2>1. PICK F, fork : \E d \in 0..(Len(F) - 1) :
            Len(F) \in Nat \ {0} /\ s.responses = Sent(F, fork, d)
    BY <1>4 DEF Receiving, Fits
  <2>2. PICK d \in 0..(Len(F) - 1) :
            Len(F) \in Nat \ {0} /\ s.responses = Sent(F, fork, d)
    BY <2>1
  <2>3. Len(F) - d \in Nat \ {0}
    BY <2>2
  <2>4. s.responses = [k \in 1..Len(F) - d |-> s.responses[k]]
        /\ s.responses[1].found
    BY <2>2, <2>3 DEF Sent
  <2>5. Head(s.responses) = s.responses[1]
    BY <2>3, <2>4, TailOf
  <2> QED BY <1>1, <2>4, <2>5
<1>5. CASE ~Receiving(s, c)
  <2>1. Refused(s, c, p)
    BY <1>1, <1>3, <1>5 DEF Phase, Probing, Requested, Deserted
  <2>2. Follows(t, c, p)
    <3>1. CASE s.height = 1
      BY <1>1, <3>1, IdleFollows
    <3>2. CASE s.height # 1
      <4>1. c.height \in Nat
        BY LinkEnds, HeightType
      <4>2. s.height - 1 \in 1..c.height
        BY <1>3, <3>2, <4>1
      <4>3. Tail(s.responses) = <<>>
        BY <2>1 DEF Refused
      <4>4. t = [s EXCEPT !.state = "ask", !.height = s.height - 1,
                          !.responses = Tail(s.responses)]
        BY <1>1, <3>2
      <4>5. /\ Shaped(t) /\ t.height = s.height - 1 /\ t.state = "ask"
            /\ t.listening = TRUE /\ t.buffer = <<>> /\ t.requests = <<>>
            /\ t.responses = <<>>
        BY <1>3, <2>1, <4>3, <4>4 DEF Shaped, Refused
      <4>6. Probing(t, c, p)
        BY <2>1, <4>5 DEF Probing, HeightKnown, Refused
      <4> QED BY <4>2, <4>5, <4>6 DEF Follows, Phase
    <3> QED BY <3>1, <3>2
  <2> QED BY <1>1, <1>2, <2>2, SessionsStep
<1> QED BY <1>4, <1>5

(* What the initiator has and reads when a block comes. *)
Delivers(s, c, F, fork, d) ==
    /\ s.listening = FALSE /\ s.requests = <<>>
    /\ Fits(F, fork, c) /\ d \in 0..(Len(F) - 1)
    /\ s.buffer = [k \in 1..d |-> F[k]] /\ s.responses = Sent(F, fork, d)
    /\ Head(s.responses) = [found |-> TRUE, fork_index |-> fork, block |-> F[d + 1],
                            remaining |-> Len(F) - d - 1]
    /\ Tail(s.responses) = Sent(F, fork, d + 1)
    /\ Append(s.buffer, F[d + 1]) = [k \in 1..d + 1 |-> F[k]]

LEMMA BlockComes ==
    ASSUME NEW s, NEW c, NEW p, Follows(s, c, p),
           s.state = "wait", s.responses # <<>>, Head(s.responses).found
    PROVE  \E F, fork, d : Delivers(s, c, F, fork, d)
<1>1. Receiving(s, c)
  <2>1. Phase(s, c, p)
    BY DEF Follows
  <2>2. ~Refused(s, c, p)
    BY DEF Refused, NotFound
  <2> QED BY <2>1, <2>2 DEF Phase, Probing, Requested, Deserted
<1>2. PICK F, fork : \E d \in 0..(Len(F) - 1) :
           /\ Fits(F, fork, c)
           /\ s.buffer = [k \in 1..d |-> F[k]]
           /\ s.responses = Sent(F, fork, d)
  BY <1>1 DEF Receiving
<1>3. PICK d \in 0..(Len(F) - 1) :
           /\ Fits(F, fork, c)
           /\ s.buffer = [k \in 1..d |-> F[k]]
           /\ s.responses = Sent(F, fork, d)
  BY <1>2
<1>4. /\ Len(F) \in Nat /\ d \in Nat /\ Len(F) - d \in Nat \ {0}
      /\ 1 \in 1..Len(F) - d /\ (Len(F) - d) - 1 = Len(F) - (d + 1)
  BY <1>3 DEF Fits
<1>5. /\ Head(s.responses) = s.responses[1]
      /\ Tail(s.responses) = [k \in 1..(Len(F) - d) - 1 |-> s.responses[k + 1]]
  <2>1. s.responses = [k \in 1..Len(F) - d |-> s.responses[k]]
    BY <1>3 DEF Sent
  <2> QED BY <1>4, <2>1, TailOf
<1>6. Head(s.responses) = [found |-> TRUE, fork_index |-> fork, block |-> F[d + 1],
                           remaining |-> Len(F) - d - 1]
  <2>1. \A k \in 1..Len(F) - d :
            s.responses[k] = [found |-> TRUE, fork_index |-> fork, block |-> F[d + k],
                              remaining |-> Len(F) - d - k]
    BY <1>3, Zenon DEF Sent
  <2>2. s.responses[1] = [found |-> TRUE, fork_index |-> fork, block |-> F[d + 1],
                          remaining |-> Len(F) - d - 1]
    BY <1>4, <2>1, Zenon
  <2> QED BY <1>5, <2>2, Zenon
<1>7. Tail(s.responses) = Sent(F, fork, d + 1)
  <2>1. ASSUME NEW k \in 1..Len(F) - (d + 1)
        PROVE  s.responses[k + 1]
                 = [found |-> TRUE, fork_index |-> fork, block |-> F[(d + 1) + k],
                    remaining |-> Len(F) - (d + 1) - k]
    <3>1. /\ k + 1 \in 1..Len(F) - d /\ d + (k + 1) = (d + 1) + k
          /\ Len(F) - d - (k + 1) = Len(F) - (d + 1) - k
      <4>1. \A m, e \in Nat : \A j \in 1..m - (e + 1) :
                /\ j + 1 \in 1..m - e /\ e + (j + 1) = (e + 1) + j
                /\ m - e - (j + 1) = m - (e + 1) - j
        OBVIOUS
      <4> QED BY <1>4, <4>1
    <3>2. s.responses[k + 1]
            = [found |-> TRUE, fork_index |-> fork, block |-> F[d + (k + 1)],
               remaining |-> Len(F) - d - (k + 1)]
      BY <1>3, <3>1 DEF Sent
    <3> QED BY <3>1, <3>2
  <2>2. Tail(s.responses) = [k \in 1..Len(F) - (d + 1) |-> s.responses[k + 1]]
    BY <1>4, <1>5
  <2> QED BY <2>1, <2>2 DEF Sent
<1>8. Append(s.buffer, F[d + 1]) = [k \in 1..d + 1 |-> F[k]]
  <2>1. s.buffer = [k \in 1..d |-> s.buffer[k]] /\ \A k \in 1..d : s.buffer[k] = F[k]
    BY <1>3
  <2>2. Append(s.buffer, F[d + 1])
          = [k \in 1..d + 1 |-> IF k = d + 1 THEN F[d + 1] ELSE s.buffer[k]]
    BY <1>4, <2>1, AppendOf
  <2>3. \A k \in 1..d + 1 : k # d + 1 => k \in 1..d
    <3>1. \A e \in Nat : \A k \in 1..e + 1 : k # e + 1 => k \in 1..e
      OBVIOUS
    <3> QED BY <1>4, <3>1
  <2> QED BY <2>1, <2>2, <2>3
<1>9. Delivers(s, c, F, fork, d)
  BY <1>1, <1>3, <1>6, <1>7, <1>8 DEF Delivers, Receiving
<1> QED BY <1>9

LEMMA ReceiveBlockSteady ==
    ASSUME Steady, NEW l \in Link, ReceiveBlock(l)
    PROVE  Steady' /\ Grows
<1> DEFINE s == sync[l]
           t == sync'[l]
           c == chain[l[1]]
           p == chain[l[2]]
           r == Head(s.responses)
<1>1. /\ s.state = "wait" /\ s.responses # <<>> /\ r.found /\ r.remaining > 0
      /\ chain' = chain
      /\ sync' = [sync EXCEPT ![l].state = "ask",
                              ![l].buffer = Append(s.buffer, r.block),
                              ![l].responses = Tail(s.responses)]
  BY DEF ReceiveBlock, CanReceive
<1>2. /\ sync = [k \in Link |-> sync[k]] /\ Follows(s, c, p) /\ Shaped(s)
      /\ s.height \in 1..c.height
  BY <1>1 DEF Steady, Follows
<1>3. PICK F, fork, d : Delivers(s, c, F, fork, d)
  BY <1>1, <1>2, BlockComes
<1>4. /\ sync' = [k \in Link |-> sync'[k]]
      /\ \A k \in Link \ {l} : sync'[k] = sync[k]
  BY <1>1, <1>2
<1>5. /\ Shaped(t) /\ t.state = "ask" /\ t.height = s.height
      /\ t.requests = s.requests /\ t.listening = s.listening
      /\ t.buffer = Append(s.buffer, r.block) /\ t.responses = Tail(s.responses)
  BY <1>1, <1>2 DEF Shaped
<1>6. d + 1 \in 0..(Len(F) - 1)
  <2>1. Len(F) \in Nat /\ d \in 0..(Len(F) - 1) /\ r.remaining = Len(F) - d - 1
    BY <1>3 DEF Delivers, Fits
  <2> QED BY <1>1, <2>1
<1>7. /\ t.requests = <<>> /\ t.listening = FALSE /\ Fits(F, fork, c)
      /\ t.buffer = [k \in 1..d + 1 |-> F[k]] /\ t.responses = Sent(F, fork, d + 1)
  <2>1. r.block = F[d + 1]
    BY <1>3 DEF Delivers
  <2> QED BY <1>3, <1>5, <2>1 DEF Delivers
<1>8. Receiving(t, c)
  BY <1>5, <1>6, <1>7 DEF Receiving
<1>9. Follows(t, c, p)
  BY <1>2, <1>5, <1>8 DEF Follows, Phase
<1> QED BY <1>1, <1>4, <1>9, SessionsStep

(* With the last block the fragment is one the node accepts, and as long   *)
(* as its own chain.                                                       *)
LEMMA LastBlock ==
    ASSUME Steady, NEW l \in Link, CanReceive(l),
           Head(sync[l].responses).found, Head(sync[l].responses).remaining = 0
    PROVE  LET r == Head(sync[l].responses)
               c == chain[l[1]]
               bs == Append(sync[l].buffer, r.block)
           IN  /\ AcceptsFork(c, r.fork_index, bs)
               /\ r.fork_index \in Nat \ {0} /\ Len(bs) \in Nat \ {0}
               /\ r.fork_index + Len(bs) - 1 >= c.height
<1> DEFINE s == sync[l]
           c == chain[l[1]]
           r == Head(s.responses)
<1>1. PICK F, fork, d : Delivers(s, c, F, fork, d)
  <2>1. Follows(s, c, chain[l[2]])
    BY DEF Steady
  <2> QED BY <2>1, BlockComes DEF CanReceive
<1>2. /\ Len(F) \in Nat \ {0} /\ d \in 0..(Len(F) - 1)
      /\ r.block = F[d + 1] /\ r.fork_index = fork /\ r.remaining = Len(F) - d - 1
      /\ Fits(F, fork, c)
  BY <1>1 DEF Delivers, Fits
<1>3. d + 1 = Len(F)
  BY <1>2
<1>4. PICK bs : bs = Append(s.buffer, r.block)
  OBVIOUS
<1>5. bs = [k \in 1..Len(F) |-> F[k]]
  BY <1>1, <1>2, <1>3, <1>4 DEF Delivers
<1>6. Len(bs) = Len(F) /\ bs[1] = F[1]
  BY <1>2, <1>5
<1>7. IsValidChain(bs)
  <2> SUFFICES ASSUME NEW i \in 1..Len(F) - 1 PROVE IsValid(bs[i + 1], bs[i])
    BY <1>6 DEF IsValidChain
  <2>1. i \in 1..Len(F) /\ i + 1 \in 1..Len(F)
    BY <1>2
  <2>2. bs[i] = F[i] /\ bs[i + 1] = F[i + 1]
    BY <1>5, <2>1
  <2>3. IsValid(F[i + 1], F[i])
    BY <1>2 DEF Fits, IsValidChain
  <2> QED BY <2>2, <2>3
<1>8. /\ c.height \in Nat \ {0} /\ DOMAIN c.db = 1..c.height
      /\ fork \in 1..c.height /\ fork + Len(bs) - 1 >= c.height
      /\ Hash(bs[1]) = Hash(c.db[fork])
  BY <1>2, <1>6, LinkEnds, HeightType DEF Fits
<1>9. AcceptsFork(c, fork, bs)
  BY <1>7, <1>8 DEF AcceptsFork, HasBlock
<1>10. fork \in Nat \ {0} /\ Len(bs) \in Nat \ {0}
  BY <1>2, <1>6, <1>8
<1> QED BY <1>2, <1>4, <1>8, <1>9, <1>10

LEMMA FinishSteady ==
    ASSUME Steady, NEW l \in Link, FinishSync(l), ~raced'
    PROVE  Steady' /\ Grows
<1> DEFINE n == l[1]
           c == chain[n]
           r == Head(sync[l].responses)
<1>1. PICK bs, d, e :
          /\ bs = Append(sync[l].buffer, r.block)
          /\ d = TryUpdateLongest(c, r.fork_index, bs, TRUE)
          /\ e = [d EXCEPT !.ballot_pool = <<>>]
  OBVIOUS
<1>2. /\ CanReceive(l) /\ r.found /\ r.remaining = 0
      /\ SetChain(n, e, Link \ {l})
      /\ \/ sync' = [sync EXCEPT ![l] = Idle]
         \/ ~AcceptsFork(c, r.fork_index, bs) /\ sync' = Dropped(l)
  BY <1>1 DEF FinishSync
<1>3. /\ AcceptsFork(c, r.fork_index, bs)
      /\ r.fork_index \in Nat \ {0} /\ Len(bs) \in Nat \ {0}
      /\ r.fork_index + Len(bs) - 1 >= c.height
  BY <1>1, <1>2, LastBlock
<1>4. n \in Node /\ StoreOK(c) /\ Clean(c) /\ Linked(c) /\ c.height \in Nat
  BY LinkEnds, HeightType
<1>5. d.height = r.fork_index + Len(bs) - 1
  BY <1>1, <1>3 DEF TryUpdateLongest, WithBlocks
<1>6. StoreOK(d) /\ Linked(d) /\ (Clean(d) \/ d.height < c.height)
  BY <1>1, <1>3, <1>4, TryUpdateLongestChain
<1>7. d.height \in Nat /\ d.height >= c.height
  BY <1>3, <1>5, <1>6 DEF StoreOK
<1>8. StoreOK(e) /\ e.db = d.db /\ e.height = d.height
  BY <1>1, <1>6, WithPool
<1>9. Clean(e) /\ Linked(e) /\ e.height >= c.height
  BY <1>4, <1>6, <1>7, <1>8 DEF Clean, Linked, HasBlock
<1>10. /\ chain' = [chain EXCEPT ![n] = e]
       /\ e = c \/ \A k \in Link \ {l} : k[1] = n => sync[k].state = "idle"
  BY <1>2 DEF SetChain, Busy
<1>11. /\ sync' = [k \in Link |-> sync'[k]]
       /\ \A k \in Link : sync'[k] = IF k = l THEN Idle ELSE sync[k]
  BY <1>2, <1>3 DEF Steady
<1>12. \A k \in Link : k[1] = n => e = c \/ sync'[k].state = "idle"
  BY <1>10, <1>11 DEF Idle
<1>13. \/ e.db = c.db /\ e.height = c.height
       \/ \A k \in Link : k[1] = n => sync'[k].state = "idle"
  BY <1>12
<1> QED BY <1>4, <1>8, <1>9, <1>10, <1>11, <1>13, ChainStep

LEMMA ExtendSteady ==
    ASSUME Steady, NEW n \in Node, ExtendChain(n), ~raced'
    PROVE  Steady' /\ Grows
<1>1. PICK b, d : /\ d = TryAppend(chain[n], b, TRUE)
                  /\ SetChain(n, d, Link)
                  /\ UNCHANGED sync
  BY DEF ExtendChain
<1>2. StoreOK(d) /\ Linked(d) /\ Clean(d) /\ d.height >= chain[n].height
  BY <1>1, HeightType, TryAppendChain
<1>3. /\ chain' = [chain EXCEPT ![n] = d]
      /\ d = chain[n] \/ \A k \in Link : k[1] = n => sync'[k].state = "idle"
  BY <1>1 DEF SetChain, Busy
<1>4. sync' = [k \in Link |-> sync'[k]] /\ \A k \in Link : sync'[k] = sync[k]
  BY <1>1 DEF Steady
<1>5. \/ d.db = chain[n].db /\ d.height = chain[n].height
      \/ \A k \in Link : k[1] = n => sync'[k].state = "idle"
  BY <1>3
<1> QED BY <1>2, <1>3, <1>4, <1>5, ChainStep

LEMMA RestartSteady ==
    ASSUME Steady, NEW n \in Node, Restart(n)
    PROVE  Steady' /\ Grows
<1>1. PICK d : d = Open(chain[n].db)
  OBVIOUS
<1>2. /\ chain' = [chain EXCEPT ![n] = d]
      /\ sync' = [l \in Link |-> IF n \in {l[1], l[2]} THEN Idle ELSE sync[l]]
  BY <1>1 DEF Restart
<1>3. StoreOK(d) /\ d.db = chain[n].db /\ d.height = chain[n].height
  BY <1>1, HeightType, OpenStored, OpenClean
<1>4. /\ StoreOK(chain[n]) /\ Clean(chain[n]) /\ Linked(chain[n])
      /\ chain[n].height \in Nat
  BY HeightType
<1>5. Clean(d) /\ Linked(d) /\ d.height >= chain[n].height
  BY <1>3, <1>4 DEF Clean, Linked, HasBlock
<1>6. /\ sync' = [l \in Link |-> sync'[l]]
      /\ \A l \in Link : sync'[l] = sync[l] \/ sync'[l] = Idle
  BY <1>2
<1> QED BY <1>2, <1>3, <1>5, <1>6, ChainStep

----------------------------------------------------------------------------
(* The invariant. *)

LEMMA InitIInv == Init => IInv
<1> SUFFICES ASSUME Init PROVE IInv
  OBVIOUS
<1>1. PICK c : c = Open([i \in {} |-> GenesisBlock])
  OBVIOUS
<1>2. StoreOK(c) /\ Clean(c) /\ Linked(c)
  BY <1>1, OpenEmpty
<1>3. chain = [n \in Node |-> c] /\ sync = [l \in Link |-> Idle] /\ raced = FALSE
  BY <1>1 DEF Init
<1>4. Steady
  BY <1>2, <1>3, IdleFollows DEF Steady
<1> QED BY <1>3, <1>4 DEF IInv

LEMMA NextSteady ==
    ASSUME Steady, [Next]_vars, ~raced'
    PROVE  Steady' /\ Grows
<1>1. CASE \E n \in Node : ExtendChain(n) \/ Restart(n)
  BY <1>1, ExtendSteady, RestartSteady
<1>2. CASE \E l \in Link : SyncStep(l) \/ StartSync(l) \/ PreemptSync(l) \/ Disconnect(l)
  <2>1. PICK l \in Link : SyncStep(l) \/ StartSync(l) \/ PreemptSync(l) \/ Disconnect(l)
    BY <1>2
  <2>2. CASE StartSync(l) \/ PreemptSync(l)
    BY <2>2, StartSteady
  <2>3. CASE Disconnect(l) \/ AskPanics(l) \/ ReceiveEnd(l)
    BY <2>3, DroppedSteady DEF Disconnect, AskPanics, ReceiveEnd
  <2>4. CASE Ask(l)
    BY <2>4, AskSteady
  <2>5. CASE Answer(l)
    BY <2>5, AnswerSteady
  <2>6. CASE ReceiveBlock(l)
    BY <2>6, ReceiveBlockSteady
  <2>7. CASE FinishSync(l)
    BY <2>7, FinishSteady
  <2>8. CASE ReceiveNotFound(l)
    BY <2>8, ReceiveNotFoundSteady
  <2> QED BY <2>1, <2>2, <2>3, <2>4, <2>5, <2>6, <2>7, <2>8 DEF SyncStep
<1>3. CASE UNCHANGED vars
  <2>1. chain' = chain /\ sync' = sync
    BY <1>3 DEF vars
  <2>2. sync' = [l \in Link |-> sync'[l]] /\ \A l \in Link : sync'[l] = sync[l]
    BY <2>1 DEF Steady
  <2> QED BY <2>1, <2>2, SessionsStep
<1> QED BY <1>1, <1>2, <1>3 DEF Next, Step, LinkStep

(* A race is never forgotten. *)
LEMMA RacedStays ==
    ASSUME raced \in BOOLEAN, [Next]_vars
    PROVE  raced' \in BOOLEAN /\ (raced => raced')
<1>1. CASE UNCHANGED raced
  BY <1>1
<1>2. CASE \E n \in Node : ExtendChain(n)
  BY <1>2 DEF ExtendChain, SetChain
<1>3. CASE \E l \in Link : FinishSync(l)
  BY <1>3 DEF FinishSync, SetChain
<1>4. \/ UNCHANGED raced
      \/ \E n \in Node : ExtendChain(n)
      \/ \E l \in Link : FinishSync(l)
  BY DEF Next, Step, LinkStep, SyncStep, Ask, AskPanics, Answer, ReceiveBlock, ReceiveNotFound,
         ReceiveEnd, StartSync, PreemptSync, Disconnect, Restart, vars
<1> QED BY <1>1, <1>2, <1>3, <1>4

LEMMA NextIInv == IInv /\ [Next]_vars => IInv' /\ (raced' \/ Grows)
BY NextSteady, RacedStays DEF IInv

LEMMA AlwaysIInv == Spec => []IInv
<1>1. IInv /\ [Next]_vars => IInv'
  BY NextIInv
<1> QED BY <1>1, InitIInv, PTL DEF Spec

----------------------------------------------------------------------------
(* Unless chains race, every node's table holds exactly the linked blocks  *)
(* up to its head: forks, preempted exchanges, broken connections and      *)
(* restarts do no harm, in a network of any size.                          *)
THEOREM IntegrityWithoutRaces == Spec => []IntegrityUnlessRaced
<1>1. IInv => IntegrityUnlessRaced
  BY DEF IInv, Steady, IntegrityUnlessRaced
<1> QED BY <1>1, AlwaysIInv, PTL

(* Unless chains race, no node's chain gets shorter, although              *)
(* try_update_longest compares no lengths.                                 *)
THEOREM GrowthWithoutRaces == Spec => GrowsUnlessRaced
<1>1. IInv /\ [Next]_vars
        => [raced' \/ \A n \in Node : chain'[n].height >= chain[n].height]_vars
  BY NextIInv DEF Grows
<1> QED BY <1>1, AlwaysIInv, PTL DEF Spec, GrowsUnlessRaced

(* Unless chains race, update_result.unwrap() does not panic.              *)
THEOREM AcceptanceWithoutRaces == Spec => []AcceptedUnlessRaced
<1>1. ASSUME IInv PROVE AcceptedUnlessRaced
  BY <1>1, LastBlock DEF IInv, AcceptedUnlessRaced
<1> QED BY <1>1, AlwaysIInv, PTL

----------------------------------------------------------------------------
(* Types, with and without races.  What a type depends on is the           *)
(* alternation of requests and responses: that an initiator never has two  *)
(* requests underway.                                                      *)

SeqLike(q) == Len(q) \in Nat /\ q = [k \in 1..Len(q) |-> q[k]]

Blocks(q) == SeqLike(q) /\ \A k \in 1..Len(q) : IsBlock(q[k])

IsResponse(r) ==
    /\ r.remaining \in Nat /\ IsBlock(r.block)
    /\ r.found => r.fork_index \in Nat \ {0}

Responses(q) == SeqLike(q) /\ \A k \in 1..Len(q) : IsResponse(q[k])

IsRequest(q) == \E i \in Nat \ {0} : \E h : q = <<[index |-> i, hash |-> h]>>

(* As long as the responder listens, request and response alternate.       *)
Alternating(s) ==
    /\ s.buffer = <<>>
    /\ \/ s.state = "ask" /\ s.requests = <<>> /\ s.responses = <<>>
       \/ s.state = "wait" /\ IsRequest(s.requests) /\ s.responses = <<>>
       \/ s.state = "wait" /\ s.requests = <<>> /\ s.responses = <<NotFound>>

SessionTyped(s) ==
    /\ Shaped(s)
    /\ s.state \in {"idle", "ask", "wait"}
    /\ s.state = "idle" => s = Idle
    /\ s.height \in Nat
    /\ s.state # "idle" => s.height # 0
    /\ s.listening \in BOOLEAN
    /\ s.listening => Alternating(s)
    /\ ~s.listening => s.requests = <<>>
    /\ Blocks(s.buffer)
    /\ Responses(s.responses)

Typed ==
    /\ chain = [n \in Node |-> chain[n]]
    /\ sync = [l \in Link |-> sync[l]]
    /\ \A n \in Node : ChainTyped(chain[n])
    /\ \A l \in Link : SessionTyped(sync[l])
    /\ raced \in BOOLEAN

----------------------------------------------------------------------------
(* Blocks, responses and chains. *)

LEMMA Nothing == Blocks(<<>>) /\ Responses(<<>>)
<1>1. Len(<<>>) = 0 /\ <<>> = [k \in 1..0 |-> <<>>[k]]
  BY EmptySeq
<1> QED BY <1>1 DEF Blocks, Responses, SeqLike

LEMMA OneNotFound == Responses(<<NotFound>>)
<1>1. PICK q : q = <<NotFound>>
  OBVIOUS
<1>2. Len(q) = 1 /\ q = [k \in 1..1 |-> q[k]] /\ \A k \in 1..1 : q[k] = NotFound
  BY <1>1
<1>3. IsResponse(NotFound)
  <2>1. /\ NotFound.remaining = 0 /\ NotFound.block = GenesisBlock
        /\ NotFound.found = FALSE
    BY DEF NotFound
  <2> QED BY <2>1, GenesisIsBlock DEF IsResponse
<1>4. Responses(q)
  BY <1>2, <1>3 DEF Responses, SeqLike
<1> QED BY <1>1, <1>4

(* What BlocksFrom reads is blocks, and as responses they count down. *)
LEMMA FoundTyped ==
    ASSUME NEW c, ChainTyped(c), NEW fork \in Nat \ {0}
    PROVE  Responses(Found(fork, BlocksFrom(c, fork)))
<1>1. PICK F : F = BlocksFrom(c, fork)
  OBVIOUS
<1>2. Len(F) \in Nat /\ \A k \in 1..Len(F) : IsBlock(F[k])
  <2>1. CASE \A i \in fork..c.height : HasBlock(c, i)
    <3> DEFINE n == c.height - fork + 1
    <3>1. F = [k \in 1..n |-> c.db[fork + k - 1]]
      BY <1>1, <2>1 DEF BlocksFrom
    <3>2. c.height \in Nat
      BY DEF ChainTyped, StoreOK
    <3>3. CASE n \in Nat
      <4>1. Len(F) = n
        <5> HIDE DEF n
        <5> QED BY <3>1, <3>3
      <4>2. ASSUME NEW k \in 1..n PROVE IsBlock(F[k])
        <5>1. fork + k - 1 \in fork..c.height
          BY <3>2
        <5>2. IsBlock(c.db[fork + k - 1])
          BY <2>1, <5>1 DEF HasBlock, ChainTyped, BlocksOK
        <5> QED BY <3>1, <5>2
      <4> QED BY <3>3, <4>1, <4>2
    <3>4. CASE n \notin Nat
      <4>1. 1..n = {}
        BY <3>2, <3>4
      <4>2. F = <<>>
        BY <3>1, <4>1
      <4> QED BY <4>2, Nothing DEF Blocks, SeqLike
    <3> QED BY <3>3, <3>4
  <2>2. CASE ~(\A i \in fork..c.height : HasBlock(c, i))
    <3>1. F = <<>>
      BY <1>1, <2>2 DEF BlocksFrom
    <3> QED BY <3>1, Nothing DEF Blocks, SeqLike
  <2> QED BY <2>1, <2>2
<1>3. PICK q : q = Found(fork, F)
  OBVIOUS
<1>4. q = [k \in 1..Len(F) |-> [found |-> TRUE, fork_index |-> fork, block |-> F[k],
                                remaining |-> Len(F) - k]]
  BY <1>3 DEF Found
<1>5. Len(q) = Len(F)
  BY <1>2, <1>4
<1>6. ASSUME NEW k \in 1..Len(F) PROVE IsResponse(q[k])
  <2>1. Len(F) - k \in Nat
    BY <1>2
  <2>2. /\ q[k].remaining = Len(F) - k /\ q[k].block = F[k] /\ q[k].fork_index = fork
    BY <1>4
  <2> QED BY <1>2, <2>1, <2>2 DEF IsResponse
<1>7. Responses(q)
  BY <1>2, <1>4, <1>5, <1>6 DEF Responses, SeqLike
<1> QED BY <1>1, <1>3, <1>7

LEMMA AppendBlock ==
    ASSUME NEW q, NEW b, Blocks(q), IsBlock(b)
    PROVE  Blocks(Append(q, b)) /\ Len(Append(q, b)) = Len(q) + 1
<1>1. PICK r : r = Append(q, b)
  OBVIOUS
<1>2. PICK n \in Nat : n = Len(q)
  BY DEF Blocks, SeqLike
<1>3. q = [k \in 1..n |-> q[k]] /\ \A k \in 1..n : IsBlock(q[k])
  BY <1>2 DEF Blocks, SeqLike
<1>4. r = [k \in 1..n + 1 |-> IF k = n + 1 THEN b ELSE q[k]]
  BY <1>1, <1>3, AppendOf
<1>5. Len(r) = n + 1
  BY <1>4
<1>6. ASSUME NEW k \in 1..n + 1 PROVE IsBlock(r[k])
  BY <1>3, <1>4
<1>7. Blocks(r)
  BY <1>4, <1>5, <1>6 DEF Blocks, SeqLike
<1> QED BY <1>1, <1>2, <1>5, <1>7

LEMMA TailResponses ==
    ASSUME NEW q, Responses(q), q # <<>>
    PROVE  Responses(Tail(q)) /\ IsResponse(Head(q))
<1>1. PICK n \in Nat : n = Len(q)
  BY DEF Responses, SeqLike
<1>2. q = [k \in 1..n |-> q[k]] /\ \A k \in 1..n : IsResponse(q[k])
  BY <1>1 DEF Responses, SeqLike
<1>3. n # 0
  BY <1>2
<1>4. PICK t : t = Tail(q)
  OBVIOUS
<1>5. Head(q) = q[1] /\ t = [k \in 1..n - 1 |-> q[k + 1]]
  BY <1>2, <1>3, <1>4, TailOf
<1>6. n - 1 \in Nat
  BY <1>3
<1>7. Len(t) = n - 1
  BY <1>5, <1>6
<1>8. ASSUME NEW k \in 1..n - 1 PROVE IsResponse(t[k])
  BY <1>2, <1>5
<1>9. Responses(t)
  BY <1>5, <1>6, <1>7, <1>8 DEF Responses, SeqLike
<1> QED BY <1>2, <1>3, <1>4, <1>5, <1>9

(* A step of exchanges only, and one of a chain and exchanges that end.    *)
LEMMA SessionsStepTyped ==
    ASSUME Typed, raced' \in BOOLEAN, UNCHANGED chain, sync' = [l \in Link |-> sync'[l]],
           \A l \in Link : sync'[l] = sync[l] \/ SessionTyped(sync'[l])
    PROVE  Typed'
BY DEF Typed

LEMMA IdleTyped == SessionTyped(Idle)
BY Nothing DEF Idle, SessionTyped, Shaped

LEMMA ChainStepTyped ==
    ASSUME Typed, raced' \in BOOLEAN, NEW n \in Node, NEW c,
           chain' = [chain EXCEPT ![n] = c], ChainTyped(c),
           sync' = [l \in Link |-> sync'[l]],
           \A l \in Link : sync'[l] = sync[l] \/ sync'[l] = Idle
    PROVE  Typed'
<1>1. /\ chain' = [m \in Node |-> chain'[m]]
      /\ \A m \in Node : chain'[m] = IF m = n THEN c ELSE chain[m]
  BY DEF Typed
<1>2. \A m \in Node : ChainTyped(chain'[m])
  BY <1>1 DEF Typed
<1>3. \A l \in Link : SessionTyped(sync'[l])
  BY IdleTyped DEF Typed
<1> QED BY <1>1, <1>2, <1>3 DEF Typed

----------------------------------------------------------------------------
(* One lemma for each action. *)

LEMMA StartTyped ==
    ASSUME Typed, raced' \in BOOLEAN, NEW l \in Link, StartSync(l) \/ PreemptSync(l)
    PROVE  Typed'
<1>1. PICK s : s = Started(l[1])
  OBVIOUS
<1>2. chain' = chain /\ sync' = [sync EXCEPT ![l] = s]
  BY <1>1 DEF StartSync, PreemptSync
<1>3. chain[l[1]].height \in Nat \ {0}
  BY LinkEnds DEF Typed, ChainTyped, StoreOK
<1>4. /\ Shaped(s) /\ s.height = chain[l[1]].height
      /\ s.state = "ask" /\ s.listening = TRUE
      /\ s.buffer = <<>> /\ s.requests = <<>> /\ s.responses = <<>>
  BY <1>1 DEF Started, Idle, Shaped
<1>5. Alternating(s)
  BY <1>4 DEF Alternating
<1>6. SessionTyped(s)
  BY <1>3, <1>4, <1>5, Nothing DEF SessionTyped
<1>7. /\ sync' = [k \in Link |-> sync'[k]]
      /\ \A k \in Link : sync'[k] = IF k = l THEN s ELSE sync[k]
  BY <1>2 DEF Typed
<1> QED BY <1>2, <1>6, <1>7, SessionsStepTyped

LEMMA DroppedTyped ==
    ASSUME Typed, raced' \in BOOLEAN, NEW l \in Link, UNCHANGED chain,
           sync' = Dropped(l) \/ sync' = [sync EXCEPT ![l] = Idle]
    PROVE  Typed'
<1>1. /\ sync' = [k \in Link |-> sync'[k]]
      /\ \A k \in Link : sync'[k] = sync[k] \/ sync'[k] = Idle
  BY DEF Dropped, Typed
<1> QED BY <1>1, IdleTyped, SessionsStepTyped

LEMMA AskTyped ==
    ASSUME Typed, raced' \in BOOLEAN, NEW l \in Link, Ask(l)
    PROVE  Typed'
<1> DEFINE s == sync[l]
           t == sync'[l]
           c == chain[l[1]]
<1>1. /\ s.state = "ask" /\ chain' = chain
      /\ sync' = [sync EXCEPT
               ![l].state = "wait",
               ![l].requests = IF s.listening
                               THEN Append(s.requests, [index |-> s.height,
                                                        hash |-> Hash(c.db[s.height])])
                               ELSE s.requests]
  BY DEF Ask
<1>2. sync = [k \in Link |-> sync[k]] /\ SessionTyped(s) /\ Shaped(s)
  BY DEF Typed, SessionTyped
<1>3. /\ sync' = [k \in Link |-> sync'[k]]
      /\ \A k \in Link \ {l} : sync'[k] = sync[k]
  BY <1>1, <1>2
<1>4. /\ Shaped(t) /\ t.state = "wait"
      /\ t.height = s.height /\ t.buffer = s.buffer
      /\ t.listening = s.listening /\ t.responses = s.responses
      /\ t.requests = IF s.listening
                      THEN Append(s.requests, [index |-> s.height,
                                               hash |-> Hash(c.db[s.height])])
                      ELSE s.requests
  BY <1>1, <1>2 DEF Shaped
<1>5. ASSUME s.listening PROVE Alternating(t)
  <2>1. s.requests = <<>> /\ s.responses = <<>> /\ s.buffer = <<>> /\ s.height \in Nat \ {0}
    BY <1>1, <1>2, <1>5 DEF SessionTyped, Alternating
  <2>2. t.requests = <<[index |-> s.height, hash |-> Hash(c.db[s.height])]>>
    BY <1>4, <1>5, <2>1
  <2>3. IsRequest(t.requests)
    BY <2>1, <2>2 DEF IsRequest
  <2> QED BY <1>4, <2>1, <2>3 DEF Alternating
<1>6. SessionTyped(t)
  BY <1>1, <1>2, <1>4, <1>5 DEF SessionTyped
<1> QED BY <1>1, <1>3, <1>6, SessionsStepTyped

LEMMA AnsweredTyped ==
    ASSUME NEW s, NEW p, SessionTyped(s), ChainTyped(p), s.listening, s.requests # <<>>
    PROVE  SessionTyped(Answered(s, p))
<1> DEFINE request == Head(s.requests)
<1>1. PICK t : t = Answered(s, p)
  OBVIOUS
<1>2. /\ s.state = "wait" /\ s.buffer = <<>> /\ s.responses = <<>> /\ Shaped(s)
      /\ s.listening = TRUE /\ IsRequest(s.requests) /\ s.height \in Nat /\ s.height # 0
  BY DEF SessionTyped, Alternating
<1>3. PICK i \in Nat \ {0} : \E h : s.requests = <<[index |-> i, hash |-> h]>>
  BY <1>2 DEF IsRequest
<1>4. request.index = i /\ Tail(s.requests) = <<>>
  BY <1>3
<1>5. PICK rest : rest = [s EXCEPT !.requests = Tail(s.requests)]
  OBVIOUS
<1>6. /\ Shaped(rest) /\ rest.state = "wait" /\ rest.height = s.height
      /\ rest.buffer = <<>> /\ rest.requests = <<>> /\ rest.responses = <<>>
      /\ rest.listening = TRUE
  BY <1>2, <1>4, <1>5 DEF Shaped
<1>7. CASE t = [rest EXCEPT !.listening = FALSE]
  <2>1. /\ Shaped(t) /\ t.state = "wait" /\ t.height = s.height /\ t.listening = FALSE
        /\ t.buffer = <<>> /\ t.requests = <<>> /\ t.responses = <<>>
    BY <1>6, <1>7 DEF Shaped
  <2> QED BY <1>1, <1>2, <2>1, Nothing DEF SessionTyped
<1>8. CASE t = [rest EXCEPT !.responses = Append(s.responses, NotFound)]
  <2>1. Append(s.responses, NotFound) = <<NotFound>>
    BY <1>2
  <2>2. /\ Shaped(t) /\ t.state = "wait" /\ t.height = s.height /\ t.listening = TRUE
        /\ t.buffer = <<>> /\ t.requests = <<>> /\ t.responses = <<NotFound>>
    BY <1>6, <1>8, <2>1 DEF Shaped
  <2>3. Alternating(t)
    BY <2>2 DEF Alternating
  <2> QED BY <1>1, <1>2, <2>2, <2>3, Nothing, OneNotFound DEF SessionTyped
<1>9. CASE t = [rest EXCEPT !.listening = FALSE,
                            !.responses = s.responses \o Found(i, BlocksFrom(p, i))]
  <2>1. PICK q : q = Found(i, BlocksFrom(p, i))
    OBVIOUS
  <2>2. Responses(q)
    BY <2>1, FoundTyped
  <2>3. s.responses \o q = q
    <3>1. q \in Seq(Range(q))
      BY <2>2, OneByOne DEF Responses, SeqLike
    <3> QED BY <1>2, <3>1, ConcatEmptySeq
  <2>4. /\ Shaped(t) /\ t.state = "wait" /\ t.height = s.height /\ t.listening = FALSE
        /\ t.buffer = <<>> /\ t.requests = <<>> /\ t.responses = q
    BY <1>6, <1>9, <2>1, <2>3 DEF Shaped
  <2> QED BY <1>1, <1>2, <2>2, <2>4, Nothing DEF SessionTyped
<1>10. \/ t = [rest EXCEPT !.listening = FALSE]
       \/ t = [rest EXCEPT !.responses = Append(s.responses, NotFound)]
       \/ t = [rest EXCEPT !.listening = FALSE,
                           !.responses = s.responses \o Found(i, BlocksFrom(p, i))]
  BY <1>1, <1>4, <1>5 DEF Answered
<1> QED BY <1>7, <1>8, <1>9, <1>10

LEMMA AnswerTyped ==
    ASSUME Typed, raced' \in BOOLEAN, NEW l \in Link, Answer(l)
    PROVE  Typed'
<1>1. PICK t : t = Answered(sync[l], chain[l[2]])
  OBVIOUS
<1>2. chain' = chain /\ sync' = [sync EXCEPT ![l] = t]
  BY <1>1 DEF Answer
<1>3. SessionTyped(t)
  BY <1>1, LinkEnds, AnsweredTyped DEF Answer, Typed
<1>4. /\ sync' = [k \in Link |-> sync'[k]]
      /\ \A k \in Link : sync'[k] = IF k = l THEN t ELSE sync[k]
  BY <1>2 DEF Typed
<1> QED BY <1>2, <1>3, <1>4, SessionsStepTyped

LEMMA ReceiveBlockTyped ==
    ASSUME Typed, raced' \in BOOLEAN, NEW l \in Link, ReceiveBlock(l)
    PROVE  Typed'
<1> DEFINE s == sync[l]
           t == sync'[l]
           r == Head(s.responses)
<1>1. /\ s.state = "wait" /\ s.responses # <<>> /\ r.found
      /\ chain' = chain
      /\ sync' = [sync EXCEPT ![l].state = "ask",
                              ![l].buffer = Append(s.buffer, r.block),
                              ![l].responses = Tail(s.responses)]
  BY DEF ReceiveBlock, CanReceive
<1>2. sync = [k \in Link |-> sync[k]] /\ SessionTyped(s) /\ Shaped(s)
  BY DEF Typed, SessionTyped
<1>3. /\ sync' = [k \in Link |-> sync'[k]]
      /\ \A k \in Link \ {l} : sync'[k] = sync[k]
  BY <1>1, <1>2
<1>4. /\ Shaped(t) /\ t.state = "ask" /\ t.height = s.height
      /\ t.requests = s.requests /\ t.listening = s.listening
      /\ t.buffer = Append(s.buffer, r.block) /\ t.responses = Tail(s.responses)
  BY <1>1, <1>2 DEF Shaped
<1>5. Responses(t.responses) /\ IsBlock(r.block)
  BY <1>1, <1>2, <1>4, TailResponses DEF SessionTyped, IsResponse
<1>6. Blocks(t.buffer)
  BY <1>2, <1>4, <1>5, AppendBlock DEF SessionTyped
<1>7. ~s.listening
  <2>1. s.responses # <<NotFound>>
    BY <1>1 DEF NotFound
  <2> QED BY <1>1, <1>2, <2>1 DEF SessionTyped, Alternating
<1>8. SessionTyped(t)
  BY <1>1, <1>2, <1>4, <1>5, <1>6, <1>7 DEF SessionTyped
<1> QED BY <1>1, <1>3, <1>8, SessionsStepTyped

LEMMA ReceiveNotFoundTyped ==
    ASSUME Typed, raced' \in BOOLEAN, NEW l \in Link, ReceiveNotFound(l)
    PROVE  Typed'
<1> DEFINE s == sync[l]
<1>1. PICK t : /\ t = IF s.height = 1 THEN Idle
                      ELSE [s EXCEPT !.state = "ask", !.height = s.height - 1,
                                     !.responses = Tail(s.responses)]
               /\ sync' = [sync EXCEPT ![l] = t]
               /\ chain' = chain /\ s.state = "wait" /\ s.responses # <<>>
  BY DEF ReceiveNotFound, CanReceive
<1>2. SessionTyped(s) /\ Shaped(s) /\ s.height \in Nat /\ s.height # 0
  BY <1>1 DEF Typed, SessionTyped
<1>3. SessionTyped(t)
  <2>1. CASE s.height = 1
    BY <1>1, <2>1, IdleTyped
  <2>2. CASE s.height # 1
    <3>1. t = [s EXCEPT !.state = "ask", !.height = s.height - 1,
                        !.responses = Tail(s.responses)]
      BY <1>1, <2>2
    <3>2. /\ Shaped(t) /\ t.state = "ask" /\ t.height = s.height - 1
          /\ t.requests = s.requests /\ t.listening = s.listening
          /\ t.buffer = s.buffer /\ t.responses = Tail(s.responses)
      BY <1>2, <3>1 DEF Shaped
    <3>3. Responses(t.responses)
      BY <1>1, <1>2, <3>2, TailResponses DEF SessionTyped
    <3>4. ASSUME s.listening PROVE Alternating(t)
      <4>1. s.requests = <<>> /\ s.responses = <<NotFound>> /\ s.buffer = <<>>
        BY <1>1, <1>2, <3>4 DEF SessionTyped, Alternating
      <4>2. Tail(s.responses) = <<>>
        BY <4>1
      <4> QED BY <3>2, <4>1, <4>2 DEF Alternating
    <3>5. t.height \in Nat /\ t.height # 0
      BY <1>2, <2>2, <3>2
    <3> QED BY <1>2, <3>2, <3>3, <3>4, <3>5 DEF SessionTyped
  <2> QED BY <2>1, <2>2
<1>4. /\ sync' = [k \in Link |-> sync'[k]]
      /\ \A k \in Link : sync'[k] = IF k = l THEN t ELSE sync[k]
  BY <1>1 DEF Typed
<1> QED BY <1>1, <1>3, <1>4, SessionsStepTyped

(* What the chain is after FinishSync, but for its pool.                    *)
LEMMA AdoptedTyped ==
    ASSUME NEW c, ChainTyped(c), NEW fork \in Nat \ {0},
           NEW bs, Blocks(bs), Len(bs) # 0, NEW d, NEW e,
           d = TryUpdateLongest(c, fork, bs, TRUE), e = [d EXCEPT !.ballot_pool = <<>>]
    PROVE  ChainTyped(e)
<1>1. Len(bs) \in Nat \ {0} /\ \A k \in 1..Len(bs) : IsBlock(bs[k])
  BY DEF Blocks, SeqLike
<1>2. ChainTyped(d)
  BY <1>1, UpdateTyped
<1>3. StoreOK(e) /\ e.db = d.db /\ e.ballot_pool = <<>>
  <2>1. StoreOK(d)
    BY <1>2, Zenon DEF ChainTyped
  <2>2. StoreOK(e)
    BY <2>1, WithPool
  <2>3. e = [db |-> d.db, height |-> d.height, ballot_pool |-> <<>>]
    BY <2>1, PoolReplaced
  <2> QED BY <2>2, <2>3
<1> QED BY <1>2, <1>3, EmptySeq DEF ChainTyped, BlocksOK, PoolOK

(* The update at the end of the exchange on l, of the chain c to d.        *)
Updates(l, c, fork, bs, d) ==
    /\ c = chain[l[1]]
    /\ d = TryUpdateLongest(c, fork, bs, TRUE)
    /\ chain' = [chain EXCEPT ![l[1]] = [d EXCEPT !.ballot_pool = <<>>]]
    /\ sync' = [sync EXCEPT ![l] = Idle] \/ sync' = Dropped(l)

LEMMA LastReceived ==
    ASSUME Typed, NEW l \in Link, FinishSync(l)
    PROVE  \E fork \in Nat \ {0} : \E c, bs, d :
               /\ Updates(l, c, fork, bs, d)
               /\ fork = Head(sync[l].responses).fork_index
               /\ bs = Append(sync[l].buffer, Head(sync[l].responses).block)
               /\ ChainTyped(c) /\ Blocks(bs) /\ Len(bs) # 0
<1> DEFINE c == chain[l[1]]
           r == Head(sync[l].responses)
<1>1. PICK bs, d :
          /\ bs = Append(sync[l].buffer, r.block)
          /\ d = TryUpdateLongest(c, r.fork_index, bs, TRUE)
  OBVIOUS
<1>2. /\ sync[l].responses # <<>> /\ r.found
      /\ Updates(l, c, r.fork_index, bs, d)
  BY <1>1 DEF FinishSync, CanReceive, SetChain, Updates
<1>3. ChainTyped(c) /\ Blocks(sync[l].buffer) /\ Responses(sync[l].responses)
  BY LinkEnds DEF Typed, SessionTyped
<1>4. r.fork_index \in Nat \ {0} /\ IsBlock(r.block)
  BY <1>2, <1>3, TailResponses DEF IsResponse
<1>5. Blocks(bs) /\ Len(bs) # 0
  <2>1. Blocks(bs) /\ Len(bs) = Len(sync[l].buffer) + 1
    BY <1>1, <1>3, <1>4, AppendBlock
  <2>2. Len(sync[l].buffer) \in Nat
    BY <1>3 DEF Blocks, SeqLike
  <2> QED BY <2>1, <2>2
<1> QED BY <1>1, <1>2, <1>3, <1>4, <1>5

LEMMA FinishTyped ==
    ASSUME Typed, raced' \in BOOLEAN, NEW l \in Link, FinishSync(l)
    PROVE  Typed'
<1>1. PICK fork, c, bs, d :
          /\ fork \in Nat \ {0}
          /\ Updates(l, c, fork, bs, d) /\ ChainTyped(c) /\ Blocks(bs) /\ Len(bs) # 0
  BY LastReceived
<1>2. PICK e : e = [d EXCEPT !.ballot_pool = <<>>]
  OBVIOUS
<1>3. ChainTyped(e)
  BY <1>1, <1>2, AdoptedTyped DEF Updates
<1>4. /\ sync' = [k \in Link |-> sync'[k]]
      /\ \A k \in Link : sync'[k] = sync[k] \/ sync'[k] = Idle
  BY <1>1 DEF Updates, Dropped, Typed
<1> QED BY <1>1, <1>2, <1>3, <1>4, LinkEnds, ChainStepTyped DEF Updates

LEMMA ExtendTyped ==
    ASSUME Typed, raced' \in BOOLEAN, NEW n \in Node, ExtendChain(n)
    PROVE  Typed'
<1> DEFINE c == chain[n]
<1>1. PICK ts, ballots, b, d :
          /\ ts \in Timestamp /\ ballots \in Payload(n)
          /\ b = NewBlock(c.db[c.height], ts, ballots)
          /\ d = TryAppend(c, b, TRUE)
          /\ chain' = [chain EXCEPT ![n] = d]
          /\ UNCHANGED sync
  BY DEF ExtendChain, SetChain
<1>2. ChainTyped(c)
  BY DEF Typed
<1>3. IsBlock(b)
  <2>1. ts \in Nat /\ ballots \in Seq(Ballot)
    BY <1>1, TimestampAssumption, PayloadAssumption
  <2> QED BY <1>1, <2>1 DEF NewBlock, IsBlock
<1>4. ChainTyped(d)
  <2>1. CASE d = c
    BY <1>2, <2>1
  <2>2. CASE d = Appended(c, b)
    <3>1. /\ StoreOK(d) /\ DOMAIN d.db = DOMAIN c.db \cup {c.height + 1}
          /\ d.db[c.height + 1] = b
          /\ \A i \in DOMAIN c.db : i # c.height + 1 => d.db[i] = c.db[i]
      BY <1>2, <2>2, AppendedChain DEF ChainTyped
    <3>2. BlocksOK(d)
      BY <1>2, <1>3, <3>1 DEF ChainTyped, BlocksOK
    <3>3. d.ballot_pool = c.ballot_pool
      BY <2>2 DEF Appended, WithBlocks
    <3> QED BY <1>2, <3>1, <3>2, <3>3 DEF ChainTyped, PoolOK
  <2> QED BY <1>1, <2>1, <2>2 DEF TryAppend
<1>5. sync' = [l \in Link |-> sync'[l]] /\ \A l \in Link : sync'[l] = sync[l]
  BY <1>1 DEF Typed
<1> QED BY <1>1, <1>4, <1>5, ChainStepTyped

LEMMA RestartTyped ==
    ASSUME Typed, raced' \in BOOLEAN, NEW n \in Node, Restart(n)
    PROVE  Typed'
<1>1. PICK d : d = Open(chain[n].db)
  OBVIOUS
<1>2. /\ chain' = [chain EXCEPT ![n] = d]
      /\ sync' = [l \in Link |-> IF n \in {l[1], l[2]} THEN Idle ELSE sync[l]]
  BY <1>1 DEF Restart
<1>3. ChainTyped(chain[n])
  BY DEF Typed
<1>4. StoreOK(d) /\ d.db = chain[n].db
  BY <1>1, <1>3, OpenStored DEF ChainTyped
<1>5. d.ballot_pool = <<>>
  BY <1>1 DEF Open
<1>6. ChainTyped(d)
  BY <1>3, <1>4, <1>5, EmptySeq DEF ChainTyped, BlocksOK, PoolOK
<1>7. /\ sync' = [l \in Link |-> sync'[l]]
      /\ \A l \in Link : sync'[l] = sync[l] \/ sync'[l] = Idle
  BY <1>2
<1> QED BY <1>2, <1>6, <1>7, ChainStepTyped

----------------------------------------------------------------------------
LEMMA InitTyped == Init => Typed
<1> SUFFICES ASSUME Init PROVE Typed
  OBVIOUS
<1>1. PICK c : c = Open([i \in {} |-> GenesisBlock])
  OBVIOUS
<1>2. chain = [n \in Node |-> c] /\ sync = [l \in Link |-> Idle] /\ raced = FALSE
  BY <1>1 DEF Init
<1>3. StoreOK(c)
  BY <1>1, OpenEmpty
<1>4. c.db = [i \in {1} |-> GenesisBlock] /\ c.ballot_pool = <<>>
  BY <1>1 DEF Open
<1>5. ChainTyped(c)
  BY <1>3, <1>4, GenesisIsBlock, EmptySeq DEF ChainTyped, BlocksOK, PoolOK
<1> QED BY <1>2, <1>5, IdleTyped DEF Typed

LEMMA NextTyped == Typed /\ [Next]_vars => Typed'
<1> SUFFICES ASSUME Typed, [Next]_vars PROVE Typed'
  OBVIOUS
<1>1. raced' \in BOOLEAN
  BY RacedStays DEF Typed
<1>2. CASE \E n \in Node : ExtendChain(n) \/ Restart(n)
  BY <1>1, <1>2, ExtendTyped, RestartTyped
<1>3. CASE \E l \in Link : SyncStep(l) \/ StartSync(l) \/ PreemptSync(l) \/ Disconnect(l)
  <2>1. PICK l \in Link : SyncStep(l) \/ StartSync(l) \/ PreemptSync(l) \/ Disconnect(l)
    BY <1>3
  <2>2. CASE StartSync(l) \/ PreemptSync(l)
    BY <1>1, <2>2, StartTyped
  <2>3. CASE Disconnect(l) \/ AskPanics(l) \/ ReceiveEnd(l)
    BY <1>1, <2>3, DroppedTyped DEF Disconnect, AskPanics, ReceiveEnd
  <2>4. CASE Ask(l)
    BY <1>1, <2>4, AskTyped
  <2>5. CASE Answer(l)
    BY <1>1, <2>5, AnswerTyped
  <2>6. CASE ReceiveBlock(l)
    BY <1>1, <2>6, ReceiveBlockTyped
  <2>7. CASE FinishSync(l)
    BY <1>1, <2>7, FinishTyped
  <2>8. CASE ReceiveNotFound(l)
    BY <1>1, <2>8, ReceiveNotFoundTyped
  <2> QED BY <2>1, <2>2, <2>3, <2>4, <2>5, <2>6, <2>7, <2>8 DEF SyncStep
<1>4. CASE UNCHANGED vars
  BY <1>4 DEF vars, Typed
<1> QED BY <1>2, <1>3, <1>4 DEF Next, Step, LinkStep

LEMMA AlwaysTyped == Spec => []Typed
BY InitTyped, NextTyped, PTL DEF Spec

Remembered == shortened \subseteq Node

LEMMA AlwaysRemembered == Spec => []Remembered
<1>1. Init => Remembered
  BY DEF Init, Remembered
<1>2. Remembered /\ [Next]_vars => Remembered'
  <2>1. Remembered /\ Noted => Remembered'
    BY DEF Remembered, Noted
  <2> QED BY <2>1 DEF Next, Remembered, vars
<1> QED BY <1>1, <1>2, PTL DEF Spec

(* Chains and exchanges have their types, and no initiator has more than   *)
(* one request underway, whatever races there are.                         *)
THEOREM TypeCorrect == Spec => []TypeOK
<1>1. ASSUME NEW s, SessionTyped(s) PROVE SessionOK(s)
  <2>1. Len(s.requests) <= 1
    <3>1. s.requests = <<>> \/ IsRequest(s.requests)
      BY <1>1 DEF SessionTyped, Alternating
    <3>2. CASE s.requests = <<>>
      BY <3>2
    <3>3. CASE IsRequest(s.requests)
      <4>1. PICK x : s.requests = <<x>>
        BY <3>3 DEF IsRequest
      <4> QED BY <4>1
    <3> QED BY <3>1, <3>2, <3>3
  <2>2. \A k \in DOMAIN s.buffer : IsBlock(s.buffer[k])
    BY <1>1 DEF SessionTyped, Blocks, SeqLike
  <2>3. \A k \in DOMAIN s.responses : IsResponse(s.responses[k])
    BY <1>1 DEF SessionTyped, Responses, SeqLike
  <2> QED BY <1>1, <2>1, <2>2, <2>3 DEF SessionTyped, SessionOK, IsResponse
<1>2. Typed /\ Remembered => TypeOK
  BY <1>1 DEF Typed, ChainTyped, Remembered, TypeOK
<1> QED BY <1>2, AlwaysTyped, AlwaysRemembered, PTL

----------------------------------------------------------------------------
(* Nodes whose chain never got shorter.  An update under the feet of       *)
(* another exchange may find a chain that it was not meant for, but a      *)
(* block it leaves over lies above the new head, and the new head below    *)
(* the old one.                                                            *)

Intact(c) == Clean(c) /\ Linked(c) /\ Rooted(c)

Weathers(c, d) == Intact(c) => Linked(d) /\ Rooted(d) /\ (Clean(d) \/ d.height < c.height)

Sturdy ==
    /\ \A n \in Node \ shortened : Intact(chain[n])
    /\ \A l \in Link : l[1] \notin shortened => sync[l].height <= chain[l[1]].height

LEMMA SameTableIntact ==
    ASSUME NEW c, NEW d, d.db = c.db, d.height = c.height
    PROVE  Intact(d) <=> Intact(c)
BY DEF Intact, Clean, Linked, Rooted, HasBlock

LEMMA OtherChainsWeather ==
    ASSUME Typed, NEW n \in Node, NEW e, chain' = [chain EXCEPT ![n] = e],
           Weathers(chain[n], e)
    PROVE  \A m \in Node : Weathers(chain[m], chain'[m])
<1>1. \A m \in Node : chain'[m] = IF m = n THEN e ELSE chain[m]
  BY DEF Typed
<1> QED BY <1>1 DEF Weathers, Intact

LEMMA UpdateWeathers ==
    ASSUME NEW c, ChainTyped(c), NEW fork \in Nat \ {0}, NEW bs, Blocks(bs), Len(bs) # 0,
           NEW d, d = TryUpdateLongest(c, fork, bs, TRUE)
    PROVE  Weathers(c, [d EXCEPT !.ballot_pool = <<>>])
<1>1. /\ StoreOK(c) /\ Len(bs) \in Nat \ {0} /\ IsBlock(bs[1])
  BY DEF ChainTyped, Blocks, SeqLike
<1>2. StoreOK(d) /\ (Intact(c) => Linked(d) /\ (Clean(d) \/ d.height < c.height))
  BY <1>1, TryUpdateLongestChain DEF Intact
<1>3. Intact(c) => Rooted(d)
  BY <1>1, UpdateRooted DEF Intact
<1>4. PICK e : e = [d EXCEPT !.ballot_pool = <<>>]
  OBVIOUS
<1>5. e.db = d.db /\ e.height = d.height
  BY <1>2, <1>4, WithPool
<1> QED BY <1>2, <1>3, <1>4, <1>5 DEF Weathers, Clean, Linked, Rooted, HasBlock

LEMMA ExtendWeathers ==
    ASSUME Typed, NEW n \in Node, ExtendChain(n)
    PROVE  \A m \in Node : Weathers(chain[m], chain'[m])
<1> DEFINE c == chain[n]
<1>1. PICK b, d : d = TryAppend(c, b, TRUE) /\ chain' = [chain EXCEPT ![n] = d]
  BY DEF ExtendChain, SetChain
<1>2. StoreOK(c)
  BY DEF Typed, ChainTyped
<1>3. Intact(c) => Clean(d) /\ Linked(d)
  BY <1>1, <1>2, TryAppendChain DEF Intact
<1>4. Intact(c) => Rooted(d)
  <2>1. d = c \/ d = Appended(c, b)
    BY <1>1 DEF TryAppend
  <2>2. c.height \in Nat \ {0} /\ (Clean(c) => 1 \in DOMAIN c.db /\ 1 # c.height + 1)
    BY <1>2 DEF StoreOK, Clean
  <2>3. d = Appended(c, b) /\ Clean(c) => d.db[1] = c.db[1]
    BY <1>2, <2>2, AppendedChain
  <2> QED BY <2>1, <2>3 DEF Intact, Rooted
<1> QED BY <1>1, <1>3, <1>4, OtherChainsWeather DEF Weathers

LEMMA RestartWeathers ==
    ASSUME Typed, NEW n \in Node, Restart(n)
    PROVE  \A m \in Node : Weathers(chain[m], chain'[m])
<1>1. PICK d : d = Open(chain[n].db) /\ chain' = [chain EXCEPT ![n] = d]
  BY DEF Restart
<1>2. StoreOK(chain[n])
  BY DEF Typed, ChainTyped
<1>3. d.db = chain[n].db /\ (Clean(chain[n]) => d.height = chain[n].height)
  BY <1>1, <1>2, OpenStored, OpenClean
<1>4. Weathers(chain[n], d)
  BY <1>3, SameTableIntact DEF Weathers, Intact
<1> QED BY <1>1, <1>4, OtherChainsWeather

LEMMA StepWeathers ==
    ASSUME Typed, [Next]_vars
    PROVE  \A n \in Node : Weathers(chain[n], chain'[n])
<1>1. CASE UNCHANGED chain
  BY <1>1 DEF Weathers, Intact
<1>2. CASE \E l \in Link : FinishSync(l)
  <2>1. PICK l \in Link : FinishSync(l)
    BY <1>2
  <2>2. PICK fork, c, bs, d :
            /\ fork \in Nat \ {0}
            /\ Updates(l, c, fork, bs, d) /\ ChainTyped(c) /\ Blocks(bs) /\ Len(bs) # 0
    BY <2>1, LastReceived
  <2>3. Weathers(c, [d EXCEPT !.ballot_pool = <<>>])
    BY <2>2, UpdateWeathers DEF Updates
  <2> QED BY <2>2, <2>3, LinkEnds, OtherChainsWeather DEF Updates
<1>3. CASE \E n \in Node : ExtendChain(n) \/ Restart(n)
  BY <1>3, ExtendWeathers, RestartWeathers
<1>4. UNCHANGED chain \/ (\E l \in Link : FinishSync(l))
          \/ (\E n \in Node : ExtendChain(n) \/ Restart(n))
  BY DEF Next, Step, LinkStep, SyncStep, Ask, AskPanics, Answer, ReceiveBlock, ReceiveNotFound,
         ReceiveEnd, StartSync, PreemptSync, Disconnect, vars
<1> QED BY <1>1, <1>2, <1>3, <1>4

(* Only a new exchange makes the height of a search greater: to that of    *)
(* the chain.                                                              *)
Descends(l) ==
    sync'[l].height <= sync[l].height \/ sync'[l].height <= chain'[l[1]].height

LEMMA OneDescends ==
    ASSUME Typed, NEW l \in Link, NEW t, t.height <= sync[l].height, sync' = [sync EXCEPT ![l] = t]
    PROVE  \A k \in Link : Descends(k)
<1>1. \A k \in Link : sync'[k] = IF k = l THEN t ELSE sync[k]
  BY DEF Typed
<1>2. \A k \in Link : sync[k].height \in Nat
  BY DEF Typed, SessionTyped
<1> QED BY <1>1, <1>2 DEF Descends

LEMMA SameHeight ==
    ASSUME NEW s, SessionTyped(s), NEW p, NEW x, NEW y
    PROVE  /\ [s EXCEPT !.state = "wait", !.requests = x].height <= s.height
           /\ Answered(s, p).height <= s.height
           /\ [s EXCEPT !.state = "ask", !.buffer = x, !.responses = y].height <= s.height
           /\ [s EXCEPT !.state = "ask", !.height = s.height - 1,
                        !.responses = y].height <= s.height
<1>1. PICK a, b, c, d, e, g :
          s = [state |-> a, height |-> b, buffer |-> c, requests |-> d,
               listening |-> e, responses |-> g]
  BY DEF SessionTyped, Shaped
<1>2. s.height \in Nat
  BY DEF SessionTyped
<1>3. Answered(s, p).height <= s.height
  BY <1>1, <1>2 DEF Answered
<1> QED BY <1>1, <1>2, <1>3

LEMMA IdleDescends ==
    ASSUME Typed, \A k \in Link : sync'[k] = sync[k] \/ sync'[k] = Idle
    PROVE  \A k \in Link : Descends(k)
<1>1. \A k \in Link : sync[k].height \in Nat
  BY DEF Typed, SessionTyped
<1> QED BY <1>1 DEF Descends, Idle

LEMMA StepDescends ==
    ASSUME Typed, [Next]_vars
    PROVE  \A l \in Link : Descends(l)
<1>0. \A l \in Link : SessionTyped(sync[l]) /\ sync[l].height \in Nat
  BY DEF Typed, SessionTyped
<1>1. CASE \E n \in Node : ExtendChain(n) \/ Restart(n)
  <2>1. \A l \in Link : sync'[l] = sync[l] \/ sync'[l] = Idle
    BY <1>1 DEF ExtendChain, Restart
  <2> QED BY <2>1, IdleDescends
<1>2. CASE UNCHANGED vars
  BY <1>2, IdleDescends DEF vars
<1>3. ASSUME NEW l \in Link, LinkStep(l) PROVE \A k \in Link : Descends(k)
  <2>1. CASE StartSync(l) \/ PreemptSync(l)
    <3>1. UNCHANGED chain /\ \A k \in Link : sync'[k] = IF k = l THEN Started(l[1]) ELSE sync[k]
      BY <2>1 DEF StartSync, PreemptSync, Typed
    <3>2. Started(l[1]).height = chain[l[1]].height
      BY DEF Started, Idle
    <3>3. chain[l[1]].height \in Nat
      BY LinkEnds DEF Typed, ChainTyped, StoreOK
    <3> QED BY <1>0, <3>1, <3>2, <3>3 DEF Descends
  <2>2. CASE Disconnect(l) \/ AskPanics(l) \/ ReceiveEnd(l) \/ FinishSync(l)
    <3>1. \A k \in Link : sync'[k] = sync[k] \/ sync'[k] = Idle
      BY <2>2 DEF Disconnect, AskPanics, ReceiveEnd, FinishSync, Dropped, Typed
    <3> QED BY <3>1, IdleDescends
  <2>3. CASE Ask(l)
    <3>1. PICK q, t : t = [sync[l] EXCEPT !.state = "wait", !.requests = q]
                      /\ sync' = [sync EXCEPT ![l] = t]
      BY <1>0, <2>3 DEF Ask
    <3>2. t.height <= sync[l].height
      BY <1>0, <3>1, SameHeight
    <3> QED BY <3>1, <3>2, OneDescends
  <2>4. CASE Answer(l)
    <3>1. PICK t : t = Answered(sync[l], chain[l[2]]) /\ sync' = [sync EXCEPT ![l] = t]
      BY <2>4 DEF Answer
    <3>2. t.height <= sync[l].height
      BY <1>0, <3>1, SameHeight
    <3> QED BY <3>1, <3>2, OneDescends
  <2>5. CASE ReceiveBlock(l)
    <3>1. PICK q, r, t : t = [sync[l] EXCEPT !.state = "ask", !.buffer = q, !.responses = r]
                         /\ sync' = [sync EXCEPT ![l] = t]
      BY <1>0, <2>5 DEF ReceiveBlock
    <3>2. t.height <= sync[l].height
      BY <1>0, <3>1, SameHeight
    <3> QED BY <3>1, <3>2, OneDescends
  <2>6. CASE ReceiveNotFound(l)
    <3>1. PICK t : /\ t = IF sync[l].height = 1 THEN Idle
                          ELSE [sync[l] EXCEPT !.state = "ask", !.height = sync[l].height - 1,
                                               !.responses = Tail(sync[l].responses)]
                   /\ sync' = [sync EXCEPT ![l] = t]
      BY <2>6 DEF ReceiveNotFound
    <3>2. t.height <= sync[l].height
      BY <1>0, <3>1, SameHeight DEF Idle
    <3> QED BY <3>1, <3>2, OneDescends
  <2> QED BY <1>3, <2>1, <2>2, <2>3, <2>4, <2>5, <2>6 DEF LinkStep, SyncStep
<1> QED BY <1>1, <1>2, <1>3 DEF Next, Step

LEMMA InitSturdy == Init => Sturdy
<1> SUFFICES ASSUME Init PROVE Sturdy
  OBVIOUS
<1>1. PICK c : c = Open([i \in {} |-> GenesisBlock])
  OBVIOUS
<1>2. chain = [n \in Node |-> c] /\ sync = [l \in Link |-> Idle]
  BY <1>1 DEF Init
<1>3. c.height = 1 /\ c.db = [i \in {1} |-> GenesisBlock]
  BY <1>1 DEF Open
<1>4. Intact(c)
  BY <1>3 DEF Intact, Clean, Linked, Rooted
<1> QED BY <1>2, <1>3, <1>4, LinkEnds DEF Sturdy, Idle

LEMMA NextSturdy == Typed /\ Sturdy /\ [Next]_vars => Sturdy'
<1> SUFFICES ASSUME Typed, Sturdy, [Next]_vars PROVE Sturdy'
  OBVIOUS
<1>1. \A n \in Node : chain[n].height \in Nat /\ chain'[n].height \in Nat
  BY NextTyped DEF Typed, ChainTyped, StoreOK
<1>2. \A n \in Node \ shortened' : n \notin shortened /\ ~(chain'[n].height < chain[n].height)
  <2>1. CASE UNCHANGED vars
    BY <1>1, <2>1 DEF vars
  <2>2. CASE Noted
    BY <2>2 DEF Noted
  <2> QED BY <2>1, <2>2 DEF Next
<1>3. \A n \in Node \ shortened' : Intact(chain'[n])
  BY <1>2, StepWeathers DEF Sturdy, Weathers, Intact
<1>4. ASSUME NEW l \in Link, l[1] \notin shortened'
      PROVE  sync'[l].height <= chain'[l[1]].height
  <2>1. l[1] \in Node /\ sync[l].height \in Nat /\ sync'[l].height \in Nat
    BY LinkEnds, NextTyped DEF Typed, SessionTyped
  <2>2. sync[l].height <= chain[l[1]].height /\ chain[l[1]].height <= chain'[l[1]].height
    BY <1>1, <1>2, <1>4, <2>1 DEF Sturdy
  <2>3. Descends(l)
    BY StepDescends
  <2> QED BY <1>1, <2>1, <2>2, <2>3 DEF Descends
<1> QED BY <1>3, <1>4 DEF Sturdy

LEMMA AlwaysSturdy == Spec => []Sturdy
BY InitSturdy, NextSturdy, AlwaysTyped, PTL DEF Spec

(* Whatever races there are, and whatever other nodes' chains are like, a  *)
(* node whose chain never got shorter has no hole in it, no block left     *)
(* over and no broken link.                                                *)
THEOREM IntegrityWithoutShortening == Spec => []IntegrityUnlessShortened
<1>1. Sturdy => IntegrityUnlessShortened
  BY DEF Sturdy, Intact, IntegrityUnlessShortened
<1> QED BY <1>1, AlwaysSturdy, PTL

(* Such a node asks only for hashes it has, so that the unwrap of          *)
(* protocol.rs:62 does not panic.                                          *)
THEOREM AsksForWhatItHas == Spec => []AsksUnlessShortened
<1>1. Typed /\ Sturdy => AsksUnlessShortened
  <2> SUFFICES ASSUME Typed, Sturdy, NEW l \in Link, sync[l].state = "ask", l[1] \notin shortened
               PROVE  HasBlock(chain[l[1]], sync[l].height)
    BY DEF AsksUnlessShortened
  <2>1. /\ sync[l].height \in Nat \ {0}
        /\ chain[l[1]].height \in Nat
        /\ l[1] \in Node
    BY LinkEnds DEF Typed, SessionTyped, ChainTyped, StoreOK
  <2> QED BY <2>1 DEF Sturdy, Intact, Clean, HasBlock
<1> QED BY <1>1, AlwaysTyped, AlwaysSturdy, PTL

(* A responder stops listening without its exchange ending only when it    *)
(* answers.                                                                *)
LEMMA OnlyAnswersReturn ==
    ASSUME Typed, [Next]_vars, NEW l \in Link,
           sync[l].listening, sync'[l] # Idle, ~sync'[l].listening
    PROVE  Answer(l)
<1> SUFFICES ASSUME ~Answer(l) PROVE sync'[l].listening = sync[l].listening \/ sync'[l] = Idle
                                     \/ sync'[l] = Started(l[1])
  BY DEF Started, Idle
<1>0. \A k \in Link : SessionTyped(sync[k])
  BY DEF Typed
<1>1. CASE (\E n \in Node : ExtendChain(n) \/ Restart(n)) \/ UNCHANGED vars
  BY <1>1 DEF ExtendChain, Restart, vars
<1>2. ASSUME NEW k \in Link, LinkStep(k)
      PROVE  sync'[l].listening = sync[l].listening \/ sync'[l] = Idle
                 \/ sync'[l] = Started(l[1])
  <2>1. CASE StartSync(k) \/ PreemptSync(k)
    BY <2>1 DEF StartSync, PreemptSync, Typed
  <2>2. CASE Disconnect(k) \/ AskPanics(k) \/ ReceiveEnd(k) \/ FinishSync(k)
    BY <2>2 DEF Disconnect, AskPanics, ReceiveEnd, FinishSync, Dropped, Typed
  <2>3. ASSUME NEW t, t.listening = sync[k].listening \/ t = Idle, sync' = [sync EXCEPT ![k] = t]
        PROVE  sync'[l].listening = sync[l].listening \/ sync'[l] = Idle
    BY <2>3 DEF Typed
  <2>4. ASSUME NEW x, NEW y, NEW h
        PROVE  /\ [sync[k] EXCEPT !.state = "wait", !.requests = x].listening = sync[k].listening
               /\ [sync[k] EXCEPT !.state = "ask", !.buffer = x,
                                  !.responses = y].listening = sync[k].listening
               /\ [sync[k] EXCEPT !.state = "ask", !.height = h,
                                  !.responses = y].listening = sync[k].listening
    <3>1. ASSUME NEW s, Shaped(s)
          PROVE  \E a, b, c, d, e, g :
                     s = [state |-> a, height |-> b, buffer |-> c, requests |-> d,
                          listening |-> e, responses |-> g]
      BY <3>1 DEF Shaped
    <3>2. PICK a, b, c, d, e, g :
              sync[k] = [state |-> a, height |-> b, buffer |-> c, requests |-> d,
                         listening |-> e, responses |-> g]
      BY <1>0, <3>1 DEF SessionTyped
    <3> QED BY <3>2
  <2>5. CASE Ask(k)
    <3>1. PICK q, t : t = [sync[k] EXCEPT !.state = "wait", !.requests = q]
                      /\ sync' = [sync EXCEPT ![k] = t]
      BY <2>5 DEF Ask
    <3> QED BY <2>3, <2>4, <3>1
  <2>6. CASE Answer(k)
    BY <2>6 DEF Answer, Typed
  <2>7. CASE ReceiveBlock(k)
    <3>1. PICK q, r, t : t = [sync[k] EXCEPT !.state = "ask", !.buffer = q, !.responses = r]
                         /\ sync' = [sync EXCEPT ![k] = t]
      BY <2>7 DEF ReceiveBlock
    <3> QED BY <2>3, <2>4, <3>1
  <2>8. CASE ReceiveNotFound(k)
    <3>1. PICK h, r, t : /\ \/ t = Idle
                            \/ t = [sync[k] EXCEPT !.state = "ask", !.height = h, !.responses = r]
                         /\ sync' = [sync EXCEPT ![k] = t]
      BY <2>8 DEF ReceiveNotFound
    <3> QED BY <2>3, <2>4, <3>1
  <2> QED BY <1>2, <2>1, <2>2, <2>5, <2>6, <2>7, <2>8 DEF LinkStep, SyncStep
<1> QED BY <1>1, <1>2 DEF Next, Step

(* Without a race, a responder returns without a block only where its own  *)
(* chain is the shorter one.                                               *)
THEOREM GivingUpOnHigher == Spec => GivesUpOnHigher
<1>1. ASSUME Steady, Typed, [Next]_vars, NEW l \in Link,
             sync[l].listening, sync'[l] # Idle, ~sync'[l].listening, sync'[l].responses = <<>>
      PROVE  chain[l[2]].height < chain[l[1]].height
  <2> DEFINE s == sync[l]
             c == chain[l[1]]
             p == chain[l[2]]
  <2>1. Answer(l) /\ s.listening /\ s.requests # <<>> /\ sync'[l] = Answered(s, p)
    BY <1>1, OnlyAnswersReturn DEF Answer, Typed
  <2>2. Follows(s, c, p) /\ c.height \in Nat /\ p.height \in Nat /\ Clean(p)
    BY <1>1, LinkEnds, HeightType DEF Steady
  <2>3. s.height \in 1..c.height /\ Requested(s, c, p)
    BY <2>1, <2>2 DEF Follows, Phase, Probing, Refused, Deserted, Receiving, Idle
  <2>4. CASE ~HasBlock(p, s.height)
    BY <2>2, <2>3, <2>4 DEF Requested, HeightKnown, Clean, HasBlock
  <2>5. CASE HasBlock(p, s.height)
    <3>1. StoreOK(c) /\ StoreOK(p) /\ Linked(p) /\ s.state # "idle"
      BY <1>1, <2>3, LinkEnds DEF Steady, Requested
    <3>2. Answered(s, p).listening \/ Answered(s, p).responses # <<>>
      BY <2>2, <2>3, <2>5, <3>1, AnsweredFollows
    <3> QED BY <1>1, <2>1, <3>2
  <2> QED BY <2>4, <2>5
<1>2. IInv /\ Typed /\ [Next]_vars =>
          [\A l \in Link :
              sync[l].listening /\ sync'[l] # Idle /\ ~sync'[l].listening
                  /\ sync'[l].responses = <<>>
              => raced' \/ chain[l[2]].height < chain[l[1]].height]_vars
  BY <1>1, NextIInv, RacedStays DEF IInv
<1> QED BY <1>2, AlwaysIInv, AlwaysTyped, PTL DEF Spec, GivesUpOnHigher

----------------------------------------------------------------------------
(* Why exchanges end. *)

(* Neither end of an exchange ever waits for the other.                    *)
THEOREM NobodyStalls == Spec => []SomebodysTurn
<1>1. Typed => SomebodysTurn
  <2> SUFFICES ASSUME Typed, NEW l \in Link, Stalled(sync[l]) PROVE FALSE
    BY DEF SomebodysTurn
  <2>1. Alternating(sync[l])
    BY DEF Typed, SessionTyped, Stalled
  <2>2. ~IsRequest(<<>>) /\ <<>> # <<NotFound>>
    BY DEF IsRequest
  <2> QED BY <2>1, <2>2 DEF Alternating, Stalled
<1> QED BY <1>1, AlwaysTyped, PTL

Less(t, s) == Left(t) \in Nat \X Nat /\ Below(Left(t), Left(s))

(* The step of link l brings its exchange nearer the end, and another only *)
(* by ending it.                                                           *)
Advances(l) ==
    \A k \in Link : \/ sync'[k] = sync[k] \/ sync'[k] = Idle
                    \/ k = l /\ Less(sync'[k], sync[k])

LEMMA LeftWhileListening ==
    ASSUME NEW s, SessionTyped(s), s.state # "idle", s.listening
    PROVE  /\ s.height \in Nat \ {0}
           /\ s.state = "ask" => Left(s) = <<1 + s.height, 2>>
           /\ s.state = "wait" /\ s.requests # <<>> => Left(s) = <<1 + s.height, 1>>
           /\ s.requests = <<>> /\ s.state # "ask" => Left(s) = <<1 + s.height, 0>>
<1>1. Alternating(s) /\ s.height \in Nat \ {0}
  BY DEF SessionTyped
<1>2. CASE s.requests = <<>>
  <2>1. Len(s.requests) = 0
    BY <1>2
  <2> QED BY <1>1, <1>2, <2>1 DEF Left
<1>3. CASE s.requests # <<>>
  <2>1. s.state = "wait" /\ IsRequest(s.requests)
    BY <1>1, <1>3 DEF Alternating
  <2>2. Len(s.requests) = 1
    BY <2>1 DEF IsRequest
  <2> QED BY <1>1, <1>3, <2>1, <2>2 DEF Left
<1> QED BY <1>2, <1>3

LEMMA LeftOfAnswer ==
    ASSUME NEW s, SessionTyped(s), s.state # "idle", ~s.listening
    PROVE  /\ Len(s.responses) \in Nat
           /\ Left(s) = <<1, 2 * Len(s.responses) + IF s.state = "ask" THEN 1 ELSE 0>>
BY DEF SessionTyped, Left, Responses, SeqLike

LEMMA LeftInNat == ASSUME NEW s, SessionTyped(s) PROVE Left(s) \in Nat \X Nat
<1>1. CASE s.state = "idle"
  BY <1>1 DEF Left
<1>2. CASE s.state # "idle" /\ s.listening
  <2>1. PICK h \in Nat : h = 1 + s.height
    BY DEF SessionTyped
  <2>2. Left(s) = <<h, 2>> \/ Left(s) = <<h, 1>> \/ Left(s) = <<h, 0>>
    BY <1>2, <2>1, LeftWhileListening, Zenon DEF SessionTyped
  <2> QED BY <2>1, <2>2
<1>3. CASE s.state # "idle" /\ ~s.listening
  <2>1. PICK n \in Nat : n = Len(s.responses)
    BY <1>3, LeftOfAnswer
  <2>2. PICK m \in Nat : m = 2 * n + IF s.state = "ask" THEN 1 ELSE 0
    OBVIOUS
  <2>3. Left(s) = <<1, m>>
    BY <1>3, <2>1, <2>2, LeftOfAnswer, Zenon
  <2> QED BY <2>3
<1> QED BY <1>1, <1>2, <1>3

(* An exchange that is over has least to do. *)
LEMMA IdleIsLess ==
    ASSUME NEW s, SessionTyped(s)
    PROVE  s = Idle \/ Less(Idle, s)
<1>1. CASE s.state = "idle"
  BY <1>1 DEF SessionTyped
<1>2. CASE s.state # "idle"
  <2>1. Left(Idle) = <<0, 0>>
    BY DEF Left, Idle
  <2>2. Left(s)[1] > 0
    <3>1. CASE s.listening
      <4>1. \E x : Left(s) = <<1 + s.height, x>>
        BY <3>1, <1>2, LeftWhileListening DEF SessionTyped
      <4> QED BY <4>1 DEF SessionTyped
    <3>2. CASE ~s.listening
      <4>1. \E x : Left(s) = <<1, x>>
        BY <3>2, <1>2, LeftOfAnswer
      <4> QED BY <4>1
    <3> QED BY <3>1, <3>2
  <2> QED BY <2>1, <2>2 DEF Less, Below
<1> QED BY <1>1, <1>2

LEMMA ShorterTail ==
    ASSUME NEW q, Responses(q), q # <<>>
    PROVE  \E n \in Nat \ {0} : Len(q) = n /\ Len(Tail(q)) = n - 1
<1>1. PICK n \in Nat : n = Len(q)
  BY DEF Responses, SeqLike
<1>2. q = [k \in 1..n |-> q[k]]
  BY <1>1 DEF Responses, SeqLike
<1>3. n # 0
  BY <1>2
<1>4. PICK t : t = Tail(q)
  OBVIOUS
<1>5. t = [k \in 1..n - 1 |-> q[k + 1]] /\ n - 1 \in Nat
  BY <1>2, <1>3, <1>4, TailOf
<1>6. Len(t) = n - 1
  BY <1>5
<1> QED BY <1>1, <1>3, <1>4, <1>6

LEMMA AskAdvances ==
    ASSUME Typed, Typed', NEW l \in Link, Ask(l)
    PROVE  Advances(l)
<1> DEFINE s == sync[l]
           t == sync'[l]
<1>1. /\ s.state = "ask" /\ t.state = "wait" /\ t.height = s.height
      /\ t.listening = s.listening /\ t.responses = s.responses
      /\ s.listening => t.requests # <<>>
      /\ SessionTyped(s) /\ SessionTyped(t)
      /\ \A k \in Link \ {l} : sync'[k] = sync[k]
  <2>1. PICK x, q : /\ s.state = "ask"
                    /\ q = IF s.listening THEN Append(s.requests, x) ELSE s.requests
                    /\ sync' = [sync EXCEPT ![l].state = "wait", ![l].requests = q]
    BY DEF Ask
  <2>2. Shaped(s) /\ SessionTyped(s) /\ SessionTyped(t) /\ sync = [k \in Link |-> sync[k]]
    BY DEF Typed, SessionTyped
  <2>3. s.listening => s.requests = <<>>
    BY <2>1, <2>2 DEF SessionTyped, Alternating
  <2>4. s.listening => q # <<>>
    <3>1. <<x>> # <<>>
      OBVIOUS
    <3> QED BY <2>1, <2>3, <3>1
  <2>5. t.requests = q
    BY <2>1, <2>2 DEF Shaped
  <2> QED BY <2>1, <2>2, <2>4, <2>5 DEF Shaped
<1>2. CASE s.listening
  <2>1. PICK h \in Nat : Left(s) = <<h, 2>> /\ Left(t) = <<h, 1>>
    <3>1. 1 + s.height \in Nat
      BY <1>1 DEF SessionTyped
    <3> QED BY <1>1, <1>2, <3>1, LeftWhileListening
  <2> QED BY <1>1, <2>1 DEF Advances, Less, Below
<1>3. CASE ~s.listening
  <2>1. PICK n \in Nat : Left(s) = <<1, 2 * n + 1>> /\ Left(t) = <<1, 2 * n + 0>>
    BY <1>1, <1>3, LeftOfAnswer
  <2> QED BY <1>1, <2>1 DEF Advances, Less, Below
<1> QED BY <1>2, <1>3

LEMMA AnswerAdvances ==
    ASSUME Typed, Typed', NEW l \in Link, Answer(l)
    PROVE  Advances(l)
<1> DEFINE s == sync[l]
           t == sync'[l]
<1>1. /\ s.listening /\ s.requests # <<>> /\ s.state = "wait"
      /\ SessionTyped(s) /\ SessionTyped(t)
      /\ t.state = "wait" /\ t.height = s.height
      /\ t.listening => t.requests = <<>>
      /\ \A k \in Link \ {l} : sync'[k] = sync[k]
  <2>1. PICK u : u = Answered(s, chain[l[2]])
    OBVIOUS
  <2>2. /\ Shaped(s) /\ SessionTyped(s) /\ SessionTyped(t)
        /\ sync = [k \in Link |-> sync[k]]
        /\ s.listening /\ s.requests # <<>> /\ sync' = [sync EXCEPT ![l] = u]
    BY <2>1 DEF Typed, SessionTyped, Answer
  <2>3. s.state = "wait" /\ IsRequest(s.requests)
    BY <2>2 DEF SessionTyped, Alternating
  <2>4. Tail(s.requests) = <<>>
    BY <2>3 DEF IsRequest
  <2>5. /\ u.state = "wait" /\ u.height = s.height /\ u.requests = <<>>
    BY <2>1, <2>2, <2>3, <2>4 DEF Answered, Shaped
  <2> QED BY <2>2, <2>3, <2>5
<1>2. Left(s) = <<1 + s.height, 1>> /\ s.height \in Nat \ {0}
  BY <1>1, LeftWhileListening
<1>3. CASE t.listening
  <2>1. Left(t) = <<1 + s.height, 0>>
    BY <1>1, <1>3, LeftWhileListening
  <2> QED BY <1>1, <1>2, <2>1 DEF Advances, Less, Below
<1>4. CASE ~t.listening
  <2>1. PICK x : Left(t) = <<1, x>>
    BY <1>1, <1>4, LeftOfAnswer
  <2>2. Left(t) \in Nat \X Nat
    BY <1>1, LeftInNat
  <2> QED BY <1>1, <1>2, <2>1, <2>2 DEF Advances, Less, Below
<1> QED BY <1>3, <1>4

LEMMA ReceiveBlockAdvances ==
    ASSUME Typed, Typed', NEW l \in Link, ReceiveBlock(l)
    PROVE  Advances(l)
<1> DEFINE s == sync[l]
           t == sync'[l]
<1>1. /\ s.state = "wait" /\ s.responses # <<>> /\ Head(s.responses).found
      /\ t.state = "ask" /\ t.responses = Tail(s.responses) /\ t.listening = s.listening
      /\ SessionTyped(s) /\ SessionTyped(t)
      /\ \A k \in Link \ {l} : sync'[k] = sync[k]
  <2>1. PICK b : /\ s.state = "wait" /\ s.responses # <<>> /\ Head(s.responses).found
                 /\ sync' = [sync EXCEPT ![l].state = "ask",
                                         ![l].buffer = b,
                                         ![l].responses = Tail(s.responses)]
    BY DEF ReceiveBlock, CanReceive
  <2>2. Shaped(s) /\ SessionTyped(s) /\ SessionTyped(t) /\ sync = [k \in Link |-> sync[k]]
    BY DEF Typed, SessionTyped
  <2> QED BY <2>1, <2>2 DEF Shaped
<1>2. ~s.listening
  <2>1. s.responses # <<NotFound>>
    BY <1>1 DEF NotFound
  <2> QED BY <1>1, <2>1 DEF SessionTyped, Alternating
<1>3. PICK n \in Nat \ {0} : Len(s.responses) = n /\ Len(t.responses) = n - 1
  BY <1>1, ShorterTail DEF SessionTyped
<1>4. Left(s) = <<1, 2 * n + 0>> /\ Left(t) = <<1, 2 * (n - 1) + 1>>
  BY <1>1, <1>2, <1>3, LeftOfAnswer
<1> QED BY <1>1, <1>3, <1>4 DEF Advances, Less, Below

LEMMA ReceiveNotFoundAdvances ==
    ASSUME Typed, Typed', NEW l \in Link, ReceiveNotFound(l)
    PROVE  Advances(l)
<1> DEFINE s == sync[l]
           t == sync'[l]
<1>1. /\ s.state = "wait" /\ s.responses # <<>>
      /\ sync' = [sync EXCEPT ![l] = IF s.height = 1 THEN Idle
                     ELSE [s EXCEPT !.state = "ask", !.height = s.height - 1,
                                    !.responses = Tail(s.responses)]]
  BY DEF ReceiveNotFound, CanReceive
<1>2. /\ Shaped(s) /\ SessionTyped(s) /\ SessionTyped(t)
      /\ sync = [k \in Link |-> sync[k]]
      /\ \A k \in Link \ {l} : sync'[k] = sync[k]
  BY <1>1 DEF Typed, SessionTyped
<1>3. CASE s.height = 1
  BY <1>1, <1>2, <1>3 DEF Advances
<1>4. CASE s.height # 1
  <2>1. /\ t.state = "ask" /\ t.height = s.height - 1 /\ t.listening = s.listening
        /\ t.responses = Tail(s.responses)
    BY <1>1, <1>2, <1>4 DEF Shaped
  <2>2. CASE s.listening
    <3>1. s.requests = <<>>
      BY <1>1, <1>2, <2>2 DEF SessionTyped, Alternating
    <3>2. PICK h \in Nat : h = s.height /\ h # 0
      BY <1>1, <1>2 DEF SessionTyped
    <3>3. Left(s) = <<1 + h, 0>>
      BY <1>1, <1>2, <2>2, <3>1, <3>2, LeftWhileListening
    <3>4. Left(t) = <<1 + (h - 1), 2>>
      BY <1>2, <2>1, <2>2, <3>2, LeftWhileListening
    <3> QED BY <1>2, <3>2, <3>3, <3>4 DEF Advances, Less, Below
  <2>3. CASE ~s.listening
    <3>1. PICK n \in Nat \ {0} : Len(s.responses) = n /\ Len(t.responses) = n - 1
      BY <1>1, <1>2, <2>1, ShorterTail DEF SessionTyped
    <3>2. Left(s) = <<1, 2 * n + 0>> /\ Left(t) = <<1, 2 * (n - 1) + 1>>
      BY <1>1, <1>2, <2>1, <2>3, <3>1, LeftOfAnswer
    <3> QED BY <1>2, <3>1, <3>2 DEF Advances, Less, Below
  <2> QED BY <2>2, <2>3
<1> QED BY <1>3, <1>4

(* Every step of an exchange but a fresh start leaves less of it to do, so *)
(* that none goes on for ever, whatever happens to the chains meanwhile.   *)
THEOREM EverNearerTheEnd == Spec => ExchangesRunDown
<1> DEFINE Nearer(l) == \/ sync'[l] \in {sync[l], Started(l[1])}
                        \/ Less(sync'[l], sync[l])
<1>1. ASSUME Typed, Typed', NEW l \in Link, Advances(l) PROVE \A k \in Link : Nearer(k)
  <2>1. \A k \in Link : SessionTyped(sync[k])
    BY <1>1 DEF Typed
  <2> QED BY <1>1, <2>1, IdleIsLess DEF Advances
<1>2. ASSUME Typed, Typed', [Next]_vars PROVE \A k \in Link : Nearer(k)
  <2>1. CASE \E n \in Node : ExtendChain(n) \/ Restart(n)
    <3>1. \A k \in Link : sync'[k] = sync[k] \/ sync'[k] = Idle
      BY <2>1 DEF ExtendChain, Restart
    <3>2. \A k \in Link : SessionTyped(sync[k])
      BY <1>2 DEF Typed
    <3> QED BY <3>1, <3>2, IdleIsLess
  <2>2. CASE \E l \in Link : SyncStep(l) \/ StartSync(l) \/ PreemptSync(l) \/ Disconnect(l)
    <3>1. PICK l \in Link : SyncStep(l) \/ StartSync(l) \/ PreemptSync(l) \/ Disconnect(l)
      BY <2>2
    <3>2. CASE StartSync(l) \/ PreemptSync(l)
      <4>1. sync' = [sync EXCEPT ![l] = Started(l[1])] /\ sync = [k \in Link |-> sync[k]]
        BY <1>2, <3>2 DEF StartSync, PreemptSync, Typed
      <4> QED BY <4>1
    <3>3. CASE Disconnect(l) \/ AskPanics(l) \/ ReceiveEnd(l) \/ FinishSync(l)
      <4>1. sync' \in {Dropped(l), [sync EXCEPT ![l] = Idle]} /\ sync = [k \in Link |-> sync[k]]
        BY <1>2, <3>3 DEF Disconnect, AskPanics, ReceiveEnd, FinishSync, Typed
      <4>2. Advances(l)
        BY <4>1 DEF Dropped, Advances
      <4> QED BY <1>1, <1>2, <4>2
    <3>4. CASE Ask(l)
      BY <1>1, <1>2, <3>4, AskAdvances
    <3>5. CASE Answer(l)
      BY <1>1, <1>2, <3>5, AnswerAdvances
    <3>6. CASE ReceiveBlock(l)
      BY <1>1, <1>2, <3>6, ReceiveBlockAdvances
    <3>7. CASE ReceiveNotFound(l)
      BY <1>1, <1>2, <3>7, ReceiveNotFoundAdvances
    <3> QED BY <3>1, <3>2, <3>3, <3>4, <3>5, <3>6, <3>7 DEF SyncStep
  <2>3. CASE UNCHANGED vars
    BY <2>3 DEF vars
  <2> QED BY <1>2, <2>1, <2>2, <2>3 DEF Next, Step, LinkStep
<1>3. Typed /\ Typed' /\ [Next]_vars
        => [\A l \in Link :
               \/ sync'[l] \in {sync[l], Started(l[1])}
               \/ Left(sync'[l]) \in Nat \X Nat /\ Below(Left(sync'[l]), Left(sync[l]))]_vars
  BY <1>2 DEF Less
<1> QED BY <1>3, AlwaysTyped, PTL DEF Spec, ExchangesRunDown

----------------------------------------------------------------------------
(* The protocol implements Ledger.                                         *)

(* Chains that agree on one hash agree on every block up to it. *)
LEMMA SameHashSameChain ==
    ASSUME NEW c, NEW p, Sound(c), Sound(p), NEW fork \in Nat \ {0},
           fork <= c.height, fork <= p.height, Hash(c.db[fork]) = Hash(p.db[fork])
    PROVE  \A i \in 1..fork : c.db[i] = p.db[i]
<1>1. fork \in 1..c.height /\ fork \in 1..p.height /\ fork <= fork
  BY DEF Sound, StoreOK
<1>2. \A j \in 0..(fork - 1) : c.db[fork - j] = p.db[fork - j]
  BY <1>1, SameHashSameHistory
<1>3. ASSUME NEW i \in 1..fork PROVE c.db[i] = p.db[i]
  <2>1. fork - i \in 0..(fork - 1) /\ fork - (fork - i) = i
    OBVIOUS
  <2> QED BY <1>2, <2>1
<1> QED BY <1>3

----------------------------------------------------------------------------
(* Logs, and the offers on the links as sequences. *)

Offers == {Offered(l) : l \in {k \in Link : Offering(k)}}

(* What the chain c becomes when F replaces its blocks from fork on.       *)
Whole(c, F, fork) ==
    [i \in 1..(fork + Len(F) - 1) |-> IF i < fork THEN c.db[i] ELSE F[i - fork + 1]]

LogOf(c) == [i \in 1..c.height |-> c.db[i]]

LEMMA LogIs == ASSUME NEW n \in Node, Clean(chain[n]) PROVE Log(n) = LogOf(chain[n])
BY DEF Log, LogOf, Clean, HasBlock

LEMMA NextLogIs == ASSUME NEW n \in Node, Clean(chain'[n]) PROVE Log(n)' = LogOf(chain'[n])
BY DEF Log, LogOf, Clean, HasBlock

HasLength(q, n) == q = [k \in 1..n |-> q[k]]

Joins(w, x, a, y, b) ==
    w = [k \in 1..(a + b) |-> IF k <= a THEN x[k] ELSE y[k - a]]

LEMMA TwoParts ==
    ASSUME NEW a \in Nat, NEW b \in Nat, NEW x, NEW y, HasLength(x, a), HasLength(y, b)
    PROVE  Joins(x \o y, x, a, y, b)
<1> DEFINE S == Range(x) \cup Range(y)
<1>1. /\ Len(x) = a /\ x \in Seq(Range(x))
      /\ Len(y) = b /\ y \in Seq(Range(y))
  BY OneByOne DEF HasLength
<1>2. x \in Seq(S) /\ y \in Seq(S)
  BY <1>1, SeqMonotonic
<1> HIDE DEF S
<1>3. PICK u : u = x \o y
  OBVIOUS
<1>4. /\ u \in Seq(S) /\ Len(u) = a + b
      /\ \A k \in 1..(a + b) : u[k] = IF k <= a THEN x[k] ELSE y[k - a]
  BY <1>1, <1>2, <1>3, ConcatProperties
<1>5. u = [k \in 1..(a + b) |-> u[k]]
  BY <1>4, LenProperties
<1> QED BY <1>3, <1>4, <1>5 DEF Joins

(* w is x, y and z, of lengths a, b and g, one after the other.            *)
JoinsThree(w, x, a, y, b, z, g) ==
    w = [k \in 1..(a + b + g) |->
            IF k <= a THEN x[k] ELSE IF k <= a + b THEN y[k - a] ELSE z[k - (a + b)]]

LEMMA ThreeParts ==
    ASSUME NEW a \in Nat, NEW b \in Nat, NEW g \in Nat, NEW x, NEW y, NEW z,
           HasLength(x, a), HasLength(y, b), HasLength(z, g)
    PROVE  JoinsThree(x \o y \o z, x, a, y, b, z, g)
<1>1. PICK u, w : u = x \o y /\ w = u \o z
  OBVIOUS
<1>2. u = [k \in 1..(a + b) |-> IF k <= a THEN x[k] ELSE y[k - a]]
  BY <1>1, TwoParts DEF Joins
<1>3. PICK e \in Nat : e = a + b
  OBVIOUS
<1>4. HasLength(u, e)
  BY <1>2, <1>3 DEF HasLength
<1>5. w = [k \in 1..(e + g) |-> IF k <= e THEN u[k] ELSE z[k - e]]
  <2>1. Joins(u \o z, u, e, z, g)
    BY <1>4, TwoParts
  <2> QED BY <1>1, <2>1 DEF Joins
<1>6. ASSUME NEW k \in 1..(e + g)
      PROVE  (IF k <= e THEN u[k] ELSE z[k - e])
             = IF k <= a THEN x[k] ELSE IF k <= a + b THEN y[k - a] ELSE z[k - (a + b)]
  <2>1. k <= e => k \in 1..(a + b)
    BY <1>3
  <2>2. k <= a => k <= e
    BY <1>3
  <2> QED BY <1>2, <1>3, <2>1, <2>2
<1>7. w = [k \in 1..(e + g) |->
              IF k <= a THEN x[k] ELSE IF k <= a + b THEN y[k - a] ELSE z[k - (a + b)]]
  BY <1>5, <1>6
<1> QED BY <1>1, <1>3, <1>7 DEF JoinsThree

Offer(s, g) ==
    SubSeq(g, 1, Head(s.responses).fork_index - 1) \o s.buffer
        \o [k \in DOMAIN s.responses |-> s.responses[k].block]

Carries(s, F, fork, d) ==
    /\ d \in 0..(Len(F) - 1)
    /\ s.buffer = [k \in 1..d |-> F[k]]
    /\ s.responses = Sent(F, fork, d)

(* While blocks arrive, what is offered stays the same.                    *)
LEMMA OfferedIsWhole ==
    ASSUME NEW s, NEW c, c.height \in Nat, NEW F, NEW fork, Fits(F, fork, c),
           NEW d, Carries(s, F, fork, d)
    PROVE  /\ s.responses # <<>> /\ Head(s.responses).found
           /\ Offer(s, LogOf(c)) = Whole(c, F, fork)
<1>1. fork \in 1..c.height /\ Len(F) \in Nat \ {0} /\ d \in 0..(Len(F) - 1)
  BY DEF Fits, Carries
<1>2. PICK N \in Nat \ {0} : N = Len(F)
  BY <1>1
<1>3. d \in Nat /\ d <= N - 1 /\ N - d \in Nat \ {0} /\ fork - 1 \in Nat
  BY <1>1, <1>2
<1>4. s.responses = [k \in 1..N - d |->
          [found |-> TRUE, fork_index |-> fork, block |-> F[d + k], remaining |-> N - d - k]]
  BY <1>2 DEF Sent, Carries
<1>5. /\ s.responses # <<>> /\ Head(s.responses) = s.responses[1]
      /\ s.responses[1].found = TRUE /\ s.responses[1].fork_index = fork
  <2>1. s.responses = [k \in 1..N - d |-> s.responses[k]]
    BY <1>4
  <2>2. 1 \in 1..N - d
    BY <1>3
  <2> QED BY <1>3, <1>4, <2>1, <2>2, TailOf
<1>6. PICK x, y, z : /\ x = SubSeq(LogOf(c), 1, fork - 1)
                     /\ y = s.buffer
                     /\ z = [k \in DOMAIN s.responses |-> s.responses[k].block]
  OBVIOUS
<1>7. Offer(s, LogOf(c)) = x \o y \o z
  BY <1>5, <1>6 DEF Offer
<1>8. x = [k \in 1..fork - 1 |-> c.db[k]]
  <2>1. LogOf(c) = [i \in 1..c.height |-> c.db[i]]
    BY DEF LogOf
  <2>2. PICK g : g = LogOf(c)
    OBVIOUS
  <2>3. \A i \in 1..fork - 1 : g[i] \in Range(g) /\ g[i] = c.db[i]
    <3>1. \A i \in 1..fork - 1 : i \in 1..c.height
      BY <1>1
    <3>2. DOMAIN g = 1..c.height /\ \A i \in 1..c.height : g[i] = c.db[i]
      BY <2>1, <2>2
    <3> QED BY <3>1, <3>2 DEF Range
  <2>4. /\ x \in Seq(Range(g))
        /\ Len(x) = IF 1 <= fork - 1 THEN fork - 1 - 1 + 1 ELSE 0
        /\ \A i \in 1..fork - 1 - 1 + 1 : x[i] = g[1 + i - 1]
    BY <1>3, <1>6, <2>2, <2>3, SubSeqProperties, 1 \in Int, fork - 1 \in Int
  <2>5. Len(x) = fork - 1
    <3>1. \A m \in Nat : m >= 1 => (IF 1 <= m - 1 THEN m - 1 - 1 + 1 ELSE 0) = m - 1
      OBVIOUS
    <3> QED BY <1>1, <2>4, <3>1
  <2>6. ASSUME NEW i \in 1..fork - 1 PROVE x[i] = g[i]
    <3>1. i \in 1..fork - 1 - 1 + 1 /\ 1 + i - 1 = i
      BY <1>1
    <3> QED BY <2>4, <3>1
  <2>7. x = [k \in 1..Len(x) |-> x[k]]
    BY <2>4, LenProperties
  <2> QED BY <2>3, <2>5, <2>6, <2>7
<1>9. y = [k \in 1..d |-> F[k]] /\ z = [k \in 1..N - d |-> F[d + k]]
  BY <1>4, <1>6 DEF Carries
<1>10. x \o y \o z = [k \in 1..(fork - 1 + d + (N - d)) |->
                         IF k <= fork - 1 THEN x[k]
                         ELSE IF k <= fork - 1 + d THEN y[k - (fork - 1)]
                         ELSE z[k - (fork - 1 + d)]]
  <2>1. x = [k \in 1..fork - 1 |-> x[k]] /\ y = [k \in 1..d |-> y[k]]
        /\ z = [k \in 1..N - d |-> z[k]]
    BY <1>8, <1>9
  <2>2. PICK a \in Nat, g \in Nat : a = fork - 1 /\ g = N - d
    BY <1>3
  <2>3. x \o y \o z = [k \in 1..(a + d + g) |->
                           IF k <= a THEN x[k]
                           ELSE IF k <= a + d THEN y[k - a] ELSE z[k - (a + d)]]
    <3>1. HasLength(x, a) /\ HasLength(y, d) /\ HasLength(z, g)
      BY <2>1, <2>2 DEF HasLength
    <3>2. JoinsThree(x \o y \o z, x, a, y, d, z, g)
      BY <1>3, <3>1, ThreeParts
    <3> QED BY <3>2 DEF JoinsThree
  <2> QED BY <2>2, <2>3
<1>11. fork - 1 + d + (N - d) = fork + N - 1
  BY <1>1, <1>3
<1>12. ASSUME NEW k \in 1..(fork + N - 1)
       PROVE  (IF k <= fork - 1 THEN x[k]
               ELSE IF k <= fork - 1 + d THEN y[k - (fork - 1)]
               ELSE z[k - (fork - 1 + d)])
              = IF k < fork THEN c.db[k] ELSE F[k - fork + 1]
  <2>1. CASE k <= fork - 1
    <3>1. k \in 1..fork - 1 /\ k < fork
      BY <1>1, <2>1
    <3> QED BY <1>8, <2>1, <3>1
  <2>2. CASE k > fork - 1 /\ k <= fork - 1 + d
    <3>1. k - (fork - 1) \in 1..d /\ ~(k < fork) /\ k - (fork - 1) = k - fork + 1
          /\ ~(k <= fork - 1)
      BY <1>1, <1>3, <2>2
    <3> QED BY <1>9, <2>2, <3>1
  <2>3. CASE k > fork - 1 + d
    <3>1. /\ k - (fork - 1 + d) \in 1..N - d /\ ~(k < fork)
          /\ d + (k - (fork - 1 + d)) = k - fork + 1
          /\ ~(k <= fork - 1) /\ ~(k <= fork - 1 + d)
      <4>1. \A f, m, e \in Nat : \A j \in 1..(f + m - 1) : j > f - 1 + e /\ e <= m - 1
              => /\ j - (f - 1 + e) \in 1..m - e /\ ~(j < f)
                 /\ e + (j - (f - 1 + e)) = j - f + 1
                 /\ ~(j <= f - 1) /\ ~(j <= f - 1 + e)
        OBVIOUS
      <4> QED BY <1>1, <1>3, <2>3, <4>1
    <3> QED BY <1>9, <3>1
  <2> QED BY <1>1, <1>3, <2>1, <2>2, <2>3
<1>13. Offer(s, LogOf(c)) = Whole(c, F, fork)
  BY <1>2, <1>7, <1>10, <1>11, <1>12 DEF Whole
<1> QED BY <1>5, <1>13

----------------------------------------------------------------------------
(* Ledger's steps. *)

Logs == {Log(n) : n \in Node}

LEMMA StepIsOffer ==
    ASSUME \A n \in Node : Log(n)' = Log(n),
           \A l \in Link : Offering(l)' => Offered(l)' \in Offers \cup Logs,
           raced' = raced
    PROVE  Promise!Next
<1>1. [n \in Node |-> Log(n)'] = [n \in Node |-> Log(n)]
  OBVIOUS
<1>2. {Offered(l)' : l \in {k \in Link : Offering(k)'}} \subseteq Offers \cup Logs
  OBVIOUS
<1>3. Logs = {[m \in Node |-> Log(m)][n] : n \in Node}
  BY DEF Logs
<1>4. Promise!Offer
  BY <1>1, <1>2, <1>3 DEF Promise!Offer, Offers
<1> QED BY <1>4 DEF Promise!Next

LEMMA StepIsAdopt ==
    ASSUME NEW n \in Node, Log(n)' \in Offers, Len(Log(n)') >= Len(Log(n)),
           \A m \in Node \ {n} : Log(m)' = Log(m),
           \A l \in Link : Offering(l)' => Offered(l)' \in Offers,
           raced' = raced
    PROVE  Promise!Next
<1>1. {Offered(l)' : l \in {k \in Link : Offering(k)'}} \subseteq Offers
  OBVIOUS
<1>2. Promise!Adopt(n)
  BY <1>1 DEF Promise!Adopt, Promise!Others, Offers
<1> QED BY <1>2 DEF Promise!Next

LEMMA StepIsExtend ==
    ASSUME NEW n \in Node, NEW c, NEW b, IsValid(b, c.db[c.height]),
           c.height \in Nat \ {0},
           Log(n) = LogOf(c), Log(n)' = Append(LogOf(c), b),
           \A m \in Node \ {n} : Log(m)' = Log(m),
           \A l \in Link : Offering(l)' => Offered(l)' \in Offers,
           raced' = raced
    PROVE  Promise!Next
<1>1. {Offered(l)' : l \in {k \in Link : Offering(k)'}} \subseteq Offers
  OBVIOUS
<1>2. PICK g, h : g = LogOf(c) /\ h = Append(g, b)
  OBVIOUS
<1>3. PICK N \in Nat \ {0} : N = c.height
  OBVIOUS
<1>4. g = [i \in 1..N |-> c.db[i]]
  BY <1>2, <1>3 DEF LogOf
<1>5. /\ Len(g) = N /\ g \in Seq(Range(g) \cup {b})
  <2>1. Len(g) = N /\ g \in Seq(Range(g))
    BY <1>4, OneByOne
  <2> QED BY <2>1, SeqMonotonic
<1>6. /\ h \in Seq(Range(g) \cup {b}) /\ Len(h) = N + 1 /\ h[N + 1] = b
      /\ SubSeq(h, 1, N) = g
  <2>1. h = Append(g, b) /\ b \in Range(g) \cup {b}
    BY <1>2
  <2>2. Len(h) = N + 1 /\ h[N + 1] = b /\ h \in Seq(Range(g) \cup {b})
    BY <1>5, <2>1, AppendProperties
  <2>3. SubSeq(h, 1, N) = g
    BY <1>5, <2>1
  <2> QED BY <2>2, <2>3
<1>7. Len(h) = Len(g) + 1
  BY <1>5, <1>6
<1>8. Promise!Front(h) = g
  <2>1. Len(h) - 1 = N
    BY <1>6
  <2> QED BY <1>6, <2>1 DEF Promise!Front
<1>9. Promise!Last(h) = b /\ Promise!Last(g) = c.db[c.height]
  BY <1>3, <1>4, <1>5, <1>6 DEF Promise!Last
<1>10. Promise!IsValid(b, c.db[c.height])
  BY DEF IsValid, Promise!IsValid, Hash, Promise!Hash
<1>11. Promise!Extend(n)
  BY <1>1, <1>2, <1>7, <1>8, <1>9, <1>10 DEF Promise!Extend, Promise!Others, Offers
<1> QED BY <1>11 DEF Promise!Next

----------------------------------------------------------------------------
(* The steps of the protocol, as long as chains do not race. *)

LEMMA OfferedIs ==
    ASSUME Steady, NEW l \in Link
    PROVE  Offered(l) = Offer(sync[l], LogOf(chain[l[1]]))
<1>1. Log(l[1]) = LogOf(chain[l[1]])
  BY LinkEnds, HeightType, LogIs
<1> QED BY <1>1 DEF Offered, Offer

LEMMA NextOfferedIs ==
    ASSUME NEW l \in Link, Clean(chain'[l[1]])
    PROVE  Offered(l)' = Offer(sync'[l], LogOf(chain'[l[1]]))
<1>1. Log(l[1])' = LogOf(chain'[l[1]])
  BY LinkEnds, NextLogIs
<1> QED BY <1>1 DEF Offered, Offer

LEMMA KeptOffer ==
    ASSUME NEW l \in Link, Offering(l)', Log(l[1])' = Log(l[1]),
           \/ sync'[l] = Idle
           \/ sync'[l].buffer = sync[l].buffer /\ sync'[l].responses = sync[l].responses
    PROVE  Offered(l)' \in Offers
<1>1. sync'[l] # Idle
  BY DEF Offering, Idle
<1>2. Offering(l) /\ Offered(l)' = Offered(l)
  BY <1>1 DEF Offering, Offered
<1> QED BY <1>2 DEF Offers

(* A step of one exchange, at which others may end.                        *)
LEMMA ExchangeImplements ==
    ASSUME UNCHANGED chain, raced' = raced, NEW l \in Link,
           \A k \in Link \ {l} : sync'[k] = sync[k] \/ sync'[k] = Idle,
           Offering(l)' => Offered(l)' \in Offers \cup Logs
    PROVE  Promise!Next
<1>1. \A n \in Node : Log(n)' = Log(n)
  BY DEF Log, HasBlock
<1>2. \A k \in Link : Offering(k)' => Offered(k)' \in Offers \cup Logs
  BY <1>1, LinkEnds, KeptOffer
<1> QED BY <1>1, <1>2, StepIsOffer

LEMMA EndingImplements ==
    ASSUME Steady, UNCHANGED chain, raced' = raced, NEW l \in Link,
           \/ sync' = Dropped(l) \/ sync' = [sync EXCEPT ![l] = Idle]
           \/ sync' = [sync EXCEPT ![l] = Started(l[1])]
    PROVE  Promise!Next
<1>1. \A k \in Link \ {l} : sync'[k] = sync[k] \/ sync'[k] = Idle
  BY DEF Dropped, Steady
<1>2. sync'[l].responses = <<>>
  <2>1. Idle.responses = <<>> /\ Started(l[1]).responses = <<>>
    BY DEF Started, Idle
  <2>2. sync'[l] = Idle \/ sync'[l] = Started(l[1])
    BY DEF Dropped, Steady
  <2> QED BY <2>1, <2>2
<1> QED BY <1>1, <1>2, ExchangeImplements DEF Offering

LEMMA AskImplements ==
    ASSUME Steady, raced' = raced, NEW l \in Link, Ask(l)
    PROVE  Promise!Next
<1>1. /\ chain' = chain
      /\ sync' = [sync EXCEPT
               ![l].state = "wait",
               ![l].requests = IF sync[l].listening
                               THEN Append(sync[l].requests,
                                           [index |-> sync[l].height,
                                            hash |-> Hash(chain[l[1]].db[sync[l].height])])
                               ELSE sync[l].requests]
  BY DEF Ask
<1>2. sync = [k \in Link |-> sync[k]] /\ Shaped(sync[l])
  BY DEF Steady, Follows
<1>3. \A k \in Link \ {l} : sync'[k] = sync[k]
  BY <1>1, <1>2
<1>4. sync'[l].buffer = sync[l].buffer /\ sync'[l].responses = sync[l].responses
  BY <1>1, <1>2 DEF Shaped
<1>5. Log(l[1])' = Log(l[1])
  BY <1>1 DEF Log, HasBlock
<1>6. Offering(l)' => Offered(l)' \in Offers
  BY <1>4, <1>5, KeptOffer
<1> QED BY <1>1, <1>3, <1>6, ExchangeImplements

LEMMA ReceiveBlockImplements ==
    ASSUME Steady, raced' = raced, NEW l \in Link, ReceiveBlock(l)
    PROVE  Promise!Next
<1> DEFINE s == sync[l]
           t == sync'[l]
           c == chain[l[1]]
           r == Head(s.responses)
<1>1. /\ s.state = "wait" /\ s.responses # <<>> /\ r.found /\ r.remaining > 0
      /\ chain' = chain
      /\ sync' = [sync EXCEPT ![l].state = "ask",
                              ![l].buffer = Append(s.buffer, r.block),
                              ![l].responses = Tail(s.responses)]
  BY DEF ReceiveBlock, CanReceive
<1>2. sync = [k \in Link |-> sync[k]] /\ Follows(s, c, chain[l[2]]) /\ Shaped(s)
  BY DEF Steady, Follows
<1>3. PICK F, fork, d : Delivers(s, c, F, fork, d)
  BY <1>1, <1>2, BlockComes
<1>4. \A k \in Link \ {l} : sync'[k] = sync[k]
  BY <1>1, <1>2
<1>5. t.buffer = Append(s.buffer, r.block) /\ t.responses = Tail(s.responses)
  BY <1>1, <1>2 DEF Shaped
<1>6. d + 1 \in 0..(Len(F) - 1)
  <2>1. Len(F) \in Nat /\ d \in 0..(Len(F) - 1) /\ r.remaining = Len(F) - d - 1
    BY <1>3 DEF Delivers, Fits
  <2> QED BY <1>1, <2>1
<1>7. Carries(s, F, fork, d) /\ Carries(t, F, fork, d + 1) /\ Fits(F, fork, c)
  <2>1. r.block = F[d + 1]
    BY <1>3 DEF Delivers
  <2> QED BY <1>3, <1>5, <1>6, <2>1 DEF Delivers, Carries
<1>8. c.height \in Nat /\ Clean(c)
  BY LinkEnds, HeightType
<1>9. s.responses # <<>> /\ r.found /\ Offer(s, LogOf(c)) = Offer(t, LogOf(c))
  <2>1. Offer(s, LogOf(c)) = Whole(c, F, fork)
    BY <1>7, <1>8, OfferedIsWhole
  <2>2. Offer(t, LogOf(c)) = Whole(c, F, fork)
    <3>1. PICK e : e = d + 1
      OBVIOUS
    <3>2. Carries(t, F, fork, e)
      BY <1>7, <3>1
    <3> QED BY <1>7, <1>8, <3>2, OfferedIsWhole
  <2> QED BY <1>1, <2>1, <2>2
<1>10. Offered(l)' = Offered(l)
  BY <1>1, <1>8, <1>9, OfferedIs, NextOfferedIs
<1>11. Offered(l)' \in Offers
  BY <1>9, <1>10 DEF Offers, Offering
<1> QED BY <1>1, <1>4, <1>11, ExchangeImplements

LEMMA ReceiveNotFoundImplements ==
    ASSUME Steady, raced' = raced, NEW l \in Link, ReceiveNotFound(l)
    PROVE  Promise!Next
<1> DEFINE s == sync[l]
<1>1. PICK t : /\ t = IF s.height = 1 THEN Idle
                      ELSE [s EXCEPT !.state = "ask", !.height = s.height - 1,
                                     !.responses = Tail(s.responses)]
               /\ sync' = [sync EXCEPT ![l] = t]
               /\ chain' = chain
               /\ s.state = "wait" /\ s.responses # <<>> /\ ~Head(s.responses).found
  BY DEF ReceiveNotFound, CanReceive
<1>2. \A k \in Link : sync'[k] = IF k = l THEN t ELSE sync[k]
  BY <1>1 DEF Steady
<1>3. Follows(s, chain[l[1]], chain[l[2]]) /\ Phase(s, chain[l[1]], chain[l[2]]) /\ Shaped(s)
  BY <1>1 DEF Steady, Follows
<1>4. s.responses = <<NotFound>>
  <2>1. CASE Receiving(s, chain[l[1]])
    <3>1. PICK F, fork : \E d \in 0..(Len(F) - 1) :
              Fits(F, fork, chain[l[1]]) /\ Carries(s, F, fork, d)
      BY <2>1 DEF Receiving, Carries
    <3>2. chain[l[1]].height \in Nat
      BY LinkEnds, HeightType
    <3> QED BY <1>1, <3>1, <3>2, OfferedIsWhole
  <2>2. CASE ~Receiving(s, chain[l[1]])
    BY <1>1, <1>3, <2>2 DEF Phase, Probing, Requested, Refused, Deserted
  <2> QED BY <2>1, <2>2
<1>5. t.responses = <<>>
  <2>1. Tail(s.responses) = <<>>
    BY <1>4
  <2> QED BY <1>1, <1>3, <2>1 DEF Idle, Shaped
<1> QED BY <1>1, <1>2, <1>5, ExchangeImplements DEF Offering

(* The peer's blocks, put behind the node's own, are the peer's log: the   *)
(* node's own before them are the peer's too.                              *)
LEMMA WholeIsPeers ==
    ASSUME NEW c, NEW p, Sound(c), Sound(p), NEW fork \in 1..c.height,
           HasBlock(p, fork), Hash(p.db[fork]) = Hash(c.db[fork])
    PROVE  Whole(c, BlocksFrom(p, fork), fork) = LogOf(p)
<1>1. PICK F : F = BlocksFrom(p, fork)
  OBVIOUS
<1>2. /\ c.height \in Nat /\ p.height \in Nat /\ fork \in Nat \ {0} /\ fork <= c.height
      /\ DOMAIN p.db = 1..p.height /\ fork <= p.height
  BY DEF Sound, StoreOK, Clean, HasBlock
<1>3. PICK n \in Nat \ {0} : n = p.height - fork + 1
  BY <1>2
<1>4. F = [k \in 1..n |-> p.db[fork + k - 1]]
  BY <1>1, <1>2, <1>3 DEF BlocksFrom, HasBlock
<1>5. Len(F) = n
  BY <1>4
<1>6. fork + Len(F) - 1 = p.height
  BY <1>2, <1>3, <1>5
<1>7. \A i \in 1..fork : c.db[i] = p.db[i]
  BY <1>2, SameHashSameChain
<1>8. ASSUME NEW i \in 1..p.height
      PROVE  (IF i < fork THEN c.db[i] ELSE F[i - fork + 1]) = p.db[i]
  <2>1. CASE i < fork
    BY <1>2, <1>7, <2>1
  <2>2. CASE ~(i < fork)
    <3>1. i - fork + 1 \in 1..n /\ fork + (i - fork + 1) - 1 = i
      BY <1>2, <1>3, <2>2
    <3> QED BY <1>4, <2>2, <3>1
  <2> QED BY <2>1, <2>2
<1> QED BY <1>1, <1>6, <1>8 DEF Whole, LogOf

(* What a responder sends is, all in all, its log.                         *)
LEMMA AnswerImplements ==
    ASSUME Steady, \A n \in Node : BlocksOK(chain[n]), raced' = raced,
           NEW l \in Link, Answer(l)
    PROVE  Promise!Next
<1> DEFINE s == sync[l]
           c == chain[l[1]]
           p == chain[l[2]]
<1>1. /\ s.listening /\ s.requests # <<>> /\ chain' = chain
      /\ sync' = [sync EXCEPT ![l] = Answered(s, p)]
  BY DEF Answer
<1>2. \A k \in Link : sync'[k] = IF k = l THEN Answered(s, p) ELSE sync[k]
  BY <1>1 DEF Steady
<1>3. Follows(s, c, p)
  BY DEF Steady
<1>4. s.state # "idle" /\ Requested(s, c, p)
  <2>1. s.state # "idle"
    BY <1>1, <1>3 DEF Follows, Idle
  <2> QED BY <1>1, <1>3, <2>1 DEF Follows, Phase, Probing, Refused, Deserted, Receiving
<1>5. Sound(c) /\ Sound(p) /\ c.height \in Nat
  BY LinkEnds, HeightType DEF Sound
<1>6. CASE HasBlock(p, s.height) /\ Hash(p.db[s.height]) = Hash(c.db[s.height])
  <2>0. PICK t, F : t = Answered(s, p) /\ F = BlocksFrom(p, s.height)
    OBVIOUS
  <2>1. /\ t = Answered(s, p) /\ F = BlocksFrom(p, s.height)
        /\ Fits(F, s.height, c)
        /\ t.buffer = <<>> /\ t.responses = Sent(F, s.height, 0)
    <3>1. StoreOK(c) /\ StoreOK(p) /\ Clean(p) /\ Linked(p)
      BY <1>5 DEF Sound
    <3>2. Sends(Answered(s, p), BlocksFrom(p, s.height), s, c)
      BY <1>3, <1>4, <1>6, <3>1, AnsweredFound
    <3> QED BY <2>0, <3>2 DEF Sends
  <2>2. Carries(t, F, s.height, 0)
    <3>1. 0 \in 0..(Len(F) - 1)
      BY <2>1 DEF Fits
    <3>2. t.buffer = [k \in 1..0 |-> F[k]]
      BY <2>1
    <3> QED BY <2>1, <3>1, <3>2 DEF Carries
  <2>3. Offer(t, LogOf(c)) = Whole(c, F, s.height)
    BY <1>5, <2>1, <2>2, OfferedIsWhole
  <2>4. s.height \in 1..c.height
    BY <1>3, <1>4 DEF Follows
  <2>5. Offer(t, LogOf(c)) = LogOf(p)
    BY <1>5, <1>6, <2>1, <2>3, <2>4, WholeIsPeers
  <2>6. Offered(l)' = Log(l[2])
    BY <1>1, <1>2, <2>1, <2>5, LinkEnds, HeightType, LogIs, NextOfferedIs
  <2>7. Offered(l)' \in Logs
    BY <2>6, LinkEnds DEF Logs
  <2> QED BY <1>1, <1>2, <2>7, ExchangeImplements
<1>7. CASE ~(HasBlock(p, s.height) /\ Hash(p.db[s.height]) = Hash(c.db[s.height]))
  <2>1. PICK rest : rest = [s EXCEPT !.requests = Tail(s.requests)]
    OBVIOUS
  <2>2. /\ Shaped(s) /\ s.responses = <<>>
        /\ s.requests = <<[index |-> s.height, hash |-> Hash(c.db[s.height])]>>
    BY <1>3, <1>4 DEF Follows, Requested
  <2>3. Shaped(rest) /\ rest.responses = <<>>
    BY <2>1, <2>2 DEF Shaped
  <2>4. PICK t : t = Answered(s, p)
    OBVIOUS
  <2>5. \/ t = [rest EXCEPT !.listening = FALSE]
        \/ t = [rest EXCEPT !.responses = Append(s.responses, NotFound)]
    <3>1. /\ Head(s.requests).index = s.height
          /\ Head(s.requests).hash = Hash(c.db[s.height])
      BY <2>2
    <3> QED BY <1>7, <2>1, <2>4, <3>1 DEF Answered
  <2>6. t.responses = <<>> \/ t.responses = <<NotFound>>
    <3>1. Append(s.responses, NotFound) = <<NotFound>>
      BY <2>2
    <3> QED BY <2>3, <2>5, <3>1 DEF Shaped
  <2>7. t.responses # <<>> => ~Head(t.responses).found
    BY <2>6 DEF NotFound
  <2>8. ~Offering(l)'
    BY <1>2, <2>4, <2>7 DEF Offering
  <2> QED BY <1>1, <1>2, <2>8, ExchangeImplements
<1> QED BY <1>6, <1>7

LEMMA RestartImplements ==
    ASSUME Steady, Steady', raced' = raced, NEW n \in Node, Restart(n)
    PROVE  Promise!Next
<1>1. PICK d : d = Open(chain[n].db)
  OBVIOUS
<1>2. /\ chain' = [chain EXCEPT ![n] = d]
      /\ sync' = [l \in Link |-> IF n \in {l[1], l[2]} THEN Idle ELSE sync[l]]
  BY <1>1 DEF Restart
<1>3. d.db = chain[n].db /\ d.height = chain[n].height
  BY <1>1, HeightType, OpenStored, OpenClean
<1>4. ASSUME NEW m \in Node PROVE Log(m)' = Log(m)
  <2>1. chain'[m].db = chain[m].db /\ chain'[m].height = chain[m].height
    BY <1>2, <1>3 DEF Steady
  <2> QED BY <2>1 DEF Log, HasBlock
<1>5. \A l \in Link : sync'[l] = sync[l] \/ sync'[l] = Idle
  BY <1>2
<1>6. \A l \in Link : Offering(l)' => Offered(l)' \in Offers
  BY <1>4, <1>5, LinkEnds, KeptOffer
<1> QED BY <1>4, <1>6, StepIsOffer

LEMMA LogLength == ASSUME NEW c, c.height \in Nat PROVE Len(LogOf(c)) = c.height
<1>1. PICK n, g : n \in Nat /\ n = c.height /\ g = LogOf(c)
  OBVIOUS
<1>2. g = [i \in 1..n |-> g[i]]
  BY <1>1 DEF LogOf
<1> QED BY <1>1, <1>2, OneByOne

(* A step of n's chain, at which its exchanges end, disturbs no other log. *)
LEMMA OthersKeep ==
    ASSUME Steady, NEW n \in Node, NEW e, chain' = [chain EXCEPT ![n] = e],
           \A k \in Link : k[1] = n => sync'[k] = Idle,
           \A k \in Link : k[1] # n => sync'[k] = sync[k]
    PROVE  /\ \A m \in Node \ {n} : Log(m)' = Log(m)
           /\ \A k \in Link : Offering(k)' => Offered(k)' \in Offers
<1>1. ASSUME NEW m \in Node \ {n} PROVE Log(m)' = Log(m)
  <2>1. chain'[m] = chain[m]
    BY DEF Steady
  <2> QED BY <2>1 DEF Log, HasBlock
<1>2. ASSUME NEW k \in Link, Offering(k)' PROVE Offered(k)' \in Offers
  <2>1. CASE k[1] = n
    <3>1. sync'[k].responses = <<>>
      BY <2>1 DEF Idle
    <3> QED BY <1>2, <3>1 DEF Offering
  <2>2. CASE k[1] # n
    BY <1>1, <1>2, <2>2, LinkEnds, KeptOffer
  <2> QED BY <2>1, <2>2
<1> QED BY <1>1, <1>2

(* What the chain becomes is what was offered.                             *)
LEMMA UpdatedIsWhole ==
    ASSUME NEW c, StoreOK(c), Clean(c), NEW F, NEW fork, Fits(F, fork, c),
           NEW bs, bs = [k \in 1..Len(F) |-> F[k]],
           AcceptsFork(c, fork, bs), NEW d, d = TryUpdateLongest(c, fork, bs, TRUE)
    PROVE  /\ LogOf(d) = Whole(c, F, fork)
           /\ d.height \in Nat /\ d.height >= c.height
<1>1. PICK n \in Nat \ {0} : n = Len(F)
  BY DEF Fits
<1>2. Len(bs) = n /\ \A k \in 1..n : bs[k] = F[k]
  BY <1>1
<1>3. /\ fork \in 1..c.height /\ fork \in Nat \ {0} /\ c.height \in Nat
      /\ fork \in DOMAIN c.db /\ fork + n - 1 >= c.height
  BY <1>1 DEF Fits, StoreOK, AcceptsFork, HasBlock
<1>4. PICK db, last : db = Replaced(c, fork, bs) /\ last = fork + n - 1
  OBVIOUS
<1>5. d.db = db /\ d.height = last
  BY <1>2, <1>4 DEF TryUpdateLongest, WithBlocks
<1>6. ReplacesFrom(c, fork, bs, db)
  BY <1>1, <1>2, <1>3, <1>4, ReplacedTable
<1>7. /\ \A i \in fork..last : db[i] = bs[i - fork + 1]
      /\ \A i \in DOMAIN c.db : i < fork => db[i] = c.db[i]
  BY <1>2, <1>4, <1>6 DEF ReplacesFrom
<1>8. ASSUME NEW i \in 1..last PROVE db[i] = IF i < fork THEN c.db[i] ELSE F[i - fork + 1]
  <2>1. CASE i < fork
    <3>1. i \in DOMAIN c.db
      BY <1>3, <2>1 DEF Clean
    <3> QED BY <1>7, <2>1, <3>1
  <2>2. CASE ~(i < fork)
    <3>1. i \in fork..last /\ i - fork + 1 \in 1..n
      BY <1>3, <1>4, <2>2
    <3> QED BY <1>2, <1>7, <2>2, <3>1
  <2> QED BY <2>1, <2>2
<1>9. LogOf(d) = Whole(c, F, fork)
  BY <1>1, <1>4, <1>5, <1>8 DEF LogOf, Whole
<1>10. d.height \in Nat /\ d.height >= c.height
  <2>1. last \in Nat /\ last >= c.height
    <3>1. \A f, m, h \in Nat : f >= 1 /\ f + m - 1 >= h => f + m - 1 \in Nat
      OBVIOUS
    <3> QED BY <1>1, <1>3, <1>4, <3>1
  <2> QED BY <1>5, <2>1
<1> QED BY <1>9, <1>10

LEMMA FinishImplements ==
    ASSUME Steady, Steady', ~raced', raced' = raced, NEW l \in Link, FinishSync(l)
    PROVE  Promise!Next
<1> DEFINE n == l[1]
           s == sync[l]
           c == chain[n]
           r == Head(s.responses)
<1>1. PICK bs, d, e :
          /\ bs = Append(s.buffer, r.block)
          /\ d = TryUpdateLongest(c, r.fork_index, bs, TRUE)
          /\ e = [d EXCEPT !.ballot_pool = <<>>]
  OBVIOUS
<1>2. /\ s.state = "wait" /\ s.responses # <<>> /\ r.found /\ r.remaining = 0
      /\ chain' = [chain EXCEPT ![n] = e]
      /\ e = c \/ \A k \in Link \ {l} : k[1] = n => sync[k].state = "idle"
  BY <1>1 DEF FinishSync, CanReceive, SetChain, Busy
<1>3. AcceptsFork(c, r.fork_index, bs) /\ sync' = [sync EXCEPT ![l] = Idle]
  BY <1>1, <1>2, LastBlock DEF FinishSync
<1>4. /\ n \in Node /\ StoreOK(c) /\ Clean(c) /\ c.height \in Nat
      /\ Follows(s, c, chain[l[2]])
      /\ \A k \in Link : sync'[k] = IF k = l THEN Idle ELSE sync[k]
  BY <1>3, LinkEnds, HeightType DEF Steady
<1>5. PICK F, fork, k : Delivers(s, c, F, fork, k)
  BY <1>2, <1>4, BlockComes
<1>6. /\ Fits(F, fork, c) /\ Carries(s, F, fork, k) /\ r.fork_index = fork
      /\ r.block = F[k + 1] /\ r.remaining = Len(F) - k - 1
      /\ bs = [i \in 1..k + 1 |-> F[i]]
  <2>1. r.block = F[k + 1]
    BY <1>5 DEF Delivers
  <2> QED BY <1>1, <1>5, <2>1 DEF Delivers, Carries
<1>7. bs = [i \in 1..Len(F) |-> F[i]]
  <2>1. Len(F) \in Nat /\ k \in Int
    BY <1>6 DEF Fits, Carries
  <2>2. k + 1 = Len(F)
    BY <1>2, <1>6, <2>1
  <2> QED BY <1>6, <2>2
<1>8. /\ LogOf(d) = Whole(c, F, fork) /\ d.height \in Nat /\ d.height >= c.height
  <2>1. /\ StoreOK(c) /\ Clean(c) /\ Fits(F, fork, c)
        /\ bs = [i \in 1..Len(F) |-> F[i]]
        /\ AcceptsFork(c, fork, bs) /\ d = TryUpdateLongest(c, fork, bs, TRUE)
    BY <1>1, <1>3, <1>4, <1>6, <1>7
  <2> HIDE DEF c
  <2> QED BY <2>1, UpdatedIsWhole
<1>9. LogOf(e) = LogOf(d) /\ e.height = d.height
  <2>1. StoreOK(d)
    <3>1. r.fork_index \in Nat \ {0} /\ Len(bs) \in Nat \ {0}
      BY <1>1, <1>2, LastBlock DEF CanReceive
    <3> QED BY <1>1, <1>4, <3>1, TryUpdateLongestChain
  <2>2. e.db = d.db /\ e.height = d.height
    BY <1>1, <2>1, WithPool
  <2> QED BY <2>2 DEF LogOf
<1>10. Log(n) = LogOf(c) /\ Log(n)' = LogOf(e)
  <2>1. chain'[n] = e /\ Clean(chain'[n])
    BY <1>2, <1>4 DEF Steady
  <2> QED BY <1>4, <2>1, LogIs, NextLogIs
<1>11. Offering(l) /\ Offered(l) = Whole(c, F, fork)
  BY <1>4, <1>6, OfferedIs, OfferedIsWhole DEF Offering
<1>12. Log(n)' \in Offers
  BY <1>8, <1>9, <1>10, <1>11 DEF Offers
<1>13. Len(Log(n)') >= Len(Log(n))
  BY <1>4, <1>8, <1>9, <1>10, LogLength
<1>14. /\ \A m \in Node \ {n} : Log(m)' = Log(m)
       /\ \A j \in Link : Offering(j)' => Offered(j)' \in Offers
  <2>1. CASE e = c
    <3>1. chain' = chain
      BY <1>2, <2>1 DEF Steady
    <3>2. \A m \in Node : Log(m)' = Log(m)
      BY <3>1 DEF Log, HasBlock
    <3> QED BY <1>4, <3>2, LinkEnds, KeptOffer
  <2>2. CASE \A j \in Link \ {l} : j[1] = n => sync[j].state = "idle"
    <3>1. \A j \in Link : j[1] = n => sync'[j] = Idle
      BY <1>4, <2>2 DEF Steady, Follows
    <3>2. \A j \in Link : j[1] # n => sync'[j] = sync[j]
      BY <1>4
    <3> QED BY <1>2, <1>4, <3>1, <3>2, OthersKeep
  <2> QED BY <1>2, <2>1, <2>2
<1> QED BY <1>4, <1>12, <1>13, <1>14, StepIsAdopt

LEMMA ExtendImplements ==
    ASSUME Steady, Steady', ~raced', raced' = raced, NEW n \in Node, ExtendChain(n)
    PROVE  Promise!Next
<1> DEFINE c == chain[n]
<1>1. PICK b, d :
          /\ d = TryAppend(c, b, TRUE)
          /\ chain' = [chain EXCEPT ![n] = d]
          /\ d = c \/ \A k \in Link : k[1] = n => sync[k].state = "idle"
          /\ sync' = sync
  BY DEF ExtendChain, SetChain, Busy
<1>2. CASE d = c
  <2>1. chain' = chain
    BY <1>1, <1>2 DEF Steady
  <2>2. \A m \in Node : Log(m)' = Log(m)
    BY <2>1 DEF Log, HasBlock
  <2>3. \A j \in Link : Offering(j)' => Offered(j)' \in Offers
    BY <1>1, <2>2, LinkEnds, KeptOffer
  <2> QED BY <2>2, <2>3, StepIsOffer
<1>3. CASE d # c
  <2>1. AcceptsBlock(c, b) /\ d = Appended(c, b)
    BY <1>1, <1>3 DEF TryAppend
  <2>2. StoreOK(c) /\ Clean(c) /\ c.height \in Nat \ {0} /\ DOMAIN c.db = 1..c.height
    BY HeightType
  <2>3. /\ d.height = c.height + 1 /\ d.db[c.height + 1] = b
        /\ \A i \in DOMAIN c.db : i # c.height + 1 => d.db[i] = c.db[i]
    BY <2>1, <2>2, AppendedChain
  <2>4. LogOf(d) = Append(LogOf(c), b)
    <3>1. PICK N, g : N \in Nat /\ N = c.height /\ g = LogOf(c)
      BY <2>2
    <3>2. g = [i \in 1..N |-> c.db[i]] /\ g = [i \in 1..N |-> g[i]]
      BY <3>1 DEF LogOf
    <3>3. Append(g, b) = [i \in 1..N + 1 |-> IF i = N + 1 THEN b ELSE g[i]]
      BY <3>1, <3>2, AppendOf
    <3>4. \A i \in 1..N + 1 : d.db[i] = IF i = N + 1 THEN b ELSE g[i]
      BY <2>2, <2>3, <3>1, <3>2
    <3>5. Append(g, b) = [i \in 1..N + 1 |-> d.db[i]]
      BY <3>3, <3>4
    <3>6. LogOf(d) = [i \in 1..N + 1 |-> d.db[i]]
      BY <2>3, <3>1 DEF LogOf
    <3> QED BY <3>1, <3>5, <3>6
  <2>5. Log(n) = LogOf(c) /\ Log(n)' = LogOf(d)
    <3>1. chain'[n] = d /\ Clean(chain'[n])
      BY <1>1 DEF Steady
    <3> QED BY <2>2, <3>1, LogIs, NextLogIs
  <2>6. \A k \in Link : k[1] = n => sync'[k] = Idle
    BY <1>1, <1>3 DEF Steady, Follows
  <2>7. /\ \A m \in Node \ {n} : Log(m)' = Log(m)
        /\ \A k \in Link : Offering(k)' => Offered(k)' \in Offers
    BY <1>1, <2>6, OthersKeep
  <2>8. IsValid(b, c.db[c.height])
    BY <2>1 DEF AcceptsBlock
  <2> QED BY <2>2, <2>4, <2>5, <2>7, <2>8, StepIsExtend
<1> QED BY <1>2, <1>3

----------------------------------------------------------------------------
(* What the refinement needs to know of a state. *)
Whence == IInv /\ Typed

LEMMA NextImplements ==
    ASSUME Whence, Whence', [Next]_vars
    PROVE  [Promise!Next]_<<[n \in Node |-> Log(n)], Offers, raced>>
<1>1. CASE raced'
  BY <1>1 DEF Promise!Next, Promise!Break
<1>2. CASE ~raced'
  <2>1. /\ Steady /\ Steady' /\ raced' = raced
        /\ \A n \in Node : BlocksOK(chain[n])
    BY <1>2, RacedStays DEF Whence, IInv, Typed, ChainTyped
  <2>2. CASE \E n \in Node : ExtendChain(n) \/ Restart(n)
    BY <1>2, <2>1, <2>2, ExtendImplements, RestartImplements
  <2>3. CASE \E l \in Link : SyncStep(l) \/ StartSync(l) \/ PreemptSync(l) \/ Disconnect(l)
    <3>1. PICK l \in Link : SyncStep(l) \/ StartSync(l) \/ PreemptSync(l) \/ Disconnect(l)
      BY <2>3
    <3>2. CASE StartSync(l) \/ PreemptSync(l) \/ Disconnect(l) \/ AskPanics(l) \/ ReceiveEnd(l)
      BY <2>1, <3>2, EndingImplements
         DEF StartSync, PreemptSync, Disconnect, AskPanics, ReceiveEnd
    <3>3. CASE Ask(l)
      BY <2>1, <3>3, AskImplements
    <3>4. CASE Answer(l)
      BY <2>1, <3>4, AnswerImplements
    <3>5. CASE ReceiveBlock(l)
      BY <2>1, <3>5, ReceiveBlockImplements
    <3>6. CASE FinishSync(l)
      BY <1>2, <2>1, <3>6, FinishImplements
    <3>7. CASE ReceiveNotFound(l)
      BY <2>1, <3>7, ReceiveNotFoundImplements
    <3> QED BY <3>1, <3>2, <3>3, <3>4, <3>5, <3>6, <3>7 DEF SyncStep
  <2>4. CASE UNCHANGED vars
    <3>1. UNCHANGED <<[n \in Node |-> Log(n)], Offers, raced>>
      BY <2>4 DEF vars, Log, HasBlock, Offers, Offering, Offered
    <3> QED BY <3>1
  <2> QED BY <2>2, <2>3, <2>4 DEF Next, Step, LinkStep
<1> QED BY <1>1, <1>2

LEMMA InitImplements == Init => Promise!Init
<1> SUFFICES ASSUME Init PROVE Promise!Init
  OBVIOUS
<1>1. PICK c : c = Open([i \in {} |-> GenesisBlock])
  OBVIOUS
<1>2. chain = [n \in Node |-> c] /\ sync = [l \in Link |-> Idle] /\ raced = FALSE
  BY <1>1 DEF Init
<1>3. c.height = 1 /\ c.db = [i \in {1} |-> GenesisBlock]
  BY <1>1 DEF Open
<1>4. ASSUME NEW n \in Node PROVE Log(n) = <<GenesisBlock>>
  <2>1. chain[n] = c
    BY <1>2
  <2>2. Log(n) = [i \in 1..1 |-> GenesisBlock]
    BY <1>3, <2>1 DEF Log, HasBlock
  <2> QED BY <2>2
<1>5. \A l \in Link : ~Offering(l)
  BY <1>2 DEF Offering, Idle
<1>6. Offers = {}
  BY <1>5 DEF Offers
<1>7. Promise!GenesisBlock = GenesisBlock
  BY DEF GenesisBlock, Promise!GenesisBlock
<1> QED BY <1>2, <1>4, <1>6, <1>7 DEF Promise!Init, Offers

(* In every network, logs start at genesis, grow by their node's own       *)
(* blocks, or become what was the log of some node, and no shorter, until  *)
(* chains race.                                                            *)
THEOREM KeepsPromise == Spec => ImplementsLedger
<1>1. Whence /\ Whence' /\ [Next]_vars
        => [Promise!Next]_<<[n \in Node |-> Log(n)], Offers, raced>>
  BY NextImplements
<1>2. Spec => []Whence
  BY AlwaysIInv, AlwaysTyped, PTL DEF Whence
<1>3. Whence /\ Whence' /\ [Next]_vars
        => [Promise!Next]_<<[n \in Node |-> Log(n)],
                            {Offered(l) : l \in {k \in Link : Offering(k)}}, raced>>
  BY <1>1 DEF Offers
<1> QED BY <1>2, <1>3, InitImplements, PTL DEF Spec, ImplementsLedger, Promise!Spec
=============================================================================
