-------------------------- MODULE SelectionProofs --------------------------
(***************************************************************************)
(* What select_peer keeps for every ring, selection, hash source and limit *)
(* of iterations: why it fails, whom it gives the same backend, also       *)
(* across updates, and that it implements the Upstream trait step by step; *)
(* and that neither a select nor a turn of the service's loop can go on    *)
(* for ever.                                                               *)
(*                                                                         *)
(* The inductive invariant says of every request what its offers have      *)
(* shown it so far: a request that no update disturbed has seen only       *)
(* backends that were unhealthy, and under consistent hashing it has seen  *)
(* all points of the ring before the one it is offered next.  The last two *)
(* sections count what is left of a turn and of a select.                  *)
(***************************************************************************)
EXTENDS LoadBalancerProofs, FiniteSetTheorems, WellFoundedInduction

----------------------------------------------------------------------------
(* The points of a ring, in order.                                         *)

LEMMA LeastNumber ==
  ASSUME NEW S \in SUBSET Nat, S # {}
  PROVE  \E m \in S : \A k \in S : m <= k
<1>1. PICK m \in S : \A k \in S : ~(<<k, m>> \in OpToRel(<, Nat))
  BY NatLessThanWellFounded, WFMin
<1>2. \A k \in S : ~(k < m)
  BY <1>1 DEF OpToRel
<1> QED
  BY <1>2

\* How many points of S come before the j-th of the ring.
Rank(ring, S, j) == Cardinality({k \in Points(ring, S) : k < j})

LEMMA RankType ==
  ASSUME NEW ring \in Seq(Backends), NEW S, NEW j \in Nat
  PROVE  /\ Points(ring, S) \subseteq Nat
         /\ IsFiniteSet({k \in Points(ring, S) : k < j})
         /\ Rank(ring, S, j) \in Nat
<1>1. Points(ring, S) \subseteq Nat
  BY DEF Points
<1>2. IsFiniteSet({k \in Points(ring, S) : k < j})
  <2> DEFINE T == {k \in Points(ring, S) : k < j}
  <2>1. T \in SUBSET Nat /\ \A t \in T : t <= j
    BY <1>1
  <2> HIDE DEF T
  <2>2. IsFiniteSet(T)
    BY <2>1, FS_BoundedSetOfNaturals
  <2> QED BY <2>2 DEF T
<1> QED
  BY <1>1, <1>2, FS_CardinalityType DEF Rank

LEMMA RankGrows ==
  ASSUME NEW ring \in Seq(Backends), NEW S,
         NEW i \in Points(ring, S), NEW j \in Points(ring, S), i < j
  PROVE  Rank(ring, S, i) < Rank(ring, S, j)
<1> DEFINE Before(x) == {k \in Points(ring, S) : k < x}
<1>1. i \in Nat /\ j \in Nat /\ Points(ring, S) \subseteq Nat
  BY RankType DEF Points
<1>2. IsFiniteSet(Before(i)) /\ IsFiniteSet(Before(j))
  BY <1>1, RankType
<1>3. Before(i) \cup {i} \in SUBSET Before(j) /\ i \notin Before(i)
  BY <1>1
<1>4. Cardinality(Before(i)) \in Nat /\ Cardinality(Before(j)) \in Nat
  BY <1>1, RankType DEF Rank
<1> HIDE DEF Before
<1>5. Cardinality(Before(i)) + 1 <= Cardinality(Before(j))
  <2>1. Cardinality(Before(i) \cup {i}) = Cardinality(Before(i)) + 1
    BY <1>2, <1>3, FS_AddElement
  <2>2. Cardinality(Before(i) \cup {i}) <= Cardinality(Before(j))
    BY <1>2, <1>3, FS_Subset
  <2> QED BY <2>1, <2>2
<1> QED
  BY <1>4, <1>5 DEF Before, Rank

LEMMA NthPointIsOne ==
  ASSUME NEW ring \in Seq(Backends), NEW S, NEW n,
         NEW a \in NthPoint(ring, S, n), NEW b \in NthPoint(ring, S, n)
  PROVE  a = b
<1>1. PICK i \in Points(ring, S) : a = ring[i] /\ Rank(ring, S, i) = n
  BY DEF NthPoint, Rank
<1>2. PICK j \in Points(ring, S) : b = ring[j] /\ Rank(ring, S, j) = n
  BY DEF NthPoint, Rank
<1>3. i \in Nat /\ j \in Nat
  BY DEF Points
<1>4. Rank(ring, S, i) \in Nat /\ Rank(ring, S, j) \in Nat
  BY <1>3, RankType
<1>5. ~(i < j) /\ ~(j < i)
  BY <1>1, <1>2, <1>4, RankGrows
<1> QED
  BY <1>1, <1>2, <1>3, <1>5

LEMMA FirstPoint ==
  ASSUME NEW ring \in Seq(Backends), NEW S, Points(ring, S) # {}
  PROVE  NthPoint(ring, S, 0) # {}
<1>1. Points(ring, S) \in SUBSET Nat
  BY RankType
<1>2. PICK i \in Points(ring, S) : \A k \in Points(ring, S) : i <= k
  BY <1>1, LeastNumber
<1>3. {k \in Points(ring, S) : k < i} = {}
  BY <1>1, <1>2
<1>4. Cardinality({k \in Points(ring, S) : k < i}) = 0
  BY <1>3, FS_EmptySet
<1> QED
  BY <1>4 DEF NthPoint

\* When the ring offers no n-th point, all points have been offered before.
LEMMA OutOfPoints ==
  ASSUME NEW ring \in Seq(Backends), NEW S, NEW n \in Nat,
         NthPoint(ring, S, n) = {}, NEW j \in Points(ring, S)
  PROVE  Rank(ring, S, j) < n
<1> DEFINE Late == {i \in Points(ring, S) : Rank(ring, S, i) >= n}
<1>1. Points(ring, S) \subseteq Nat /\ \A i \in Points(ring, S) : Rank(ring, S, i) \in Nat
  BY RankType DEF Points
<1>2. SUFFICES ASSUME Late # {} PROVE FALSE
  BY <1>1
<1>3. PICK m \in Late : \A k \in Late : m <= k
  <2>1. Late \in SUBSET Nat
    BY <1>1
  <2> HIDE DEF Late
  <2> QED
    BY <1>2, <2>1, LeastNumber
<1>4. Rank(ring, S, m) > n
  <2>1. Rank(ring, S, m) # n
    BY DEF NthPoint, Rank
  <2> QED
    BY <1>1, <2>1
<1> DEFINE Before(x) == {k \in Points(ring, S) : k < x}
<1>5. PICK p \in Before(m) : \A k \in Before(m) : k <= p
  <2> DEFINE Gaps == {m - k : k \in Before(m)}
  <2>1. Before(m) # {}
    <3>1. Rank(ring, S, m) # 0
      BY <1>1, <1>4
    <3>2. Cardinality(Before(m)) = Rank(ring, S, m)
      BY DEF Rank
    <3> QED
      BY <3>1, <3>2, FS_EmptySet
  <2>2. Gaps \in SUBSET Nat /\ Gaps # {}
    BY <1>1, <2>1
  <2>3. PICK g \in Gaps : \A h \in Gaps : g <= h
    <3> HIDE DEF Gaps
    <3> QED BY <2>2, LeastNumber
  <2>4. PICK p \in Before(m) : g = m - p
    BY <2>3
  <2>5. \A k \in Before(m) : m - p <= m - k
    BY <2>3, <2>4
  <2>6. \A k \in Before(m) : k <= p
    BY <1>1, <2>5
  <2> QED BY <2>4, <2>6
<1>6. p \in Points(ring, S) /\ p < m
  OBVIOUS
<1>7. Rank(ring, S, m) = Rank(ring, S, p) + 1
  <2>1. Before(m) = Before(p) \cup {p} /\ p \notin Before(p)
    BY <1>1, <1>5
  <2>2. IsFiniteSet(Before(p))
    BY <1>1, <1>6, RankType
  <2>3. Cardinality(Before(p)) = Rank(ring, S, p) /\ Cardinality(Before(m)) = Rank(ring, S, m)
    BY DEF Rank
  <2> HIDE DEF Before
  <2>4. Cardinality(Before(p) \cup {p}) = Cardinality(Before(p)) + 1
    BY <2>1, <2>2, FS_AddElement
  <2> QED
    BY <2>1, <2>3, <2>4
<1>8. p \in Late
  BY <1>1, <1>4, <1>6, <1>7
<1> QED
  BY <1>1, <1>3, <1>6, <1>8

----------------------------------------------------------------------------
HashRing(r) == Ring[key[r]]

\* What select_peer of r has seen and done, given what its offers were.
Asked(r)   == /\ sel[r] = "idle" => steps[r] = 0 /\ seen[r] = {}
              /\ sel[r] # "idle" => key[r] \in HashKeys(Input[r])
              /\ seen[r] \subseteq snap[r]
\* What an undisturbed request saw was unhealthy.
Calm(r)    == ~raced[r] =>
                /\ sel[r] = "probing" => service \notin Publishing /\ snap[r] = selector
                /\ seen[r] \subseteq down
\* The first points of the ring have been seen.
Swept(r)   == /\ sel[r] = "probing" => (steps[r] = 0 <=> seen[r] = {})
              /\ Selection = "consistent" /\ sel[r] # "chosen" =>
                   \A i \in Points(HashRing(r), snap[r]) :
                     Rank(HashRing(r), snap[r], i) < steps[r] => HashRing(r)[i] \in seen[r]
Chosen(r)  == Selection = "consistent" /\ sel[r] = "chosen" /\ ~raced[r]
              /\ snap[r] \cap down = {} => peer[r] \in NthPoint(HashRing(r), snap[r], 0)
Refused(r) == sel[r] = "unavailable" => steps[r] >= MaxIterations \/ Offers(r) = {}

SelectInv == \A r \in Requests :
  Asked(r) /\ Calm(r) /\ Swept(r) /\ Chosen(r) /\ Refused(r)

DownInv == /\ \A b \in DOMAIN health : ~health[b].healthy => b \in down
           /\ ~Checked => /\ service # "check"
                          /\ \A b \in DOMAIN health : health[b].healthy
                          /\ \A r \in Requests : sel[r] \in {"idle", "probing"} => steps[r] = 0

Safe == PoolSafe /\ SelectInv /\ DownInv

LEMMA RingType ==
  ASSUME NEW r \in Requests, Asked(r), sel[r] # "idle"
  PROVE  HashRing(r) \in Seq(Backends) /\ key[r] \in Keys
  BY PoolAssumption, KeysAssumption DEF Asked, HashRing

LEMMA InitSafe == Init => Safe
<1> SUFFICES ASSUME Init PROVE Safe
  OBVIOUS
<1>1. PoolSafe
  BY InitPool
<1>2. DownInv
  BY DEF Init, DownInv
<1>3. SelectInv
  <2> SUFFICES ASSUME NEW r \in Requests
               PROVE Asked(r) /\ Calm(r) /\ Swept(r) /\ Chosen(r) /\ Refused(r)
    BY DEF SelectInv
  <2>1. steps[r] = 0 /\ seen[r] = {} /\ sel[r] = "idle" /\ snap[r] = {}
    BY DEF Init
  <2>2. Points(HashRing(r), snap[r]) = {}
    BY <2>1 DEF Points
  <2> QED
    BY <2>1, <2>2 DEF Asked, Calm, Swept, Chosen, Refused
<1> QED
  BY <1>1, <1>2, <1>3 DEF Safe

\* What is not ready has been unhealthy, unless an update is being published.
LEMMA NotReadyIsDown ==
  ASSUME Safe, NEW r \in Requests, sel[r] = "probing", ~raced[r],
         NEW b \in snap[r], ~Ready(b)
  PROVE  b \in down
<1>1. service \notin Publishing /\ snap[r] = selector
  BY DEF Safe, SelectInv, Calm
<1>2. selector = backends /\ DOMAIN health = backends
  BY <1>1 DEF Safe, PoolSafe, PoolInv, Publishing
<1> QED
  BY <1>1, <1>2 DEF Ready, Safe, DownInv

\* Nobody is refused in a pool that is not checked.
LEMMA UncheckedReady ==
  ASSUME Safe, ~Checked, NEW b
  PROVE  Ready(b)
  BY DEF Ready, Safe, DownInv

LEMMA BackgroundSelect ==
  ASSUME Safe, Background
  PROVE  /\ UNCHANGED selection
         /\ down \subseteq down'
         /\ \A r \in Requests : raced[r] => raced'[r]
         /\ \A r \in Requests : sel[r] # "probing" => raced'[r] = raced[r]
         /\ \/ UNCHANGED selector /\ (service' \in Publishing => service \in Publishing)
            \/ \A r \in Requests : sel[r] = "probing" => raced'[r]
<1> USE DEF selection, history, pool, Publishing, MarkRaced
<1>0. raced \in [Requests -> BOOLEAN]
  BY DEF Safe, PoolSafe, TypeOK
<1>1. CASE Start
  BY <1>1 DEF Start
<1>2. CASE DiscoverErr
  BY <1>2 DEF DiscoverErr
<1>3. CASE PublishBackends
  BY <1>0, <1>3 DEF PublishBackends
<1>4. CASE PublishHealth
  BY <1>0, <1>4 DEF PublishHealth
<1>5. CASE BeginChecks
  BY <1>5 DEF BeginChecks
<1>6. CASE Sleep
  BY <1>6 DEF Sleep
<1>7. ASSUME NEW S \in Found, DiscoverOk(S)
      PROVE  /\ UNCHANGED selection
             /\ down \subseteq down'
             /\ \A r \in Requests : raced[r] => raced'[r]
             /\ \A r \in Requests : sel[r] # "probing" => raced'[r] = raced[r]
             /\ \/ UNCHANGED selector /\ (service' \in Publishing => service \in Publishing)
                \/ \A r \in Requests : sel[r] = "probing" => raced'[r]
  BY <1>0, <1>7 DEF DiscoverOk
<1>8. ASSUME NEW b \in Backends, NEW reply \in Replies, FinishCheck(b, reply)
      PROVE  /\ UNCHANGED <<selection, raced, selector>>
             /\ down \subseteq down'
             /\ service' \notin Publishing
  BY <1>8 DEF FinishCheck
<1> QED
  BY <1>1, <1>2, <1>3, <1>4, <1>5, <1>6, <1>7, <1>8 DEF Background

LEMMA BackgroundDown ==
  ASSUME Safe, Background
  PROVE  DownInv'
<1> USE DEF selection, history, pool
<1>1. UNCHANGED selection
  BY BackgroundSelect
<1>2. ~Checked => \A r \in Requests : sel'[r] \in {"idle", "probing"} => steps'[r] = 0
  BY <1>1 DEF Safe, DownInv
<1>3. ASSUME UNCHANGED <<health, down>>, service' # "check" \/ Checked PROVE DownInv'
  BY <1>2, <1>3 DEF Safe, DownInv, Checked
<1>4. CASE Start
  BY <1>3, <1>4 DEF Start
<1>5. CASE DiscoverErr
  BY <1>3, <1>5 DEF DiscoverErr
<1>6. CASE PublishBackends
  BY <1>3, <1>6 DEF PublishBackends
<1>7. CASE PublishHealth
  <2>1. \A b \in DOMAIN health' : \/ b \in DOMAIN health /\ health'[b] = health[b]
                                  \/ health'[b].healthy
    BY <1>7 DEF PublishHealth, Carry, Fresh
  <2>2. service' = "loop" /\ down' = down
    BY <1>7 DEF PublishHealth
  <2> QED
    BY <1>2, <2>1, <2>2 DEF Safe, DownInv, Checked
<1>8. CASE BeginChecks
  BY <1>3, <1>8 DEF BeginChecks
<1>9. CASE Sleep
  BY <1>3, <1>9 DEF Sleep
<1>10. ASSUME NEW S \in Found, DiscoverOk(S) PROVE DownInv'
  BY <1>3, <1>10 DEF DiscoverOk
<1>11. ASSUME NEW b \in Backends, NEW reply \in Replies, FinishCheck(b, reply)
       PROVE  DownInv'
  <2>1. Checked
    BY <1>11 DEF FinishCheck, Safe, DownInv
  <2>2. /\ b \in DOMAIN health
        /\ DOMAIN health' = DOMAIN health
        /\ \A c \in DOMAIN health \ {b} : health'[c] = health[c]
    BY <1>11 DEF FinishCheck, Safe, PoolSafe, PoolInv
  <2>3. down \subseteq down' /\ (~health'[b].healthy => b \in down')
    BY <1>11 DEF FinishCheck
  <2> QED
    BY <2>1, <2>2, <2>3 DEF Safe, DownInv, Checked
<1> QED
  BY <1>4, <1>5, <1>6, <1>7, <1>8, <1>9, <1>10, <1>11 DEF Background

\* The service's steps disturb a request only by marking it as raced.
LEMMA BackgroundSelectInv ==
  ASSUME Safe, Background
  PROVE  SelectInv'
<1> SUFFICES ASSUME NEW r \in Requests
             PROVE  (Asked(r) /\ Calm(r) /\ Swept(r) /\ Chosen(r) /\ Refused(r))'
  BY DEF SelectInv
<1>1. Asked(r) /\ Calm(r) /\ Swept(r) /\ Chosen(r) /\ Refused(r)
  BY DEF Safe, SelectInv
<1>2. UNCHANGED <<sel, key, snap, seen, steps, peer>> /\ down \subseteq down'
  BY BackgroundSelect DEF selection
<1>3. Asked(r)'
  BY <1>1, <1>2 DEF Asked
<1>4. Calm(r)'
  BY <1>1, <1>2, BackgroundSelect DEF Calm
<1>5. Swept(r)'
  BY <1>1, <1>2 DEF Swept, HashRing
<1>6. Chosen(r)'
  BY <1>1, <1>2, BackgroundSelect DEF Chosen, HashRing
<1>7. Refused(r)'
  BY <1>1, <1>2 DEF Refused, Offers
<1> QED
  BY <1>3, <1>4, <1>5, <1>6, <1>7

\* A request starts.
LEMMA BeginSelectInv ==
  ASSUME Safe, NEW r \in Requests, BeginSelect(r)
  PROVE  (Asked(r) /\ Calm(r) /\ Swept(r) /\ Chosen(r) /\ Refused(r))'
<1> USE DEF background, pool
<1>1. Asked(r) /\ sel[r] = "idle"
  BY DEF Safe, SelectInv, BeginSelect
<1>2. /\ sel'[r] = "probing" /\ snap'[r] = selector /\ key'[r] \in HashKeys(Input[r])
      /\ seen'[r] = {} /\ steps'[r] = 0 /\ UNCHANGED <<service, selector, down>>
      /\ ~raced'[r] => service \notin Publishing
  <2>1. raced' = [raced EXCEPT ![r] = service \in Publishing]
    BY DEF BeginSelect
  <2>2. raced'[r] = (service \in Publishing)
    BY <2>1, Zenon DEF Safe, PoolSafe, TypeOK
  <2>3. PICK k \in HashKeys(Input[r]) : key' = [key EXCEPT ![r] = k]
    BY DEF BeginSelect
  <2>4. key'[r] = k
    BY <2>3 DEF Safe, PoolSafe, TypeOK
  <2> QED
    BY <1>1, <2>2, <2>4 DEF BeginSelect, Safe, PoolSafe, TypeOK, Asked
<1>3. Asked(r)'
  BY <1>2 DEF Asked
<1>4. Calm(r)'
  BY <1>2 DEF Calm
<1>5. Swept(r)'
  <2>1. HashRing(r)' \in Seq(Backends)
    BY <1>2, PoolAssumption, KeysAssumption DEF HashRing
  <2>2. \A i \in Points(HashRing(r)', selector) : Rank(HashRing(r)', selector, i) \in Nat
    <3> HIDE DEF HashRing
    <3> QED BY <2>1, RankType DEF Points
  <2> QED
    BY <1>2, <2>2 DEF Swept
<1> QED
  BY <1>2, <1>3, <1>4, <1>5 DEF Chosen, Refused

\* One offer is examined.
LEMMA ProbeInv ==
  ASSUME Safe, NEW r \in Requests, Probe(r)
  PROVE  (Asked(r) /\ Calm(r) /\ Swept(r) /\ Chosen(r) /\ Refused(r))'
<1>1. Asked(r) /\ Calm(r) /\ Swept(r) /\ sel[r] = "probing"
  BY DEF Safe, SelectInv, Probe
<1>2. PICK b \in Offers(r) :
        /\ steps' = [steps EXCEPT ![r] = @ + 1]
        /\ IF b \notin seen[r] /\ Ready(b)
           THEN /\ sel' = [sel EXCEPT ![r] = "chosen"]
                /\ peer' = [peer EXCEPT ![r] = b]
                /\ UNCHANGED seen
           ELSE /\ seen' = [seen EXCEPT ![r] = @ \cup {b}]
                /\ UNCHANGED <<sel, peer>>
  BY DEF Probe
<1>3. UNCHANGED <<service, selector, key, snap, raced, down>>
  BY DEF Probe, background, pool, history
<1>4. b \in snap[r] /\ steps[r] \in Nat /\ steps'[r] = steps[r] + 1
  BY <1>2, OfferInSnap DEF Safe, PoolSafe, TypeOK
<1>5. HashRing(r) \in Seq(Backends)
  BY <1>1, RingType
<1>6. CASE b \notin seen[r] /\ Ready(b)
  <2>1. sel'[r] = "chosen" /\ peer'[r] = b /\ seen' = seen
    BY <1>2, <1>6 DEF Safe, PoolSafe, TypeOK
  <2>2. Asked(r)' /\ Calm(r)' /\ Swept(r)' /\ Refused(r)'
    BY <1>1, <1>3, <2>1 DEF Asked, Calm, Swept, Refused
  <2>3. Chosen(r)'
    <3> SUFFICES ASSUME Selection = "consistent", ~raced[r], snap[r] \cap down = {}
                 PROVE  b \in NthPoint(HashRing(r), snap[r], 0)
      BY <1>3, <2>1 DEF Chosen, HashRing
    <3>1. seen[r] = {}
      BY <1>1 DEF Calm, Asked
    <3>2. steps[r] = 0
      BY <1>1, <1>4, <3>1 DEF Swept
    <3> QED
      BY <3>2 DEF Offers, HashRing
  <2> QED
    BY <2>2, <2>3
<1>7. CASE ~(b \notin seen[r] /\ Ready(b))
  <2>1. sel' = sel /\ peer' = peer /\ seen'[r] = seen[r] \cup {b}
    BY <1>2, <1>7 DEF Safe, PoolSafe, TypeOK
  <2>2. Asked(r)'
    BY <1>1, <1>3, <1>4, <2>1 DEF Asked
  <2>3. Calm(r)'
    <3>1. ~raced[r] => b \in down
      BY <1>1, <1>4, <1>7, NotReadyIsDown DEF Calm
    <3> QED
      BY <1>1, <1>3, <2>1, <3>1 DEF Calm
  <2>4. Swept(r)'
    <3> SUFFICES ASSUME Selection = "consistent", NEW i \in Points(HashRing(r), snap[r]),
                        Rank(HashRing(r), snap[r], i) < steps[r] + 1
                 PROVE  HashRing(r)[i] \in seen[r] \cup {b}
      BY <1>3, <1>4, <2>1 DEF Swept, HashRing
    <3>1. Rank(HashRing(r), snap[r], i) \in Nat
      <4> HIDE DEF HashRing
      <4> QED BY <1>5, RankType DEF Points
    <3>2. CASE Rank(HashRing(r), snap[r], i) < steps[r]
      BY <1>1, <3>2 DEF Swept
    <3>3. CASE Rank(HashRing(r), snap[r], i) = steps[r]
      <4>1. HashRing(r)[i] \in NthPoint(HashRing(r), snap[r], steps[r])
        BY <3>3 DEF NthPoint, Rank
      <4>2. b \in NthPoint(HashRing(r), snap[r], steps[r])
        BY DEF Offers, HashRing
      <4> HIDE DEF HashRing
      <4> QED
        BY <1>5, <4>1, <4>2, NthPointIsOne
    <3> QED
      BY <1>4, <3>1, <3>2, <3>3
  <2> QED
    BY <1>1, <2>1, <2>2, <2>3, <2>4 DEF Chosen, Refused
<1> QED
  BY <1>6, <1>7

LEMMA GiveUpInv ==
  ASSUME Safe, NEW r \in Requests, GiveUp(r)
  PROVE  (Asked(r) /\ Calm(r) /\ Swept(r) /\ Chosen(r) /\ Refused(r))'
<1>1. Asked(r) /\ Calm(r) /\ Swept(r) /\ sel[r] = "probing"
  BY DEF Safe, SelectInv, GiveUp
<1>2. /\ UNCHANGED <<service, selector, key, snap, seen, steps, peer, raced, down>>
      /\ sel'[r] = "unavailable"
      /\ steps[r] >= MaxIterations \/ Offers(r) = {}
  BY DEF GiveUp, background, pool, history, Safe, PoolSafe, TypeOK
<1>3. Asked(r)' /\ Calm(r)' /\ Swept(r)' /\ Chosen(r)' /\ Refused(r)'
  BY <1>1, <1>2 DEF Asked, Calm, Swept, Chosen, Refused, HashRing, Offers
<1> QED BY <1>3

LEMMA SelectSelectInv ==
  ASSUME Safe, NEW r \in Requests, Select(r)
  PROVE  SelectInv'
<1> SUFFICES ASSUME NEW q \in Requests
             PROVE  (Asked(q) /\ Calm(q) /\ Swept(q) /\ Chosen(q) /\ Refused(q))'
  BY DEF SelectInv
<1>1. CASE q = r
  BY <1>1, BeginSelectInv, ProbeInv, GiveUpInv DEF Select
<1>2. CASE q # r
  <2>1. Asked(q) /\ Calm(q) /\ Swept(q) /\ Chosen(q) /\ Refused(q)
    BY DEF Safe, SelectInv
  <2>2. /\ UNCHANGED <<service, selector, down>>
        /\ sel'[q] = sel[q] /\ key'[q] = key[q] /\ snap'[q] = snap[q]
        /\ seen'[q] = seen[q] /\ steps'[q] = steps[q] /\ peer'[q] = peer[q]
        /\ raced'[q] = raced[q]
    <3>1. CASE BeginSelect(r)
      BY <1>2, <3>1 DEF BeginSelect, background, pool, history, Safe, PoolSafe, TypeOK
    <3>2. CASE Probe(r)
      <4>1. UNCHANGED <<background, pool, key, snap, history>>
        BY <3>2 DEF Probe
      <4>2. sel'[q] = sel[q] /\ seen'[q] = seen[q] /\ steps'[q] = steps[q] /\ peer'[q] = peer[q]
        BY <1>2, <3>2 DEF Probe, Safe, PoolSafe, TypeOK
      <4> QED BY <4>1, <4>2 DEF background, pool, history
    <3>3. CASE GiveUp(r)
      BY <1>2, <3>3 DEF GiveUp, background, pool, history, Safe, PoolSafe, TypeOK
    <3> QED BY <3>1, <3>2, <3>3 DEF Select
  <2>3. Asked(q)' /\ Calm(q)' /\ Swept(q)' /\ Chosen(q)' /\ Refused(q)'
    BY <2>1, <2>2 DEF Asked, Calm, Swept, Chosen, Refused, HashRing, Offers
  <2> QED BY <2>3
<1> QED
  BY <1>1, <1>2

LEMMA SelectDown ==
  ASSUME Safe, NEW r \in Requests, Select(r)
  PROVE  DownInv'
<1>1. UNCHANGED <<service, health, down>>
  BY SelectTypes DEF Safe, PoolSafe, background, pool
<1>2. ~Checked => \A q \in Requests : sel'[q] \in {"idle", "probing"} => steps'[q] = 0
  <2> SUFFICES ASSUME ~Checked, NEW q \in Requests, sel'[q] \in {"idle", "probing"}
               PROVE  steps'[q] = 0
    OBVIOUS
  <2>1. CASE BeginSelect(r)
    BY <2>1 DEF BeginSelect, Safe, DownInv, PoolSafe, TypeOK
  <2>2. CASE GiveUp(r)
    BY <2>2 DEF GiveUp, Safe, DownInv, PoolSafe, TypeOK
  <2>3. CASE Probe(r)
    <3>1. PICK b \in Offers(r) :
            /\ steps' = [steps EXCEPT ![r] = @ + 1]
            /\ b \notin seen[r] /\ Ready(b) => sel' = [sel EXCEPT ![r] = "chosen"]
            /\ ~(b \notin seen[r] /\ Ready(b)) => UNCHANGED sel
      BY <2>3 DEF Probe
    <3>2. sel[r] = "probing" /\ steps[r] = 0
      BY <2>3 DEF Probe, Safe, DownInv
    <3>3. seen[r] = {} /\ Ready(b)
      BY <3>2, UncheckedReady DEF Safe, SelectInv, Swept
    <3> QED
      BY <3>1, <3>2, <3>3 DEF Safe, DownInv, PoolSafe, TypeOK
  <2> QED BY <2>1, <2>2, <2>3 DEF Select
<1> QED
  BY <1>1, <1>2 DEF Safe, DownInv, Checked

----------------------------------------------------------------------------
LEMMA NextSafe == Safe /\ [Next]_vars => Safe'
<1> SUFFICES ASSUME Safe, [Next]_vars PROVE Safe'
  OBVIOUS
<1>1. PoolSafe'
  BY NextPool DEF Safe
<1>2. CASE Background
  BY <1>1, <1>2, BackgroundSelectInv, BackgroundDown DEF Safe
<1>3. ASSUME NEW r \in Requests, Select(r) PROVE Safe'
  BY <1>1, <1>3, SelectSelectInv, SelectDown DEF Safe
<1>4. CASE UNCHANGED vars
  <2> USE <1>4 DEF vars, background, pool, selection, history
  <2>1. DownInv'
    BY DEF Safe, DownInv, Checked
  <2>2. SelectInv'
    BY DEF Safe, SelectInv, Asked, Calm, Swept, Chosen, Refused, HashRing, Offers
  <2> QED BY <1>1, <2>1, <2>2 DEF Safe
<1> QED
  BY <1>2, <1>3, <1>4 DEF Next

LEMMA SafeAlways == Spec => []Safe
  BY InitSafe, NextSafe, PTL DEF Spec

\* select_peer fails on a pool with backends only for one of the three reasons,
\* for every ring, selection and limit.
THEOREM UnavailableAlwaysExplained == Spec => []UnavailableExplained
<1>1. Safe => UnavailableExplained
  <2> SUFFICES ASSUME Safe, NEW r \in Requests, sel[r] = "unavailable",
                      snap[r] # {}, ~raced[r]
               PROVE  \/ snap[r] \subseteq down
                      \/ seen[r] # snap[r] /\ steps[r] >= MaxIterations
    BY DEF UnavailableExplained
  <2>1. /\ Asked(r) /\ Calm(r) /\ Swept(r) /\ Refused(r)
        /\ seen[r] \subseteq snap[r] /\ seen[r] \subseteq down
    BY DEF Safe, SelectInv, Asked, Calm
  <2>2. CASE seen[r] = snap[r]
    BY <2>1, <2>2
  <2>3. CASE steps[r] >= MaxIterations
    BY <2>1, <2>2, <2>3
  <2>4. CASE Offers(r) = {}
    <3>1. Selection = "consistent"
      BY <2>4 DEF Offers
    <3>2. HashRing(r) \in Seq(Backends) /\ key[r] \in Keys
      BY <2>1, RingType
    <3>3. NthPoint(HashRing(r), snap[r], steps[r]) = {} /\ steps[r] \in Nat
      BY <2>4, <3>1 DEF Offers, HashRing, Safe, PoolSafe, TypeOK
    <3>4. \A i \in Points(HashRing(r), snap[r]) : HashRing(r)[i] \in seen[r]
      <4>1. \A i \in Points(HashRing(r), snap[r]) :
              Rank(HashRing(r), snap[r], i) < steps[r]
        <5> HIDE DEF HashRing
        <5> QED BY <3>2, <3>3, OutOfPoints
      <4> QED BY <2>1, <3>1, <4>1 DEF Swept
    <3>5. snap[r] \subseteq seen[r]
      <4> SUFFICES ASSUME NEW b \in snap[r] PROVE b \in seen[r]
        OBVIOUS
      <4>1. PICK i \in 1..Len(HashRing(r)) : HashRing(r)[i] = b
        BY <3>2, PoolAssumption DEF HashRing, Safe, PoolSafe, TypeOK
      <4> QED BY <3>4, <4>1 DEF Points
    <3> QED BY <2>1, <2>2, <3>5
  <2> QED BY <2>1, <2>3, <2>4 DEF Refused
<1> QED
  BY <1>1, SafeAlways, PTL

\* A backend that comes first among S comes first among fewer of them.
LEMMA FirstOfFewer ==
  ASSUME NEW ring \in Seq(Backends), NEW S, NEW T, T \subseteq S,
         NEW a \in NthPoint(ring, S, 0), a \in T
  PROVE  a \in NthPoint(ring, T, 0)
<1>1. PICK i \in Points(ring, S) : a = ring[i] /\ Rank(ring, S, i) = 0
  BY DEF NthPoint, Rank
<1>2. i \in Points(ring, T) /\ i \in Nat
  BY <1>1 DEF Points
<1>3. {k \in Points(ring, S) : k < i} = {}
  <2>1. IsFiniteSet({k \in Points(ring, S) : k < i})
    BY <1>2, RankType
  <2> QED
    BY <1>1, <2>1, FS_EmptySet DEF Rank
<1>4. {k \in Points(ring, T) : k < i} = {}
  BY <1>3 DEF Points
<1>5. Cardinality({k \in Points(ring, T) : k < i}) = 0
  BY <1>4, FS_EmptySet
<1> QED
  BY <1>1, <1>2, <1>5 DEF NthPoint

\* A request brings the value CookieValue finds, or no such cookie at all.
LEMMA CookieBrought ==
  ASSUME NEW q
  PROVE  LET v == CookieValue(q.cookies, HashSource.name)
         IN  \/ Brings(q, v)
             \/ v = "" /\ \A w : ~Brings(q, w)
<1> DEFINE cookies == q.cookies
           name == HashSource.name
           at == {i \in 1..Len(cookies) : cookies[i].name = name}
           v == CookieValue(cookies, name)
<1>1. CASE at = {}
  <2>1. v = ""
    BY <1>1 DEF CookieValue
  <2>2. \A i \in 1..Len(cookies) : cookies[i].name # name
    BY <1>1
  <2> QED BY <2>1, <2>2 DEF Brings
<1>2. CASE at # {}
  <2>1. at \in SUBSET Nat
    OBVIOUS
  <2>2. \E i \in at : \A j \in at : i <= j
    BY <1>2, <2>1, LeastNumber
  <2> DEFINE i == CHOOSE i \in at : \A j \in at : i <= j
  <2>3. i \in at /\ \A j \in at : i <= j
    BY <2>2
  <2>4. v = cookies[i].value
    BY <1>2 DEF CookieValue
  <2> HIDE DEF i, v
  <2>5. \A j \in 1..i - 1 : cookies[j].name # name
    <3> SUFFICES ASSUME NEW j \in 1..i - 1, cookies[j].name = name
                 PROVE  FALSE
      OBVIOUS
    <3>1. i \in 1..Len(cookies) /\ i \in Int /\ j \in Int /\ 1 <= j /\ j <= i - 1
      BY <2>1, <2>3
    <3>2. j \in 1..Len(cookies)
      BY <3>1
    <3> QED BY <2>3, <3>1, <3>2
  <2>6. Brings(q, v)
    BY <2>3, <2>4, <2>5 DEF Brings
  <2> QED BY <2>6 DEF v
<1> QED BY <1>1, <1>2

\* A request brings one value of the cookie at most.
LEMMA OneBrought ==
  ASSUME NEW q, NEW v, NEW w, Brings(q, v), Brings(q, w)
  PROVE  v = w
<1>1. PICK i \in 1..Len(q.cookies) :
        /\ q.cookies[i].name = HashSource.name /\ q.cookies[i].value = v
        /\ \A j \in 1..i - 1 : q.cookies[j].name # HashSource.name
  BY DEF Brings
<1>2. PICK k \in 1..Len(q.cookies) :
        /\ q.cookies[k].name = HashSource.name /\ q.cookies[k].value = w
        /\ \A j \in 1..k - 1 : q.cookies[j].name # HashSource.name
  BY DEF Brings
<1>3. ~(i < k) /\ ~(k < i)
  BY <1>1, <1>2
<1> QED BY <1>1, <1>2, <1>3

LEMMA SessionKey ==
  ASSUME NEW q1, NEW q2, SameSession(q1, q2),
         HashKeys(q1) \subseteq Keys, HashKeys(q2) \subseteq Keys,
         NEW k1 \in HashKeys(q1), NEW k2 \in HashKeys(q2)
  PROVE  k1 = k2
<1>1. CASE HashSource.type = "none"
  BY <1>1 DEF HashKeys
<1>2. CASE HashSource.type = "client_ip"
  BY <1>2 DEF HashKeys, SameSession
<1>3. CASE HashSource.type = "cookie"
  <2>1. /\ k1 = CookieValue(q1.cookies, HashSource.name) /\ k1 \in Keys
        /\ k2 = CookieValue(q2.cookies, HashSource.name) /\ k2 \in Keys
    BY <1>3 DEF HashKeys
  <2>2. \A v \in Keys : Brings(q1, v) <=> Brings(q2, v)
    BY <1>3 DEF SameSession
  <2>3. /\ Brings(q1, k1) \/ (k1 = "" /\ \A w : ~Brings(q1, w))
        /\ Brings(q2, k2) \/ (k2 = "" /\ \A w : ~Brings(q2, w))
    BY <2>1, CookieBrought
  <2> QED BY <2>1, <2>2, <2>3, OneBrought
<1>4. CASE HashSource.type = "uri"
  BY <1>4 DEF HashKeys, SameSession
<1>5. CASE HashSource.type = "header"
  <2>1. \A v \in Keys : HasHeader(q1, v) <=> HasHeader(q2, v)
    BY <1>5 DEF SameSession
  <2>2. /\ k1 \in Keys /\ k2 \in Keys
        /\ HasHeader(q1, k1) \/ (k1 = "" /\ \A w : ~HasHeader(q1, w))
        /\ HasHeader(q2, k2) \/ (k2 = "" /\ \A w : ~HasHeader(q2, w))
    BY <1>5 DEF HashKeys, HasHeader
  <2>3. \A q, v, w : HasHeader(q, v) /\ HasHeader(q, w) => v = w
    BY DEF HasHeader
  <2> QED BY <2>1, <2>2, <2>3
<1> QED
  BY <1>1, <1>2, <1>3, <1>4, <1>5, KeysAssumption

\* Requests of one session get one backend, whatever the ring looks like and
\* whatever else they bring; an update moves no session it need not move, for
\* every pair of pools.
THEOREM AlwaysSticky == Spec => []Sticky
<1>1. Safe => Sticky
  <2> SUFFICES ASSUME Safe, Selection = "consistent",
                      NEW r1 \in Requests, NEW r2 \in Requests,
                      sel[r1] = "chosen", sel[r2] = "chosen",
                      SameSession(Input[r1], Input[r2]),
                      peer[r1] \in snap[r2], peer[r2] \in snap[r1],
                      (snap[r1] \cup snap[r2]) \cap down = {},
                      ~raced[r1], ~raced[r2]
               PROVE  peer[r1] = peer[r2]
    BY DEF Sticky
  <2>1. Asked(r1) /\ Asked(r2) /\ Chosen(r1) /\ Chosen(r2)
    BY DEF Safe, SelectInv
  <2>2. key[r1] = key[r2]
    BY <2>1, SessionKey, KeysAssumption DEF Asked
  <2>3. /\ peer[r1] \in NthPoint(HashRing(r1), snap[r1], 0)
        /\ peer[r2] \in NthPoint(HashRing(r1), snap[r2], 0)
    <3>1. snap[r1] \cap down = {} /\ snap[r2] \cap down = {}
      OBVIOUS
    <3> QED BY <2>1, <2>2, <3>1 DEF Chosen, HashRing
  <2>4. HashRing(r1) \in Seq(Backends)
    BY <2>1, RingType
  <2> HIDE DEF HashRing
  <2> DEFINE Both == snap[r1] \cap snap[r2]
  <2>5. peer[r1] \in snap[r1] /\ peer[r2] \in snap[r2]
    BY <2>3 DEF NthPoint, Points
  <2>6. /\ peer[r1] \in NthPoint(HashRing(r1), Both, 0)
        /\ peer[r2] \in NthPoint(HashRing(r1), Both, 0)
    BY <2>3, <2>4, <2>5, FirstOfFewer
  <2> QED BY <2>4, <2>6, NthPointIsOne
<1> QED
  BY <1>1, SafeAlways, PTL

\* The pool implements the Upstream promise step by step (its fairness is only
\* model-checked).
THEOREM KeepsPromise == Spec => Abstract!Spec
<1>1. Init => Abstract!Init
  <2> SUFFICES ASSUME Init PROVE Abstract!Init
    OBVIOUS
  <2>1. [r \in Requests |-> CallOf(sel[r])] = [r \in Requests |-> "none"]
    BY DEF Init, CallOf
  <2> QED BY <2>1 DEF Init, Abstract!Init
<1>2. Safe /\ [Next]_vars => [Abstract!Next]_(Abstract!promise)
  <2> SUFFICES ASSUME Safe, [Next]_vars
               PROVE  Abstract!Next \/ UNCHANGED Abstract!promise
    OBVIOUS
  <2> USE DEF Abstract!promise
  <2>1. CASE UNCHANGED vars
    BY <2>1 DEF vars, pool, selection, Ready
  <2>2. CASE Background
    <3>1. UNCHANGED selection
      BY <2>2, BackgroundSelect
    <3>2. selector' \in SUBSET Backends
      BY NextPool DEF Safe, PoolSafe, TypeOK
    <3>3. CASE UNCHANGED health
      <4>1. {b \in Backends : ~Ready(b)}' = {b \in Backends : ~Ready(b)}
        BY <3>3 DEF Ready, Checked
      <4> QED
        BY <3>1, <3>2, <4>1 DEF Abstract!Next, Abstract!Discover, selection
    <3>4. CASE UNCHANGED selector /\ Checked
      BY <3>1, <3>4 DEF Abstract!Next, Abstract!Examine, selection
    <3>5. CASE UNCHANGED selector /\ ~Checked
      <4>1. {b \in Backends : ~Ready(b)} = {}
        BY <3>5, UncheckedReady
      <4>2. DownInv'
        BY <2>2, BackgroundDown
      <4>3. {b \in Backends : ~Ready(b)}' = {}
        BY <3>5, <4>2 DEF DownInv, Ready, Checked
      <4> QED
        BY <3>1, <3>5, <4>1, <4>3 DEF selection
    <3>6. UNCHANGED health \/ UNCHANGED selector
      BY <2>2 DEF Background, Start, DiscoverErr, DiscoverOk, PublishBackends,
           PublishHealth, BeginChecks, FinishCheck, Sleep, pool
    <3> QED BY <3>3, <3>4, <3>5, <3>6
  <2>3. ASSUME NEW r \in Requests, Select(r)
        PROVE  Abstract!Next \/ UNCHANGED Abstract!promise
    <3> DEFINE calls == [q \in Requests |-> CallOf(sel[q])]
    <3> DEFINE sick == {b \in Backends : ~Ready(b)}
    <3>1. UNCHANGED pool
      BY <2>3, SelectTypes DEF Safe, PoolSafe
    <3>2. sick' = sick /\ selector' = selector
      BY <3>1 DEF pool, Ready
    <3>3. sel \in [Requests -> {"idle", "probing", "chosen", "unavailable"}]
      BY DEF Safe, PoolSafe, TypeOK
    <3>4. CASE BeginSelect(r)
      <4>1. sel[r] = "idle" /\ sel' = [sel EXCEPT ![r] = "probing"]
        BY <3>4 DEF BeginSelect
      <4>2. calls[r] = "none" /\ calls' = [calls EXCEPT ![r] = "asked"]
        BY <3>3, <4>1 DEF CallOf
      <4>3. snap' = [snap EXCEPT ![r] = selector] /\ peer' = peer
        BY <3>4 DEF BeginSelect
      <4> QED
        BY <3>2, <4>2, <4>3 DEF Abstract!Next, Abstract!Ask
    <3>5. CASE GiveUp(r)
      <4>1. sel[r] = "probing" /\ sel' = [sel EXCEPT ![r] = "unavailable"]
        BY <3>5 DEF GiveUp
      <4>2. calls[r] = "asked" /\ calls' = [calls EXCEPT ![r] = "unavailable"]
        BY <3>3, <4>1 DEF CallOf
      <4>3. snap' = snap /\ peer' = peer
        BY <3>5 DEF GiveUp
      <4>4. Checked \/ snap[r] = {}
        <5> SUFFICES ASSUME ~Checked PROVE snap[r] = {}
          OBVIOUS
        <5>1. steps[r] = 0 /\ Asked(r)
          BY <4>1 DEF Safe, DownInv, SelectInv
        <5>2. Offers(r) = {}
          BY <3>5, <5>1, ThresholdAssumption DEF GiveUp
        <5>3. CASE Selection # "consistent"
          BY <5>2, <5>3 DEF Offers
        <5>4. CASE Selection = "consistent"
          <6>1. HashRing(r) \in Seq(Backends) /\ key[r] \in Keys
            BY <4>1, <5>1, RingType
          <6>2. NthPoint(HashRing(r), snap[r], 0) = {}
            BY <5>1, <5>2, <5>4 DEF Offers, HashRing
          <6>3. Points(HashRing(r), snap[r]) = {}
            <7> HIDE DEF HashRing
            <7> QED BY <6>1, <6>2, FirstPoint
          <6>4. ASSUME NEW b \in snap[r] PROVE FALSE
            <7>1. PICK i \in 1..Len(HashRing(r)) : HashRing(r)[i] = b
              BY <6>1, PoolAssumption DEF HashRing, Safe, PoolSafe, TypeOK
            <7> QED BY <6>3, <7>1 DEF Points
          <6> QED BY <6>4
        <5> QED BY <5>3, <5>4
      <4> QED
        BY <3>2, <4>2, <4>3, <4>4 DEF Abstract!Next, Abstract!Refuse
    <3>6. CASE Probe(r)
      <4>1. sel[r] = "probing" /\ UNCHANGED snap
        BY <3>6 DEF Probe
      <4>2. PICK b \in Offers(r) :
              IF b \notin seen[r] /\ Ready(b)
              THEN /\ sel' = [sel EXCEPT ![r] = "chosen"]
                   /\ peer' = [peer EXCEPT ![r] = b]
              ELSE UNCHANGED <<sel, peer>>
        BY <3>6 DEF Probe
      <4>3. b \in snap[r]
        BY OfferInSnap
      <4>4. CASE b \notin seen[r] /\ Ready(b)
        <5>1. calls[r] = "asked" /\ calls' = [calls EXCEPT ![r] = "peer"]
          BY <3>3, <4>1, <4>2, <4>4 DEF CallOf
        <5>2. b \in snap[r] \ sick
          BY <4>3, <4>4
        <5> QED
          BY <3>2, <4>1, <4>2, <4>4, <5>1, <5>2 DEF Abstract!Next, Abstract!HandOut
      <4>5. CASE ~(b \notin seen[r] /\ Ready(b))
        BY <3>2, <4>1, <4>2, <4>5
      <4> QED BY <4>4, <4>5
    <3> QED BY <2>3, <3>4, <3>5, <3>6 DEF Select
  <2> QED
    BY <2>1, <2>2, <2>3 DEF Next
<1> QED
  BY <1>1, <1>2, SafeAlways, PTL DEF Spec, Abstract!Spec
----------------------------------------------------------------------------
(* A turn of the service's loop is finite.                                 *)

\* What is left of this turn: an update is at most three steps, a round of
\* checks one and one per backend.
Jobs     == IF "update" \in due THEN 3 ELSE 0
Stores   == CASE service = "publish_backends" -> 2
              [] service = "publish_health" -> 1
              [] OTHER -> 0
Round    == IF "check" \in due THEN Cardinality(Backends) + 1 ELSE 0
TurnWork == Jobs + Stores + Round + Cardinality(pending)

\* An update is published, and a round of checks runs, after it was taken off
\* what is due.
TurnInv == /\ service = "check" => due = {}
           /\ service \in Publishing => "update" \notin due

LEMMA InitTurn == Init => TurnInv
  BY DEF Init, TurnInv, Publishing

LEMMA NextTurn == PoolSafe /\ TurnInv /\ [Next]_vars => TurnInv'
<1> SUFFICES ASSUME PoolSafe, TurnInv, [Next]_vars PROVE TurnInv'
  OBVIOUS
<1> USE DEF TurnInv, Publishing
<1>1. CASE Background
  <2>1. CASE Start \/ DiscoverErr \/ PublishBackends \/ PublishHealth \/ Sleep
    BY <2>1 DEF Start, DiscoverErr, PublishBackends, PublishHealth, Sleep
  <2>2. CASE BeginChecks
    BY <2>2 DEF BeginChecks, PoolSafe, TypeOK
  <2>3. ASSUME NEW S \in Found, DiscoverOk(S) PROVE TurnInv'
    BY <2>3 DEF DiscoverOk
  <2>4. ASSUME NEW b \in Backends, NEW reply \in Replies, FinishCheck(b, reply)
        PROVE  TurnInv'
    BY <2>4 DEF FinishCheck
  <2> QED
    BY <1>1, <2>1, <2>2, <2>3, <2>4 DEF Background
<1>2. ASSUME NEW r \in Requests, Select(r) PROVE TurnInv'
  BY <1>2, SelectTypes DEF PoolSafe, background
<1>3. CASE UNCHANGED vars
  BY <1>3 DEF vars, background
<1> QED
  BY <1>1, <1>2, <1>3 DEF Next

LEMMA TurnAlways == Spec => [](PoolSafe /\ TurnInv)
  BY InitPool, NextPool, InitTurn, NextTurn, PTL DEF Spec

\* Sizes of sets of backends.
LEMMA BackendSets ==
  ASSUME NEW S \in SUBSET Backends
  PROVE  /\ IsFiniteSet(S) /\ Cardinality(S) \in Nat
         /\ Cardinality(S) <= Cardinality(Backends)
         /\ Cardinality(Backends) \in Nat
         /\ Cardinality({}) = 0
  BY PoolAssumption, FS_Subset, FS_CardinalityType, FS_EmptySet

LEMMA TurnParts ==
  ASSUME TypeOK
  PROVE  /\ Jobs \in 0..3 /\ Stores \in 0..2
         /\ Round \in 0..(Cardinality(Backends) + 1)
         /\ Cardinality(pending) \in 0..Cardinality(Backends)
         /\ Cardinality(Backends) \in Nat
<1>1. /\ Cardinality(pending) \in Nat /\ Cardinality(Backends) \in Nat
      /\ Cardinality(pending) <= Cardinality(Backends)
  BY BackendSets DEF TypeOK
<1>2. Jobs \in 0..3 /\ Stores \in 0..2
  BY DEF Jobs, Stores
<1> QED
  BY <1>1, <1>2 DEF Round

\* A turn has never more to do than an update and a round of checks.
THEOREM TurnAlwaysBounded == Spec => [](TurnWork \in 0..(Cardinality(Backends) + 4))
<1>1. PoolSafe /\ TurnInv => TurnWork \in 0..(Cardinality(Backends) + 4)
  <2> SUFFICES ASSUME PoolSafe, TurnInv
               PROVE  TurnWork \in 0..(Cardinality(Backends) + 4)
    OBVIOUS
  <2> DEFINE C == Cardinality(Backends)
             P == Cardinality(pending)
  <2>1. /\ Jobs \in 0..3 /\ Stores \in 0..2 /\ Round \in 0..(C + 1)
        /\ P \in 0..C /\ C \in Nat
    BY TurnParts DEF PoolSafe
  <2>2. \/ Jobs = 0 /\ Stores = 0 /\ Round = 0
        \/ Jobs = 0 /\ P = 0
        \/ Stores = 0 /\ P = 0
    <3>1. CASE service = "check"
      BY <3>1 DEF TurnInv, Jobs, Stores, Round
    <3>2. CASE service # "check"
      <4>1. P = 0
        BY <3>2, FS_EmptySet DEF PoolSafe, PoolInv
      <4>2. Jobs = 0 \/ Stores = 0
        BY DEF TurnInv, Publishing, Jobs, Stores
      <4> QED BY <4>1, <4>2
    <3> QED BY <3>1, <3>2
  <2> HIDE DEF C, P
  <2>3. Jobs + Stores + Round + P \in 0..(C + 4)
    BY <2>1, <2>2
  <2> QED
    BY <2>3 DEF C, P, TurnWork
<1> QED
  BY <1>1, TurnAlways, PTL

\* Every step of the service inside a turn leaves less of it to do, and no
\* request adds to it: whatever discovery and checks answer, and however many
\* requests select meanwhile, the loop is back at its sleep after finitely many
\* steps of its own.
TurnRunsDown ==
  [][/\ Background /\ ~Start /\ ~Sleep => TurnWork' < TurnWork
     /\ ~Start /\ ~Sleep => TurnWork' <= TurnWork]_vars

\* The loop cannot be kept from its next sleep, and so from its next round of
\* checks, by its own work (the safety half of KeepsChecking).
THEOREM TurnAlwaysRunsDown == Spec => TurnRunsDown
<1> DEFINE C == Cardinality(Backends)
           P == Cardinality(pending)
<1>1. ASSUME PoolSafe, TurnInv, Next, ~Start, ~Sleep
      PROVE  (Background => TurnWork' < TurnWork) /\ TurnWork' <= TurnWork
  <2> DEFINE Less == TurnWork' < TurnWork /\ TurnWork' <= TurnWork
  <2>0. PoolSafe'
    BY <1>1, NextPool
  <2>1. /\ Jobs \in 0..3 /\ Stores \in 0..2 /\ Round \in 0..(C + 1)
        /\ P \in 0..C /\ C \in Nat
    BY <1>1, TurnParts DEF PoolSafe
  <2>2. /\ TurnWork = Jobs + Stores + Round + P
        /\ TurnWork' = Jobs' + Stores' + Round' + P'
    BY DEF TurnWork
  <2>3. ASSUME DiscoverErr PROVE Less
    <3>1. Jobs = 3 /\ Jobs' = 0
      BY <2>3 DEF DiscoverErr, Jobs
    <3>2. Stores' = Stores /\ Round' = Round /\ P' = P
      BY <2>3 DEF DiscoverErr, Stores, Round
    <3> HIDE DEF C, P
    <3> QED BY <2>1, <2>2, <3>1, <3>2
  <2>4. ASSUME NEW S \in Found, DiscoverOk(S) PROVE Less
    <3>1. Jobs = 3 /\ Jobs' = 0
      BY <2>4 DEF DiscoverOk, Jobs
    <3>2. Round' = Round /\ P' = P
      BY <2>4 DEF DiscoverOk, Round
    <3>3. Stores = 0 /\ Stores' \in {0, 2}
      BY <2>4 DEF DiscoverOk, Stores
    <3> HIDE DEF C, P
    <3>4. PICK n \in {0, 2} : Stores' = n
      BY <3>3
    <3>5. TurnWork' = n + Round + P /\ TurnWork = 3 + Round + P
      BY <2>1, <2>2, <3>1, <3>2, <3>3, <3>4
    <3>6. n \in 0..2
      BY <3>4
    <3> QED BY <2>1, <3>5, <3>6
  <2>5. ASSUME PublishBackends PROVE Less
    <3>1. Stores = 2 /\ Stores' = 1
      BY <2>5 DEF PublishBackends, Stores
    <3>2. Jobs' = Jobs /\ Round' = Round /\ P' = P
      BY <2>5 DEF PublishBackends, Jobs, Round
    <3> HIDE DEF C, P
    <3> QED BY <2>1, <2>2, <3>1, <3>2
  <2>6. ASSUME PublishHealth PROVE Less
    <3>1. Stores = 1 /\ Stores' = 0
      BY <2>6 DEF PublishHealth, Stores
    <3>2. Jobs' = Jobs /\ Round' = Round /\ P' = P
      BY <2>6 DEF PublishHealth, Jobs, Round
    <3> HIDE DEF C, P
    <3> QED BY <2>1, <2>2, <3>1, <3>2
  <2>7. ASSUME BeginChecks PROVE Less
    <3>1. Jobs = 0 /\ Jobs' = 0 /\ Stores = 0 /\ Stores' = 0
      BY <2>7 DEF BeginChecks, Jobs, Stores
    <3>2. Round = C + 1 /\ Round' = 0
      BY <2>7 DEF BeginChecks, Round
    <3>3. P' \in Nat /\ P' <= C
      BY <2>0, BackendSets DEF PoolSafe, TypeOK
    <3> HIDE DEF C, P
    <3>4. PICK n \in 0..C : P' = n
      BY <2>1, <3>3
    <3>5. TurnWork' = n /\ TurnWork = C + 1 + P
      BY <2>1, <2>2, <3>1, <3>2, <3>4
    <3> QED BY <2>1, <3>4, <3>5
  <2>8. ASSUME NEW b \in Backends, NEW reply \in Replies, FinishCheck(b, reply)
        PROVE  Less
    <3>1. Jobs' = Jobs /\ Round' = Round
      BY <2>8 DEF FinishCheck, Jobs, Round
    <3>2. Stores = 0 /\ Stores' = 0
      BY <2>8 DEF FinishCheck, Stores
    <3>3. P' = P - 1
      <4>1. IsFiniteSet(pending) /\ b \in pending /\ pending' = pending \ {b}
        BY <1>1, <2>8, BackendSets DEF PoolSafe, TypeOK, FinishCheck
      <4> QED BY <4>1, FS_RemoveElement
    <3> HIDE DEF C, P
    <3> QED BY <2>1, <2>2, <3>1, <3>2, <3>3
  <2>9. ASSUME NEW r \in Requests, Select(r)
        PROVE  UNCHANGED background
    BY <1>1, <2>9, SelectTypes DEF PoolSafe
  <2>10. ASSUME UNCHANGED background PROVE TurnWork' <= TurnWork
    <3>1. Jobs' = Jobs /\ Stores' = Stores /\ Round' = Round /\ P' = P
      BY <2>10 DEF background, Jobs, Stores, Round
    <3> HIDE DEF C, P
    <3> QED BY <2>1, <2>2, <3>1
  <2>11. Background => Less
    <3> HIDE DEF Less
    <3> QED BY <1>1, <2>3, <2>4, <2>5, <2>6, <2>7, <2>8 DEF Background
  <2> QED
    BY <1>1, <2>9, <2>10, <2>11 DEF Next
<1>2. PoolSafe /\ TurnInv /\ [Next]_vars =>
        [/\ Background /\ ~Start /\ ~Sleep => TurnWork' < TurnWork
         /\ ~Start /\ ~Sleep => TurnWork' <= TurnWork]_vars
  BY <1>1
<1> QED
  BY <1>2, TurnAlways, PTL DEF Spec, TurnRunsDown
----------------------------------------------------------------------------
(* A selection is finite.                                                  *)

\* What is left of r's select: to begin, an offer per iteration, to give up.
SelectWork(r) == CASE sel[r] = "idle"    -> MaxIterations + 2
                   [] sel[r] = "probing" -> MaxIterations - steps[r] + 1
                   [] OTHER              -> 0

StepsInv == \A r \in Requests : sel[r] = "probing" => steps[r] <= MaxIterations

\* How one step changes what is left of q's select.
LEMMA SelectStep ==
  ASSUME Safe, StepsInv, NEW r \in Requests, Select(r), NEW q \in Requests
  PROVE  /\ q # r => sel'[q] = sel[q] /\ steps'[q] = steps[q]
         /\ \/ sel[r] = "idle" /\ sel'[r] = "probing" /\ steps'[r] = 0
            \/ /\ sel[r] = "probing" /\ steps[r] < MaxIterations
               /\ sel'[r] \in {"probing", "chosen"} /\ steps'[r] = steps[r] + 1
            \/ sel[r] = "probing" /\ sel'[r] = "unavailable"
<1>0. /\ DOMAIN sel = Requests /\ DOMAIN steps = Requests
      /\ sel[r] = "idle" => steps[r] = 0
  BY DEF Safe, PoolSafe, TypeOK, SelectInv, Asked
<1>1. CASE BeginSelect(r)
  BY <1>0, <1>1 DEF BeginSelect
<1>2. CASE Probe(r)
  <2>1. /\ sel[r] = "probing" /\ steps[r] < MaxIterations
        /\ steps' = [steps EXCEPT ![r] = @ + 1]
        /\ sel' = sel \/ sel' = [sel EXCEPT ![r] = "chosen"]
    BY <1>2 DEF Probe
  <2> QED BY <1>0, <2>1
<1>3. CASE GiveUp(r)
  BY <1>0, <1>3 DEF GiveUp
<1> QED
  BY <1>1, <1>2, <1>3 DEF Select

LEMMA StepsAlways == Spec => [](Safe /\ StepsInv)
<1>1. Init => StepsInv
  BY DEF Init, StepsInv
<1>2. Safe /\ StepsInv /\ [Next]_vars => StepsInv'
  <2> SUFFICES ASSUME Safe, StepsInv, [Next]_vars,
                      NEW q \in Requests, sel'[q] = "probing"
               PROVE  steps'[q] <= MaxIterations
    BY DEF StepsInv
  <2>1. CASE Background \/ UNCHANGED vars
    <3>1. sel' = sel /\ steps' = steps
      BY <2>1, BackgroundSelect DEF selection, vars
    <3> QED BY <3>1 DEF StepsInv
  <2>2. ASSUME NEW r \in Requests, Select(r) PROVE steps'[q] <= MaxIterations
    <3>1. steps[r] \in Nat /\ MaxIterations \in Nat
      BY ThresholdAssumption DEF Safe, PoolSafe, TypeOK
    <3>2. CASE q # r
      BY <2>2, <3>2, SelectStep DEF StepsInv
    <3>3. CASE q = r
      <4>1. steps'[r] = 0 \/ (steps[r] < MaxIterations /\ steps'[r] = steps[r] + 1)
        BY <2>2, <3>3, SelectStep
      <4> QED BY <3>1, <3>3, <4>1
    <3> QED BY <3>2, <3>3
  <2> QED
    BY <2>1, <2>2 DEF Next
<1> QED
  BY <1>1, <1>2, InitSafe, NextSafe, PTL DEF Spec

LEMMA WorkType ==
  ASSUME Safe, StepsInv, NEW q \in Requests
  PROVE  SelectWork(q) \in 0..(MaxIterations + 2)
<1>1. steps[q] \in Nat /\ MaxIterations \in Nat
  BY ThresholdAssumption DEF Safe, PoolSafe, TypeOK
<1>2. sel[q] = "probing" => steps[q] <= MaxIterations
  BY DEF StepsInv
<1> QED
  BY <1>1, <1>2 DEF SelectWork

\* A select never has more ahead of it than its iterations and two steps.
THEOREM SelectAlwaysBounded ==
  Spec => [](\A r \in Requests : SelectWork(r) \in 0..(MaxIterations + 2))
<1>1. Safe /\ StepsInv => \A r \in Requests : SelectWork(r) \in 0..(MaxIterations + 2)
  BY WorkType
<1> QED
  BY <1>1, StepsAlways, PTL

\* Every step of a request's select leaves less of it to do, and no step of
\* another request, of an update or of a check adds to it.
SelectRunsDown ==
  [][\A r \in Requests : /\ SelectWork(r)' <= SelectWork(r)
                         /\ Select(r) => SelectWork(r)' < SelectWork(r)]_vars

\* select_peer ends, with a peer or without, after at most max_iterations
\* offers, however often the pool changes under it (the safety half of the
\* fairness that ImplementsUpstream asks for).
THEOREM SelectAlwaysRunsDown == Spec => SelectRunsDown
<1>1. ASSUME Safe, StepsInv, Next, NEW q \in Requests
      PROVE  /\ SelectWork(q)' <= SelectWork(q)
             /\ Select(q) => SelectWork(q)' < SelectWork(q)
  <2>0. SelectWork(q) \in 0..(MaxIterations + 2) /\ MaxIterations \in Nat
    BY <1>1, WorkType, ThresholdAssumption
  <2>1. ASSUME sel'[q] = sel[q], steps'[q] = steps[q]
        PROVE  SelectWork(q)' = SelectWork(q)
    BY <2>1 DEF SelectWork
  <2>2. ASSUME Select(q)
        PROVE  SelectWork(q)' < SelectWork(q) /\ SelectWork(q)' <= SelectWork(q)
    <3>1. steps[q] \in Nat
      BY <1>1 DEF Safe, PoolSafe, TypeOK
    <3>2. CASE sel[q] = "idle" /\ sel'[q] = "probing" /\ steps'[q] = 0
      <4>1. SelectWork(q) = MaxIterations + 2 /\ SelectWork(q)' = MaxIterations - 0 + 1
        BY <3>2 DEF SelectWork
      <4> QED BY <2>0, <4>1
    <3>3. CASE /\ sel[q] = "probing" /\ steps[q] < MaxIterations
               /\ sel'[q] \in {"probing", "chosen"} /\ steps'[q] = steps[q] + 1
      <4>1. /\ SelectWork(q) = MaxIterations - steps[q] + 1
            /\ \/ SelectWork(q)' = MaxIterations - (steps[q] + 1) + 1
               \/ SelectWork(q)' = 0
        BY <3>3 DEF SelectWork
      <4> QED BY <2>0, <3>1, <3>3, <4>1
    <3>4. CASE sel[q] = "probing" /\ sel'[q] = "unavailable"
      <4>1. SelectWork(q) = MaxIterations - steps[q] + 1 /\ SelectWork(q)' = 0
        BY <3>4 DEF SelectWork
      <4>2. steps[q] <= MaxIterations
        BY <1>1, <3>4 DEF StepsInv
      <4> QED BY <2>0, <3>1, <4>1, <4>2
    <3> QED BY <1>1, <2>2, <3>2, <3>3, <3>4, SelectStep
  <2>3. CASE Background
    <3>1. sel' = sel /\ steps' = steps
      BY <1>1, <2>3, BackgroundSelect DEF selection
    <3>2. SelectWork(q)' <= SelectWork(q)
      BY <2>0, <2>1, <3>1
    <3> QED BY <2>2, <3>2
  <2>4. ASSUME NEW r \in Requests, Select(r), r # q
        PROVE  SelectWork(q)' <= SelectWork(q)
    BY <1>1, <2>0, <2>1, <2>4, SelectStep
  <2> QED
    BY <1>1, <2>2, <2>3, <2>4 DEF Next
<1>2. Safe /\ StepsInv /\ [Next]_vars =>
        [\A r \in Requests : /\ SelectWork(r)' <= SelectWork(r)
                             /\ Select(r) => SelectWork(r)' < SelectWork(r)]_vars
  BY <1>1
<1> QED
  BY <1>2, StepsAlways, PTL DEF Spec, SelectRunsDown
=============================================================================
