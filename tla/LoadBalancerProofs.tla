------------------------- MODULE LoadBalancerProofs -------------------------
(***************************************************************************)
(* What the load balancer keeps for every number of backends, requests and *)
(* every pair of thresholds.                                               *)
(*                                                                         *)
(* PoolInv says how far the three tables are apart at each point of an     *)
(* update, HealthInv ties the count of a backend to its streak of checks.  *)
(***************************************************************************)
EXTENDS LoadBalancer, TLAPS

PoolInv ==
  /\ service \notin Publishing => selector = backends
  /\ service # "publish_health" => DOMAIN health = backends
  /\ service \in Publishing => selector = found
  /\ service = "publish_health" => backends = found
  /\ pending \subseteq backends
  /\ service # "check" => pending = {}

HealthInv ==
  \A b \in DOMAIN health :
    LET s == streak[b] h == health[b] IN
    /\ s.n = 0 => h.healthy /\ s.ok
    /\ s.ok = h.healthy => h.count = 0
    /\ s.ok # h.healthy => h.count = s.n /\ s.n < Threshold(s.ok)

PoolSafe == TypeOK /\ PoolInv /\ HealthInv

----------------------------------------------------------------------------
(* One health record and one streak.                                       *)

LEMMA ThresholdType ==
  ASSUME NEW ok \in BOOLEAN
  PROVE  Threshold(ok) \in Nat /\ Threshold(ok) > 0 /\ Threshold(ok) < StreakCap
  BY ThresholdAssumption DEF Threshold, StreakCap

LEMMA ObserveType ==
  ASSUME NEW h \in Health, NEW ok \in BOOLEAN
  PROVE  Observe(h, ok) \in Health
  BY ThresholdType DEF Observe, Health

LEMMA ExtendType ==
  ASSUME NEW s \in Streaks, NEW ok \in BOOLEAN
  PROVE  Extend(s, ok) \in Streaks
<1>1. StreakCap \in Nat
  BY ThresholdAssumption DEF StreakCap
<1> QED
  BY <1>1 DEF Extend, Streaks

\* A verdict keeps count and streak in step, and changes the health only when
\* the streak is as long as the threshold.
LEMMA VerdictKeepsStep ==
  ASSUME NEW h \in Health, NEW s \in Streaks, NEW ok \in BOOLEAN,
         s.n = 0 => h.healthy /\ s.ok,
         s.ok = h.healthy => h.count = 0,
         s.ok # h.healthy => h.count = s.n /\ s.n < Threshold(s.ok)
  PROVE  LET t == Extend(s, ok) g == Observe(h, ok) IN
         /\ t.n > 0 /\ t.ok = ok
         /\ t.ok = g.healthy => g.count = 0
         /\ t.ok # g.healthy => g.count = t.n /\ t.n < Threshold(t.ok)
         /\ h.healthy # g.healthy => t.ok = g.healthy /\ t.n >= Threshold(t.ok)
<1> DEFINE t == Extend(s, ok)
           g == Observe(h, ok)
<1>1. /\ Threshold(ok) \in Nat /\ Threshold(ok) > 0
      /\ Threshold(ok) < StreakCap /\ StreakCap \in Nat
  BY ThresholdType, ThresholdAssumption DEF StreakCap
<1>2. /\ h.healthy \in BOOLEAN /\ h.count \in Nat
      /\ s.ok \in BOOLEAN /\ s.n \in Nat
  BY DEF Health, Streaks
<1>3. t.ok = ok /\ t.n > 0 /\ t.n \in Nat
  BY <1>1, <1>2 DEF Extend
<1>4. CASE h.healthy = ok
  BY <1>2, <1>3, <1>4 DEF Observe, Health
<1>5. CASE h.healthy # ok
  <2>1. t.n = h.count + 1
    <3>1. CASE s.ok = ok
      BY <1>1, <1>2, <1>5, <3>1 DEF Extend
    <3>2. CASE s.ok # ok
      BY <1>2, <1>5, <3>2 DEF Extend
    <3> QED
      BY <3>1, <3>2
  <2>2. CASE h.count + 1 >= Threshold(ok)
    <3>1. g = [healthy |-> ok, count |-> 0]
      BY <1>5, <2>2 DEF Observe
    <3> QED
      BY <1>1, <1>3, <2>1, <2>2, <3>1
  <2>3. CASE ~(h.count + 1 >= Threshold(ok))
    <3>1. g.healthy = h.healthy /\ g.count = h.count + 1
      BY <1>5, <2>3 DEF Observe, Health
    <3> QED
      BY <1>1, <1>2, <1>3, <1>5, <2>1, <2>3, <3>1
  <2> QED
    BY <2>2, <2>3
<1> QED
  BY <1>4, <1>5

----------------------------------------------------------------------------
LEMMA InitPool == Init => PoolSafe
  BY ThresholdAssumption DEF Init, PoolSafe, TypeOK, PoolInv, HealthInv,
     Publishing, NoStreak, Streaks

LEMMA OfferInSnap ==
  ASSUME NEW r \in Requests, NEW b \in Offers(r)
  PROVE  b \in snap[r]
  BY DEF Offers, NthPoint, Points

\* A request's own steps leave the pool alone.
LEMMA SelectTypes ==
  ASSUME TypeOK, NEW r \in Requests, Select(r)
  PROVE  TypeOK' /\ UNCHANGED <<background, pool, streak, down>>
<1> USE DEF TypeOK
<1>1. CASE BeginSelect(r)
  BY <1>1, KeysAssumption DEF BeginSelect, background, pool, history, Publishing
<1>2. CASE Probe(r)
  <2>1. PICK b \in Offers(r) :
          /\ steps' = [steps EXCEPT ![r] = @ + 1]
          /\ IF b \notin seen[r] /\ Ready(b)
             THEN /\ sel' = [sel EXCEPT ![r] = "chosen"]
                  /\ peer' = [peer EXCEPT ![r] = b]
                  /\ UNCHANGED seen
             ELSE /\ seen' = [seen EXCEPT ![r] = @ \cup {b}]
                  /\ UNCHANGED <<sel, peer>>
    BY <1>2 DEF Probe
  <2>2. steps' \in [Requests -> Nat]
    BY <2>1
  <2>3. UNCHANGED <<background, pool, key, snap, history>>
    BY <1>2 DEF Probe
  <2>4. b \in Backends
    BY OfferInSnap
  <2> QED
    BY <2>1, <2>2, <2>3, <2>4 DEF background, pool, history
<1>3. CASE GiveUp(r)
  BY <1>3 DEF GiveUp, background, pool, history
<1> QED
  BY <1>1, <1>2, <1>3 DEF Select

\* One check ends.
LEMMA FinishCheckPool ==
  ASSUME PoolSafe, NEW c \in Backends, NEW reply \in Replies,
         FinishCheck(c, reply)
  PROVE  /\ PoolSafe'
         /\ \A b \in DOMAIN health \cap DOMAIN health' :
              health[b].healthy # health'[b].healthy =>
                /\ streak'[b].ok = health'[b].healthy
                /\ streak'[b].n >= Threshold(streak'[b].ok)
<1> DEFINE ok == reply = "ok"
<1> USE DEF PoolSafe, TypeOK
<1>1. ok \in BOOLEAN /\ Verdict(reply) = ok
  BY DEF Verdict
<1>2. c \in DOMAIN health /\ service = "check" /\ c \in pending
  BY DEF FinishCheck, PoolInv
<1>3. health[c] \in Health /\ streak[c] \in Streaks
  BY <1>2
<1>4. /\ health' = [health EXCEPT ![c] = Observe(health[c], ok)]
      /\ streak' = [streak EXCEPT ![c] = Extend(streak[c], ok)]
  BY <1>1 DEF FinishCheck
<1>5. /\ DOMAIN health' = DOMAIN health
      /\ health'[c] = Observe(health[c], ok)
      /\ streak'[c] = Extend(streak[c], ok)
      /\ \A b \in DOMAIN health \ {c} :
           health'[b] = health[b] /\ streak'[b] = streak[b]
  BY <1>2, <1>4
<1>6. /\ streak'[c].n > 0 /\ streak'[c].ok = ok
      /\ streak'[c].ok = health'[c].healthy => health'[c].count = 0
      /\ streak'[c].ok # health'[c].healthy =>
           health'[c].count = streak'[c].n
           /\ streak'[c].n < Threshold(streak'[c].ok)
      /\ health[c].healthy # health'[c].healthy =>
           streak'[c].ok = health'[c].healthy
           /\ streak'[c].n >= Threshold(streak'[c].ok)
  <2>1. /\ streak[c].n = 0 => health[c].healthy /\ streak[c].ok
        /\ streak[c].ok = health[c].healthy => health[c].count = 0
        /\ streak[c].ok # health[c].healthy =>
             health[c].count = streak[c].n
             /\ streak[c].n < Threshold(streak[c].ok)
    BY <1>2 DEF HealthInv
  <2>2. LET t == Extend(streak[c], ok) g == Observe(health[c], ok) IN
        /\ t.n > 0 /\ t.ok = ok
        /\ t.ok = g.healthy => g.count = 0
        /\ t.ok # g.healthy => g.count = t.n /\ t.n < Threshold(t.ok)
        /\ health[c].healthy # g.healthy =>
             t.ok = g.healthy /\ t.n >= Threshold(t.ok)
    <3> HIDE DEF ok
    <3> QED
      BY <1>1, <1>3, <2>1, VerdictKeepsStep
  <2> HIDE DEF ok
  <2> QED
    BY <1>5, <2>2
<1>7. HealthInv'
  <2> SUFFICES ASSUME NEW b \in DOMAIN health'
               PROVE  LET s == streak'[b] h == health'[b] IN
                      /\ s.n = 0 => h.healthy /\ s.ok
                      /\ s.ok = h.healthy => h.count = 0
                      /\ s.ok # h.healthy => h.count = s.n /\ s.n < Threshold(s.ok)
    BY DEF HealthInv, Threshold
  <2>1. CASE b = c
    BY <1>6, <2>1, <1>3, ExtendType, <1>1, <1>5 DEF Streaks
  <2>2. CASE b # c
    BY <1>5, <2>2 DEF HealthInv
  <2> QED
    BY <2>1, <2>2
<1>8. PoolInv'
  BY <1>2, <1>5 DEF FinishCheck, PoolInv, Publishing
<1>9. health' \in [DOMAIN health' -> Health] /\ streak' \in [Backends -> Streaks]
  BY <1>1, <1>3, <1>4, <1>5, ObserveType, ExtendType
<1>10. TypeOK'
  BY <1>5, <1>9 DEF FinishCheck, selection, Publishing
<1> QED
  BY <1>5, <1>6, <1>7, <1>8, <1>10

\* The stores of an update, and the rest of the loop.
LEMMA BackgroundPool ==
  ASSUME PoolSafe, Background,
         ~\E b \in Backends, reply \in Replies : FinishCheck(b, reply)
  PROVE  /\ PoolSafe'
         /\ \A b \in DOMAIN health \cap DOMAIN health' :
              health'[b].healthy = health[b].healthy
<1> USE DEF PoolSafe, TypeOK
<1> DEFINE Same == UNCHANGED <<health, streak>>
<1>1. ASSUME Same PROVE HealthInv'
  BY <1>1 DEF HealthInv, Threshold
<1>2. CASE Start
  BY <1>1, <1>2 DEF Start, PoolInv, Publishing, pool, selection, history
<1>3. CASE DiscoverErr
  BY <1>1, <1>3 DEF DiscoverErr, PoolInv, Publishing, pool, selection, history
<1>4. ASSUME NEW S \in Found, DiscoverOk(S)
      PROVE  PoolSafe' /\ Same
  <2>1. S \in SUBSET Backends
    BY PoolAssumption
  <2>2. raced' \in [Requests -> BOOLEAN]
    BY <1>4 DEF DiscoverOk, MarkRaced
  <2> QED
    BY <1>1, <1>4, <2>1, <2>2 DEF DiscoverOk, PoolInv, Publishing, selection
<1>5. CASE PublishBackends
  BY <1>1, <1>5 DEF PublishBackends, PoolInv, Publishing, selection, MarkRaced
<1>6. CASE PublishHealth
  <2>1. /\ DOMAIN health' = found
        /\ \A b \in found : b \in DOMAIN health => health'[b] = health[b]
        /\ \A b \in found : b \notin DOMAIN health => health'[b] = Fresh
    BY <1>6 DEF PublishHealth, Carry
  <2>2. /\ \A b \in found \cap DOMAIN health : streak'[b] = streak[b]
        /\ \A b \in found \ DOMAIN health : streak'[b] = NoStreak
    BY <1>6 DEF PublishHealth
  <2>3. Fresh \in Health /\ NoStreak \in Streaks
    BY DEF Fresh, Health, NoStreak, Streaks
  <2>4. health' \in [DOMAIN health' -> Health]
    BY <1>6, <2>1, <2>3 DEF PublishHealth, Carry
  <2>5. streak' \in [Backends -> Streaks]
    BY <1>6, <2>3 DEF PublishHealth
  <2>6. HealthInv'
    <3> SUFFICES ASSUME NEW b \in found
                 PROVE  LET s == streak'[b] h == health'[b] IN
                        /\ s.n = 0 => h.healthy /\ s.ok
                        /\ s.ok = h.healthy => h.count = 0
                        /\ s.ok # h.healthy => h.count = s.n /\ s.n < Threshold(s.ok)
      BY <2>1 DEF HealthInv, Threshold
    <3>1. CASE b \in DOMAIN health
      BY <2>1, <2>2, <3>1 DEF HealthInv
    <3>2. CASE b \notin DOMAIN health
      <4>1. /\ health'[b] = [healthy |-> TRUE, count |-> 0]
            /\ streak'[b] = [ok |-> TRUE, n |-> 0]
        BY <2>1, <2>2, <3>2 DEF Fresh, NoStreak
      <4> QED
        BY <4>1
    <3> QED
      BY <3>1, <3>2
  <2>7. PoolInv'
    BY <1>6, <2>1 DEF PublishHealth, PoolInv, Publishing
  <2>8. TypeOK'
    BY <1>6, <2>1, <2>4, <2>5 DEF PublishHealth, selection, Publishing, MarkRaced
  <2> QED
    BY <2>1, <2>6, <2>7, <2>8
<1>7. CASE BeginChecks
  BY <1>1, <1>7 DEF BeginChecks, PoolInv, Publishing, pool, selection, history
<1>8. CASE Sleep
  <2>1. Frequencies \subseteq {"update", "check"}
    BY DEF Frequencies
  <2> QED
    BY <1>1, <1>8, <2>1 DEF Sleep, PoolInv, Publishing, pool, selection, history
<1> QED
  BY <1>2, <1>3, <1>4, <1>5, <1>6, <1>7, <1>8 DEF Background

LEMMA NextPool == PoolSafe /\ [Next]_vars => PoolSafe'
<1> SUFFICES ASSUME PoolSafe, [Next]_vars PROVE PoolSafe'
  OBVIOUS
<1>1. CASE Background
  BY <1>1, BackgroundPool, FinishCheckPool
<1>2. ASSUME NEW r \in Requests, Select(r) PROVE PoolSafe'
  <2>1. TypeOK' /\ UNCHANGED <<background, pool, streak, down>>
    BY <1>2, SelectTypes DEF PoolSafe
  <2> QED
    BY <2>1 DEF PoolSafe, PoolInv, HealthInv, Threshold, background, pool
<1>3. CASE UNCHANGED vars
  BY <1>3 DEF vars, background, pool, selection, history, PoolSafe, TypeOK,
              PoolInv, HealthInv, Threshold
<1> QED
  BY <1>1, <1>2, <1>3 DEF Next

LEMMA PoolAlways == Spec => []PoolSafe
  BY InitPool, NextPool, PTL DEF Spec

\* The types of the load balancer's state.
THEOREM TypeCorrect == Spec => []TypeOK
<1>1. PoolSafe => TypeOK
  BY DEF PoolSafe
<1> QED
  BY <1>1, PoolAlways, PTL

\* Outside the stores of an update the three tables agree.
THEOREM TablesAlwaysAgree == Spec => []TablesAgree
<1>1. PoolSafe => TablesAgree
  BY DEF PoolSafe, PoolInv, TablesAgree, Publishing
<1> QED
  BY <1>1, PoolAlways, PTL

\* A backend's health is the verdict of its last checks, for all thresholds.
THEOREM HealthAlwaysFollowsChecks == Spec => []HealthFollowsChecks
<1>1. PoolSafe => HealthFollowsChecks
  <2> SUFFICES ASSUME PoolSafe, NEW b \in DOMAIN health,
                      streak[b].n >= Required(streak[b].ok), streak[b].n > 0
               PROVE  health[b].healthy = streak[b].ok
    BY DEF HealthFollowsChecks
  <2> USE DEF Required, Threshold
  <2>1. streak[b] \in Streaks
    BY DEF PoolSafe, TypeOK
  <2>2. Threshold(streak[b].ok) \in Nat /\ streak[b].n \in Nat
    BY <2>1, ThresholdType DEF Streaks
  <2> QED
    BY <2>2 DEF PoolSafe, HealthInv
<1> QED
  BY <1>1, PoolAlways, PTL

\* A backend changes its health only after as many verdicts in a row as its
\* threshold asks for.
THEOREM FlipsAlwaysEarned == Spec => FlipsAreEarned
<1> DEFINE Earned ==
      \A b \in DOMAIN health \cap DOMAIN health' :
        health[b].healthy # health'[b].healthy =>
          /\ streak'[b].ok = health'[b].healthy
          /\ streak'[b].n >= Required(streak'[b].ok)
<1>1. PoolSafe /\ [Next]_vars => [Earned]_vars
  <2> SUFFICES ASSUME PoolSafe, Next PROVE Earned
    OBVIOUS
  <2>1. CASE \E b \in Backends, reply \in Replies : FinishCheck(b, reply)
    BY <2>1, FinishCheckPool DEF Threshold, Required
  <2>2. CASE Background /\ ~\E b \in Backends, reply \in Replies :
                              FinishCheck(b, reply)
    BY <2>2, BackgroundPool
  <2>3. ASSUME NEW r \in Requests, Select(r) PROVE Earned
    BY <2>3, SelectTypes DEF PoolSafe, pool
  <2> QED
    BY <2>1, <2>2, <2>3 DEF Next
<1> QED
  BY <1>1, PoolAlways, PTL DEF Spec, FlipsAreEarned
=============================================================================
