---------------------------- MODULE LoadBalancer ----------------------------
(***************************************************************************)
(* One load-balanced upstream: LoadBalancerCluster::select_peer            *)
(* (load_balancer.rs), run by the tasks of requests, over the pool that    *)
(* the background service built by factory.rs keeps up to date, with the   *)
(* discovery and the health checks of factory.rs.                          *)
(*                                                                         *)
(* Pingora's LoadBalancer is external.  It is modelled as factory.rs and   *)
(* load_balancer.rs use it: from_backends leaves the pool empty until the  *)
(* service runs; one loop does updates and then health checks; an update   *)
(* stores the selector, the backends and the health table one after the    *)
(* other, while requests read them on other threads; a failed discovery    *)
(* changes nothing; a backend that stays keeps its health.                 *)
(***************************************************************************)
EXTENDS Integers, Sequences, FiniteSets

CONSTANTS
  Backends,            \* addresses
  Requests,            \* requests that select a peer, once each
  Input,               \* request -> its client, cookies, uri and headers
  Keys,                \* hash keys
  Ring,                \* key -> the points of the hash ring, as backends
  Source,              \* "static", "dns" or "file"
  Found,               \* the sets of backends discovery may return
  Selection,           \* "round_robin", "random" or "consistent"
  HashSource,          \* [type, name]
  HealthCheck,         \* "tcp", "http", "custom", or None
  ConsecutiveSuccess,  \* thresholds of the health check
  ConsecutiveFailure,
  MaxIterations,       \* 256 in select_peer
  None                 \* Option::None

ASSUME PoolAssumption ==
  /\ IsFiniteSet(Backends) /\ None \notin Backends
  /\ Found \subseteq SUBSET Backends
  /\ Ring \in [Keys -> Seq(Backends)]
  /\ \A k \in Keys, b \in Backends : \E i \in 1..Len(Ring[k]) : Ring[k][i] = b
  /\ Source \in {"static", "dns", "file"}
  /\ Selection \in {"round_robin", "random", "consistent"}
  /\ HealthCheck \in {"tcp", "http", "custom", None}

ASSUME ThresholdAssumption ==
  /\ ConsecutiveSuccess \in Nat \ {0}
  /\ ConsecutiveFailure \in Nat \ {0}
  /\ MaxIterations \in Nat \ {0}

VARIABLES
  \* the background service
  service,   \* where its loop is
  due,       \* what the loop has to do in this turn: "update", "check"
  found,     \* the backends an update is publishing
  pending,   \* backends whose check is under way
  \* the pool
  selector,  \* the backends the selector was built from
  backends,
  health,    \* backend -> [healthy, count]: count is the opposite checks seen
  \* select_peer of a request
  sel, key, snap, seen, steps, peer,
  \* history
  streak,    \* backend -> its last checks: their verdict and how many
  down,      \* backends that were unhealthy at some time
  raced      \* requests that selected while an update was being published

background == <<service, due, found, pending>>
pool       == <<selector, backends, health>>
selection  == <<sel, key, snap, seen, steps, peer>>
history    == <<streak, down, raced>>
vars       == <<background, pool, selection, history>>

Checked == HealthCheck # None
Publishing == {"publish_backends", "publish_health"}

\* What the loop wakes up for: update_frequency is set for dns and file
\* sources, health_check_frequency where a health check is configured.
Frequencies == (IF Source = "static" THEN {} ELSE {"update"})
               \cup (IF Checked THEN {"check"} ELSE {})

Fresh    == [healthy |-> TRUE, count |-> 0]
NoStreak == [ok |-> TRUE, n |-> 0]

Init ==
  /\ service = "new" /\ due = {} /\ found = {} /\ pending = {}
  /\ selector = {} /\ backends = {} /\ health = <<>>
  /\ sel = [r \in Requests |-> "idle"]
  /\ key = [r \in Requests |-> None]
  /\ snap = [r \in Requests |-> {}]
  /\ seen = [r \in Requests |-> {}]
  /\ steps = [r \in Requests |-> 0]
  /\ peer = [r \in Requests |-> None]
  /\ streak = [b \in Backends |-> NoStreak]
  /\ down = {}
  /\ raced = [r \in Requests |-> FALSE]

----------------------------------------------------------------------------
(* The background service.                                                 *)

\* run_forever starts the service; both jobs are due at once.
Start ==
  /\ service = "new"
  /\ service' = "loop" /\ due' = {"update", "check"}
  /\ UNCHANGED <<found, pending, pool, selection, history>>

\* The requests that are between two reads of the pool.
MarkRaced ==
  raced' = [r \in Requests |-> raced[r] \/ sel[r] = "probing"]

\* (Mutant: an error is read as an empty answer by the selector.)
MutantErrEmpties ==
  /\ service = "loop" /\ "update" \in due
  /\ Source # "static"
  /\ due' = due \ {"update"}
  /\ selector' = {}
  /\ UNCHANGED <<service, found, pending, backends, health, selection, history>>

\* discover() fails: the name does not resolve (dns), the file cannot be read,
\* does not parse or holds one address that does not resolve (file).
DiscoverErr ==
  /\ service = "loop" /\ "update" \in due
  /\ Source # "static"
  /\ due' = due \ {"update"}
  /\ UNCHANGED <<service, found, pending, pool, selection, history>>

\* discover() answers S.  A new set is published, the selector first.
DiscoverOk(S) ==
  /\ service = "loop" /\ "update" \in due
  /\ due' = due \ {"update"}
  /\ IF S = backends
     THEN UNCHANGED <<service, found, selector, raced>>
     ELSE /\ service' = "publish_backends"
          /\ found' = S
          /\ selector' = S
          /\ MarkRaced
  /\ UNCHANGED <<pending, backends, health, selection, streak, down>>

PublishBackends ==
  /\ service = "publish_backends"
  /\ service' = "publish_health"
  /\ backends' = found
  /\ MarkRaced
  /\ UNCHANGED <<due, found, pending, selector, health, selection, streak, down>>

\* The health table for S: what stays keeps its health, what is new is healthy.
Carry(h, S) == [b \in S |-> IF b \in DOMAIN h THEN h[b] ELSE Fresh]

PublishHealth ==
  /\ service = "publish_health"
  /\ service' = "loop"
  /\ health' = Carry(health, found)
  /\ streak' = [b \in Backends |->
                  IF b \in found /\ b \in DOMAIN health THEN streak[b]
                  ELSE NoStreak]
  /\ MarkRaced
  /\ UNCHANGED <<due, found, pending, selector, backends, selection, down>>

\* (Mutant: only backends that are unhealthy are checked.)
MutantCheckUnhealthy ==
  /\ service = "loop" /\ "update" \notin due /\ "check" \in due
  /\ due' = due \ {"check"}
  /\ pending' = {b \in DOMAIN health : ~health[b].healthy}
  /\ service' = IF Checked /\ pending' # {} THEN "check" ELSE "loop"
  /\ UNCHANGED <<found, pool, selection, history>>

\* run_health_check: all backends at once (parallel_health_check), none
\* without a health check.
BeginChecks ==
  /\ service = "loop" /\ "update" \notin due /\ "check" \in due
  /\ due' = due \ {"check"}
  /\ IF Checked /\ backends # {}
     THEN service' = "check" /\ pending' = backends
     ELSE UNCHANGED <<service, pending>>
  /\ UNCHANGED <<found, pool, selection, history>>

\* How a check may end: the probe or the command succeeds, it fails (refused,
\* wrong status, non-zero exit, not started), or the time is up.
Replies == {"ok", "failed", "timeout"}

\* (Mutant: a check that timed out says nothing against the backend.)
MutantTimeoutPasses(reply) == reply # "failed"

\* HealthCheck::check: Ok(()) or Err(_).
Verdict(reply) == reply = "ok"

\* (Mutant: the thresholds are swapped.)
MutantSwapped(ok) == IF ok THEN ConsecutiveFailure ELSE ConsecutiveSuccess

\* health_threshold: how many verdicts against its state change a backend's.
Threshold(ok) == IF ok THEN ConsecutiveSuccess ELSE ConsecutiveFailure

\* (Mutant: a verdict of the other kind takes one off the count instead of
\* resetting it.)
MutantDecay(h, ok) ==
  IF h.healthy = ok THEN [h EXCEPT !.count = @ - 1]
  ELSE IF h.count + 1 >= Threshold(ok) THEN [healthy |-> ok, count |-> 0]
  ELSE [h EXCEPT !.count = @ + 1]

\* What a verdict makes of a backend's health.
Observe(h, ok) ==
  IF h.healthy = ok THEN [h EXCEPT !.count = 0]
  ELSE IF h.count + 1 >= Threshold(ok) THEN [healthy |-> ok, count |-> 0]
  ELSE [h EXCEPT !.count = @ + 1]

\* The streak after one more verdict; StreakCap bounds what is remembered.
StreakCap == ConsecutiveSuccess + ConsecutiveFailure
Extend(s, ok) ==
  IF s.ok # ok THEN [ok |-> ok, n |-> 1]
  ELSE [ok |-> ok, n |-> IF s.n < StreakCap THEN s.n + 1 ELSE s.n]

\* The check of b ends; the round is over with the last one.
FinishCheck(b, reply) ==
  /\ service = "check" /\ b \in pending
  /\ health' = [health EXCEPT ![b] = Observe(@, Verdict(reply))]
  /\ streak' = [streak EXCEPT ![b] = Extend(@, reply = "ok")]
  /\ down' = IF health'[b].healthy THEN down ELSE down \cup {b}
  /\ pending' = pending \ {b}
  /\ service' = IF pending' = {} THEN "loop" ELSE "check"
  /\ UNCHANGED <<due, found, selector, backends, selection, raced>>

\* All done: the loop sleeps until something is due again, or returns when
\* nothing ever will be.
Sleep ==
  /\ service = "loop" /\ due = {}
  /\ IF Frequencies = {} THEN service' = "ended" /\ UNCHANGED due
     ELSE due' \in SUBSET Frequencies \ {{}} /\ UNCHANGED service
  /\ UNCHANGED <<found, pending, pool, selection, history>>

Background ==
  \/ Start \/ DiscoverErr \/ PublishBackends \/ PublishHealth \/ BeginChecks
  \/ Sleep
  \/ \E S \in Found : DiscoverOk(S)
  \/ \E b \in Backends, reply \in Replies : FinishCheck(b, reply)

----------------------------------------------------------------------------
(* select_peer.                                                            *)

\* (Mutant: the first cookie is taken for the session's.)
MutantFirstCookie(cookies, name) == IF cookies = <<>> THEN "" ELSE cookies[1].value

\* The value of the first cookie of that name, "" without one.
CookieValue(cookies, name) ==
  LET at == {i \in 1..Len(cookies) : cookies[i].name = name}
  IN  IF at = {} THEN ""
      ELSE cookies[CHOOSE i \in at : \A j \in at : i <= j].value

\* The keys the request may be hashed by: a client that has an address which
\* is not an IP address gets a fresh one.
HashKeys(q) ==
  CASE HashSource.type = "none" -> {""}
    [] HashSource.type = "client_ip" ->
         IF q.client = None THEN {""}
         ELSE IF q.client = "unix" THEN Keys ELSE {q.client}
    [] HashSource.type = "cookie" -> {CookieValue(q.cookies, HashSource.name)}
    [] HashSource.type = "uri" -> {q.uri}
    [] HashSource.type = "header" ->
         {IF HashSource.name \in DOMAIN q.headers
          THEN q.headers[HashSource.name] ELSE ""}

\* Every key a request may be hashed by has its place on the ring.
ASSUME KeysAssumption ==
  /\ HashSource.type \in {"none", "client_ip", "cookie", "uri", "header"}
  /\ \A r \in Requests : HashKeys(Input[r]) \subseteq Keys

\* select starts: the key is computed, the selector is loaded.
BeginSelect(r) ==
  /\ sel[r] = "idle"
  /\ \E k \in HashKeys(Input[r]) : key' = [key EXCEPT ![r] = k]
  /\ sel' = [sel EXCEPT ![r] = "probing"]
  /\ snap' = [snap EXCEPT ![r] = selector]
  /\ raced' = [raced EXCEPT ![r] = service \in Publishing]
  /\ UNCHANGED <<background, pool, seen, steps, peer, streak, down>>

\* What the selector's iterator may offer next: under round robin (a counter all
\* requests share) and random any backend; under consistent hashing the next
\* point of the ring, on which only backends of the snapshot have points.
Points(ring, S) == {i \in 1..Len(ring) : ring[i] \in S}
NthPoint(ring, S, n) ==
  {ring[i] : i \in {j \in Points(ring, S) :
                      Cardinality({k \in Points(ring, S) : k < j}) = n}}
Offers(r) ==
  IF Selection = "consistent" THEN NthPoint(Ring[key[r]], snap[r], steps[r])
  ELSE snap[r]

\* ready(): a backend without an entry is ready only if nothing is checked.
Ready(b) == IF b \in DOMAIN health THEN health[b].healthy ELSE ~Checked

\* (Mutant: a peer has to be in the table of backends, too.)
MutantProbeTable(r) ==
  /\ sel[r] = "probing"
  /\ steps[r] < MaxIterations
  /\ \E b \in Offers(r) :
       /\ steps' = [steps EXCEPT ![r] = @ + 1]
       /\ IF b \notin seen[r] /\ Ready(b) /\ b \in backends
          THEN /\ sel' = [sel EXCEPT ![r] = "chosen"]
               /\ peer' = [peer EXCEPT ![r] = b]
               /\ UNCHANGED seen
          ELSE /\ seen' = [seen EXCEPT ![r] = @ \cup {b}]
               /\ UNCHANGED <<sel, peer>>
  /\ UNCHANGED <<background, pool, key, snap, history>>

\* One offer is examined; max_iterations counts repeated ones too.  The first
\* that is ready is the peer, and is recorded in RequestMeta.
Probe(r) ==
  /\ sel[r] = "probing"
  /\ steps[r] < MaxIterations
  /\ \E b \in Offers(r) :
       /\ steps' = [steps EXCEPT ![r] = @ + 1]
       /\ IF b \notin seen[r] /\ Ready(b)
          THEN /\ sel' = [sel EXCEPT ![r] = "chosen"]
               /\ peer' = [peer EXCEPT ![r] = b]
               /\ UNCHANGED seen
          ELSE /\ seen' = [seen EXCEPT ![r] = @ \cup {b}]
               /\ UNCHANGED <<sel, peer>>
  /\ UNCHANGED <<background, pool, key, snap, history>>

\* (Mutants: one offer less is examined; select goes on until it is out of
\* offers.)
MutantGiveUpEarly(r) ==
  /\ sel[r] = "probing"
  /\ steps[r] + 1 >= MaxIterations \/ Offers(r) = {}
  /\ sel' = [sel EXCEPT ![r] = "unavailable"]
  /\ UNCHANGED <<background, pool, key, snap, seen, steps, peer, history>>
MutantGiveUpOnEmpty(r) ==
  /\ sel[r] = "probing" /\ Offers(r) = {}
  /\ sel' = [sel EXCEPT ![r] = "unavailable"]
  /\ UNCHANGED <<background, pool, key, snap, seen, steps, peer, history>>

\* select returns None: UpstreamUnavailable.
GiveUp(r) ==
  /\ sel[r] = "probing"
  /\ steps[r] >= MaxIterations \/ Offers(r) = {}
  /\ sel' = [sel EXCEPT ![r] = "unavailable"]
  /\ UNCHANGED <<background, pool, key, snap, seen, steps, peer, history>>

Select(r) == BeginSelect(r) \/ Probe(r) \/ GiveUp(r)

Next == Background \/ \E r \in Requests : Select(r)

Spec == Init /\ [][Next]_vars

\* The runtime keeps polling the service's task, and discovery and checks end:
\* checks have timeouts, discovery those of the resolver and the file system.
\* The intervals are fixed, so a check falls due again after finitely many
\* wakeups.  A request's select is one synchronous call.
FairSpec ==
  /\ Spec
  /\ WF_vars(Background)
  /\ SF_vars(Sleep /\ "check" \in due')
  /\ \A r \in Requests : WF_vars(Probe(r) \/ GiveUp(r))

----------------------------------------------------------------------------
Health  == [healthy : BOOLEAN, count : Nat]
Streaks == [ok : BOOLEAN, n : Nat]

\* The types of the pool, the service and the selecting tasks.
TypeOK ==
  /\ service \in {"new", "loop", "check", "ended"} \cup Publishing
  /\ due \in SUBSET {"update", "check"}
  /\ found \in SUBSET Backends
  /\ pending \in SUBSET Backends
  /\ selector \in SUBSET Backends
  /\ backends \in SUBSET Backends
  /\ health \in [DOMAIN health -> Health] /\ DOMAIN health \subseteq Backends
  /\ sel \in [Requests -> {"idle", "probing", "chosen", "unavailable"}]
  /\ key \in [Requests -> Keys \cup {None}]
  /\ snap \in [Requests -> SUBSET Backends]
  /\ seen \in [Requests -> SUBSET Backends]
  /\ steps \in [Requests -> Nat]
  /\ peer \in [Requests -> Backends \cup {None}]
  /\ streak \in [Backends -> Streaks]
  /\ down \in SUBSET Backends
  /\ raced \in [Requests -> BOOLEAN]

\* Between updates the three tables describe the same backends, so that every
\* backend a request is offered has a health entry and checks find theirs
\* (do_update's three stores are not atomic).
TablesAgree ==
  service \notin Publishing =>
    selector = backends /\ DOMAIN health = backends /\ pending \subseteq backends

\* As many verdicts in a row as the threshold asks for decide a backend's
\* health, and fewer do not, also across updates that keep the backend: the
\* thresholds finalize_lb hands over are those of the right direction.
Required(ok) == IF ok THEN ConsecutiveSuccess ELSE ConsecutiveFailure
HealthFollowsChecks ==
  \A b \in DOMAIN health :
    streak[b].n >= Required(streak[b].ok) /\ streak[b].n > 0
      => health[b].healthy = streak[b].ok
FlipsAreEarned ==
  [][\A b \in DOMAIN health \cap DOMAIN health' :
       health[b].healthy # health'[b].healthy =>
         /\ streak'[b].ok = health'[b].healthy
         /\ streak'[b].n >= Required(streak'[b].ok)]_vars

\* select_peer fails on a pool that is not empty only if every backend of it has
\* been unhealthy, if the iterations ran out before all of them were seen, or
\* if an update was published meanwhile.
UnavailableExplained ==
  \A r \in Requests :
    sel[r] = "unavailable" /\ snap[r] # {} =>
      \/ snap[r] \subseteq down
      \/ seen[r] # snap[r] /\ steps[r] >= MaxIterations
      \/ raced[r]

(***************************************************************************)
(* Sticky sessions: requests that agree in what the hash source names (the *)
(* value of that cookie or header, the path, the address), whatever else   *)
(* they bring, get the same backend while it and the pool are healthy.  An *)
(* update between them moves the session only if it must: when the backend *)
(* of one is no member for the other.                                      *)
(***************************************************************************)
Brings(q, v) ==
  \E i \in 1..Len(q.cookies) :
    /\ q.cookies[i].name = HashSource.name /\ q.cookies[i].value = v
    /\ \A j \in 1..i - 1 : q.cookies[j].name # HashSource.name
HasHeader(q, v) ==
  HashSource.name \in DOMAIN q.headers /\ q.headers[HashSource.name] = v
SameSession(q1, q2) ==
  CASE HashSource.type = "client_ip" -> q1.client = q2.client /\ q1.client # "unix"
    [] HashSource.type = "cookie"    -> \A v \in Keys : Brings(q1, v) <=> Brings(q2, v)
    [] HashSource.type = "uri"       -> q1.uri = q2.uri
    [] HashSource.type = "header"    -> \A v \in Keys : HasHeader(q1, v) <=> HasHeader(q2, v)
    [] OTHER                         -> TRUE
Sticky ==
  Selection = "consistent" =>
    \A r1, r2 \in Requests :
      /\ sel[r1] = "chosen" /\ sel[r2] = "chosen"
      /\ SameSession(Input[r1], Input[r2])
      /\ peer[r1] \in snap[r2] /\ peer[r2] \in snap[r1]
      /\ (snap[r1] \cup snap[r2]) \cap down = {}
      /\ ~raced[r1] /\ ~raced[r2]
      => peer[r1] = peer[r2]

\* The service never stops checking a pool that has backends.
KeepsChecking == Checked => []<>(service = "check" \/ backends = {})

\* The upstream this pool is to its requests: a backend is sick when it is not
\* ready.
CallOf(s) == CASE s = "idle" -> "none" [] s = "probing" -> "asked"
               [] s = "chosen" -> "peer" [] s = "unavailable" -> "unavailable"
Abstract == INSTANCE Upstream WITH
  members <- selector, sick <- {b \in Backends : ~Ready(b)}, Examined <- Checked,
  call <- [r \in Requests |-> CallOf(sel[r])], asked <- snap, given <- peer

\* select_peer keeps what the Upstream trait promises, however discovery, health
\* checks and the stores of an update fall between its reads of the pool: the
\* peer was a member when it asked and is ready when it is handed over, an
\* unchecked pool refuses only when it is empty, and every call ends.
ImplementsUpstream == Abstract!FairSpec

\* The pool is populated when a request selects from it.
AlreadyPopulated == \A r \in Requests : sel[r] # "idle" => snap[r] # {}
=============================================================================
