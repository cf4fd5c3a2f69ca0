# A TLA+ model of the Pingora gateway and its lessons

This directory holds TLA+ specifications of the gateway under `src/src/` and of
the lessons under `src/examples/`, the TLC configurations that model-check them
on small instances, and TLAPS proofs of the properties that matter most. Paths
below are relative to the repository (`src/gateway.rs` is the gateway's own
source file).

## The system

The gateway is an HTTP proxy built on the Pingora framework. It reads a YAML
file, builds upstreams, a router and a chain of middlewares, and hands Pingora
an object that implements `ProxyHttp`. Pingora accepts connections and runs the
callbacks of that object, one task per request. The lessons are 49 stand-alone
programs that show one facility of Pingora each; most of them hold state that
requests, background services and admin connections share.

| Component | Source | State | Operations |
|---|---|---|---|
| request pipeline | `gateway.rs`, `error.rs` | per request: which callback runs, the error it carries, the response header | the twelve `ProxyHttp` callbacks |
| request context | `context.rs` | a type map per request; `RequestMeta` | insert, get, get_mut |
| middleware chain | `middleware.rs` | the list of middlewares | hooks that return Continue, Stop or an error |
| IP restriction | `middlewares/ip_restriction.rs` | none (reads the route entry) | reject in `handle_request` |
| request size | `middlewares/request_size.rs` | `bytes_read` per request | reject the header, reject the body |
| metrics | `middlewares/metrics.rs` | counters shared by all tasks | count in `handle_logging` |
| router | `upstreams/router.rs` | path tree, regex list, registry; immutable once built | `Router::new`, `match_request` |
| upstream interface | `upstreams/upstream.rs` | what a caller may rely on | `select_peer` |
| static upstream | `upstreams/static_upstream.rs` | one address | `select_peer` |
| load-balanced upstream | `upstreams/load_balancer.rs` | the pool of Pingora's `LoadBalancer` | `select_peer` |
| upstream factory | `upstreams/factory.rs` | discovery, health checks | building; `discover`, `check` at run time |
| boot sequence | `main.rs` | the map of upstreams, the services collected, the grace period | load, tune, build, listen, run |
| configuration | `config.rs` | the parsed file | deserialisation |
| server lessons | `examples/00` to `05` | the services a process registers, the job under way, echo connections | the services' loops, shutdown |
| protocol lessons | `examples/06` to `24` | a target (09), a body seen so far (12) | routing, inspection, error answers, timeouts; else one call of Pingora or OpenSSL each |
| load-balancing lessons | `examples/25` to `35` | servers, health, the shared set of the admin API, session ids | discovery, checks, admin swap, selection, retries |
| limiting lessons | `examples/36` to `42` | rate windows, guards, bytes read | the filters and their error answers |
| caching lessons | `examples/43` to `47` | entries, locks, the origin's version | lookup, fetch, stale answer, purge |
| observability lesson | `examples/48` | two counters | select, count |

**How they interact.** A request's task calls the router once, then the chain
in every callback, then `select_peer` of one upstream. Tasks share the router
(immutable), the upstream pools and the Prometheus registry. A pool is written
by a background service (one loop per load-balanced upstream: discovery, then
health checks) while tasks read it on other threads. The callbacks of one
request talk to each other only through the context: a value filed by one is
looked up *by its Rust type* by another. `main` builds all of this before it
starts anything, and Pingora's server starts, signals and drops the services.
In the lessons requests share process-wide statics (limiters, counters, the
cache and its locks), and lesson 35's admin service swaps the set that the
balancer's discovery reads.

**What is hard here.** (`PROJECT.json` lists every hazard at its line.)

* A callback trusts that an earlier one has filed a value under one exact type;
  a Stop, an error or a retry changes which callbacks ran before.
* A request may be answered in three places (a middleware, `upstream_peer`,
  `fail_to_proxy`), one after the other.
* A retry runs `upstream_peer` again and replays a body, while the context, its
  counters and a session id generated for the first attempt stay.
* The pool is published in three stores that a selecting task can fall between,
  and is empty before its first update.
* The router's answer depends on tree priorities, on file order for regexes, and
  on three tables that have to agree.
* `main` keeps a map of upstreams and a list of background services, which
  differ where an id is configured twice.
* SIGTERM waits for the grace period and for nothing else.
* A cache lock may outlive its timeout while its holder goes on; a PURGE may
  fall between the header and the body of a response; two fetches of one key may
  end in either order.
* A limiter is asked in one step or in two, and a guard counts only while it lives.

**What makes each part correct.** The pipeline: no panic, no forbidden client
or oversized body reaches an upstream, every request is answered once, with a
truthful status, is counted once, and ends. The router: tables agree, a match
is a match, a refusal has a reason, lists fail closed. The pool: a backend's
health is what its last checks say, an update neither forgets nor invents
health, selection ends and fails only for a reason, sessions are sticky. The
boot: what serves was built, and its updaters run; services end before the
process does. The cache: one fetch per key, purged content is gone, a new
response is not replaced by an older one, nobody waits for ever. The lessons'
proxies: limits hold under concurrency, answers are about the attempt that
served, the balancer ends up with what the world and the admin API say.

## Modules

| Module | Models | Extends |
|---|---|---|
| `Middlewares` | hooks, decisions, the three shipped middlewares, how a chain loop ends | |
| `Gateway` | the callbacks of `gateway.rs`, contexts, sessions, metrics | `Middlewares` |
| `Router` | `Router::new` and `match_request` | |
| `Upstream` | abstract: what `select_peer` promises | |
| `LoadBalancer` | `select_peer`, the background service, discovery and checks | instantiates `Upstream` |
| `Server` | `main` of the gateway and of lessons 00 to 05, services, signals | |
| `Cache` | lessons 43 to 47 | |
| `Cluster` | the clusters of lessons 26 to 42, health, admin API | |
| `Proxies` | the proxies of lessons 9, 12, 13, 19, 25 to 42 and 48 over their clusters | `Cluster` |
| `MC...` | the values of the constants for TLC | each module |
| `...Proofs` | theorems and proofs | each module, `TLAPS` |

`PROJECT.json` maps each definition to the lines it stands for. Operators named
`Mutant...` are faulty variants of the definition below them; nothing uses them
in the specifications, and each shows a bug that some property catches.

### Gateway and Middlewares

Every callback is one action on a request `r`; `pc[r]` is the callback that runs
next. The upload (`RequestBodyFilter`) and the download
(`UpstreamResponseFilter`, `ResponseFilter`, `ResponseBodyFilter`) of a request
interleave, as Pingora's duplex loop interleaves them, and tasks of different
requests interleave at callbacks.

* *Context.* `filed[r]` is the set of Rust types the context holds; an
  `expect()` that finds nothing leads to `panicked`. What is filed is a
  property of the code that matters: `request_filter` clones
  `route.conf`, an `Arc<RouteConf>`, while every reader asks for a `RouteConf`.
  The constant `FiledAs` is the type that is filed. `"ArcRouteConf"` is the code
  as it stands; then every proxied request panics in `upstream_request_filter`
  and nothing after it is ever reached. `"RouteConf"` is the one-word repair,
  under which the rest of the pipeline can be checked at all. The theorems
  hold for both values, except `NeverPanics`, which assumes the repair, and
  `NothingEverProxied`, which assumes the code as it stands.
* *Chain.* A pass over the chain is `[res, by]`: how it ended and who ended it.
  `Passes` derives the possible ones from what each middleware may return,
  the order of the hook (`.rev()` or not) and whether errors are swallowed.
  A `"plugin"` stands for any further middleware and decides freely.
* *Session.* The first final response header counts: Pingora ignores a second
  one and reports success. `page = "spliced"` records the consequence for
  `fail_to_proxy`: after a response header is out, writing an error page
  "succeeds" and the page lands in the body of that response. No document of the
  repository says whether it should; `PageFits` says which answers it can land in.
* *Body.* `conn` keeps what the client has left to send, what has to be
  replayed, and what this attempt has sent. Pieces have every possible length.
  The two checks of `request_size` keep their different comparisons: `>` for the
  announced length, `>=` for the running count. A body of exactly
  `max_bytes` passes the first and fails the second, although
  `gateway_full.yaml:57` speaks of uploads "larger than" the value (a
  finding). `SizeRejectionJustified` says what holds: without an attempt a 413
  is for a longer body, otherwise for one whose bytes reach the limit when each attempt
  counts them.
* *Headers.* `insert_header` refuses what is no header (`Malformed`): `?` then ends
  `upstream_request_filter` or `response_filter` with an error, and the half-edited
  header is not sent.
* *Status.* `fail_to_proxy` looks at the type of an error and not at its source: a
  client that is silent for too long (`DownstreamError`) ends in 504, as a slow upstream
  does, and one that hangs up in 500 for nobody. So `StatusTruthful` promises of 504 that no
  response had begun, and blames the upstream with 502 alone.
* *External.* `Connect`, `Complete`, `UpstreamError`, `DownstreamError`,
  `Consume` and `NextPiece` are Pingora: a connection is reused or fresh, may
  fail, may close; a close of a reused connection before the response, with the
  body still in the retry buffer, starts over at `upstream_peer`.
* *Router and upstreams.* The router's answer is part of a request's input
  (`entry`): the router never changes while the gateway runs. An upstream is the
  Boolean `ready`, which changes at any time for a pool (`LoadBalancer` is the
  detail) and for a static upstream given by a host name (`Hosts`), which may resolve
  or not. `select_peer` fails on an empty pool and on a path that is no socket's;
  `HttpPeer::new` unwraps a name that does not resolve, and the task dies (`crashed`).

### Router

`Router::new` is a loop: `AddRoute`, `RejectRoute`, `RejectAcl` are its turns,
`Finish` its end. Paths are sequences of segments. The matchit tree is external
and modelled by what `router.rs` relies on: which paths fit a route, which of two
fitting routes wins, which insertions are refused. Regexes and address blocks
are names with a meaning (`Matches`, `Blocks`); a name without one does not
parse. `MatchRequest` is a pure operator and is evaluated for every path and
host in every reachable state.

### Upstream and LoadBalancer

The background service is one loop: `Start`, then discovery (`DiscoverOk`,
`DiscoverErr`), the three stores of an update (selector in `DiscoverOk`, then
`PublishBackends`, `PublishHealth`), `BeginChecks`, one `FinishCheck` per
backend in any order, `Sleep`. A selecting task loads the selector
(`BeginSelect`) and then examines one offer per step (`Probe`) until one is
ready or it gives up, so that every store may fall between two of its reads.
Round robin and random selection may offer any backend; consistent hashing
walks the points of a ring from the key. `streak`, `down` and `raced` are history
variables for the properties. `Backup` is configured and read by no action, as
`backup_backends` is read by no code.

`Upstream` says the same from the caller's side: members change (`Discover`),
health changes (`Examine`), and a request that asks (`Ask`) gets a member that
is not sick at that moment (`HandOut`) or learns that there is none (`Refuse`),
which an upstream that nobody examines may say only when it was empty.
`LoadBalancer` implements it with the selector as `members` and the backends
that are not ready as `sick` (`Abstract`); the property is
`ImplementsUpstream == Abstract!FairSpec`, fairness included.

Details of the factory that the model keeps out: the expected status of an http
check is parsed and ignored (`expected_status: _`), weights are numbers of points
on the ring, a path that is not a URI leaves the check's default.

### Server

`stage` is where `main` is. For the gateway it goes through `LoadConf`, `Tune`,
one `MakeUpstream` or `UpstreamFails` per upstream, `BuildRouter` or
`RouterFails`, one `AddListener` or `ListenerFails` per listener, `RunForever`; an
error of any of them ends `main`. `upstreamMap` is the `HashMap` (a later id
replaces an earlier one), `background` the `Vec` of services (nothing is
replaced). `LessonMain` is the main of lessons 00 to 05. Then the services run:
`NoticeShutdown` for those that select on the watch, `BatchCheck`, `BatchJob`,
`BatchFinish`, `BatchPause` for lesson 03's job, `Accept`, `EchoCheck`, `EchoRead`
for lesson 00's connections. `Sigterm`, `Sigint`, `GraceOver` and the dropping of
what still runs are Pingora's. A `Tick` is five seconds and waits for whatever takes
less (`Busy`). The updaters of the load balancers do not: Pingora's loop looks at the
shutdown only when it wakes up for its next update or check, so that they may sleep
through the whole grace period, and `GraceSuffices` exempts them. Lesson 03's grace
period of 10 s is exactly the 10 s its last job may take: the two may end in either
order, which `GraceSuffices` leaves open and the run `server_job` shows.

### Cache

One lesson runs, chosen in `Init`. A request arrives, is a PURGE, a hit, a stale
answer with an update in the background, or a miss that takes the key's lock or
waits. The answer of the origin (`Answer`), its header at the proxy (`Admit`) and the end
of its body (`Store`) are three steps, so that responses overtake each other and
purges fall between. From the header on the entry can be read although it is not
complete (`writing`), as `MemCache` shows it, and the lock is free; a PURGE takes entries
that are being written as well, and their end does not bring them back. No time
passes between header and body: the lessons' origins send both in one `write_all`.
`Relay` is a response that is not to be kept. A lock
older than 5 s (`LockTimeout`) no longer holds others back: they fetch without the
cache or take the lock over from a holder that goes on. Entries carry the version
of the origin's content, their age and the times their `Cache-Control` names.
`gone` and `known` are history: what was purged, and what of it a request could
know of when it came.

### Cluster and Proxies

One lesson runs over the cluster it builds. `Cluster`: the balancer's discovery
asks (`Discover`) and puts the answer in place later (`Apply`); checks, servers that
change, a file that is edited or removed; the admin API, whose swap keeps the
write lock until the 200 is written or its write has failed, which the code ignores
(`AdminSwap`, `AdminReply`: the swap stays, and `latest` forgets what was acknowledged
before it). `Proxies`: each
callback of each lesson's proxy with its early returns. Pingora's part is a kept
connection that breaks before the response (`Retry`: back to `upstream_peer`, the
context as it was), a peer that cannot be reached or answers too late (`ConnectFails`,
`ReadTimesOut`, answered by the lesson's `fail_to_proxy` or Pingora's own), a rate that counts per window and tells this window's count
(36) or the last one's rate (37, in a step of its own), and guards that live as
long as the context or, for a refused request, as long as its answer. A body comes in
pieces of any size: lesson 40 counts them, lesson 12 looks for a forbidden word in
all it has seen (`InspectPiece`), of which the model keeps the two halves. A retry
runs the pieces again past the buffer of the attempt before, so that a body whose
end and beginning make up the word is then refused; `BodiesHold` says that none with
the word gets through. `Logging`
ends a request and forgets everything but its cookie.

## Runs

| Run | Instance | Properties |
|---|---|---|
| `gateway_fixed` | 1 request, every input, a middleware that may fail in any hook, 1 retry, names that do not resolve, headers that cannot be inserted, repaired filing; 229,972 states | types, `NoPanic`, `AclRespected`, `BodyWithinLimit`, `SizeRejectionJustified`, `Answered`, `StatusTruthful`, `HeadersApplied`, `PageFits`, `Terminates` |
| `gateway_as_written` | 2 interchangeable requests, a middleware that decides anything, code as it stands; 288,112 states | `MetricsExact`, `StopHaltsAfterRouting` |
| `router` | every configuration of up to 3 of 13 routes, 7 paths, 3 hosts (one absent); 8,362 states | types, `RegistryComplete`, `MatchSound`, `RefusalExplained`, `RegexInOrder`, `AclFaithful` |
| `lb_refresh` | dns, 2 backends, every discovery answer, 1 success and 2 failures to flip; 157,866 states | types, `TablesAgree`, `HealthFollowsChecks`, `UnavailableExplained`, `FlipsAreEarned`, `KeepsChecking`, `ImplementsUpstream` |
| `lb_unchecked` | a file that changes, 2 requests with one or two cookies, consistent hashing by cookie, no checks; 6,059 states | `Sticky`, `ImplementsUpstream` |
| `server` | gateways of up to 2 upstreams and 1 listener, lessons 00 to 05, 2 connections; 32,743 states | `UpstreamsBacked`, `GraceSuffices`, `TermExits` |
| `cache` | lessons 43 to 47, 3 requests; 275,338 states | `Coalesced`, `PurgedIsGone`, `NoOlderContent`, `Ends` |
| `proxies` | lessons 9, 12, 13, 19, 25 to 42 and 48, up to 3 requests, bodies of up to 3 parts, 2 admin connections, 2 changes; 420,444 states | `RateHolds`, `InflightHolds`, `BodiesHold`, `LastAttempt`, `AcknowledgedHolds`, `CatchesUp` |

Four runs show where the code departs from what the repository says of it
(the findings of `PROJECT.json`):

| Run | Shows |
|---|---|
| `gateway_panic` | `.expect("RouteConf should exist")` fails for every request that reaches an upstream (theorem `NothingEverProxied`: under every configuration) |
| `gateway_stop` | a Stop of `handle_early_request` does not halt the pipeline |
| `lb_startup` | a request may select from a pool that was never filled |
| `server_job` | the process may exit before the job of lesson 03 has finished |

Four more disagreements are shown by a property that holds, and is proved, of the
code: what it promises is not what the text says.

| Property | What the text says, and what the code does |
|---|---|
| `BodyWithinLimit` | `gateway_full.yaml:57`: rejects uploads larger than the limit; no upload of just the limit ever reaches an upstream either |
| `MatchSound` | `gateway_full.yaml:205`: a Prefix route matches everything starting with its path; it answers its own path only, unless it has a wildcard |
| `RateHolds` | `README.md:6218`: lesson 37 interpolates this window and the last; its verdict is about the last alone, and nothing bounds a burst within a window |
| `BodiesHold` | `README.md:6821`: lesson 40 refuses what is longer than `MAX_BODY_SIZE`; a body of exactly that size never reaches the server either |

**Bounds and why they are enough.** Requests of the gateway meet in the metrics
only, so two of them show every interference; all else is per request, and one
request with every input reaches it. `MaxBytes = 3` with bodies of 0 to 4 bytes
puts bodies below, at and above the limit, in up to four pieces, with
`RetryBuffer = 2` both a replayable and a truncated buffer; `MaxRetries = 2` is one
retry, and further ones repeat it. Three routes are the fewest in which
a tree route, its rival and a regex meet. Two backends and thresholds of 1 and 2
let checks of different verdict interleave; `MaxIterations`, 256
in the code, is 3 or 4, below the number of offers needed in some behaviours and
above it in others. `StreakCap` bounds a history variable above both thresholds.
Two upstreams may share an id; grace periods of none, 0, 1 and more ticks lie below and
above what a service needs. Three cached requests are a holder, one that takes
over and one that waits or purges; ages beyond `AgeCap = 4` ticks matter to no
entry whose window the run can leave. In `Proxies` three requests are one more than a
limit of 1 and its neighbour need (36 has two, enough to exceed its limit in one
window); a lesson whose requests share nothing has one. `MaxWindow = 1` gives two
windows, one before and one after; three parts of a body leave one before or after
the two that make the word, and every cut into pieces; `MaxChanges = 2` lets a server go and come back.

**Deadlock** is allowed where the system may stop: a gateway instance whose
requests are all done, a router that is built, a static, unchecked pool,
whose background loop returns, a process that has exited, a lesson whose requests are
done. It is checked in `lb_refresh`, `lb_unchecked` and `cache`.

**Fairness.** Gateway: `WF(Step(r))` for each task, since every await in a callback
ends: peers carry connect, read and write timeouts and Pingora times out client
reads. There is none between upload and download, and none for arrivals or pool
changes. LoadBalancer: `WF(Background)`, the runtime keeps polling the service, with
`SF(Sleep)` for a wakeup at which a check is due: both intervals are fixed, so
one comes after finitely many wakeups. Checks have
timeouts, and discovery is *assumed* to end; `lookup_host` has no timeout of its
own, and one that hangs stops the checks as well (a listed hazard).
`WF(Probe \/ GiveUp)`: `select` is one synchronous call. Server: main, services that
can go on, time and the end of the grace period; nothing of clients, who may keep
a connection open for ever. Cache: `WF(Step(r))`, as for the gateway. Proxies:
the balancer's loops and the tasks of admin connections (`ClusterFairness`), the
write of whose 40-byte reply ends, with or without an error;
requests need not go on for what `CatchesUp` says.

## Theorems

Proved for every number of requests, routes, backends, connections, every body
size, threshold, window and limit, under the named `ASSUME`s of the modules (types
of the constants, finitely many requests, backends and connections, positive
thresholds, the three shipped middlewares once each in the chain, an SNI that is a
name). Every invariant a run checks is also a theorem, and so is every action property.

* **`GatewayProofs`.** `TypeCorrect` rests on `TypeInv`, `TypeOK` with `Started`:
  a task that has begun has an input. `NeverPanics`, `AclAlwaysRespected`
  and `BodyAlwaysWithinLimit` rest on `Safe`, three inductive parts.
  `ContextInv` says what is filed by the time a phase is reached: nothing
  else in a state tells which callbacks ran before, so the phase has to imply it.
  `AdmitInv` says that a task past the chain has an entry that admits its
  client. `SizeInv` says that `bytes` is at least what this attempt has
  sent: the limit is enforced on the counter and promised of the wire, and
  a retry resets one and not the other. Each is shown with one lemma per
  callback, over a lemma (`PassContinues`) that reads off a completed
  pass what every middleware decided. `MetricsAlwaysExact` rests on
  `CountInv`, the same equation for *every* label set, and assumes that no
  plugin stops in `logging` (there it would keep the first middleware, metrics,
  from being called). `NeverPanics` assumes the repaired filing.
* **`AnswerProofs`** continues it. `TruthInv` (`StatusAlwaysTruthful`) adds to the
  property that an error in flight has its cause in the exchange with the upstream (how
  much was sent, how far the response got), so that the status it becomes has
  one, and that nothing moves once it is out. `AnsweredInv` (`AlwaysAnswered`) says which phases have an answer, or no client, and
  assumes that no plugin stops in `handle_request` or `handle_error`, where a Stop ends
  the request whether or not something was written. `HeaderInv` (`HeadersAlwaysApplied`) follows the host and the edits from
  `upstream_peer` through every retry. `ReadInv` (`SizeRejectionAlwaysJustified`)
  bounds the running count by what the attempts so far could offer (`Offered`): a whole
  body for each that is over, and what the last one has had.
  `StopAlwaysHaltsAfterRouting` is an action property. `PageInv` (`PagesAlwaysFit`)
  keeps the reason an answer was out for as long as its task goes on. `UploadInv`
  ties what is sent, buffered and left to the length of the body through every
  replay and gives `UploadAlwaysWhole`; with `BodyAlwaysWithinLimit`,
  `OversizedAlwaysCutShort`. `NothingEverProxied` is about the code as it stands: no
  phase behind `upstream_request_filter` is reachable. `Work(r)` counts the callbacks
  that are at most left of a task: it is bounded (`WorkAlwaysBounded`), every callback
  of the task lowers it and nothing else raises it (`WorkAlwaysRunsDown`).
* **`RouterProofs`.** `Built` says that the tables describe the routes gone through so
  far, that tree entries and regexes come from routes of their kind, that every
  entry is its route's, and that an Ok router has seen all routes. `TypeCorrect`,
  `RegistryAlwaysComplete`, `AclAlwaysFaithful` and `MatchAlwaysSound` follow.
  `OrderInv` (regexes lie in file order) gives `RegexAlwaysInOrder`; `TreeInv` (no two
  entries of the tree conflict, so a path has one best entry) and
  `Indexed` (every route has its entry) give `RefusalAlwaysExplained`. `FirstFault`
  says what the loop has found out by each route; with it `AlwaysAcceptsExactly`
  gives `Router::new` a specification that speaks of neither loop nor order: it
  succeeds exactly if all routes are usable, their lists parse and no paths conflict.
  `AnswerAlwaysEnforced` joins `MatchSound` and `AclFaithful` for the entry that
  `match_request` hands out, which is what the gateway's inputs assume of it.
* **`LoadBalancerProofs`.** `PoolSafe` is `TypeOK` with `PoolInv`, what the
  tables hold in each stage of an update, and `HealthInv`, which ties the count of
  a health entry to the streak of verdicts: without it nothing links the state
  a flip depends on to the checks that led there. `TypeCorrect`,
  `TablesAlwaysAgree`, `HealthAlwaysFollowsChecks` and `FlipsAlwaysEarned` follow.
* **`SelectionProofs`** continues it for the selecting tasks. `SelectInv` says what a
  task has learnt from the offers it went through (`Asked`, `Calm`, `Swept`,
  `Chosen`, `Refused`) as long as no update raced it; `DownInv` keeps the history of
  unhealthy backends. `UnavailableAlwaysExplained` and `AlwaysSticky` follow, and
  `KeepsPromise`: every step of `LoadBalancer` is a step of `Upstream` or a
  stutter, the safety part of `ImplementsUpstream`. `AlwaysSticky` is about any two
  requests whose cookie, header, path or address agrees, whatever else they bring, and
  about pools that differ: a backend that is first on the ring among some is first among
  fewer (`FirstOfFewer`), so an update moves a session only off a backend that is gone
  or onto one that is new.
  `TurnWork` counts what is left of a turn of the service's loop and `SelectWork(r)`
  what is left of a select; `TurnInv` and `StepsInv` bound them, and every step of
  the service, or of the select, lowers them (`TurnAlwaysRunsDown`,
  `SelectAlwaysRunsDown`), whatever the others do.
* **`CacheProofs`.** `TaskInv`: an update belongs to a request that is done
  (`UpdateInv`), and only a fetch that may be kept is being written (`WriteInv`).
  `HolderInv`: a fetch whose lock has not timed out holds it until its response begins;
  then the lock is free, but a lookup finds the entry that is being written and does
  not take it, so that there is one such writer. Both make up `LockInv` and give
  `AlwaysCoalesced`. `PurgeInv` follows versions from the origin through fetches
  and entries: each fetch brings a version of its own, which others read only while it is
  written or kept, and a purge takes it from both, so what can be read has
  never been purged; this gives `PurgedStaysGone`. `AgeInv` says that what
  a holder has brought is newer than what its path has in the cache, as long as no
  lock has been taken over, and gives the action property `NeverOlderContent`.
  `RoundsAlwaysRunOut` is about waiting: a request may look, wait and look again, so no
  count of its own goes down. What goes down is the pair of the stages and the
  turns all requests have left: a turn is given back only by a fetch that ends, and
  that costs a stage.
* **`ServerProofs`.** `Built(n)` describes the map and the list after `n` upstreams
  and gives `UpstreamsAlwaysBacked`; `GraceInv` bounds what a service may still need
  by what is left of the grace period, updaters aside, and gives `GraceAlwaysSuffices`.
  `ShutdownAlwaysRunsDown`: after SIGTERM a step ends the process, takes a tick off
  the grace period, or takes from what services and connections have left to do,
  a finite amount that no client can add to.
* **`ProxiesProofs`.** The actions of `Cluster` and of `Proxies` leave each other's
  variables alone, so `TypeCorrect` and `AdminInv` come in two halves. `AdminInv` (the write lock belongs to the connection
  that replies) gives `AcknowledgedAlwaysHolds`; `LimitInv`, one part per kind of
  limit, gives `RateAlwaysHolds` and `InflightAlwaysHolds` and, with `WordInv` (what an
  attempt has sent is the end of a buffer without the
  forbidden word, for bodies of any length), `BodiesAlwaysHold`; `AttemptInv` (ids are below the counter,
  distinct, and of the last attempt) gives `AlwaysLastAttempt`. `SlotsAlwaysAccounted`
  is the other direction of lesson 38's limit: its counter keeps no request that is
  gone, so that the limit does not close by and by.

**Model-checked only.** Liveness (`Terminates`, `KeepsChecking`, `TermExits`, `Ends`,
`CatchesUp`, the fairness of `ImplementsUpstream`): it needs fairness and ENABLED,
which the proof system does not handle. For `Terminates`, `KeepsChecking`, `TermExits`,
`Ends` and `ImplementsUpstream` the safety half is proved, for all values of the constants: what
is left to do is bounded and every step takes from it. What TLC adds, on its instances,
is that a step is always possible. `CatchesUp` has no such half: it waits for the
administrators' changes to end.

## Not modelled

* Lessons 06 to 24, except 9, 12, 13 and 19: each configures a listener, a peer, TLS, HTTP/1 or HTTP/2 and
  keeps nothing beyond a request; what they show happens inside Pingora or
  OpenSSL. A model would restate the call.
* Deserialisation in `config.rs`: `serde` produces the constants of the modules.
  Of the configuration only the path types and the sources of upstreams are mapped.
* `auth.rs`, `cache.rs`, `concurrency.rs`, `purge.rs`, `rate_limit.rs`: comments
  about planned middlewares, no code.
* `backup_backends`, promised by `gateway_full.yaml:96`: parsed and read by no code.
* Peer options, TLS, ALPN, request ids, timings, the latency histogram and the
  method label: copied or measured, never decided upon.
* `init_cache`, `cache_key` and `should_serve_stale` of `Middleware`: hooks nothing calls.
* Four hazards are in the source and no property speaks about them: a command check
  that times out is dropped and not killed (`factory.rs:124`; processes are outside the
  model), a Stop in `logging` keeps a request from being counted (`gateway.rs:295`), a
  lookup that hangs stops the checks (`factory.rs:34`), and a static upstream's name that
  does not resolve kills the task without an answer (`static_upstream.rs:79`). The last
  three are in the model or excluded by a named assumption, and no document says what should happen.

## Plan

Done: the modules above with their runs, the refinement of `Upstream`, the
theorems of every invariant and action property, and the safety half of five of the
liveness properties. What a next step could take, in this order:

1. `System`: the router's answer as the `entry` of the gateway's inputs, so that
   `AnswerEnforced` and `AclRespected` meet, and `Upstream` in the place of `ready`.
2. Hashing by header, uri and unix-socket clients as instances of their own; two
   requests in `lb_refresh`.
3. The other protocol lessons that forward in two directions (22, 23), if their
   half-closes are to be argued about.

## Running

    tlc -workers 2 -config router.cfg MCRouter
    tlapm RouterProofs.tla
