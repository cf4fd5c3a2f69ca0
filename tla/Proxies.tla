------------------------------ MODULE Proxies ------------------------------
(***************************************************************************)
(* The proxies of lessons 9, 12, 13, 19, 25 to 42 and 48, one of which the *)
(* process runs, over the cluster of that lesson, if it has one: each      *)
(* request goes through the callbacks the lesson implements, interleaved   *)
(* with the others.                                                        *)
(*                                                                         *)
(* Pingora's pipeline and its counters are external, modelled as used:     *)
(* a kept connection that breaks before the response makes the request     *)
(* start over at upstream_peer; a Rate counts each key in windows, and     *)
(* tells the count of the window before; an Inflight counts the guards     *)
(* that live.                                                              *)
(***************************************************************************)
EXTENDS Cluster, Sequences

CONSTANTS
  Load(_),        \* how many requests come, for each lesson
  Clients,        \* addresses; "bad" is the one lesson 39 blocks
  Keys,           \* paths (28), session ids that clients bring (29)
  Owner(_),       \* the server a path or session id hashes to
  Bodies,         \* what clients send to lesson 12
  MaxReqPerSec,   \* MAX_REQ_PER_SEC
  MaxConcurrent,  \* MAX_CONCURRENT_REQ
  MaxBodySize,    \* MAX_BODY_SIZE
  MaxRetries(_),  \* how often a request starts over, for each lesson
  MaxWindow       \* windows a run goes through

\* Text, as far as lesson 12 tells it apart: the two halves of "rogue".
Text == {"ro", "gue", "other"}

ASSUME ProxiesAssumption ==
  /\ MaxReqPerSec \in Nat /\ MaxConcurrent \in Nat /\ MaxBodySize \in Nat \ {0}
  /\ \A l \in Lessons : Load(l) \in Nat /\ MaxRetries(l) \in Nat
  /\ MaxWindow \in Nat
  /\ Bodies \subseteq Seq(Text)
  /\ Keys \subseteq Nat /\ None \notin Clients /\ None \notin Nat

VARIABLES
  \* a request
  pc,
  client,         \* its address, None where the connection has none
  header,         \* the header, path or body the lesson looks at
  verdict,        \* the status request_filter refuses it with
  status,         \* what the client was sent, 0 for nothing
  read,           \* ctx.bytes_read (40)
  buffer,         \* ctx.buffer (12)
  sent,           \* how much of the body went on to the server
  peer,
  conn,           \* its connection is a kept one
  retries,
  newId,          \* ctx.new_session_id (29)
  cookie,         \* the id of the Set-Cookie it was answered with
  isReused,       \* ctx.is_reused (25)
  \* the process
  counter,        \* SESSION_COUNTER (29), REQUEST_COUNTER (48)
  logged,         \* req_counter (48)
  count, last,    \* RATE_LIMITER: client -> this and the last window
  guards,         \* the requests whose guard of INFLIGHT_LIMITER lives
  \* history
  window,
  admitted        \* client -> requests let through in this window

ctx     == <<read, buffer, newId, isReused>>
route   == <<peer, conn, retries>>
answer  == <<verdict, status, cookie>>
limiter == <<count, last, guards, window, admitted>>
proxyVars == <<pc, client, header, sent, ctx, route, answer, counter, logged,
               limiter>>
vars == <<clusterVars, proxyVars>>

\* Requests are numbered as they come.
Requests == 1..Load(lesson)

\* What the lesson looks at: a path, a body, a session cookie, a Content-Length
\* it can read, credentials.
Headers == CASE lesson = 9  -> Servers \cup {None}
             [] lesson = 12 -> Bodies
             [] lesson = 13 -> {"/oops", None}
             [] lesson = 19 -> {"/timeout", None}
             [] lesson = 28 -> Keys
             [] lesson = 29 -> Keys \cup {None}
             [] lesson = 40 -> (0..MaxBodySize + 1) \cup {None}
             [] lesson \in {41, 42} -> {"secret", "wrong", None}
             [] OTHER -> {None}

Init ==
  /\ ClusterInit
  /\ pc = [r \in Requests |-> "idle"]
  /\ client = [r \in Requests |-> None]
  /\ header = [r \in Requests |-> None]
  /\ verdict = [r \in Requests |-> 0]
  /\ status = [r \in Requests |-> 0]
  /\ read = [r \in Requests |-> 0]
  /\ buffer = [r \in Requests |-> <<>>]
  /\ sent = [r \in Requests |-> 0]
  /\ peer = [r \in Requests |-> None]
  /\ conn = [r \in Requests |-> FALSE]
  /\ retries = [r \in Requests |-> 0]
  /\ newId = [r \in Requests |-> None]
  /\ cookie = [r \in Requests |-> None]
  /\ isReused = [r \in Requests |-> FALSE]
  /\ counter = IF lesson = 29 THEN 100 ELSE 0
  /\ logged = 0
  /\ count = [c \in Clients |-> 0]
  /\ last = [c \in Clients |-> 0]
  /\ guards = {}
  /\ window = 0
  /\ admitted = [c \in Clients |-> 0]

\* The address matters to lessons 36, 37 and 39.
Arrive(r, c, h) ==
  /\ pc[r] = "idle" /\ \A q \in 1..r - 1 : pc[q] # "idle"
  /\ lesson \notin {36, 37, 39} => c = None
  /\ pc' = [pc EXCEPT ![r] = "filter"]
  /\ client' = [client EXCEPT ![r] = c]
  /\ header' = [header EXCEPT ![r] = h]
  /\ UNCHANGED <<clusterVars, sent, ctx, route, answer, counter, logged, limiter>>
----------------------------------------------------------------------------
(* request_filter                                                          *)

\* A path that starts with neither /blue nor /green.
PathRouter(r)     == IF header[r] = None THEN 404 ELSE 0
\* An unknown address is let through.
FirewallProxy(r)  == IF client[r] = "bad" THEN 403 ELSE 0
\* No Content-Length, or one that is no number, is left to the body filter.
SizeLimitProxy(r) == IF header[r] # None /\ header[r] > MaxBodySize THEN 413 ELSE 0
AuthProxy(r)      == CASE header[r] = None     -> 401
                       [] header[r] = "secret" -> 0
                       [] OTHER                -> 403
BasicAuthProxy(r) == CASE header[r] = None     -> 401
                       [] header[r] = "secret" -> 0
                       [] OTHER                -> 403

Verdict(r) == CASE lesson = 9  -> PathRouter(r)
                [] lesson = 39 -> FirewallProxy(r)
                [] lesson = 40 -> SizeLimitProxy(r)
                [] lesson = 41 -> AuthProxy(r)     [] lesson = 42 -> BasicAuthProxy(r)
                [] OTHER -> 0

\* r goes on with status v, where 0 lets it through.
Decide(r, v) ==
  /\ verdict' = [verdict EXCEPT ![r] = v]
  /\ pc' = [pc EXCEPT ![r] = IF v = 0 THEN "peer" ELSE "refuse"]

Counted(r) == lesson = 38 \/ (lesson \in {36, 37} /\ client[r] # None)

\* Lesson 13 fails this path on purpose.
Oops(r) == lesson = 13 /\ header[r] = "/oops"

Filter(r) ==
  /\ pc[r] = "filter" /\ ~Counted(r) /\ ~Oops(r)
  /\ Decide(r, Verdict(r))
  /\ UNCHANGED <<clusterVars, client, header, sent, ctx, route, status, cookie,
                 counter, logged, limiter>>

Let(r, v) == admitted' = IF v = 0 THEN [admitted EXCEPT ![client[r]] = @ + 1]
                                  ELSE admitted

\* (Mutant: the request itself is not counted.)
MutantRateVerdict(c) == IF count[c] > MaxReqPerSec THEN 429 ELSE 0

\* observe tells the window's count with this request in it.
RateVerdict(c) == IF count[c] + 1 > MaxReqPerSec THEN 429 ELSE 0

RateLimit(r) ==
  /\ pc[r] = "filter" /\ lesson = 36 /\ Counted(r)
  /\ count' = [count EXCEPT ![client[r]] = @ + 1]
  /\ Let(r, RateVerdict(client[r]))
  /\ Decide(r, RateVerdict(client[r]))
  /\ UNCHANGED <<clusterVars, client, header, sent, ctx, route, status, cookie,
                 counter, logged, last, guards, window>>

\* Lesson 37 counts, and then asks for the rate of the window before: the
\* window may end in between.
Observe(r) ==
  /\ pc[r] = "filter" /\ lesson = 37 /\ Counted(r)
  /\ count' = [count EXCEPT ![client[r]] = @ + 1]
  /\ pc' = [pc EXCEPT ![r] = "rate"]
  /\ UNCHANGED <<clusterVars, client, header, sent, ctx, route, answer, counter,
                 logged, last, guards, window, admitted>>

SlidingVerdict(c) == IF last[c] > MaxReqPerSec THEN 429 ELSE 0

SlidingRate(r) ==
  /\ pc[r] = "rate"
  /\ Let(r, SlidingVerdict(client[r]))
  /\ Decide(r, SlidingVerdict(client[r]))
  /\ UNCHANGED <<clusterVars, client, header, sent, ctx, route, status, cookie,
                 counter, logged, count, last, guards, window>>

NextWindow ==
  /\ lesson \in {36, 37} /\ window < MaxWindow
  /\ window' = window + 1
  /\ last' = count
  /\ count' = [c \in Clients |-> 0]
  /\ admitted' = [c \in Clients |-> 0]
  /\ UNCHANGED <<clusterVars, pc, client, header, sent, ctx, route, answer,
                 counter, logged, guards>>

\* (Mutant: the guard is not kept in the context.)
MutantInflightLimit(r) ==
  /\ pc[r] = "filter" /\ lesson = 38
  /\ guards' = IF Cardinality(guards) + 1 > MaxConcurrent THEN guards \cup {r} ELSE guards
  /\ Decide(r, IF Cardinality(guards) + 1 > MaxConcurrent THEN 429 ELSE 0)
  /\ UNCHANGED <<clusterVars, client, header, sent, ctx, route, status, cookie,
                 counter, logged, count, last, window, admitted>>

\* incr: the guard of a request that is refused lives while the 429 is written.
InflightLimit(r) ==
  /\ pc[r] = "filter" /\ lesson = 38
  /\ guards' = guards \cup {r}
  /\ Decide(r, IF Cardinality(guards) + 1 > MaxConcurrent THEN 429 ELSE 0)
  /\ UNCHANGED <<clusterVars, client, header, sent, ctx, route, status, cookie,
                 counter, logged, count, last, window, admitted>>

\* respond_error, or the challenge of lesson 42; the client may be gone.
RespondError(r) ==
  /\ pc[r] = "refuse"
  /\ \E ok \in BOOLEAN : status' = [status EXCEPT ![r] = IF ok THEN verdict[r] ELSE 0]
  /\ pc' = [pc EXCEPT ![r] = "end"]
  /\ guards' = guards \ {r}
  /\ UNCHANGED <<clusterVars, client, header, sent, ctx, route, verdict, cookie,
                 counter, logged, count, last, window, admitted>>
----------------------------------------------------------------------------
(* upstream_peer, and what follows it                                      *)

Select(r, s) ==
  /\ peer' = [peer EXCEPT ![r] = s]
  /\ pc' = [pc EXCEPT ![r] = "connect"]

\* What the client is told when the request fails with e: by lessons 13, 19 and
\* 40, which look at the error (40 says nothing but to a body that is too large),
\* or by Pingora, which looks for its source.
CustomErrorProxy(e) == IF e = "SimulatedFailure" THEN 400 ELSE 500
TimeoutProxy(e)     == IF e = "TimedOut" THEN 504 ELSE 502
TooLargeAnswer(e)   == IF e = "BodyTooLarge" THEN 413 ELSE 0
DefaultAnswer(e)    == IF e \in {"ConnectError", "TimedOut"} THEN 502 ELSE 500

FailToProxy(r, e) ==
  /\ status' = [status EXCEPT ![r] =
                  CASE lesson = 13 -> CustomErrorProxy(e) [] lesson = 19 -> TimeoutProxy(e)
                    [] lesson = 40 -> TooLargeAnswer(e)   [] OTHER -> DefaultAnswer(e)]
  /\ pc' = [pc EXCEPT ![r] = "end"]

FilterFails(r) ==
  /\ pc[r] = "filter" /\ Oops(r)
  /\ FailToProxy(r, "SimulatedFailure")
  /\ UNCHANGED <<clusterVars, client, header, sent, ctx, route, verdict, cookie,
                 counter, logged, limiter>>

\* Lessons without a balancer.
Unbalanced == {9, 12, 13, 19, 25, 48}

\* The path names the server; lesson 19 has one that nothing reaches.
Target(r) == CASE lesson = 9 -> header[r] [] header[r] = "/timeout" -> "blackhole"
               [] OTHER -> "blue"

PathPeer(r) ==
  /\ pc[r] = "peer" /\ lesson \in {9, 19}
  /\ Select(r, Target(r))
  /\ UNCHANGED <<clusterVars, client, header, sent, ctx, conn, retries,
                 answer, counter, logged, limiter>>

SinglePeer(r) ==
  /\ pc[r] = "peer" /\ lesson \in {12, 13, 25}
  /\ Select(r, "blue")
  /\ UNCHANGED <<clusterVars, client, header, sent, ctx, conn, retries,
                 answer, counter, logged, limiter>>

RoundRobinPeer(r, s) ==
  /\ pc[r] = "peer" /\ lesson \notin Unbalanced \cup {28, 29}
  /\ s \in Selectable
  /\ Select(r, s)
  /\ UNCHANGED <<clusterVars, client, header, sent, ctx, conn, retries,
                 answer, counter, logged, limiter>>

NoUpstreamAvailable(r) ==
  /\ pc[r] = "peer" /\ lesson \notin Unbalanced \cup {33}
  /\ Selectable = {}
  /\ FailToProxy(r, "NoUpstreamAvailable")
  /\ UNCHANGED <<clusterVars, client, header, sent, ctx, route, verdict, cookie,
                 counter, logged, limiter>>

\* Lesson 33: with no healthy primary the fixed backup is taken, unchecked.
BackupPeer(r) ==
  /\ pc[r] = "peer" /\ lesson = 33
  /\ Selectable = {}
  /\ Select(r, "green")
  /\ UNCHANGED <<clusterVars, client, header, sent, ctx, conn, retries,
                 answer, counter, logged, limiter>>

HashPeer(r) ==
  /\ pc[r] = "peer" /\ lesson = 28
  /\ Select(r, Owner(header[r]))
  /\ UNCHANGED <<clusterVars, client, header, sent, ctx, conn, retries, answer,
                 counter, logged, limiter>>

\* (Mutant: an id that was generated before the request started over is kept
\* for the cookie.)
MutantSessionPeer(r) ==
  LET id == IF header[r] # None THEN header[r] ELSE counter IN
  /\ pc[r] = "peer" /\ lesson = 29
  /\ newId' = [newId EXCEPT ![r] = IF header[r] # None \/ @ # None THEN @ ELSE id]
  /\ counter' = IF header[r] # None THEN counter ELSE counter + 1
  /\ Select(r, Owner(id))
  /\ UNCHANGED <<clusterVars, client, header, sent, read, buffer, isReused, conn, retries,
                 answer, logged, limiter>>

\* Lesson 29: the id of the first session-id cookie, or a new one.
SessionPeer(r) ==
  LET id == IF header[r] # None THEN header[r] ELSE counter IN
  /\ pc[r] = "peer" /\ lesson = 29
  /\ newId' = [newId EXCEPT ![r] = IF header[r] # None THEN @ ELSE id]
  /\ counter' = IF header[r] # None THEN counter ELSE counter + 1
  /\ Select(r, Owner(id))
  /\ UNCHANGED <<clusterVars, client, header, sent, read, buffer, isReused, conn, retries,
                 answer, logged, limiter>>

AlternatePeer(r) ==
  /\ pc[r] = "peer" /\ lesson = 48
  /\ counter' = counter + 1
  /\ Select(r, IF counter % 2 = 0 THEN "blue" ELSE "green")
  /\ UNCHANGED <<clusterVars, client, header, sent, ctx, conn, retries,
                 answer, logged, limiter>>

\* The servers of lesson 48 close each connection; elsewhere a kept one is told
\* apart where it can break.  connected_to_upstream notes it in lesson 25.
Connect(r, reused) ==
  /\ pc[r] = "connect" /\ peer[r] # "blackhole"
  /\ reused => lesson # 48 /\ MaxRetries(lesson) > 0
  /\ conn' = [conn EXCEPT ![r] = reused]
  /\ isReused' = [isReused EXCEPT ![r] = IF lesson = 25 THEN reused ELSE @]
  /\ pc' = [pc EXCEPT ![r] = IF lesson \in {12, 40} THEN "body" ELSE "respond"]
  /\ UNCHANGED <<clusterVars, client, header, sent, read, buffer, newId, peer,
                 retries, answer, counter, logged, limiter>>

ConnectFails(r) ==
  /\ pc[r] = "connect"
  /\ \E e \in {"ConnectError", "TimedOut"} : FailToProxy(r, e)
  /\ UNCHANGED <<clusterVars, client, header, sent, ctx, route, verdict, cookie,
                 counter, logged, limiter>>

\* Lesson 19 waits 2 seconds for an answer.
ReadTimesOut(r) ==
  /\ pc[r] = "respond" /\ lesson = 19
  /\ FailToProxy(r, "TimedOut")
  /\ UNCHANGED <<clusterVars, client, header, sent, ctx, route, verdict, cookie,
                 counter, logged, limiter>>

\* The kept connection was dead.  The context stays as it is; a body is sent,
\* and filtered, again.
Retry(r) ==
  /\ pc[r] \in {"body", "respond"} /\ conn[r] /\ retries[r] < MaxRetries(lesson)
  /\ retries' = [retries EXCEPT ![r] = @ + 1]
  /\ sent' = [sent EXCEPT ![r] = 0]
  /\ pc' = [pc EXCEPT ![r] = "peer"]
  /\ UNCHANGED <<clusterVars, client, header, ctx, peer, conn, answer,
                 counter, logged, limiter>>

TooLarge(n) == n >= MaxBodySize

\* request_body_filter: a piece of n bytes, no more than were declared.
BodyPiece(r, n) ==
  /\ pc[r] = "body" /\ lesson = 40
  /\ header[r] # None => sent[r] + n <= header[r]
  /\ read' = [read EXCEPT ![r] = @ + n]
  /\ IF TooLarge(read'[r])
     THEN FailToProxy(r, "BodyTooLarge") /\ sent' = sent
     ELSE sent' = [sent EXCEPT ![r] = @ + n] /\ UNCHANGED <<pc, status>>
  /\ UNCHANGED <<clusterVars, client, header, buffer, newId, isReused, route, verdict,
                 cookie, counter, logged, limiter>>

Forbidden(text, i) == text[i] = "ro" /\ text[i + 1] = "gue"
Rogue(text)        == \E i \in 1..Len(text) - 1 : Forbidden(text, i)

\* (Mutant: only the piece itself is looked at.)
MutantInspectPiece(r) ==
  /\ pc[r] = "body" /\ lesson = 12
  /\ \E end \in sent[r] + 1..Len(header[r]) :
       /\ buffer' = [buffer EXCEPT ![r] = SubSeq(header[r], sent[r] + 1, end)]
       /\ IF Rogue(buffer'[r])
          THEN FailToProxy(r, "SecurityPolicyViolation") /\ sent' = sent
          ELSE sent' = [sent EXCEPT ![r] = end] /\ UNCHANGED <<pc, status>>
  /\ UNCHANGED <<clusterVars, client, header, read, newId, isReused, route, verdict,
                 cookie, counter, logged, limiter>>

\* Lesson 12 looks at all the text it has seen, so that a word split between two
\* pieces is found.
InspectPiece(r) ==
  /\ pc[r] = "body" /\ lesson = 12
  /\ \E end \in sent[r] + 1..Len(header[r]) :
       /\ buffer' = [buffer EXCEPT ![r] = @ \o SubSeq(header[r], sent[r] + 1, end)]
       /\ IF Rogue(buffer'[r])
          THEN FailToProxy(r, "SecurityPolicyViolation") /\ sent' = sent
          ELSE sent' = [sent EXCEPT ![r] = end] /\ UNCHANGED <<pc, status>>
  /\ UNCHANGED <<clusterVars, client, header, read, newId, isReused, route, verdict,
                 cookie, counter, logged, limiter>>

BodyEnds(r) ==
  /\ pc[r] = "body"
  /\ header[r] # None => sent[r] = IF lesson = 12 THEN Len(header[r]) ELSE header[r]
  /\ pc' = [pc EXCEPT ![r] = "respond"]
  /\ UNCHANGED <<clusterVars, client, header, sent, ctx, route, answer, counter,
                 logged, limiter>>

\* response_filter: lesson 29 hands the new id out.
Respond(r) ==
  /\ pc[r] = "respond"
  /\ status' = [status EXCEPT ![r] = 200]
  /\ cookie' = [cookie EXCEPT ![r] = newId[r]]
  /\ pc' = [pc EXCEPT ![r] = "end"]
  /\ UNCHANGED <<clusterVars, client, header, sent, ctx, route, verdict, counter,
                 logged, limiter>>

\* logging counts the request in lesson 48; then its session and its context
\* are dropped, and the guard with them.
Logging(r) ==
  /\ pc[r] = "end"
  /\ pc' = [pc EXCEPT ![r] = "done"]
  /\ logged' = IF lesson = 48 THEN logged + 1 ELSE logged
  /\ guards' = guards \ {r}
  /\ client' = [client EXCEPT ![r] = None]
  /\ header' = [header EXCEPT ![r] = None]
  /\ verdict' = [verdict EXCEPT ![r] = 0]
  /\ status' = [status EXCEPT ![r] = 0]
  /\ read' = [read EXCEPT ![r] = 0]
  /\ buffer' = [buffer EXCEPT ![r] = <<>>]
  /\ sent' = [sent EXCEPT ![r] = 0]
  /\ peer' = [peer EXCEPT ![r] = None]
  /\ conn' = [conn EXCEPT ![r] = FALSE]
  /\ retries' = [retries EXCEPT ![r] = 0]
  /\ newId' = [newId EXCEPT ![r] = None]
  /\ isReused' = [isReused EXCEPT ![r] = FALSE]
  /\ UNCHANGED <<clusterVars, cookie, counter, count, last, window, admitted>>
----------------------------------------------------------------------------
Callback(r) ==
  \/ Filter(r) \/ RateLimit(r) \/ Observe(r) \/ SlidingRate(r) \/ InflightLimit(r)
  \/ FilterFails(r) \/ RespondError(r)
  \/ SinglePeer(r) \/ PathPeer(r) \/ NoUpstreamAvailable(r) \/ BackupPeer(r) \/ HashPeer(r)
  \/ SessionPeer(r) \/ AlternatePeer(r)
  \/ \E s \in Servers : RoundRobinPeer(r, s)
  \/ \E reused \in BOOLEAN : Connect(r, reused)
  \/ ConnectFails(r) \/ ReadTimesOut(r) \/ Retry(r) \/ InspectPiece(r)
  \/ \E n \in 1..MaxBodySize : BodyPiece(r, n)
  \/ BodyEnds(r) \/ Respond(r) \/ Logging(r)

Next ==
  \/ ClusterNext /\ UNCHANGED proxyVars
  \/ \E r \in Requests : \/ \E c \in Clients \cup {None}, h \in Headers : Arrive(r, c, h)
                         \/ Callback(r)
  \/ NextWindow

Spec     == Init /\ [][Next]_vars
FairSpec == Spec /\ ClusterFairness
----------------------------------------------------------------------------
BufferType == buffer \in [Requests -> Seq(Text)]

\* The types of the cluster, the requests and what they share.
TypeOK ==
  /\ ClusterTypeOK
  /\ pc \in [Requests -> {"idle", "filter", "rate", "refuse", "peer", "connect",
                          "body", "respond", "end", "done"}]
  /\ client \in [Requests -> Clients \cup {None}]
  /\ header \in [Requests -> Headers \cup {None}]
  /\ verdict \in [Requests -> {0, 401, 403, 404, 413, 429}]
  /\ status \in [Requests -> {0, 200, 400, 401, 403, 404, 413, 429, 500, 502, 504}]
  /\ read \in [Requests -> Nat] /\ sent \in [Requests -> Nat]
  /\ BufferType
  /\ conn \in [Requests -> BOOLEAN] /\ isReused \in [Requests -> BOOLEAN]
  /\ retries \in [Requests -> 0..MaxRetries(lesson)]
  /\ newId \in [Requests -> Nat \cup {None}] /\ cookie \in [Requests -> Nat \cup {None}]
  /\ counter \in Nat /\ logged \in Nat
  /\ count \in [Clients -> Nat] /\ last \in [Clients -> Nat]
  /\ admitted \in [Clients -> Nat]
  /\ guards \in SUBSET Requests
  /\ window \in 0..MaxWindow

Passed(r) == pc[r] \in {"peer", "connect", "body", "respond"}

(***************************************************************************)
(* Rates.  36: no client gets more than MAX_REQ_PER_SEC requests through   *)
(* in a window.  37: a client that made more in one window gets none       *)
(* through in the next, also when the window ends between its observe and  *)
(* its rate.  That is all 37 promises: rate() tells the last window alone  *)
(* and bounds nothing within this one, where the guide describes an        *)
(* average over the two.                                                   *)
(***************************************************************************)
RateHolds ==
  /\ lesson = 36 => \A c \in Clients : admitted[c] <= MaxReqPerSec
  /\ lesson = 37 => \A c \in Clients : last[c] > MaxReqPerSec => admitted[c] = 0

(***************************************************************************)
(* Concurrency (38): no more than MAX_CONCURRENT_REQ requests are past the *)
(* filter at a time, also when requests fail, are refused or leave while   *)
(* others count.                                                           *)
(***************************************************************************)
InflightHolds ==
  lesson = 38 => Cardinality({r \in Requests : Passed(r)}) <= MaxConcurrent

(***************************************************************************)
(* Bodies.  40: less than MAX_BODY_SIZE bytes go to the server, whatever   *)
(* was declared (a body of just that size is refused as well, where the    *)
(* guide's listing has >).  12: no attempt sends the forbidden word,       *)
(* however the body is cut into pieces and whatever the buffer holds from  *)
(* an attempt before.                                                      *)
(***************************************************************************)
BodiesHold ==
  /\ lesson = 40 => \A r \in Requests : sent[r] < MaxBodySize
  /\ lesson = 12 => \A r \in Requests : \A i \in 1..sent[r] - 1 : ~Forbidden(header[r], i)

(***************************************************************************)
(* What a request hands out is about the attempt that served it, also when *)
(* it started over: its cookie names the session whose hash selected its   *)
(* server, no two requests are given the same one (29), and the connection *)
(* it reports as reused is the last one (25).  In lesson 48 each request   *)
(* that ended is counted, whatever came of it.                             *)
(***************************************************************************)
LastAttempt ==
  /\ \A r \in Requests : cookie[r] # None =>
       /\ pc[r] = "end" => peer[r] = Owner(cookie[r]) /\ header[r] = None
       /\ \A q \in Requests \ {r} : cookie[q] # cookie[r]
  /\ lesson = 25 => isReused = conn
  /\ lesson = 48 => logged = Cardinality({r \in Requests : pc[r] = "done"})
============================================================================
