------------------------------ MODULE Gateway ------------------------------
(***************************************************************************)
(* PingoraGateway: the ProxyHttp implementation of gateway.rs, driven by   *)
(* Pingora's request loop.  Every request is a task of its own and walks   *)
(* through the callbacks                                                   *)
(*                                                                         *)
(*   new_ctx, early_request_filter, request_filter, upstream_peer,         *)
(*   connected_to_upstream, upstream_request_filter, then, interleaved,    *)
(*   request_body_filter and upstream_response_filter, response_filter,    *)
(*   response_body_filter, and last fail_to_proxy (on errors) and logging. *)
(*                                                                         *)
(* Tasks share the router (immutable, so its answer is part of a request's *)
(* input), the upstream pools and the Prometheus registry.                 *)
(*                                                                         *)
(* Pingora itself is external: it is modelled by the order of the          *)
(* callbacks, by Connect, Complete, UpstreamError and DownstreamError, and *)
(* by a session that ignores a second final response header.               *)
(***************************************************************************)
EXTENDS Middlewares, FiniteSets

CONSTANTS
  Requests,        \* downstream requests
  Inputs,          \* what a request may bring: see InputsAssumption
  Entries,         \* the RouteEntry values of the router's registry
  Clients,         \* inet addresses of clients
  Upstreams,       \* keys of Gateway.upstreams
  Pools,           \* those that are load balanced; the others are static:
  Hosts,           \* given by a host name, or by an address or a socket's path
  Sni,             \* upstream -> the SNI its select_peer stores in RequestMeta
  FiledAs,         \* TypeId under which request_filter files route.conf
  ClientHeaders,   \* header names of a client's request
  ReplyHeaders,    \* header names of an upstream's response
  Malformed,       \* configured headers and SNIs that insert_header refuses
  MaxBody,         \* bound: longest request body
  RetryBuffer,     \* bytes Pingora buffers for a retry
  MaxRetries       \* Pingora's max_retries

\* request_filter clones an Arc<RouteConf>, so the code files "ArcRouteConf";
\* "RouteConf" is what every reader of the context asks for.
TypeIds == {"RequestMeta", "RouteEntry", "RouteConf", "ArcRouteConf",
            "RequestSizeState"}

ErrorTypes == {"ConnectRefused", "ConnectNoRoute", "BindError",
               "ConnectTimedout", "ReadTimedout", "ConnectionClosed",
               "WriteError", "Custom"}

Statuses == {0, 200, 403, 404, 413, PluginStatus, 500, 502, 504}

ASSUME RequestsAssumption == IsFiniteSet(Requests)

ASSUME EntriesAssumption ==
  /\ None \notin Entries
  /\ None \notin Clients
  /\ None \notin Upstreams
  /\ Pools \subseteq Upstreams /\ Hosts \subseteq Upstreams \ Pools
  /\ \A e \in Entries :
       /\ e.upstream # None
       /\ e.deny \subseteq Clients /\ e.allow \subseteq Clients
       /\ e.pages \subseteq Statuses
       /\ e.preserve \in BOOLEAN

\* select_peer stores a String.
ASSUME SniAssumption == \A u \in Upstreams : Sni[u] # None

\* What Pingora has parsed is well-formed; so is the name of Host.
ASSUME HeaderAssumption ==
  (ClientHeaders \cup {"Host", "client", "route", None}) \cap Malformed = {}

\* entry is what Router::match_request answers for the request's path and
\* host; declared tells whether the body length is announced.
ASSUME InputsAssumption ==
  Inputs \subseteq [entry : Entries \cup {None}, client : Clients \cup {None},
                    body : 0..MaxBody, declared : BOOLEAN]

ASSUME BoundsAssumption ==
  /\ FiledAs \in {"RouteConf", "ArcRouteConf"}
  /\ MaxBody \in Nat
  /\ RetryBuffer \in Nat
  /\ MaxRetries \in Nat \ {0}

VARIABLES
  \* the task of a request
  pc,         \* the callback that runs next
  req,        \* the request's input
  err,        \* the error the task carries to fail_to_proxy
  conn,       \* its exchange with the upstream
  \* its GatewayContext
  filed,      \* the TypeIds that have a value
  meta,       \* RequestMeta: matched_route_id, upstream_id, sni
  bytes,      \* RequestSizeState.bytes_read
  \* its downstream session
  status,     \* the final response header written to the client, 0 for none
  page,       \* what became of a custom error page
  lost,       \* a write to the client failed
  \* header edits
  head,       \* the request header sent upstream: name -> origin of its value
  reply,      \* names in the response header
  \* history
  halted,     \* some middleware has returned Stop
  \* shared
  ready,      \* upstream -> select() finds a backend, its name resolves, its
              \* path is that of a socket
  reqMetric   \* http_requests_total: labels -> count

task    == <<pc, req, err, conn>>
context == <<filed, meta, bytes>>
session == <<status, page, lost>>
headers == <<head, reply>>
shared  == <<ready, reqMetric>>
vars    == <<task, context, session, headers, halted, shared>>

Phases == {"idle", "early_request_filter", "request_filter", "upstream_peer",
           "connect", "connected_to_upstream", "upstream_request_filter",
           "proxy", "fail_to_proxy", "logging", "done", "panicked", "crashed"}

\* The phases that work on an upstream exchange.
Forwarding == {"connect", "connected_to_upstream", "upstream_request_filter",
               "proxy"}

NoMeta == [route |-> None, upstream |-> None, sni |-> None]
NoConn == [attempts |-> 0, reused |-> FALSE, upload |-> "open", left |-> 0,
           replay |-> 0, sent |-> 0, down |-> "wait"]

Go(r, phase)  == pc' = [pc EXCEPT ![r] = phase]
Fail(r, e)    == Go(r, "fail_to_proxy") /\ err' = [err EXCEPT ![r] = e]
Panic(r)      == Go(r, "panicked") /\ UNCHANGED err

\* Session::respond_error and write_response_header: the first final header
\* goes out or the write fails; with a header out already both return Ok.
Respond(r, code) ==
  IF status[r] # 0 THEN {[status |-> status[r], ok |-> TRUE]}
  ELSE {[status |-> code, ok |-> TRUE], [status |-> 0, ok |-> FALSE]}

Wrote(r, w) ==
  /\ status' = [status EXCEPT ![r] = w.status]
  /\ lost' = [lost EXCEPT ![r] = @ \/ ~w.ok]

\* What pass p of the chain leaves in the session: some answer s, the first
\* one written counts.
Passed(r, p, s) ==
  /\ s \in Answers(p)
  /\ status' = [status EXCEPT ![r] = IF @ = 0 THEN s ELSE @]
  /\ lost' = [lost EXCEPT ![r] = @ \/ AnswerLost(p)]
  /\ halted' = [halted EXCEPT ![r] = @ \/ p.res = "Stop"]

Pass(r, hook, chunk) == Passes(hook, req[r], bytes[r], chunk, status[r] # 0)

Init ==
  /\ pc = [r \in Requests |-> "idle"]
  /\ req = [r \in Requests |-> None]
  /\ err = [r \in Requests |-> None]
  /\ conn = [r \in Requests |-> NoConn]
  /\ filed = [r \in Requests |-> {}]
  /\ meta = [r \in Requests |-> NoMeta]
  /\ bytes = [r \in Requests |-> 0]
  /\ status = [r \in Requests |-> 0]
  /\ page = [r \in Requests |-> None]
  /\ lost = [r \in Requests |-> FALSE]
  /\ head = [r \in Requests |-> <<>>]
  /\ reply = [r \in Requests |-> {}]
  /\ halted = [r \in Requests |-> FALSE]
  /\ ready \in [Upstreams -> BOOLEAN] /\ \A u \in Pools : ~ready[u]
  /\ reqMetric = [l \in {} |-> 0]

----------------------------------------------------------------------------
\* A request arrives: new_ctx files a default RequestMeta.
NewCtx(r) ==
  /\ pc[r] = "idle"
  /\ \E q \in Inputs :
       /\ req' = [req EXCEPT ![r] = q]
       /\ conn' = [conn EXCEPT ![r].left = q.body]
  /\ Go(r, "early_request_filter")
  /\ filed' = [filed EXCEPT ![r] = {"RequestMeta"}]
  /\ UNCHANGED <<err, meta, bytes, session, headers, halted, shared>>

\* A Stop only leaves the loop: the callback returns Ok(()) all the same.
EarlyRequestFilter(r) ==
  /\ pc[r] = "early_request_filter"
  /\ \E p \in Pass(r, "early_request", 0), s \in Statuses :
       /\ Passed(r, p, s)
       /\ IF p.res = "Err" THEN Fail(r, "Custom")
          ELSE Go(r, "request_filter") /\ UNCHANGED err
  /\ UNCHANGED <<req, conn, context, page, headers, shared>>

\* request_filter without a matching route: 404 and Ok(true).
RespondNotFound(r) ==
  /\ \E w \in Respond(r, 404) :
       /\ Wrote(r, w)
       /\ IF w.ok THEN Go(r, "logging") /\ UNCHANGED err
          ELSE Fail(r, "WriteError")
  /\ UNCHANGED <<context, halted>>

\* (Mutant: the counter is filed only for announced bodies.)
MutantCounterIfDeclared(q, p) ==
  {"RouteEntry", FiledAs} \cup
  IF Called("request_size", "request", p) /\ q.declared
  THEN {"RequestSizeState"} ELSE {}

\* What request_filter has filed when the chain has ended with pass p: the
\* entry, its configuration and, when request_size was called, its counter.
FiledByFilter(q, p) ==
  {"RouteEntry", FiledAs} \cup
  IF Called("request_size", "request", p) THEN {"RequestSizeState"} ELSE {}

\* (Mutant: a Stop only leaves the loop, as in early_request_filter.)
MutantStopContinues(p) ==
  IF p.res = "Err" THEN "fail_to_proxy" ELSE "upstream_peer"

\* Where the pass leads: a Stop is Ok(true), the request is finished.
AfterRequestChain(p) ==
  CASE p.res = "Err"  -> "fail_to_proxy"
    [] p.res = "Stop" -> "logging"
    [] OTHER          -> "upstream_peer"

\* request_filter with a route: its ids go into RequestMeta, then the chain
\* runs; request_size starts its counter when it is called.
RunRequestChain(r) ==
  \E p \in Pass(r, "request", 0), s \in Statuses :
    /\ Passed(r, p, s)
    /\ meta' = [meta EXCEPT ![r].route = req[r].entry.route,
                            ![r].upstream = req[r].entry.upstream]
    /\ filed' = [filed EXCEPT ![r] = @ \cup FiledByFilter(req[r], p)]
    /\ bytes' = [bytes EXCEPT ![r] =
                   IF Called("request_size", "request", p) THEN 0 ELSE @]
    /\ Go(r, AfterRequestChain(p))
    /\ err' = [err EXCEPT ![r] = IF p.res = "Err" THEN "Custom" ELSE @]

RequestFilter(r) ==
  /\ pc[r] = "request_filter"
  /\ IF "RequestMeta" \notin filed[r]
     THEN Panic(r) /\ UNCHANGED <<context, status, lost, halted>>
     ELSE IF req[r].entry = None THEN RespondNotFound(r)
     ELSE RunRequestChain(r)
  /\ UNCHANGED <<req, conn, page, headers, shared>>

\* (Mutant: the request waits for its upstream to be configured.)
MutantAwaitUpstream(r) ==
  Go(r, "upstream_peer") /\ UNCHANGED <<err, status, lost, meta>>

\* upstream_peer without such an upstream: 500 is sent here, and the error
\* goes to fail_to_proxy all the same.
UpstreamMissing(r) ==
  /\ \E w \in Respond(r, 500) :
       /\ Wrote(r, w)
       /\ Fail(r, IF w.ok THEN "Custom" ELSE "WriteError")
  /\ UNCHANGED meta

\* select_peer: the upstream's SNI is recorded, unless its pool has no backend
\* to offer (UpstreamUnavailable) or its path is no socket's, both errors of the
\* Custom kind, or its name does not resolve, which HttpPeer::new unwraps.
SelectPeer(r) ==
  /\ IF ready[meta[r].upstream]
     THEN /\ meta' = [meta EXCEPT ![r].sni = Sni[meta[r].upstream]]
          /\ Go(r, "connect")
          /\ UNCHANGED err
     ELSE /\ IF meta[r].upstream \in Hosts THEN Go(r, "crashed") /\ UNCHANGED err
             ELSE Fail(r, "Custom")
          /\ UNCHANGED meta
  /\ UNCHANGED <<status, lost>>

UpstreamPeer(r) ==
  /\ pc[r] = "upstream_peer"
  /\ IF "RequestMeta" \notin filed[r]
     THEN Panic(r) /\ UNCHANGED <<meta, status, lost>>
     ELSE IF meta[r].upstream \notin Upstreams THEN UpstreamMissing(r)
     ELSE SelectPeer(r)
  /\ UNCHANGED <<req, conn, filed, bytes, page, headers, halted, shared>>

\* Pingora connects, on a pooled connection or a fresh one, or fails; a failed
\* connection is not retried.
Connect(r) ==
  /\ pc[r] = "connect"
  /\ \/ \E reused \in BOOLEAN :
          /\ conn' = [conn EXCEPT ![r].reused = reused,
                                  ![r].attempts = @ + 1]
          /\ Go(r, "connected_to_upstream")
          /\ UNCHANGED err
     \/ \E e \in {"ConnectRefused", "ConnectNoRoute", "BindError",
                  "ConnectTimedout"} : Fail(r, e) /\ UNCHANGED conn
  /\ UNCHANGED <<req, context, session, headers, halted, shared>>

ConnectedToUpstream(r) ==
  /\ pc[r] = "connected_to_upstream"
  /\ \E p \in Pass(r, "upstream_connected", 0), s \in Statuses :
       /\ Passed(r, p, s)
       /\ IF p.res = "Continue"
          THEN Go(r, "upstream_request_filter") /\ UNCHANGED err
          ELSE Fail(r, "Custom")
  /\ UNCHANGED <<req, conn, context, page, headers, shared>>

\* Header maps: insert_header for all of S, remove_header for all of S.
InsertHeaders(h, S, value) ==
  [n \in DOMAIN h \cup S |-> IF n \in S THEN value ELSE h[n]]
RemoveHeaders(h, S) == [n \in DOMAIN h \ S |-> h[n]]

\* (Mutant: removals before additions.)
MutantRemoveFirst(e, sni) ==
  LET client == [n \in ClientHeaders |-> "client"]
      edited == InsertHeaders(RemoveHeaders(client, e.removeReq),
                              e.addReq, "route")
  IN  IF e.preserve \/ sni = None THEN edited
      ELSE InsertHeaders(edited, {"Host"}, sni)

\* The header sent upstream: the route's additions, then its removals, then
\* the Host of the selected upstream unless the client's is preserved.
UpstreamHeader(e, sni) ==
  LET client == [n \in ClientHeaders |-> "client"]
      edited == RemoveHeaders(InsertHeaders(client, e.addReq, "route"),
                              e.removeReq)
  IN  IF e.preserve \/ sni = None THEN edited
      ELSE InsertHeaders(edited, {"Host"}, sni)

\* insert_header refuses one of the route's additions or the Host.
HeaderRefused(e, sni) ==
  e.addReq \cap Malformed # {} \/ (~e.preserve /\ sni \in Malformed)

UpstreamRequestFilter(r) ==
  /\ pc[r] = "upstream_request_filter"
  /\ \E p \in Pass(r, "upstream_request", 0), s \in Statuses :
       /\ Passed(r, p, s)
       /\ IF p.res # "Continue" THEN Fail(r, "Custom") /\ UNCHANGED head
          ELSE IF ~({"RouteConf", "RequestMeta"} \subseteq filed[r])
          THEN Panic(r) /\ UNCHANGED head
          ELSE IF HeaderRefused(req[r].entry, meta[r].sni)
          THEN Fail(r, "Custom") /\ UNCHANGED head
          ELSE /\ head' = [head EXCEPT ![r] =
                             UpstreamHeader(req[r].entry, meta[r].sni)]
               /\ Go(r, "proxy")
               /\ UNCHANGED err
  /\ UNCHANGED <<req, conn, context, page, reply, shared>>

----------------------------------------------------------------------------
\* The next piece of the body: after a retry the buffered bytes come back as
\* one piece, then the client's; 0 is the one call made for an empty body.
NextPiece(c) ==
  IF c.replay > 0 THEN {c.replay} ELSE IF c.left > 0 THEN 1..c.left ELSE {0}

\* (Mutant: replayed bytes are taken off what the client has left to send.)
MutantReplayTwice(c, n) ==
  LET left == c.left - n
  IN  [c EXCEPT !.left = left, !.replay = 0, !.sent = @ + n,
                !.upload = IF left = 0 THEN "done" ELSE "open"]

\* A piece goes upstream; the upload is over with the last one.
Consume(c, n) ==
  LET left == IF c.replay > 0 THEN c.left ELSE c.left - n
  IN  [c EXCEPT !.left = left, !.replay = 0, !.sent = @ + n,
                !.upload = IF left = 0 THEN "done" ELSE "open"]

\* request_size counts every piece it is shown and panics without its state;
\* a rejected piece is not sent to the upstream.
RequestBodyFilter(r) ==
  /\ pc[r] = "proxy"
  /\ conn[r].upload = "open"
  /\ \E n \in NextPiece(conn[r]) :
       \E p \in Pass(r, "request_body", n), s \in Statuses :
         LET counts == Called("request_size", "request_body", p) IN
         IF counts /\ "RequestSizeState" \notin filed[r]
         THEN s = 0 /\ Panic(r) /\ UNCHANGED <<bytes, conn, session, halted>>
         ELSE /\ Passed(r, p, s)
              /\ bytes' = [bytes EXCEPT ![r] = IF counts THEN @ + n ELSE @]
              /\ IF p.res = "Continue"
                 THEN /\ conn' = [conn EXCEPT ![r] = Consume(@, n)]
                      /\ UNCHANGED <<pc, err>>
                 ELSE Fail(r, "Custom") /\ UNCHANGED conn
              /\ UNCHANGED page
  /\ UNCHANGED <<req, filed, meta, headers, shared>>

UpstreamResponseFilter(r) ==
  /\ pc[r] = "proxy"
  /\ conn[r].down = "wait"
  /\ \E p \in Pass(r, "upstream_response", 0), s \in Statuses :
       /\ Passed(r, p, s)
       /\ IF p.res # "Continue" THEN Fail(r, "Custom") /\ UNCHANGED <<conn, reply>>
          ELSE IF "RouteConf" \in filed[r]
          THEN /\ reply' = [reply EXCEPT ![r] =
                              ReplyHeaders \ req[r].entry.removeResp]
               /\ conn' = [conn EXCEPT ![r].down = "header"]
               /\ UNCHANGED <<pc, err>>
          ELSE Panic(r) /\ UNCHANGED <<conn, reply>>
  /\ UNCHANGED <<req, context, page, head, shared>>

\* The filter adds the route's headers, unless insert_header refuses one;
\* Pingora then writes the header.
ResponseFilter(r) ==
  /\ pc[r] = "proxy"
  /\ conn[r].down = "header"
  /\ \E p \in Pass(r, "response", 0), s \in Statuses :
       IF /\ p.res = "Continue" /\ "RouteConf" \in filed[r]
          /\ req[r].entry.addResp \cap Malformed = {}
       THEN /\ s = 0
            /\ reply' = [reply EXCEPT ![r] = @ \cup req[r].entry.addResp]
            /\ \E w \in Respond(r, 200) :
                 /\ Wrote(r, w)
                 /\ IF w.ok THEN /\ conn' = [conn EXCEPT ![r].down = "body"]
                                 /\ UNCHANGED <<pc, err>>
                    ELSE Fail(r, "WriteError") /\ UNCHANGED conn
            /\ UNCHANGED halted
       ELSE /\ Passed(r, p, s)
            /\ IF p.res = "Continue" /\ "RouteConf" \notin filed[r]
               THEN Panic(r) ELSE Fail(r, "Custom")
            /\ UNCHANGED <<conn, reply>>
  /\ UNCHANGED <<req, context, page, head, shared>>

\* The last body piece of the response; the write may fail.
ResponseBodyFilter(r) ==
  /\ pc[r] = "proxy"
  /\ conn[r].down = "body"
  /\ \E p \in Pass(r, "response_body", 0), s \in Statuses, ok \in BOOLEAN :
       /\ Passed(r, p, s)
       /\ IF p.res = "Continue" /\ ok
          THEN conn' = [conn EXCEPT ![r].down = "done"] /\ UNCHANGED <<pc, err>>
          ELSE /\ Fail(r, IF p.res = "Continue" THEN "WriteError" ELSE "Custom")
               /\ UNCHANGED conn
  /\ UNCHANGED <<req, context, page, headers, shared>>

\* Both directions are finished.
Complete(r) ==
  /\ pc[r] = "proxy"
  /\ conn[r].upload = "done" /\ conn[r].down = "done"
  /\ Go(r, "logging")
  /\ UNCHANGED <<req, err, conn, context, session, headers, halted, shared>>

\* The upstream times out or hangs up.  Pingora starts over with upstream_peer
\* when a reused connection closes before the response and the body read so
\* far is still buffered.
Received(r) == req[r].body - conn[r].left
MayRetry(r) ==
  /\ conn[r].reused /\ conn[r].down = "wait"
  /\ Received(r) <= RetryBuffer
  /\ conn[r].attempts < MaxRetries

UpstreamError(r) ==
  /\ pc[r] = "proxy"
  /\ conn[r].down # "done"
  /\ \E e \in {"ReadTimedout", "ConnectionClosed"} :
       IF e = "ConnectionClosed" /\ MayRetry(r)
       THEN /\ Go(r, "upstream_peer")
            /\ conn' = [conn EXCEPT ![r].replay = Received(r),
                                    ![r].upload = "open", ![r].sent = 0]
            /\ UNCHANGED err
       ELSE Fail(r, e) /\ UNCHANGED conn
  /\ UNCHANGED <<req, context, session, headers, halted, shared>>

\* The client hangs up, or is silent for too long, while its body is being read.
DownstreamError(r) ==
  /\ pc[r] = "proxy"
  /\ conn[r].upload = "open" /\ conn[r].left > 0
  /\ \E e \in {"ConnectionClosed", "ReadTimedout"} : Fail(r, e)
  /\ UNCHANGED <<req, conn, context, session, headers, halted, shared>>

----------------------------------------------------------------------------
\* (Mutant: a connection that was closed counts as a bad gateway.)
MutantClosedIs502(e) ==
  CASE e \in {"ConnectRefused", "ConnectNoRoute", "BindError",
              "ConnectionClosed"}                -> 502
    [] e \in {"ReadTimedout", "ConnectTimedout"} -> 504
    [] OTHER                                     -> 500

\* fail_to_proxy's status for an error, which does not tell whether it was the
\* client's or the upstream's.
StatusOf(e) ==
  CASE e \in {"ConnectRefused", "ConnectNoRoute", "BindError"} -> 502
    [] e \in {"ReadTimedout", "ConnectTimedout"}               -> 504
    [] OTHER                                                   -> 500

\* A Stop of handle_error ends the callback without an answer.  Otherwise the
\* route's error page for the code is served if it can be read and its header
\* written, or else a bare error.  With a header out already, writing the
\* page's header "succeeds" and the page lands in the body of that response.
FailToProxy(r) ==
  /\ pc[r] = "fail_to_proxy"
  /\ \E p \in Pass(r, "error", 0), s \in Statuses :
       IF p.res = "Stop" THEN Passed(r, p, s) /\ UNCHANGED page
       ELSE LET code == StatusOf(err[r]) IN
            /\ s = 0
            /\ \/ /\ "RouteConf" \in filed[r]
                  /\ code \in req[r].entry.pages
                  /\ page' = [page EXCEPT ![r] =
                                IF status[r] = 0 THEN "served" ELSE "spliced"]
                  /\ Wrote(r, [status |-> IF status[r] = 0 THEN code
                                          ELSE status[r], ok |-> TRUE])
               \/ /\ \E w \in Respond(r, code) : Wrote(r, w)
                  /\ UNCHANGED page
            /\ UNCHANGED halted
  /\ Go(r, "logging")
  /\ UNCHANGED <<req, err, conn, context, headers, shared>>

\* The labels MetricsMiddleware::handle_logging reads off the request.
OrUnknown(x) == IF x = None THEN "unknown" ELSE x
Labels(r) == [path |-> OrUnknown(meta[r].route), status |-> status[r],
              upstream |-> OrUnknown(meta[r].upstream)]

\* (Mutant: creating a label set swallows its first count.)
MutantFirstLost(m, l) ==
  [k \in DOMAIN m \cup {l} |->
     IF k \in DOMAIN m THEN m[k] + (IF k = l THEN 1 ELSE 0) ELSE 0]

\* with_label_values(l).inc(): a label set starts to exist with its first use.
Inc(m, l) ==
  [k \in DOMAIN m \cup {l} |->
     (IF k \in DOMAIN m THEN m[k] ELSE 0) + (IF k = l THEN 1 ELSE 0)]

Logging(r) ==
  /\ pc[r] = "logging"
  /\ \E p \in Pass(r, "logging", 0) :
       /\ reqMetric' = IF Called("metrics", "logging", p)
                          /\ "RequestMeta" \in filed[r]
                       THEN Inc(reqMetric, Labels(r)) ELSE reqMetric
       /\ halted' = [halted EXCEPT ![r] = @ \/ p.res = "Stop"]
  /\ Go(r, "done")
  /\ UNCHANGED <<req, err, conn, context, session, headers, ready>>

\* A pool gains its first usable backend or loses its last one (the load
\* balancer's background task); a name begins or ceases to resolve.
ReadyChanges(u) ==
  /\ ready' = [ready EXCEPT ![u] = ~@]
  /\ UNCHANGED <<task, context, session, headers, halted, reqMetric>>

Step(r) ==
  \/ EarlyRequestFilter(r) \/ RequestFilter(r) \/ UpstreamPeer(r) \/ Connect(r)
  \/ ConnectedToUpstream(r) \/ UpstreamRequestFilter(r)
  \/ RequestBodyFilter(r) \/ UpstreamResponseFilter(r) \/ ResponseFilter(r)
  \/ ResponseBodyFilter(r) \/ Complete(r) \/ UpstreamError(r)
  \/ DownstreamError(r) \/ FailToProxy(r) \/ Logging(r)

Next ==
  \/ \E r \in Requests : NewCtx(r) \/ Step(r)
  \/ \E u \in Pools \cup Hosts : ReadyChanges(u)

Spec == Init /\ [][Next]_vars

\* Every await of a task ends: peers carry connect, read and write timeouts,
\* and Pingora times out the client's reads.
FairSpec == Spec /\ \A r \in Requests : WF_vars(Step(r))
----------------------------------------------------------------------------
RouteIds    == {e.route : e \in Entries} \cup {None}
UpstreamIds == {e.upstream : e \in Entries} \cup {None}
SniValues   == {Sni[u] : u \in Upstreams} \cup {None}
MetaStates  == [route : RouteIds, upstream : UpstreamIds, sni : SniValues]

UploadStates == {"open", "done"}
DownStates   == {"wait", "header", "body", "done"}
ConnStates ==
  [attempts : Nat, reused : BOOLEAN, upload : UploadStates,
   left : Nat, replay : Nat, sent : Nat, down : DownStates]

\* The types of all the state of gateway.rs's tasks, contexts and sessions.
TypeOK ==
  /\ pc \in [Requests -> Phases]
  /\ req \in [Requests -> Inputs \cup {None}]
  /\ err \in [Requests -> ErrorTypes \cup {None}]
  /\ conn \in [Requests -> ConnStates]
  /\ filed \in [Requests -> SUBSET TypeIds]
  /\ meta \in [Requests -> MetaStates]
  /\ bytes \in [Requests -> Nat]
  /\ status \in [Requests -> Statuses]
  /\ page \in [Requests -> {None, "served", "spliced"}]
  /\ lost \in [Requests -> BOOLEAN]
  /\ halted \in [Requests -> BOOLEAN]
  /\ ready \in [Upstreams -> BOOLEAN]

\* Every finished request is counted exactly once, under the route, status and
\* upstream it ended with, however the tasks interleave: http_requests_total
\* of a label set is the number of requests that finished with it
\* (logging, MetricsMiddleware::handle_logging).
Finished(l) == {r \in Requests : pc[r] = "done" /\ Labels(r) = l}
Count(l) == IF l \in DOMAIN reqMetric THEN reqMetric[l] ELSE 0
MetricsExact ==
  \A l \in DOMAIN reqMetric \cup {Labels(r) : r \in Requests} :
    Count(l) = Cardinality(Finished(l))

\* No task dies in an expect() of gateway.rs or a middleware: whatever the chain
\* decides, the values a callback takes for granted have been filed in the
\* context by an earlier one.
NoPanic == \A r \in Requests : pc[r] # "panicked"

\* A request goes to an upstream only if its route's lists admit the client:
\* not denied, and allowed where there is an allow list (IpRestriction runs
\* before upstream_peer, on every path that reaches it).
Admitted(e, client) ==
  client = None \/ (client \notin e.deny /\ (e.allow = {} \/ client \in e.allow))
AclRespected ==
  \A r \in Requests :
    pc[r] \in Forwarding \/ conn[r].attempts > 0
      => req[r].entry # None /\ Admitted(req[r].entry, req[r].client)

\* An upstream never receives max_bytes of body or more in an attempt, with the
\* body in any number of pieces, announced or not, replayed or not.
BodyWithinLimit ==
  \A r \in Requests : conn[r].sent = 0 \/ conn[r].sent < MaxBytes

\* 413 is for bodies that are too large: longer than the limit when no upstream
\* was asked, and at least the limit when the body was counted as it came, in
\* as many attempts as there were.  (The counter is not reset for a retry:
\* replayed bytes count again.  gateway_full.yaml speaks of uploads larger than
\* the limit, but one of just the limit is rejected, too, when it is counted.)
SizeRejectionJustified ==
  \A r \in Requests : status[r] = 413 =>
    IF conn[r].attempts = 0 THEN req[r].body > MaxBytes
    ELSE conn[r].attempts * req[r].body >= MaxBytes

\* A finished request has been answered, on every error path too, unless the
\* client could not be written to.
Answered ==
  \A r \in Requests : pc[r] = "done" => status[r] # 0 \/ lost[r]

\* The status the client sees has its cause in what happened to the request,
\* also when fail_to_proxy answers after somebody else did: 404 and 403 are the
\* router's and the lists', 200 comes from an upstream that was reached, 502
\* says that the last attempt reached none, and 504, which the client's silence
\* brings about as well as the upstream's, that no response had begun.
StatusTruthful ==
  \A r \in Requests :
    /\ status[r] = 404 => req[r].entry = None
    /\ status[r] = 403 => ~Admitted(req[r].entry, req[r].client)
    /\ status[r] = 200 => conn[r].attempts > 0
    /\ status[r] = 502 => conn[r].sent = 0 /\ conn[r].down = "wait"
    /\ status[r] = 504 => conn[r].down \in {"wait", "header"}

\* Why an answer may be out before an error page is.
Reason(r) ==
  \/ status[r] = 200 /\ conn[r].down \in {"body", "done"}
  \/ status[r] \in {413, PluginStatus} /\ halted[r]
  \/ status[r] = 500 /\ meta[r].upstream \notin Upstreams

\* An error page goes to the client as the answer to its own error, or it lands
\* in the body of an answer that was out before: an upstream's response that
\* broke off, a Stop's answer, or the 500 of an upstream that is not
\* configured, and never behind a 403 or a 404, which end the request
\* (fail_to_proxy writes it whatever was sent).
PageFits ==
  \A r \in Requests : page[r] # None =>
    /\ StatusOf(err[r]) \in req[r].entry.pages
    /\ page[r] = "served" => status[r] = StatusOf(err[r])
    /\ page[r] = "spliced" => Reason(r)

\* What the route's header rules promise holds for every attempt and response:
\* removed request headers do not reach the upstream (Host apart, which is
\* rewritten last), Host is the selected upstream's, added response headers
\* reach the client, and removed ones only if they were added back; a request
\* whose header could not be edited as configured is not forwarded at all.
HeadersApplied ==
  \A r \in Requests : pc[r] = "proxy" =>
    LET e == req[r].entry IN
    /\ DOMAIN head[r] \cap e.removeReq \subseteq {"Host"}
    /\ ~e.preserve => head[r]["Host"] = Sni[e.upstream]
    /\ \A n \in DOMAIN head[r] : n \notin Malformed /\ head[r][n] \notin Malformed
    /\ conn[r].down \in {"body", "done"} =>
         e.addResp \subseteq reply[r]
         /\ reply[r] \cap e.removeResp \subseteq e.addResp

\* A middleware's Stop halts the pipeline: the request goes no further towards
\* an upstream.
StopHalts ==
  \A r \in Requests :
    halted[r] => pc[r] \notin Forwarding \cup {"request_filter", "upstream_peer"}

\* The same for every hook but handle_early_request: once a request is past
\* request_filter, a Stop is final.
StopHaltsAfterRouting ==
  [][\A r \in Requests :
       halted'[r] /\ ~halted[r] /\ pc[r] # "early_request_filter"
         => pc'[r] \in {"fail_to_proxy", "logging", "done"}]_vars

\* Every request is finished, with an answer or by a panic of the gateway's or
\* of HttpPeer::new: no sequence of upstream failures, retries and slow bodies
\* keeps a task going for ever.
Terminates ==
  \A r \in Requests :
    pc[r] = "early_request_filter" ~> pc[r] \in {"done", "panicked", "crashed"}
=============================================================================
