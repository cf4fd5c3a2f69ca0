---------------------------- MODULE AnswerProofs ----------------------------
(***************************************************************************)
(* Proofs about what a client and an upstream get to see of Gateway: that  *)
(* there is an answer, that its status has its cause, that the header      *)
(* rules of the route are applied and a Stop is final.                     *)
(***************************************************************************)
EXTENDS GatewayProofs

USE DEF Go, Fail, Panic, Wrote, Passed, task, context, session, headers, shared

\* Everything a request has of its own.
Own(r) == <<pc[r], req[r], err[r], conn[r], meta[r], bytes[r], status[r],
            lost[r], head[r], reply[r], page[r], halted[r]>>

\* The header maps have an entry for every request.
HeaderMaps == DOMAIN head = Requests /\ DOMAIN reply = Requests

LEMMA OthersKept ==
  ASSUME TypeInv, HeaderMaps, NEW r \in Requests, NewCtx(r) \/ Step(r)
  PROVE  HeaderMaps' /\ \A x \in Requests \ {r} : UNCHANGED Own(x)
<1> USE DEF TypeInv, TypeOK, HeaderMaps, Own
<1>1. CASE NewCtx(r)
  BY <1>1 DEF NewCtx
<1>2. CASE EarlyRequestFilter(r)
  BY <1>2 DEF EarlyRequestFilter
<1>3. CASE RequestFilter(r)
  BY <1>3 DEF RequestFilter, RespondNotFound, RunRequestChain
<1>4. CASE UpstreamPeer(r)
  BY <1>4 DEF UpstreamPeer, UpstreamMissing, SelectPeer
<1>5. CASE Connect(r)
  BY <1>5 DEF Connect
<1>6. CASE ConnectedToUpstream(r)
  BY <1>6 DEF ConnectedToUpstream
<1>7. CASE UpstreamRequestFilter(r)
  BY <1>7 DEF UpstreamRequestFilter
<1>8. CASE RequestBodyFilter(r)
  BY <1>8 DEF RequestBodyFilter
<1>9. CASE UpstreamResponseFilter(r)
  BY <1>9 DEF UpstreamResponseFilter
<1>10. CASE ResponseFilter(r)
  BY <1>10 DEF ResponseFilter
<1>11. CASE ResponseBodyFilter(r)
  BY <1>11 DEF ResponseBodyFilter
<1>12. CASE Complete(r) \/ UpstreamError(r) \/ DownstreamError(r) \/ Logging(r)
  BY <1>12 DEF Complete, UpstreamError, DownstreamError, Logging
<1>13. CASE FailToProxy(r)
  BY <1>13 DEF FailToProxy
<1> QED
  BY <1>1, <1>2, <1>3, <1>4, <1>5, <1>6, <1>7, <1>8, <1>9, <1>10, <1>11, <1>12,
     <1>13 DEF Step

----------------------------------------------------------------------------
(* The cause of an answer.                                                 *)

\* The answers a pass may leave: a middleware that rejects had its reason, and
\* without a plugin that stops, a Stop comes with an answer.
LEMMA PassAnswers ==
  ASSUME NEW hook, NEW q, NEW n, NEW c, NEW a,
         NEW p \in Passes(hook, q, n, c, a), NEW s \in Answers(p)
  PROVE  /\ s \in {0, 403, 413, PluginStatus}
         /\ s = 403 => hook = "request" /\ IpRestrictionRejects(q.entry, q.client)
         /\ s = 413 => \/ hook = "request" /\ RequestSizeRejectsHeader(q)
                       \/ hook = "request_body" /\ RequestSizeRejectsChunk(n, c)
         /\ p.res = "Stop" /\ "Stop" \notin PluginDecisions[hook] => s # 0
<1>1. CASE p.res # "Stop"
  BY <1>1 DEF Answers, PluginStatus
<1>2. CASE p.res = "Stop"
  <2>1. p.by \in 1..Len(Chain)
    BY <1>2, PassShape
  <2>2. Chain[p.by] \in Shipped \cup {"plugin"}
    BY <2>1, ChainAssumption
  <2> DEFINE m == Chain[p.by]
  <2>3. "Stop" \in Decides(m, hook, q, n, c, a)
    BY <1>2, <2>1 DEF Passes
  <2>4. m # "plugin" => Rejects(m, hook, q, n, c)
    BY <2>3 DEF Decides, Returns
  <2>5. m = "plugin" => "Stop" \in PluginDecisions[hook]
    BY <2>3 DEF Decides, Returns
  <2>6. m \in {"ip_restriction", "request_size", "plugin"}
    BY <2>2, <2>4 DEF Rejects, Shipped
  <2> QED
    BY <1>2, <2>4, <2>5, <2>6 DEF Answers, Rejects, PluginStatus
<1> QED
  BY <1>1, <1>2

\* Why a step writes status code s to a client.
Cause(r, s) ==
  \/ s = 404 /\ req[r].entry = None
  \/ s = 403 /\ IpRestrictionRejects(req[r].entry, req[r].client)
  \/ s = 413 /\ RequestSizeRejectsHeader(req[r])
  \/ s = 413 /\ pc[r] = "proxy"
       /\ \E n \in NextPiece(conn[r]) : RequestSizeRejectsChunk(bytes[r], n)
  \/ s = PluginStatus
  \/ s = 200 /\ pc[r] = "proxy"
  \/ s = 500 /\ pc[r] = "upstream_peer" /\ pc'[r] = "fail_to_proxy"
       /\ err'[r] \in {"Custom", "WriteError"}
  \/ s = StatusOf(err[r]) /\ pc[r] = "fail_to_proxy" /\ pc'[r] = "logging"

\* What a pass in any hook but request_body writes has its cause.
LEMMA PassCause ==
  ASSUME TypeInv, NEW r \in Requests, NEW hook, hook # "request_body",
         NEW p \in Pass(r, hook, 0), NEW s, Passed(r, p, s), status'[r] # status[r]
  PROVE  Cause(r, status'[r])
<1>1. s \in Answers(p) /\ status'[r] = s /\ s # 0
  BY DEF TypeInv, TypeOK
<1> QED
  BY <1>1, PassAnswers DEF Pass, Cause

\* A response is written with its own code or not at all.
LEMMA RespondCode ==
  ASSUME TypeInv, NEW r \in Requests, NEW code \in Statuses,
         NEW w \in Respond(r, code), Wrote(r, w)
  PROVE  /\ status'[r] \in {status[r], code}
         /\ w.ok => status'[r] # 0 \/ code = 0
         /\ status'[r] # status[r] => w.ok
         /\ ~w.ok => lost'[r]
<1>1. /\ status[r] # 0 => w.status = status[r] /\ w.ok
      /\ status[r] = 0 => \/ w.status = code /\ w.ok
                          \/ w.status = 0 /\ ~w.ok
  BY DEF Respond
<1>2. status'[r] = w.status /\ lost'[r] = (lost[r] \/ ~w.ok)
  BY DEF TypeInv, TypeOK
<1> QED
  BY <1>1, <1>2

LEMMA AnswerHasCause ==
  ASSUME TypeInv, NEW r \in Requests, Step(r), status'[r] # status[r]
  PROVE  Cause(r, status'[r])
<1> HIDE DEF Passed, Wrote
<1>0. {404, 500, 200} \subseteq Statuses /\ StatusOf(err[r]) \in Statuses
  BY DEF Statuses, StatusOf
<1>1. CASE EarlyRequestFilter(r)
  BY <1>1, PassCause DEF EarlyRequestFilter
<1>2. CASE RequestFilter(r)
  <2>1. CASE RespondNotFound(r) /\ req[r].entry = None
    <3>1. PICK w \in Respond(r, 404) : Wrote(r, w)
      BY <2>1 DEF RespondNotFound
    <3> QED
      BY <1>0, <2>1, <3>1, RespondCode DEF Cause
  <2>2. CASE RunRequestChain(r)
    BY <2>2, PassCause DEF RunRequestChain
  <2> QED
    BY <1>2, <2>1, <2>2 DEF RequestFilter
<1>3. CASE UpstreamPeer(r)
  <2>1. UpstreamMissing(r)
    BY <1>3 DEF UpstreamPeer, SelectPeer
  <2>2. PICK w \in Respond(r, 500) :
          Wrote(r, w) /\ Fail(r, IF w.ok THEN "Custom" ELSE "WriteError")
    BY <2>1 DEF UpstreamMissing
  <2>3. status'[r] = 500
    BY <1>0, <2>2, RespondCode
  <2>4. /\ pc[r] = "upstream_peer" /\ pc'[r] = "fail_to_proxy"
        /\ err'[r] \in {"Custom", "WriteError"}
    BY <1>3, <2>2 DEF UpstreamPeer, TypeInv, TypeOK
  <2> QED
    BY <2>3, <2>4 DEF Cause
<1>4. CASE ConnectedToUpstream(r)
  BY <1>4, PassCause DEF ConnectedToUpstream
<1>5. CASE UpstreamRequestFilter(r)
  BY <1>5, PassCause DEF UpstreamRequestFilter
<1>6. CASE RequestBodyFilter(r)
  <2>1. PICK n \in NextPiece(conn[r]) :
          \E p \in Pass(r, "request_body", n), s \in Statuses : Passed(r, p, s)
    BY <1>6 DEF RequestBodyFilter
  <2>2. PICK p \in Pass(r, "request_body", n), s \in Statuses : Passed(r, p, s)
    BY <2>1
  <2>3. s \in Answers(p) /\ status'[r] = s /\ s # 0
    BY <2>2 DEF Passed, TypeInv, TypeOK
  <2>4. \/ s = 413 /\ RequestSizeRejectsChunk(bytes[r], n)
        \/ s = PluginStatus
    BY <2>3, PassAnswers DEF Pass
  <2> QED
    BY <1>6, <2>3, <2>4 DEF Cause, RequestBodyFilter
<1>7. CASE UpstreamResponseFilter(r)
  BY <1>7, PassCause DEF UpstreamResponseFilter
<1>8. CASE ResponseFilter(r)
  <2>1. CASE \E w \in Respond(r, 200) : Wrote(r, w)
    <3>1. PICK w \in Respond(r, 200) : Wrote(r, w)
      BY <2>1
    <3> QED
      BY <1>0, <1>8, <3>1, RespondCode DEF Cause, ResponseFilter
  <2>2. CASE \E p \in Pass(r, "response", 0), s \in Statuses : Passed(r, p, s)
    BY <2>2, PassCause
  <2> QED
    BY <1>8, <2>1, <2>2 DEF ResponseFilter
<1>9. CASE ResponseBodyFilter(r)
  BY <1>9, PassCause DEF ResponseBodyFilter
<1>10. CASE FailToProxy(r)
  <2> DEFINE code == StatusOf(err[r])
  <2>1. pc[r] = "fail_to_proxy" /\ pc'[r] = "logging"
    BY <1>10 DEF FailToProxy, TypeInv, TypeOK
  <2>2. \/ \E p \in Pass(r, "error", 0), s \in Statuses : Passed(r, p, s)
        \/ Wrote(r, [status |-> IF status[r] = 0 THEN code ELSE status[r],
                     ok |-> TRUE])
        \/ \E w \in Respond(r, code) : Wrote(r, w)
    BY <1>10 DEF FailToProxy
  <2>3. CASE \E p \in Pass(r, "error", 0), s \in Statuses : Passed(r, p, s)
    BY <2>3, PassCause
  <2>4. CASE Wrote(r, [status |-> IF status[r] = 0 THEN code ELSE status[r],
                       ok |-> TRUE])
    BY <2>1, <2>4 DEF Wrote, Cause, TypeInv, TypeOK
  <2>5. CASE \E w \in Respond(r, code) : Wrote(r, w)
    <3>1. PICK w \in Respond(r, code) : Wrote(r, w)
      BY <2>5
    <3> HIDE DEF code
    <3>2. status'[r] = code
      BY <1>0, <3>1, RespondCode DEF code
    <3> QED
      BY <2>1, <3>2 DEF Cause, code
  <2> QED
    BY <2>2, <2>3, <2>4, <2>5
<1>11. CASE Connect(r) \/ Complete(r) \/ UpstreamError(r) \/ DownstreamError(r)
            \/ Logging(r)
  BY <1>11 DEF Connect, Complete, UpstreamError, DownstreamError, Logging
<1> QED
  BY <1>1, <1>2, <1>3, <1>4, <1>5, <1>6, <1>7, <1>8, <1>9, <1>10, <1>11 DEF Step

\* Where a step takes the task, its error and its exchange.
Ended == {"fail_to_proxy", "logging", "done"}
Working == {"connected_to_upstream", "upstream_request_filter", "proxy"}

\* An error is only set on the way to fail_to_proxy.
LEMMA ErrorMoves ==
  ASSUME TypeInv, Safe, NEW r \in Requests, Step(r)
  PROVE  \/ err'[r] = err[r] /\ pc'[r] # "fail_to_proxy"
           /\ (pc[r] \in Ended => pc'[r] \in Ended)
         \/ pc[r] \notin Ended /\ pc'[r] = "fail_to_proxy" /\ err'[r] \in ErrorTypes
<1> USE DEF TypeInv, TypeOK, Ended, ErrorTypes
<1>1. CASE EarlyRequestFilter(r)
  BY <1>1 DEF EarlyRequestFilter
<1>2. CASE RequestFilter(r)
  BY <1>2 DEF RequestFilter, RespondNotFound, RunRequestChain, AfterRequestChain
<1>3. CASE UpstreamPeer(r)
  BY <1>3 DEF UpstreamPeer, UpstreamMissing, SelectPeer
<1>4. CASE Connect(r)
  BY <1>4 DEF Connect
<1>5. CASE ConnectedToUpstream(r)
  BY <1>5 DEF ConnectedToUpstream
<1>6. CASE UpstreamRequestFilter(r)
  BY <1>6 DEF UpstreamRequestFilter
<1>7. CASE RequestBodyFilter(r)
  BY <1>7 DEF RequestBodyFilter
<1>8. CASE UpstreamResponseFilter(r)
  BY <1>8 DEF UpstreamResponseFilter
<1>9. CASE ResponseFilter(r)
  BY <1>9 DEF ResponseFilter
<1>10. CASE ResponseBodyFilter(r)
  BY <1>10 DEF ResponseBodyFilter
<1>11. CASE Complete(r) \/ UpstreamError(r) \/ DownstreamError(r) \/ Logging(r)
  BY <1>11 DEF Complete, UpstreamError, DownstreamError, Logging
<1>12. CASE FailToProxy(r)
  BY <1>12 DEF FailToProxy
<1> QED
  BY <1>1, <1>2, <1>3, <1>4, <1>5, <1>6, <1>7, <1>8, <1>9, <1>10, <1>11, <1>12
     DEF Step

\* A step keeps the input, and the task only gets to work on a connection by
\* having one more attempt.
LEMMA AttemptMoves ==
  ASSUME TypeInv, NEW r \in Requests, Step(r)
  PROVE  /\ req'[r] = req[r]
         /\ pc[r] # "idle" /\ pc'[r] # "idle"
         /\ \/ Connect(r) /\ pc'[r] = "connected_to_upstream"
                /\ conn'[r].attempts = conn[r].attempts + 1
            \/ conn'[r].attempts = conn[r].attempts
                /\ (pc'[r] \in Working => pc[r] \in Working)
<1> USE DEF TypeInv, TypeOK, Working, ConnStates
<1>1. CASE EarlyRequestFilter(r)
  BY <1>1 DEF EarlyRequestFilter
<1>2. CASE RequestFilter(r)
  BY <1>2 DEF RequestFilter, RespondNotFound, RunRequestChain, AfterRequestChain
<1>3. CASE UpstreamPeer(r)
  BY <1>3 DEF UpstreamPeer, UpstreamMissing, SelectPeer
<1>4. CASE Connect(r)
  <2>1. \/ UNCHANGED conn /\ pc'[r] = "fail_to_proxy"
        \/ /\ \E reused \in BOOLEAN :
               conn' = [conn EXCEPT ![r].reused = reused, ![r].attempts = @ + 1]
           /\ pc'[r] = "connected_to_upstream"
    BY <1>4 DEF Connect
  <2>2. (\E reused \in BOOLEAN :
           conn' = [conn EXCEPT ![r].reused = reused, ![r].attempts = @ + 1])
        => conn'[r].attempts = conn[r].attempts + 1
    OBVIOUS
  <2>3. req' = req /\ pc[r] = "connect"
    BY <1>4 DEF Connect
  <2> QED
    BY <1>4, <2>1, <2>2, <2>3
<1>5. CASE ConnectedToUpstream(r)
  BY <1>5 DEF ConnectedToUpstream
<1>6. CASE UpstreamRequestFilter(r)
  BY <1>6 DEF UpstreamRequestFilter
<1>7. CASE RequestBodyFilter(r)
  <2>1. \A n : Consume(conn[r], n).attempts = conn[r].attempts
    BY DEF Consume
  <2>2. \/ UNCHANGED conn
        \/ \E n : conn' = [conn EXCEPT ![r] = Consume(conn[r], n)]
    BY <1>7 DEF RequestBodyFilter
  <2>3. conn'[r].attempts = conn[r].attempts
    BY <2>1, <2>2
  <2>4. /\ req' = req /\ pc[r] = "proxy"
        /\ pc'[r] \in {"proxy", "panicked", "fail_to_proxy"}
    BY <1>7 DEF RequestBodyFilter
  <2> QED
    BY <2>3, <2>4
<1>8. CASE UpstreamResponseFilter(r)
  BY <1>8 DEF UpstreamResponseFilter
<1>9. CASE ResponseFilter(r)
  BY <1>9 DEF ResponseFilter
<1>10. CASE ResponseBodyFilter(r)
  BY <1>10 DEF ResponseBodyFilter
<1>11. CASE Complete(r) \/ UpstreamError(r) \/ DownstreamError(r) \/ Logging(r)
  BY <1>11 DEF Complete, UpstreamError, DownstreamError, Logging
<1>12. CASE FailToProxy(r)
  BY <1>12 DEF FailToProxy
<1> QED
  BY <1>1, <1>2, <1>3, <1>4, <1>5, <1>6, <1>7, <1>8, <1>9, <1>10, <1>11, <1>12
     DEF Step

\* A response body begins behind a header.
LEMMA ResponseAnswers ==
  ASSUME TypeInv, NEW r \in Requests, ResponseFilter(r), conn' # conn
  PROVE  status'[r] # 0
<1>1. PICK w \in Respond(r, 200) : Wrote(r, w) /\ w.ok
  BY DEF ResponseFilter
<1>2. 200 \in Statuses
  BY DEF Statuses
<1> HIDE DEF Wrote
<1> QED
  BY <1>1, <1>2, RespondCode

\* How a step moves the download.
LEMMA DownMoves ==
  ASSUME TypeInv, NEW r \in Requests, Step(r)
  PROVE  \/ conn'[r].down = conn[r].down
         \/ UpstreamResponseFilter(r) /\ conn'[r].down = "header"
         \/ ResponseFilter(r) /\ conn'[r].down = "body" /\ conn' # conn
         \/ ResponseBodyFilter(r) /\ conn[r].down = "body" /\ conn'[r].down = "done"
<1>0. conn \in [Requests -> ConnStates] /\ conn[r] \in ConnStates
  BY DEF TypeInv, TypeOK
<1>1. CASE UNCHANGED conn
  BY <1>1
<1>2. CASE UpstreamResponseFilter(r)
  <2>1. UNCHANGED conn \/ conn' = [conn EXCEPT ![r].down = "header"]
    BY <1>2 DEF UpstreamResponseFilter
  <2> QED
    BY <1>0, <1>2, <2>1 DEF ConnStates
<1>3. CASE ResponseFilter(r)
  <2>1. conn[r].down = "header"
    BY <1>3 DEF ResponseFilter
  <2>2. UNCHANGED conn \/ conn' = [conn EXCEPT ![r].down = "body"]
    BY <1>3 DEF ResponseFilter
  <2> QED
    BY <1>0, <1>3, <2>1, <2>2 DEF ConnStates
<1>4. CASE ResponseBodyFilter(r)
  <2>1. conn[r].down = "body"
    BY <1>4 DEF ResponseBodyFilter
  <2>2. UNCHANGED conn \/ conn' = [conn EXCEPT ![r].down = "done"]
    BY <1>4 DEF ResponseBodyFilter
  <2> QED
    BY <1>0, <1>4, <2>1, <2>2 DEF ConnStates
<1>5. CASE RequestBodyFilter(r)
  <2>1. \/ UNCHANGED conn
        \/ \E n : conn' = [conn EXCEPT ![r] = Consume(conn[r], n)]
    BY <1>5 DEF RequestBodyFilter
  <2>2. \A n : Consume(conn[r], n).down = conn[r].down
    BY DEF Consume
  <2> QED
    BY <1>0, <2>1, <2>2
<1>6. CASE Connect(r) \/ UpstreamError(r)
  <2>1. \/ UNCHANGED conn
        \/ \E b \in BOOLEAN :
             conn' = [conn EXCEPT ![r].reused = b, ![r].attempts = @ + 1]
        \/ conn' = [conn EXCEPT ![r].replay = Received(r),
                                ![r].upload = "open", ![r].sent = 0]
    BY <1>6 DEF Connect, UpstreamError
  <2>2. ASSUME NEW b \in BOOLEAN,
               conn' = [conn EXCEPT ![r].reused = b, ![r].attempts = @ + 1]
        PROVE  conn'[r].down = conn[r].down
    BY <1>0, <2>2
  <2>3. CASE conn' = [conn EXCEPT ![r].replay = Received(r),
                                  ![r].upload = "open", ![r].sent = 0]
    BY <1>0, <2>3
  <2> QED
    BY <2>1, <2>2, <2>3
<1>7. CASE EarlyRequestFilter(r) \/ RequestFilter(r) \/ UpstreamPeer(r)
           \/ ConnectedToUpstream(r) \/ UpstreamRequestFilter(r) \/ Complete(r)
           \/ DownstreamError(r) \/ FailToProxy(r) \/ Logging(r)
  BY <1>1, <1>7 DEF EarlyRequestFilter, RequestFilter, UpstreamPeer,
     ConnectedToUpstream, UpstreamRequestFilter, Complete, DownstreamError,
     FailToProxy, Logging
<1> QED
  BY <1>2, <1>3, <1>4, <1>5, <1>6, <1>7 DEF Step

\* The phases before an attempt, and the errors of one that fails to connect.
Before == {"idle", "early_request_filter", "request_filter", "upstream_peer",
           "connect"}
Unreached == {"ConnectRefused", "ConnectNoRoute", "BindError"}

\* An attempt starts afresh, an error leaves the exchange as it is, and only
\* connecting fails without having reached the upstream.
LEMMA ExchangeMoves ==
  ASSUME TypeInv, NEW r \in Requests, Step(r)
  PROVE  /\ pc'[r] \in Ended => conn'[r] = conn[r]
         /\ pc'[r] \in Before => \/ pc[r] \in Before /\ conn'[r] = conn[r]
                                 \/ conn'[r].sent = 0 /\ conn[r].down = "wait"
                                    /\ conn'[r].down = "wait"
         /\ pc'[r] = "fail_to_proxy" /\ err'[r] \in Unreached => pc[r] = "connect"
<1> USE DEF Ended, Before, Unreached, TypeInv, TypeOK
<1>1. CASE EarlyRequestFilter(r)
  BY <1>1 DEF EarlyRequestFilter
<1>2. CASE RequestFilter(r)
  BY <1>2 DEF RequestFilter, RespondNotFound, RunRequestChain, AfterRequestChain
<1>3. CASE UpstreamPeer(r)
  BY <1>3 DEF UpstreamPeer, UpstreamMissing, SelectPeer
<1>4. CASE Connect(r)
  BY <1>4 DEF Connect
<1>5. CASE ConnectedToUpstream(r)
  BY <1>5 DEF ConnectedToUpstream
<1>6. CASE UpstreamRequestFilter(r)
  BY <1>6 DEF UpstreamRequestFilter
<1>7. CASE RequestBodyFilter(r)
  BY <1>7 DEF RequestBodyFilter
<1>8. CASE UpstreamResponseFilter(r)
  BY <1>8 DEF UpstreamResponseFilter
<1>9. CASE ResponseFilter(r)
  BY <1>9 DEF ResponseFilter
<1>10. CASE ResponseBodyFilter(r)
  BY <1>10 DEF ResponseBodyFilter
<1>11. CASE Complete(r) \/ DownstreamError(r) \/ Logging(r)
  BY <1>11 DEF Complete, DownstreamError, Logging
<1>12. CASE FailToProxy(r)
  BY <1>12 DEF FailToProxy
<1>13. CASE UpstreamError(r)
  <2>1. \/ /\ conn' = conn /\ pc'[r] = "fail_to_proxy"
           /\ err'[r] \in {"ReadTimedout", "ConnectionClosed"}
        \/ /\ conn' = [conn EXCEPT ![r].replay = Received(r),
                                   ![r].upload = "open", ![r].sent = 0]
           /\ pc'[r] = "upstream_peer" /\ conn[r].down = "wait"
    BY <1>13 DEF UpstreamError, MayRetry
  <2>2. conn' = [conn EXCEPT ![r].replay = Received(r),
                             ![r].upload = "open", ![r].sent = 0]
          => conn'[r].sent = 0 /\ conn'[r].down = conn[r].down
    BY DEF ConnStates
  <2> QED
    BY <2>1, <2>2
<1> QED
  BY <1>1, <1>2, <1>3, <1>4, <1>5, <1>6, <1>7, <1>8, <1>9, <1>10, <1>11, <1>12,
     <1>13 DEF Step

\* StatusTruthful, with what keeps it: an error status is only seen once the
\* error and the exchange are final, a task that works on an exchange has had an
\* attempt, nothing has been exchanged before one, and a response body follows a
\* header.
Truth(r) ==
  /\ pc[r] = "idle" => status[r] = 0 /\ conn[r].attempts = 0
  /\ pc[r] \in Working => conn[r].attempts > 0
  /\ status[r] \in {500, 502, 504} => pc[r] \in Ended
  /\ status[r] = 404 => req[r].entry = None
  /\ status[r] = 403 => ~Admitted(req[r].entry, req[r].client)
  /\ status[r] = 200 => conn[r].attempts > 0
  /\ pc[r] \in Before => conn[r].sent = 0 /\ conn[r].down = "wait"
  /\ pc[r] = "fail_to_proxy" /\ err[r] \in Unreached =>
       conn[r].sent = 0 /\ conn[r].down = "wait"
  /\ conn[r].down \in {"body", "done"} => status[r] # 0
  /\ status[r] = 502 => conn[r].sent = 0 /\ conn[r].down = "wait"
  /\ status[r] = 504 => conn[r].down \in {"wait", "header"}
  /\ pc[r] = "fail_to_proxy" => err[r] \in ErrorTypes

TruthInv == \A r \in Requests : Truth(r)

LEMMA StepTruth ==
  ASSUME TypeInv, Safe, NEW r \in Requests, Truth(r), Step(r)
  PROVE  Truth(r)'
<1> USE DEF Working, Ended
<1>1. /\ req'[r] = req[r] /\ pc[r] # "idle" /\ pc'[r] # "idle"
      /\ conn[r].attempts \in Nat /\ conn'[r].attempts \in Nat
      /\ conn'[r].attempts >= conn[r].attempts
      /\ pc'[r] \in Working => conn'[r].attempts > 0
  <2>1. conn[r].attempts \in Nat
    BY DEF TypeInv, TypeOK, ConnStates
  <2> QED
    BY <2>1, AttemptMoves DEF Truth
<1>2. /\ pc'[r] = "fail_to_proxy" => err'[r] \in ErrorTypes
      /\ pc[r] \in Ended => pc'[r] \in Ended
  BY ErrorMoves
<1>3. /\ pc'[r] \in Before => conn'[r].sent = 0 /\ conn'[r].down = "wait"
      /\ pc'[r] = "fail_to_proxy" /\ err'[r] \in Unreached =>
           conn'[r].sent = 0 /\ conn'[r].down = "wait"
      /\ pc'[r] \in Ended => conn'[r] = conn[r]
  BY ExchangeMoves DEF Truth, Before
<1>4. conn'[r].down \in {"body", "done"} => status'[r] # 0
  <2>1. status[r] # 0 => status'[r] # 0
    BY StepKeepsAnswer
  <2> QED
    BY <2>1, DownMoves, ResponseAnswers DEF Truth
<1>5. CASE status'[r] = status[r]
  <2>1. status[r] \in {500, 502, 504} => conn'[r] = conn[r] /\ pc'[r] \in Ended
    BY <1>2, <1>3 DEF Truth
  <2> HIDE DEF Working, Ended
  <2> QED
    BY <1>1, <1>2, <1>3, <1>4, <1>5, <2>1 DEF Truth
<1>6. CASE status'[r] # status[r]
  <2>1. Cause(r, status'[r]) /\ status[r] = 0
    BY <1>6, AnswerHasCause, StepKeepsAnswer
  <2>2. conn[r].down \in {"wait", "header"}
    <3>1. conn[r].down \in DownStates
      BY DEF TypeInv, TypeOK, ConnStates
    <3> QED
      BY <2>1, <3>1 DEF Truth, DownStates
  <2>3. IpRestrictionRejects(req[r].entry, req[r].client) =>
          ~Admitted(req[r].entry, req[r].client)
    BY DEF IpRestrictionRejects, Admitted
  <2>4. /\ StatusOf(err[r]) \in {500, 502, 504}
        /\ StatusOf(err[r]) = 502 => err[r] \in Unreached
    BY DEF StatusOf, Unreached
  <2>5. /\ status'[r] \in {500, 502, 504} => pc'[r] \in Ended
        /\ status'[r] = 502 => pc[r] = "fail_to_proxy" /\ err[r] \in Unreached
    BY <2>1, <2>4 DEF Cause, PluginStatus
  <2>6. /\ status'[r] = 404 => req[r].entry = None
        /\ status'[r] = 403 => ~Admitted(req[r].entry, req[r].client)
        /\ status'[r] = 200 => pc[r] = "proxy"
    BY <2>1, <2>3, <2>4 DEF Cause, PluginStatus
  <2>7. /\ status'[r] = 502 => conn'[r].sent = 0 /\ conn'[r].down = "wait"
        /\ status'[r] = 504 => conn'[r].down \in {"wait", "header"}
    BY <1>3, <2>2, <2>5 DEF Truth
  <2> QED
    BY <1>1, <1>2, <1>3, <1>4, <2>5, <2>6, <2>7 DEF Truth
<1> QED
  BY <1>5, <1>6

\* Init and every step of the gateway keep it.
LEMMA TruthAlways == Spec => [](HeaderMaps /\ TruthInv)
<1> DEFINE Inv == HeaderMaps /\ TruthInv
<1>1. Init => Inv
  BY DEF Init, HeaderMaps, TruthInv, Truth, NoConn, Working, Ended, Unreached
<1>2. TypeInv /\ Safe /\ Inv /\ [Next]_vars => Inv'
  <2> SUFFICES ASSUME TypeInv, Safe, Inv, [Next]_vars
               PROVE  Inv'
    OBVIOUS
  <2>1. ASSUME NEW r \in Requests, NewCtx(r) PROVE Truth(r)'
    BY <2>1 DEF NewCtx, TruthInv, Truth, TypeInv, TypeOK, ConnStates, Working, Ended,
       Before
  <2>2. ASSUME NEW r \in Requests, NewCtx(r) \/ Step(r) PROVE Inv'
    <3>1. Truth(r)'
      BY <2>1, <2>2, StepTruth DEF TruthInv
    <3>2. \A x \in Requests \ {r} : Truth(x)'
      BY <2>2, OthersKept DEF Own, Truth, TruthInv
    <3> QED
      BY <2>2, <3>1, <3>2, OthersKept DEF TruthInv
  <2>3. CASE UNCHANGED vars \/ \E u \in Pools \cup Hosts : ReadyChanges(u)
    BY <2>3 DEF vars, ReadyChanges, HeaderMaps, TruthInv, Truth
  <2> QED
    BY <2>2, <2>3 DEF Next
<1> QED
  BY <1>1, <1>2, TypeInvAlways, SafeAlways, PTL DEF Spec

\* The status that a client sees has its cause in what happened to its request,
\* whoever else has answered before: 502 is for an upstream that the last attempt
\* did not reach, 504 never comes after the beginning of a response
\* (gateway.rs: fail_to_proxy after all the others).
THEOREM StatusAlwaysTruthful == Spec => []StatusTruthful
<1>1. TruthInv => StatusTruthful
  BY DEF TruthInv, Truth, StatusTruthful
<1> QED
  BY <1>1, TruthAlways, PTL
----------------------------------------------------------------------------
(* Every request is answered.                                              *)

\* A task that goes to logging has an answer out or has lost its client, and a
\* response body follows a header.
AnsweredInv(r) ==
  /\ pc[r] \in {"logging", "done"} => status[r] # 0 \/ lost[r]
  /\ conn[r].down \in {"body", "done"} => status[r] # 0

\* The session never forgets.
LEMMA LostStays ==
  ASSUME TypeInv, NEW r \in Requests, Step(r), lost[r]
  PROVE  lost'[r]
<1> USE DEF TypeInv, TypeOK
<1>1. CASE EarlyRequestFilter(r) \/ ConnectedToUpstream(r) \/ UpstreamRequestFilter(r)
  BY <1>1 DEF EarlyRequestFilter, ConnectedToUpstream, UpstreamRequestFilter
<1>2. CASE RequestFilter(r)
  BY <1>2 DEF RequestFilter, RespondNotFound, RunRequestChain
<1>3. CASE UpstreamPeer(r)
  BY <1>3 DEF UpstreamPeer, UpstreamMissing, SelectPeer
<1>4. CASE RequestBodyFilter(r)
  BY <1>4 DEF RequestBodyFilter
<1>5. CASE UpstreamResponseFilter(r) \/ ResponseBodyFilter(r)
  BY <1>5 DEF UpstreamResponseFilter, ResponseBodyFilter
<1>6. CASE ResponseFilter(r)
  BY <1>6 DEF ResponseFilter
<1>7. CASE FailToProxy(r)
  BY <1>7 DEF FailToProxy
<1>8. CASE Connect(r) \/ Complete(r) \/ UpstreamError(r) \/ DownstreamError(r)
           \/ Logging(r)
  BY <1>8 DEF Connect, Complete, UpstreamError, DownstreamError, Logging
<1> QED
  BY <1>1, <1>2, <1>3, <1>4, <1>5, <1>6, <1>7, <1>8 DEF Step

\* request_filter finishes a request by a 404 or by a Stop with its answer.
LEMMA FilterAnswers ==
  ASSUME "Stop" \notin PluginDecisions["request"],
         TypeInv, Safe, NEW r \in Requests, RequestFilter(r), pc'[r] = "logging"
  PROVE  status'[r] # 0
<1> USE DEF TypeInv, TypeOK
<1>1. CASE RespondNotFound(r)
  <2>1. PICK w \in Respond(r, 404) :
          /\ Wrote(r, w)
          /\ IF w.ok THEN Go(r, "logging") /\ UNCHANGED err
             ELSE Fail(r, "WriteError")
    BY <1>1 DEF RespondNotFound
  <2>2. w.ok /\ 404 \in Statuses
    BY <2>1 DEF Statuses
  <2> HIDE DEF Wrote, TypeInv, TypeOK
  <2> QED
    BY <2>1, <2>2, RespondCode
<1>2. CASE RunRequestChain(r)
  <2>1. PICK p \in Pass(r, "request", 0), s \in Statuses :
          Passed(r, p, s) /\ Go(r, AfterRequestChain(p))
    BY <1>2 DEF RunRequestChain
  <2>2. p.res = "Stop" /\ s \in Answers(p)
    BY <2>1, PassShape DEF AfterRequestChain, Decisions, Pass
  <2>3. s # 0
    BY <2>2, PassAnswers DEF Pass
  <2> QED
    BY <2>1, <2>3
<1>3. "RequestMeta" \in filed[r]
  BY DEF RequestFilter, Safe, ContextInv
<1> QED
  BY <1>1, <1>2, <1>3 DEF RequestFilter

\* fail_to_proxy answers, unless the client is lost.
LEMMA FailAnswers ==
  ASSUME "Stop" \notin PluginDecisions["error"],
         TypeInv, NEW r \in Requests, FailToProxy(r)
  PROVE  status'[r] # 0 \/ lost'[r]
<1> DEFINE code == StatusOf(err[r])
<1>1. code \in Statuses /\ code # 0
  BY DEF StatusOf, Statuses
<1>2. PICK p \in Pass(r, "error", 0), s \in Statuses :
        \/ p.res = "Stop" /\ Passed(r, p, s)
        \/ Wrote(r, [status |-> IF status[r] = 0 THEN code ELSE status[r],
                     ok |-> TRUE])
        \/ \E w \in Respond(r, code) : Wrote(r, w)
  BY DEF FailToProxy
<1>3. CASE p.res = "Stop" /\ Passed(r, p, s)
  BY <1>3, PassAnswers DEF Pass, TypeInv, TypeOK
<1>4. CASE Wrote(r, [status |-> IF status[r] = 0 THEN code ELSE status[r],
                     ok |-> TRUE])
  BY <1>1, <1>4 DEF TypeInv, TypeOK
<1>5. CASE \E w \in Respond(r, code) : Wrote(r, w)
  <2>1. PICK w \in Respond(r, code) : Wrote(r, w)
    BY <1>5
  <2> HIDE DEF code
  <2> QED
    BY <1>1, <2>1, RespondCode
<1> QED
  BY <1>2, <1>3, <1>4, <1>5

\* Only these callbacks lead to logging.
LEMMA QuietSteps ==
  ASSUME TypeInv, NEW r \in Requests, Step(r),
         ~RequestFilter(r), ~FailToProxy(r), ~Complete(r), ~Logging(r)
  PROVE  pc'[r] \notin {"logging", "done"}
<1> USE DEF TypeInv, TypeOK
<1>1. CASE EarlyRequestFilter(r) \/ ConnectedToUpstream(r) \/ UpstreamRequestFilter(r)
  BY <1>1 DEF EarlyRequestFilter, ConnectedToUpstream, UpstreamRequestFilter
<1>2. CASE UpstreamPeer(r)
  BY <1>2 DEF UpstreamPeer, UpstreamMissing, SelectPeer
<1>3. CASE RequestBodyFilter(r)
  BY <1>3 DEF RequestBodyFilter
<1>4. CASE UpstreamResponseFilter(r) \/ ResponseBodyFilter(r)
  BY <1>4 DEF UpstreamResponseFilter, ResponseBodyFilter
<1>5. CASE ResponseFilter(r)
  BY <1>5 DEF ResponseFilter
<1>6. CASE Connect(r) \/ UpstreamError(r) \/ DownstreamError(r)
  BY <1>6 DEF Connect, UpstreamError, DownstreamError
<1> QED
  BY <1>1, <1>2, <1>3, <1>4, <1>5, <1>6 DEF Step

LEMMA StepAnswered ==
  ASSUME "Stop" \notin PluginDecisions["request"] \cup PluginDecisions["error"],
         TypeInv, Safe, NEW r \in Requests, AnsweredInv(r), Step(r)
  PROVE  AnsweredInv(r)'
<1>1. /\ status[r] # 0 => status'[r] # 0
      /\ lost[r] => lost'[r]
  BY StepKeepsAnswer, LostStays
<1>2. ASSUME pc'[r] \in {"logging", "done"} PROVE status'[r] # 0 \/ lost'[r]
  <2>1. CASE RequestFilter(r)
    <3>1. pc'[r] = "logging"
      BY <1>2, <2>1
         DEF RequestFilter, RespondNotFound, RunRequestChain, AfterRequestChain,
             TypeInv, TypeOK
    <3> QED
      BY <2>1, <3>1, FilterAnswers
  <2>2. CASE FailToProxy(r)
    BY <2>2, FailAnswers
  <2>3. CASE Complete(r)
    BY <1>1, <2>3 DEF Complete, AnsweredInv
  <2>4. CASE Logging(r)
    BY <1>1, <2>4 DEF Logging, AnsweredInv
  <2> QED
    BY <1>2, <2>1, <2>2, <2>3, <2>4, QuietSteps
<1>3. ASSUME conn'[r].down \in {"body", "done"} PROVE status'[r] # 0
  BY <1>1, <1>3, DownMoves, ResponseAnswers DEF AnsweredInv
<1> QED
  BY <1>2, <1>3 DEF AnsweredInv

\* A finished request has been answered unless its client could not be written
\* to: on every path through gateway.rs, if no added middleware stops the
\* request or the error hooks (one that does may leave the client without).
THEOREM AlwaysAnswered ==
  ASSUME "Stop" \notin PluginDecisions["request"] \cup PluginDecisions["error"]
  PROVE  Spec => []Answered
<1> DEFINE Inv == \A r \in Requests : AnsweredInv(r)
<1>1. Init => Inv
  BY DEF Init, AnsweredInv, NoConn
<1>2. TypeInv /\ Safe /\ HeaderMaps /\ TruthInv /\ Inv /\ [Next]_vars => Inv'
  <2> SUFFICES ASSUME TypeInv, Safe, HeaderMaps, Inv, [Next]_vars
               PROVE  Inv'
    OBVIOUS
  <2>1. ASSUME NEW r \in Requests, NewCtx(r) PROVE AnsweredInv(r)'
    <3>1. /\ conn'[r].down = conn[r].down /\ status' = status
          /\ pc'[r] = "early_request_filter"
      BY <2>1 DEF NewCtx, TypeInv, TypeOK, ConnStates
    <3> QED
      BY <3>1 DEF AnsweredInv
  <2>2. ASSUME NEW r \in Requests, NewCtx(r) \/ Step(r) PROVE Inv'
    <3>1. AnsweredInv(r)'
      BY <2>1, <2>2, StepAnswered
    <3>2. \A x \in Requests \ {r} : AnsweredInv(x)'
      BY <2>2, OthersKept DEF Own, AnsweredInv
    <3> QED
      BY <3>1, <3>2
  <2>3. CASE UNCHANGED vars \/ \E u \in Pools \cup Hosts : ReadyChanges(u)
    BY <2>3 DEF vars, ReadyChanges, AnsweredInv
  <2> QED
    BY <2>2, <2>3 DEF Next
<1>3. Inv => Answered
  BY DEF AnsweredInv, Answered
<1> QED
  BY <1>1, <1>2, <1>3, TypeInvAlways, SafeAlways, TruthAlways, PTL DEF Spec
----------------------------------------------------------------------------
(* The error pages.                                                        *)

\* PageFits, with what keeps it: a page is the last thing a task writes, and an
\* answer that is out before the end has a reason.
PageInv(r) ==
  /\ page[r] # None =>
       /\ pc[r] \in {"logging", "done"}
       /\ StatusOf(err[r]) \in req[r].entry.pages
       /\ page[r] = "served" => status[r] = StatusOf(err[r])
       /\ page[r] = "spliced" => Reason(r)
  /\ status[r] # 0 /\ pc[r] \notin {"logging", "done"} => Reason(r)

\* An answer comes from a Stop.
LEMMA PassStops ==
  ASSUME TypeInv, NEW r \in Requests, NEW hook, hook # "request", NEW n,
         NEW p \in Pass(r, hook, n), NEW s, Passed(r, p, s), status'[r] # status[r]
  PROVE  status'[r] \in {413, PluginStatus} /\ halted'[r]
<1>1. s \in Answers(p) /\ status'[r] = s /\ s # 0
  BY DEF TypeInv, TypeOK
<1>2. p.res = "Stop"
  BY <1>1 DEF Answers
<1>3. halted'[r]
  BY <1>2 DEF TypeInv, TypeOK
<1> QED
  BY <1>1, <1>3, PassAnswers DEF Pass

\* A Stop is not taken back.
LEMMA HaltedStays ==
  ASSUME TypeInv, NEW r \in Requests, Step(r), halted[r]
  PROVE  halted'[r]
<1> USE DEF TypeInv, TypeOK
<1>1. CASE EarlyRequestFilter(r) \/ ConnectedToUpstream(r) \/ UpstreamRequestFilter(r)
  BY <1>1 DEF EarlyRequestFilter, ConnectedToUpstream, UpstreamRequestFilter
<1>2. CASE RequestFilter(r)
  BY <1>2 DEF RequestFilter, RespondNotFound, RunRequestChain
<1>3. CASE UpstreamPeer(r)
  BY <1>3 DEF UpstreamPeer
<1>4. CASE RequestBodyFilter(r)
  BY <1>4 DEF RequestBodyFilter
<1>5. CASE UpstreamResponseFilter(r) \/ ResponseBodyFilter(r)
  BY <1>5 DEF UpstreamResponseFilter, ResponseBodyFilter
<1>6. CASE ResponseFilter(r)
  BY <1>6 DEF ResponseFilter
<1>7. CASE FailToProxy(r)
  BY <1>7 DEF FailToProxy
<1>8. CASE Connect(r) \/ Complete(r) \/ UpstreamError(r) \/ DownstreamError(r)
           \/ Logging(r)
  BY <1>8 DEF Connect, Complete, UpstreamError, DownstreamError, Logging
<1> QED
  BY <1>1, <1>2, <1>3, <1>4, <1>5, <1>6, <1>7, <1>8 DEF Step

\* A new answer that does not finish the request has its reason.
LEMMA AnswerHasReason ==
  ASSUME TypeInv, Safe, NEW r \in Requests, Step(r), status'[r] # status[r],
         pc'[r] \notin {"logging", "done"}
  PROVE  Reason(r)'
<1> HIDE DEF Passed, Wrote
<1>0. {404, 500, 200} \subseteq Statuses
  BY DEF Statuses
<1>1. CASE \E hook \in {"early_request", "upstream_connected", "upstream_request",
                        "upstream_response", "response", "response_body"} :
             \E p \in Pass(r, hook, 0), s \in Statuses : Passed(r, p, s)
  BY <1>1, PassStops DEF Reason
<1>2. CASE EarlyRequestFilter(r)
  BY <1>1, <1>2 DEF EarlyRequestFilter
<1>3. CASE RequestFilter(r)
  <2>1. CASE RespondNotFound(r)
    <3>1. PICK w \in Respond(r, 404) :
            /\ Wrote(r, w)
            /\ IF w.ok THEN Go(r, "logging") /\ UNCHANGED err
               ELSE Fail(r, "WriteError")
      BY <2>1 DEF RespondNotFound
    <3>2. w.ok
      BY <1>0, <3>1, RespondCode
    <3> QED
      BY <3>1, <3>2 DEF TypeInv, TypeOK
  <2>2. CASE RunRequestChain(r)
    <3>1. PICK p \in Pass(r, "request", 0), s \in Statuses :
            Passed(r, p, s) /\ Go(r, AfterRequestChain(p))
      BY <2>2 DEF RunRequestChain
    <3>2. s \in Answers(p) /\ s # 0
      BY <3>1 DEF Passed, TypeInv, TypeOK
    <3>3. p.res = "Stop"
      BY <3>2 DEF Answers
    <3> QED
      BY <3>1, <3>3 DEF AfterRequestChain, TypeInv, TypeOK
  <2>3. "RequestMeta" \in filed[r]
    BY <1>3 DEF RequestFilter, Safe, ContextInv
  <2> QED
    BY <1>3, <2>1, <2>2, <2>3 DEF RequestFilter
<1>4. CASE UpstreamPeer(r)
  <2>1. UpstreamMissing(r) /\ meta[r].upstream \notin Upstreams
    BY <1>4 DEF UpstreamPeer, SelectPeer
  <2>2. PICK w \in Respond(r, 500) : Wrote(r, w)
    BY <2>1 DEF UpstreamMissing
  <2>3. status'[r] = 500
    BY <1>0, <2>2, RespondCode
  <2>4. meta' = meta
    BY <2>1 DEF UpstreamMissing
  <2> QED
    BY <2>1, <2>3, <2>4 DEF Reason
<1>5. CASE ConnectedToUpstream(r) \/ UpstreamRequestFilter(r)
  BY <1>1, <1>5 DEF ConnectedToUpstream, UpstreamRequestFilter
<1>6. CASE RequestBodyFilter(r)
  <2>1. PICK n \in NextPiece(conn[r]) :
          \E p \in Pass(r, "request_body", n), s \in Statuses : Passed(r, p, s)
    BY <1>6 DEF RequestBodyFilter
  <2> QED
    BY <2>1, PassStops DEF Reason
<1>7. CASE UpstreamResponseFilter(r) \/ ResponseBodyFilter(r)
  BY <1>1, <1>7 DEF UpstreamResponseFilter, ResponseBodyFilter
<1>8. CASE ResponseFilter(r)
  <2>1. CASE \E p \in Pass(r, "response", 0), s \in Statuses : Passed(r, p, s)
    BY <1>1, <2>1
  <2>2. CASE \E w \in Respond(r, 200) :
               /\ Wrote(r, w)
               /\ w.ok => conn' = [conn EXCEPT ![r].down = "body"]
    <3>1. PICK w \in Respond(r, 200) :
            Wrote(r, w) /\ (w.ok => conn' = [conn EXCEPT ![r].down = "body"])
      BY <2>2
    <3>2. w.ok /\ status'[r] = 200
      BY <1>0, <3>1, RespondCode
    <3>3. conn'[r].down = "body"
      BY <3>1, <3>2 DEF TypeInv, TypeOK, ConnStates
    <3> QED
      BY <3>2, <3>3 DEF Reason
  <2> QED
    BY <1>8, <2>1, <2>2 DEF ResponseFilter
<1>9. CASE FailToProxy(r)
  BY <1>9 DEF FailToProxy, TypeInv, TypeOK
<1>10. CASE Connect(r) \/ Complete(r) \/ UpstreamError(r) \/ DownstreamError(r)
            \/ Logging(r)
  BY <1>10 DEF Connect, Complete, UpstreamError, DownstreamError, Logging
<1> QED
  BY <1>2, <1>3, <1>4, <1>5, <1>6, <1>7, <1>8, <1>9, <1>10 DEF Step

\* An answer keeps its reason.
LEMMA ReasonStays ==
  ASSUME TypeInv, NEW r \in Requests, Truth(r), Step(r), Reason(r),
         status'[r] = status[r]
  PROVE  Reason(r)'
<1>1. halted[r] => halted'[r]
  BY HaltedStays
<1>2. conn[r].down \in {"body", "done"} => conn'[r].down \in {"body", "done"}
  BY DownMoves DEF UpstreamResponseFilter, ResponseFilter
<1>3. CASE status[r] = 500 /\ meta[r].upstream \notin Upstreams
  <2>1. pc[r] \in Ended
    BY <1>3 DEF Truth
  <2>2. FailToProxy(r) \/ Logging(r)
    BY <2>1 DEF Ended, Step, EarlyRequestFilter, RequestFilter, UpstreamPeer,
       Connect, ConnectedToUpstream, UpstreamRequestFilter, RequestBodyFilter,
       UpstreamResponseFilter, ResponseFilter, ResponseBodyFilter, Complete,
       UpstreamError, DownstreamError
  <2>3. meta' = meta
    BY <2>2 DEF FailToProxy, Logging
  <2> QED
    BY <1>3, <2>3 DEF Reason
<1> QED
  BY <1>1, <1>2, <1>3 DEF Reason

LEMMA StepPages ==
  ASSUME TypeInv, Safe, NEW r \in Requests, Truth(r), PageInv(r), Step(r)
  PROVE  PageInv(r)'
<1>1. status[r] # 0 => status'[r] = status[r]
  BY StepKeepsAnswer
<1>2. CASE FailToProxy(r)
  <2> DEFINE code == StatusOf(err[r])
  <2>1. /\ pc[r] = "fail_to_proxy" /\ pc'[r] = "logging"
        /\ err' = err /\ req' = req
    BY <1>2 DEF FailToProxy, TypeInv, TypeOK
  <2>2. page[r] = None
    BY <2>1 DEF PageInv
  <2>3. \/ page' = page
        \/ /\ code \in req[r].entry.pages
           /\ page'[r] = IF status[r] = 0 THEN "served" ELSE "spliced"
           /\ status'[r] = IF status[r] = 0 THEN code ELSE status[r]
    BY <1>2 DEF FailToProxy, TypeInv, TypeOK
  <2>4. status[r] # 0 => Reason(r)'
    BY <1>1, <2>1, ReasonStays DEF PageInv
  <2>5. StatusOf(err[r])' = code
    BY <2>1
  <2> HIDE DEF code
  <2> QED
    BY <2>1, <2>2, <2>3, <2>4, <2>5 DEF PageInv
<1>3. CASE Logging(r)
  <2>1. /\ pc[r] = "logging" /\ pc'[r] = "done"
        /\ UNCHANGED <<err, req, page, status>>
    BY <1>3 DEF Logging, TypeInv, TypeOK
  <2>2. Reason(r) => Reason(r)'
    BY <2>1, ReasonStays
  <2> QED
    BY <2>1, <2>2 DEF PageInv
<1>4. CASE ~FailToProxy(r) /\ ~Logging(r)
  <2>1. page' = page /\ pc[r] \notin {"logging", "done"}
    BY <1>4 DEF Step, EarlyRequestFilter, RequestFilter, UpstreamPeer,
       Connect, ConnectedToUpstream, UpstreamRequestFilter, RequestBodyFilter,
       UpstreamResponseFilter, ResponseFilter, ResponseBodyFilter, Complete,
       UpstreamError, DownstreamError
  <2>2. page[r] = None
    BY <2>1 DEF PageInv
  <2>3. ASSUME status'[r] # 0, pc'[r] \notin {"logging", "done"}
        PROVE  Reason(r)'
    <3>1. CASE status'[r] = status[r]
      BY <2>1, <2>3, <3>1, ReasonStays DEF PageInv
    <3>2. CASE status'[r] # status[r]
      BY <2>3, <3>2, AnswerHasReason
    <3> QED
      BY <3>1, <3>2
  <2> QED
    BY <2>1, <2>2, <2>3 DEF PageInv
<1> QED
  BY <1>2, <1>3, <1>4

\* An error page is the answer to the error it is for, or follows an answer
\* that had its own reason to be out (gateway.rs: fail_to_proxy).
THEOREM PagesAlwaysFit == Spec => []PageFits
<1> DEFINE Inv == \A r \in Requests : PageInv(r)
<1>1. Init => Inv
  BY DEF Init, PageInv
<1>2. TypeInv /\ Safe /\ HeaderMaps /\ TruthInv /\ Inv /\ [Next]_vars => Inv'
  <2> SUFFICES ASSUME TypeInv, Safe, HeaderMaps, TruthInv, Inv, [Next]_vars
               PROVE  Inv'
    OBVIOUS
  <2>1. ASSUME NEW r \in Requests, NewCtx(r) PROVE PageInv(r)'
    <3>1. /\ pc[r] = "idle" /\ pc'[r] = "early_request_filter"
          /\ page' = page /\ status' = status
      BY <2>1 DEF NewCtx, TypeInv, TypeOK
    <3>2. page[r] = None /\ status[r] = 0
      BY <3>1 DEF PageInv, TruthInv, Truth
    <3> QED
      BY <3>1, <3>2 DEF PageInv
  <2>2. ASSUME NEW r \in Requests, NewCtx(r) \/ Step(r) PROVE Inv'
    <3>1. PageInv(r)'
      BY <2>1, <2>2, StepPages DEF TruthInv
    <3>2. \A x \in Requests \ {r} : PageInv(x)'
      BY <2>2, OthersKept DEF Own, PageInv, Reason
    <3> QED
      BY <3>1, <3>2
  <2>3. CASE UNCHANGED vars \/ \E u \in Pools \cup Hosts : ReadyChanges(u)
    BY <2>3 DEF vars, ReadyChanges, PageInv, Reason
  <2> QED
    BY <2>2, <2>3 DEF Next
<1>3. Inv => PageFits
  BY DEF PageInv, PageFits
<1> QED
  BY <1>1, <1>2, <1>3, TypeInvAlways, SafeAlways, TruthAlways, PTL DEF Spec
----------------------------------------------------------------------------
(* The code as it stands: what the finding on request_filter amounts to.   *)

\* No request gets past upstream_request_filter, so that no client sees an
\* upstream's response, nor, as fail_to_proxy looks for the same value, a page.
NothingProxied ==
  \A r \in Requests : pc[r] # "proxy" /\ status[r] # 200 /\ page[r] = None

\* The reason: nobody files a RouteConf.
NoRouteConf == \A r \in Requests : "RouteConf" \notin filed[r]

LEMMA NoConfKept ==
  ASSUME FiledAs = "ArcRouteConf", TypeInv, NoRouteConf, NothingProxied, [Next]_vars
  PROVE  NoRouteConf' /\ NothingProxied'
<1> USE DEF NoRouteConf, NothingProxied
<1>0. ASSUME NEW r \in Requests, Step(r), pc[r] # "proxy"
      PROVE  status'[r] # 200
  <2>1. StatusOf(err[r]) # 200 /\ PluginStatus # 200
    BY DEF StatusOf, PluginStatus
  <2> QED
    BY <1>0, <2>1, AnswerHasCause DEF Cause
<1>1. ASSUME NEW r \in Requests, NewCtx(r) \/ Step(r), pc'[r] # "proxy",
             "RouteConf" \notin filed'[r], page'[r] = None,
             \A x \in Requests \ {r} : pc'[x] = pc[x] /\ filed'[x] = filed[x]
                                       /\ page'[x] = page[x] /\ status'[x] = status[x]
      PROVE  NoRouteConf' /\ NothingProxied'
  <2>1. status'[r] # 200
    BY <1>0, <1>1 DEF NewCtx
  <2> QED
    BY <1>1, <2>1
<1> USE DEF TypeInv, TypeOK
<1>2. ASSUME NEW r \in Requests, NewCtx(r) PROVE NoRouteConf' /\ NothingProxied'
  BY <1>2 DEF NewCtx
<1>3. ASSUME NEW r \in Requests, EarlyRequestFilter(r)
      PROVE  NoRouteConf' /\ NothingProxied'
  <2>1. Step(r)
    BY <1>3 DEF Step
  <2> QED
    BY <1>1, <1>3, <2>1 DEF EarlyRequestFilter
<1>4. ASSUME NEW r \in Requests, RequestFilter(r)
      PROVE  NoRouteConf' /\ NothingProxied'
  <2>1. Step(r)
    BY <1>4 DEF Step
  <2> QED
    BY <1>1, <1>4, <2>1 DEF RequestFilter, RespondNotFound, RunRequestChain,
                            AfterRequestChain, FiledByFilter
<1>5. ASSUME NEW r \in Requests, UpstreamPeer(r)
      PROVE  NoRouteConf' /\ NothingProxied'
  <2>1. Step(r)
    BY <1>5 DEF Step
  <2> QED
    BY <1>1, <1>5, <2>1 DEF UpstreamPeer, UpstreamMissing, SelectPeer
<1>6. ASSUME NEW r \in Requests, Connect(r) \/ Logging(r)
      PROVE  NoRouteConf' /\ NothingProxied'
  <2>1. UNCHANGED <<filed, page, status>>
    BY <1>6 DEF Connect, Logging
  <2>2. \E phase \in {"connected_to_upstream", "fail_to_proxy", "done"} :
          pc' = [pc EXCEPT ![r] = phase]
    BY <1>6 DEF Connect, Logging
  <2> QED
    BY <2>1, <2>2
<1>7. ASSUME NEW r \in Requests, ConnectedToUpstream(r) \/ UpstreamRequestFilter(r)
      PROVE  NoRouteConf' /\ NothingProxied'
  <2>1. Step(r)
    BY <1>7 DEF Step
  <2> QED
    BY <1>1, <1>7, <2>1 DEF ConnectedToUpstream, UpstreamRequestFilter
<1>8. ASSUME NEW r \in Requests, FailToProxy(r)
      PROVE  NoRouteConf' /\ NothingProxied'
  <2>1. Step(r)
    BY <1>8 DEF Step
  <2> QED
    BY <1>1, <1>8, <2>1 DEF FailToProxy
<1>9. ASSUME NEW r \in Requests, Step(r)
      PROVE  \/ EarlyRequestFilter(r) \/ RequestFilter(r) \/ UpstreamPeer(r)
             \/ Connect(r) \/ ConnectedToUpstream(r) \/ UpstreamRequestFilter(r)
             \/ FailToProxy(r) \/ Logging(r)
  <2>1. pc[r] # "proxy"
    OBVIOUS
  <2> QED
    BY <1>9, <2>1 DEF Step, RequestBodyFilter, UpstreamResponseFilter,
       ResponseFilter, ResponseBodyFilter, Complete, UpstreamError, DownstreamError
<1>10. CASE UNCHANGED vars \/ \E u \in Pools \cup Hosts : ReadyChanges(u)
  BY <1>10 DEF vars, ReadyChanges
<1> HIDE DEF TypeInv, TypeOK, NoRouteConf, NothingProxied
<1> QED
  BY <1>2, <1>3, <1>4, <1>5, <1>6, <1>7, <1>8, <1>9, <1>10 DEF Next

\* With the configuration filed as the Arc it comes in, as the code does, no
\* request is ever proxied, under any configuration: the expect() of
\* upstream_request_filter ends every task that gets there (gateway.rs:196).
THEOREM NothingEverProxied ==
  ASSUME FiledAs = "ArcRouteConf"
  PROVE  Spec => []NothingProxied
<1>1. Init => NoRouteConf /\ NothingProxied
  BY DEF Init, NoRouteConf, NothingProxied
<1>2. TypeInv /\ NoRouteConf /\ NothingProxied /\ [Next]_vars
        => NoRouteConf' /\ NothingProxied'
  BY NoConfKept
<1> QED
  BY <1>1, <1>2, TypeInvAlways, PTL DEF Spec
----------------------------------------------------------------------------
(* The header rules.                                                       *)

\* What a task has noted when it reaches a phase: the upstream of its route,
\* then that upstream's SNI, then the edited headers.
Late == Ended \cup {"proxy", "panicked"}

HeaderInv(r) ==
  /\ pc[r] \in Past => meta[r].upstream = req[r].entry.upstream
  /\ pc[r] \in Forwarding =>
       /\ req[r].entry.upstream \in Upstreams
       /\ meta[r].sni = Sni[req[r].entry.upstream]
  /\ pc[r] = "proxy" => /\ head[r] = UpstreamHeader(req[r].entry, meta[r].sni)
                         /\ ~HeaderRefused(req[r].entry, meta[r].sni)
  /\ pc[r] \notin Late => conn[r].down = "wait"
  /\ pc[r] = "proxy" /\ conn[r].down = "header" =>
       reply[r] \cap req[r].entry.removeResp = {}
  /\ conn[r].down \in {"body", "done"} =>
       /\ req[r].entry.addResp \subseteq reply[r]
       /\ reply[r] \cap req[r].entry.removeResp \subseteq req[r].entry.addResp

\* The upstream, its SNI and the request header along a step.
LEMMA StepForwards ==
  ASSUME TypeInv, Safe, HeaderMaps, NEW r \in Requests, HeaderInv(r), Step(r)
  PROVE  /\ pc'[r] \in Past => meta'[r].upstream = req[r].entry.upstream
         /\ pc'[r] \in Forwarding =>
              /\ req[r].entry.upstream \in Upstreams
              /\ meta'[r].sni = Sni[req[r].entry.upstream]
         /\ pc'[r] = "proxy" =>
              /\ head'[r] = UpstreamHeader(req[r].entry, meta'[r].sni)
              /\ ~HeaderRefused(req[r].entry, meta'[r].sni)
<1> USE DEF TypeInv, TypeOK, HeaderMaps, HeaderInv, Past, Forwarding
<1> HIDE DEF Passed, Wrote
<1>1. CASE EarlyRequestFilter(r)
  BY <1>1 DEF EarlyRequestFilter
<1>2. CASE RequestFilter(r)
  <2>1. CASE RespondNotFound(r)
    BY <2>1 DEF RespondNotFound
  <2>2. CASE RunRequestChain(r)
    <3>1. /\ meta' = [meta EXCEPT ![r].route = req[r].entry.route,
                                  ![r].upstream = req[r].entry.upstream]
          /\ pc'[r] \in {"fail_to_proxy", "logging", "upstream_peer"}
      BY <2>2 DEF RunRequestChain, AfterRequestChain
    <3>2. meta'[r].upstream = req[r].entry.upstream
      BY <3>1 DEF MetaStates
    <3> QED
      BY <3>1, <3>2
  <2>3. "RequestMeta" \in filed[r]
    BY <1>2 DEF RequestFilter, Safe, ContextInv
  <2> QED
    BY <1>2, <2>1, <2>2, <2>3 DEF RequestFilter
<1>3. CASE UpstreamPeer(r)
  <2>1. pc[r] = "upstream_peer" /\ "RequestMeta" \in filed[r]
    BY <1>3 DEF UpstreamPeer, Safe, ContextInv
  <2>2. CASE meta[r].upstream \notin Upstreams
    BY <1>3, <2>1, <2>2 DEF UpstreamPeer, UpstreamMissing
  <2>3. CASE meta[r].upstream \in Upstreams
    <3>1. \/ pc'[r] = "fail_to_proxy"
          \/ pc'[r] = "crashed"
          \/ /\ pc'[r] = "connect"
             /\ meta' = [meta EXCEPT ![r].sni = Sni[meta[r].upstream]]
      BY <1>3, <2>1, <2>3 DEF UpstreamPeer, SelectPeer
    <3>2. meta' = [meta EXCEPT ![r].sni = Sni[meta[r].upstream]] =>
            /\ meta'[r].sni = Sni[meta[r].upstream]
            /\ meta'[r].upstream = meta[r].upstream
      BY DEF MetaStates
    <3> QED
      BY <2>1, <2>3, <3>1, <3>2
  <2> QED
    BY <2>2, <2>3
<1>4. CASE Connect(r)
  BY <1>4 DEF Connect
<1>5. CASE ConnectedToUpstream(r)
  BY <1>5 DEF ConnectedToUpstream
<1>6. CASE UpstreamRequestFilter(r)
  BY <1>6 DEF UpstreamRequestFilter
<1>7. CASE RequestBodyFilter(r)
  BY <1>7 DEF RequestBodyFilter
<1>8. CASE UpstreamResponseFilter(r)
  BY <1>8 DEF UpstreamResponseFilter
<1>9. CASE ResponseFilter(r)
  BY <1>9 DEF ResponseFilter
<1>10. CASE ResponseBodyFilter(r)
  BY <1>10 DEF ResponseBodyFilter
<1>11. CASE Complete(r) \/ UpstreamError(r) \/ DownstreamError(r) \/ Logging(r)
  BY <1>11 DEF Complete, UpstreamError, DownstreamError, Logging
<1>12. CASE FailToProxy(r)
  BY <1>12 DEF FailToProxy
<1> QED
  BY <1>1, <1>2, <1>3, <1>4, <1>5, <1>6, <1>7, <1>8, <1>9, <1>10, <1>11, <1>12
     DEF Step

\* Only the two response filters edit the response header.
LEMMA ReplyMoves ==
  ASSUME TypeInv, NEW r \in Requests, Step(r)
  PROVE  \/ UNCHANGED reply
         \/ UpstreamResponseFilter(r) \/ ResponseFilter(r)
BY DEF Step, EarlyRequestFilter, RequestFilter, UpstreamPeer, Connect,
       ConnectedToUpstream, UpstreamRequestFilter, RequestBodyFilter,
       ResponseBodyFilter, Complete, UpstreamError, DownstreamError,
       FailToProxy, Logging

\* A task leaves the exchange for good, or for a retry before any response.
LEMMA LateMoves ==
  ASSUME TypeInv, NEW r \in Requests, Step(r)
  PROVE  \/ pc[r] \notin Late /\ conn'[r].down = conn[r].down
         \/ pc[r] \in Late /\ pc'[r] \in Late
              /\ (pc'[r] = "proxy" => pc[r] = "proxy")
         \/ conn[r].down = "wait" /\ conn'[r].down = "wait" /\ pc'[r] \notin Late
<1> USE DEF TypeInv, TypeOK, Late, Ended
<1> HIDE DEF Passed, Wrote
<1>0. pc[r] \notin Late => conn'[r].down = conn[r].down
  BY DownMoves DEF UpstreamResponseFilter, ResponseFilter, ResponseBodyFilter
<1>1. CASE pc[r] \notin Late
  BY <1>0, <1>1
<1>2. CASE RequestBodyFilter(r)
  BY <1>2 DEF RequestBodyFilter
<1>3. CASE UpstreamResponseFilter(r)
  BY <1>3 DEF UpstreamResponseFilter
<1>4. CASE ResponseFilter(r)
  BY <1>4 DEF ResponseFilter
<1>5. CASE ResponseBodyFilter(r)
  BY <1>5 DEF ResponseBodyFilter
<1>6. CASE Complete(r) \/ DownstreamError(r) \/ FailToProxy(r) \/ Logging(r)
  BY <1>6 DEF Complete, DownstreamError, FailToProxy, Logging
<1>7. CASE UpstreamError(r)
  <2>1. /\ pc[r] = "proxy"
        /\ \/ pc'[r] = "fail_to_proxy"
           \/ /\ pc'[r] = "upstream_peer" /\ conn[r].down = "wait"
              /\ conn' = [conn EXCEPT ![r].replay = Received(r),
                                      ![r].upload = "open", ![r].sent = 0]
    BY <1>7 DEF UpstreamError, MayRetry
  <2>2. conn' = [conn EXCEPT ![r].replay = Received(r),
                             ![r].upload = "open", ![r].sent = 0]
          => conn'[r].down = conn[r].down
    OBVIOUS
  <2> QED
    BY <2>1, <2>2
<1>8. CASE EarlyRequestFilter(r) \/ RequestFilter(r) \/ UpstreamPeer(r)
           \/ Connect(r) \/ ConnectedToUpstream(r) \/ UpstreamRequestFilter(r)
  <2>1. pc[r] \notin Late
    BY <1>8 DEF EarlyRequestFilter, RequestFilter, UpstreamPeer, Connect,
                ConnectedToUpstream, UpstreamRequestFilter
  <2> QED
    BY <1>1, <2>1
<1> QED
  BY <1>2, <1>3, <1>4, <1>5, <1>6, <1>7, <1>8 DEF Step

\* The response header along a step.
LEMMA StepReplies ==
  ASSUME TypeInv, HeaderMaps, NEW r \in Requests, HeaderInv(r), Step(r)
  PROVE  /\ pc'[r] \notin Late => conn'[r].down = "wait"
         /\ pc'[r] = "proxy" /\ conn'[r].down = "header" =>
              reply'[r] \cap req[r].entry.removeResp = {}
         /\ conn'[r].down \in {"body", "done"} =>
              /\ req[r].entry.addResp \subseteq reply'[r]
              /\ reply'[r] \cap req[r].entry.removeResp
                   \subseteq req[r].entry.addResp
<1>0. pc'[r] \notin Late => conn'[r].down = "wait"
  BY LateMoves DEF HeaderInv
<1>1. CASE UpstreamResponseFilter(r)
  <2>1. CASE UNCHANGED <<conn, reply>>
    <3>1. pc[r] = "proxy"
      BY <1>1 DEF UpstreamResponseFilter
    <3> QED
      BY <1>0, <2>1, <3>1 DEF HeaderInv
  <2>2. CASE /\ conn' = [conn EXCEPT ![r].down = "header"]
             /\ reply' = [reply EXCEPT ![r] =
                            ReplyHeaders \ req[r].entry.removeResp]
    <3>1. conn'[r].down = "header"
      BY <2>2 DEF TypeInv, TypeOK, ConnStates
    <3> QED
      BY <1>0, <2>2, <3>1 DEF HeaderMaps
  <2> QED
    BY <1>1, <2>1, <2>2 DEF UpstreamResponseFilter
<1>2. CASE ResponseFilter(r)
  <2>1. pc[r] = "proxy" /\ conn[r].down = "header"
    BY <1>2 DEF ResponseFilter
  <2>2. CASE UNCHANGED <<conn, reply>>
    BY <1>0, <2>1, <2>2 DEF HeaderInv
  <2>3. CASE /\ reply' = [reply EXCEPT ![r] = @ \cup req[r].entry.addResp]
             /\ \/ conn' = [conn EXCEPT ![r].down = "body"]
                \/ pc'[r] = "fail_to_proxy" /\ UNCHANGED conn
    <3>1. conn' = [conn EXCEPT ![r].down = "body"] => conn'[r].down = "body"
      BY DEF TypeInv, TypeOK, ConnStates
    <3>2. reply'[r] = reply[r] \cup req[r].entry.addResp
      BY <2>3 DEF HeaderMaps
    <3> QED
      BY <1>0, <2>1, <2>3, <3>1, <3>2 DEF HeaderInv
  <2> QED
    BY <1>2, <2>2, <2>3 DEF ResponseFilter, TypeInv, TypeOK
<1>3. CASE UNCHANGED reply /\ ~UpstreamResponseFilter(r) /\ ~ResponseFilter(r)
  <2>1. \/ conn'[r].down = conn[r].down
        \/ conn[r].down = "body" /\ conn'[r].down = "done"
    BY <1>3, DownMoves
  <2>2. pc'[r] = "proxy" => pc[r] = "proxy" \/ conn'[r].down = "wait"
    BY LateMoves DEF HeaderInv, Late
  <2> QED
    BY <1>0, <1>3, <2>1, <2>2 DEF HeaderInv
<1> QED
  BY <1>1, <1>2, <1>3, ReplyMoves

\* What the edits promise.
LEMMA EditedHeader ==
  ASSUME NEW e, NEW sni
  PROVE  /\ DOMAIN UpstreamHeader(e, sni) \cap e.removeReq \subseteq {"Host"}
         /\ ~e.preserve /\ sni # None => UpstreamHeader(e, sni)["Host"] = sni
BY DEF UpstreamHeader, InsertHeaders, RemoveHeaders

\* What insert_header accepts is well-formed, and so is the edited header.
LEMMA WellFormedHeader ==
  ASSUME NEW e, NEW sni, ~HeaderRefused(e, sni),
         NEW n \in DOMAIN UpstreamHeader(e, sni)
  PROVE  n \notin Malformed /\ UpstreamHeader(e, sni)[n] \notin Malformed
<1> DEFINE client == [x \in ClientHeaders |-> "client"]
           added == InsertHeaders(client, e.addReq, "route")
           edited == RemoveHeaders(added, e.removeReq)
<1>1. \A x \in DOMAIN added : x \notin Malformed /\ added[x] \in {"client", "route"}
  BY HeaderAssumption DEF InsertHeaders, HeaderRefused
<1>2. \A x \in DOMAIN edited : x \notin Malformed /\ edited[x] \in {"client", "route"}
  BY <1>1 DEF RemoveHeaders
<1> HIDE DEF edited
<1>3. CASE e.preserve \/ sni = None
  <2>1. UpstreamHeader(e, sni) = edited
    BY <1>3 DEF UpstreamHeader, edited
  <2> QED
    BY <1>2, <2>1, HeaderAssumption
<1>4. CASE ~(e.preserve \/ sni = None)
  <2>1. UpstreamHeader(e, sni) = InsertHeaders(edited, {"Host"}, sni)
    BY <1>4 DEF UpstreamHeader, edited
  <2>2. sni \notin Malformed
    BY <1>4 DEF HeaderRefused
  <2> QED
    BY <1>2, <2>1, <2>2, HeaderAssumption DEF InsertHeaders
<1> QED
  BY <1>3, <1>4

\* The header rules of a route hold for every attempt and every response:
\* removed request headers stay out, Host names the upstream that was selected
\* last, what is forwarded is well-formed, the response carries what the route
\* adds (gateway.rs: upstream_request_filter, upstream_response_filter,
\* response_filter).
THEOREM HeadersAlwaysApplied == Spec => []HeadersApplied
<1> DEFINE Inv == \A r \in Requests : HeaderInv(r)
<1>1. Init => Inv
  BY DEF Init, HeaderInv, NoConn, Late, Ended, Past, Forwarding
<1>2. TypeInv /\ Safe /\ HeaderMaps /\ TruthInv /\ Inv /\ [Next]_vars => Inv'
  <2> SUFFICES ASSUME TypeInv, Safe, HeaderMaps, Inv, [Next]_vars
               PROVE  Inv'
    OBVIOUS
  <2>1. ASSUME NEW r \in Requests, NewCtx(r) PROVE HeaderInv(r)'
    <3>1. pc[r] = "idle" /\ pc'[r] = "early_request_filter"
          /\ conn'[r].down = conn[r].down
      BY <2>1 DEF NewCtx, TypeInv, TypeOK, ConnStates
    <3>2. conn'[r].down = "wait"
      BY <3>1 DEF HeaderInv, Late, Ended
    <3> QED
      BY <3>1, <3>2 DEF HeaderInv, Past, Forwarding
  <2>2. ASSUME NEW r \in Requests, Step(r) PROVE HeaderInv(r)'
    BY <2>2, StepForwards, StepReplies, AttemptMoves DEF HeaderInv
  <2>3. ASSUME NEW r \in Requests, NewCtx(r) \/ Step(r) PROVE Inv'
    <3>1. HeaderInv(r)'
      BY <2>1, <2>2, <2>3
    <3>2. \A x \in Requests \ {r} : HeaderInv(x)'
      BY <2>3, OthersKept DEF Own, HeaderInv
    <3> QED
      BY <3>1, <3>2
  <2>4. CASE UNCHANGED vars \/ \E u \in Pools \cup Hosts : ReadyChanges(u)
    BY <2>4 DEF vars, ReadyChanges, HeaderInv
  <2> QED
    BY <2>3, <2>4 DEF Next
<1>3. Inv => HeadersApplied
  <2> SUFFICES ASSUME Inv, NEW r \in Requests, pc[r] = "proxy"
               PROVE  LET e == req[r].entry IN
                      /\ DOMAIN head[r] \cap e.removeReq \subseteq {"Host"}
                      /\ ~e.preserve => head[r]["Host"] = Sni[e.upstream]
                      /\ \A n \in DOMAIN head[r] :
                           n \notin Malformed /\ head[r][n] \notin Malformed
                      /\ conn[r].down \in {"body", "done"} =>
                           e.addResp \subseteq reply[r]
                           /\ reply[r] \cap e.removeResp \subseteq e.addResp
    BY DEF HeadersApplied
  <2>1. /\ head[r] = UpstreamHeader(req[r].entry, Sni[req[r].entry.upstream])
        /\ Sni[req[r].entry.upstream] # None
        /\ ~HeaderRefused(req[r].entry, Sni[req[r].entry.upstream])
    BY SniAssumption DEF HeaderInv, Forwarding
  <2> QED
    BY <2>1, EditedHeader, WellFormedHeader DEF HeaderInv
<1> QED
  BY <1>1, <1>2, <1>3, TypeInvAlways, SafeAlways, TruthAlways, PTL DEF Spec
----------------------------------------------------------------------------
(* The upstream gets the whole body.                                       *)

\* What the upstream has, what is buffered for it and what the client has left
\* make up the body, and an upload that is over has nothing left.
UploadInv(r) ==
  /\ pc[r] = "idle" => conn[r].sent = 0 /\ conn[r].replay = 0
                       /\ conn[r].upload = "open"
  /\ pc[r] # "idle" => conn[r].sent + conn[r].replay + conn[r].left = req[r].body
  /\ conn[r].upload = "done" => conn[r].left = 0 /\ conn[r].replay = 0

UploadWhole ==
  \A r \in Requests : conn[r].upload = "done" => conn[r].sent = req[r].body

\* What a step other than a body piece or a retry does to the count.
LEMMA CountMoves ==
  ASSUME TypeInv, NEW r \in Requests, Step(r),
         ~RequestBodyFilter(r), ~UpstreamError(r)
  PROVE  /\ conn'[r].left = conn[r].left /\ conn'[r].replay = conn[r].replay
         /\ conn'[r].sent = conn[r].sent /\ conn'[r].upload = conn[r].upload
         /\ bytes'[r] \in {0, bytes[r]}
<1>0. conn \in [Requests -> ConnStates] /\ conn[r] \in ConnStates
      /\ bytes \in [Requests -> Nat]
  BY DEF TypeInv, TypeOK
<1>1. CASE UNCHANGED conn
  <2>1. bytes'[r] \in {0, bytes[r]}
    BY <1>0, <1>1 DEF Step, EarlyRequestFilter, RequestFilter, RespondNotFound,
       RunRequestChain, UpstreamPeer, Connect, ConnectedToUpstream,
       UpstreamRequestFilter, UpstreamResponseFilter, ResponseFilter,
       ResponseBodyFilter, Complete, DownstreamError, FailToProxy, Logging
  <2> QED
    BY <1>1, <2>1
<1>2. CASE UNCHANGED bytes /\ \E d \in DownStates : conn' = [conn EXCEPT ![r].down = d]
  <2>1. PICK d \in DownStates : conn' = [conn EXCEPT ![r].down = d]
    BY <1>2
  <2> QED
    BY <1>0, <1>2, <2>1 DEF ConnStates
<1>3. CASE UNCHANGED bytes /\ \E b \in BOOLEAN :
             conn' = [conn EXCEPT ![r].reused = b, ![r].attempts = @ + 1]
  <2>1. PICK b \in BOOLEAN :
          conn' = [conn EXCEPT ![r].reused = b, ![r].attempts = @ + 1]
    BY <1>3
  <2> QED
    BY <1>0, <1>3, <2>1 DEF ConnStates
<1>4. CASE UpstreamResponseFilter(r) \/ ResponseFilter(r) \/ ResponseBodyFilter(r)
  BY <1>1, <1>2, <1>4
     DEF UpstreamResponseFilter, ResponseFilter, ResponseBodyFilter, DownStates
<1>5. CASE Connect(r)
  BY <1>1, <1>3, <1>5 DEF Connect
<1>6. CASE EarlyRequestFilter(r) \/ RequestFilter(r) \/ UpstreamPeer(r)
           \/ ConnectedToUpstream(r) \/ UpstreamRequestFilter(r) \/ Complete(r)
           \/ DownstreamError(r) \/ FailToProxy(r) \/ Logging(r)
  BY <1>1, <1>6 DEF EarlyRequestFilter, RequestFilter, UpstreamPeer,
     ConnectedToUpstream, UpstreamRequestFilter, Complete, DownstreamError,
     FailToProxy, Logging
<1> QED
  BY <1>4, <1>5, <1>6 DEF Step

LEMMA StepUpload ==
  ASSUME TypeInv, NEW r \in Requests, UploadInv(r), Step(r)
  PROVE  UploadInv(r)'
<1>1. /\ req'[r] = req[r] /\ pc[r] # "idle" /\ pc'[r] # "idle"
      /\ DOMAIN conn = Requests /\ conn[r] \in ConnStates
  BY AttemptMoves DEF TypeInv, TypeOK
<1>2. /\ conn[r].sent \in Nat /\ conn[r].left \in Nat /\ conn[r].replay \in Nat
      /\ req[r].body \in Nat /\ conn[r].left <= req[r].body
  BY <1>1, InputFields DEF TypeInv, Started, ConnStates
<1>3. CASE ~UpstreamError(r) /\ ~RequestBodyFilter(r)
  BY <1>1, <1>3, CountMoves DEF UploadInv
<1>4. CASE conn'[r] = conn[r]
  BY <1>1, <1>4 DEF UploadInv
<1>5. CASE UpstreamError(r) /\ conn'[r] # conn[r]
  <2>1. conn'[r] = [conn[r] EXCEPT !.replay = Received(r), !.upload = "open", !.sent = 0]
    BY <1>1, <1>5 DEF UpstreamError
  <2>2. /\ conn'[r].replay = req[r].body - conn[r].left /\ conn'[r].sent = 0
        /\ conn'[r].left = conn[r].left /\ conn'[r].upload = "open"
    BY <1>1, <2>1 DEF ConnStates, Received
  <2> QED
    BY <1>1, <1>2, <2>2 DEF UploadInv
<1>6. CASE RequestBodyFilter(r) /\ conn'[r] # conn[r]
  <2>1. PICK n \in NextPiece(conn[r]) : conn'[r] = Consume(conn[r], n)
    BY <1>1, <1>6 DEF RequestBodyFilter
  <2> DEFINE rest == IF conn[r].replay > 0 THEN conn[r].left ELSE conn[r].left - n
  <2>2. /\ conn'[r].left = rest /\ conn'[r].replay = 0
        /\ conn'[r].sent = conn[r].sent + n
        /\ conn'[r].upload = IF rest = 0 THEN "done" ELSE "open"
    BY <1>1, <2>1 DEF Consume, ConnStates
  <2>3. /\ n \in Nat /\ rest \in Nat
        /\ n + rest = conn[r].replay + conn[r].left
    BY <1>2 DEF NextPiece
  <2> HIDE DEF rest
  <2>4. conn[r].sent + conn[r].replay + conn[r].left = req[r].body
    BY <1>1 DEF UploadInv
  <2>5. conn'[r].sent + conn'[r].replay + conn'[r].left = req[r].body
    BY <1>2, <2>2, <2>3, <2>4
  <2> QED
    BY <1>1, <2>2, <2>5 DEF UploadInv
<1> QED
  BY <1>3, <1>4, <1>5, <1>6

LEMMA UploadAlways == Spec => [](\A r \in Requests : UploadInv(r))
<1> DEFINE Inv == \A r \in Requests : UploadInv(r)
<1>1. Init => Inv
  BY DEF Init, UploadInv, NoConn
<1>2. TypeInv /\ HeaderMaps /\ Inv /\ [Next]_vars => Inv'
  <2> SUFFICES ASSUME TypeInv, HeaderMaps, Inv, [Next]_vars
               PROVE  Inv'
    OBVIOUS
  <2>1. ASSUME NEW r \in Requests, NewCtx(r) PROVE UploadInv(r)'
    <3>1. PICK q \in Inputs : /\ req' = [req EXCEPT ![r] = q]
                              /\ conn' = [conn EXCEPT ![r].left = q.body]
      BY <2>1 DEF NewCtx
    <3>2. /\ conn'[r].left = q.body /\ conn'[r].replay = conn[r].replay
          /\ conn'[r].sent = conn[r].sent /\ conn'[r].upload = conn[r].upload
          /\ req'[r] = q /\ q.body \in Nat
      BY <3>1, InputFields DEF TypeInv, TypeOK, ConnStates
    <3>3. pc[r] = "idle" /\ pc'[r] = "early_request_filter"
      BY <2>1 DEF NewCtx, TypeInv, TypeOK
    <3> QED
      BY <3>2, <3>3 DEF UploadInv
  <2>2. ASSUME NEW r \in Requests, NewCtx(r) \/ Step(r) PROVE Inv'
    <3>1. UploadInv(r)'
      BY <2>1, <2>2, StepUpload
    <3>2. \A x \in Requests \ {r} : UploadInv(x)'
      BY <2>2, OthersKept DEF Own, UploadInv
    <3> QED
      BY <3>1, <3>2
  <2>3. CASE UNCHANGED vars \/ \E u \in Pools \cup Hosts : ReadyChanges(u)
    BY <2>3 DEF vars, ReadyChanges, UploadInv
  <2> QED
    BY <2>2, <2>3 DEF Next
<1> QED
  BY <1>1, <1>2, TypeInvAlways, TruthAlways, PTL DEF Spec

\* An upload that is over has brought the upstream of the last attempt the body
\* of the request, no byte lost or sent twice, whatever was replayed to it
\* (gateway.rs: request_body_filter, on every piece of every attempt).
THEOREM UploadAlwaysWhole == Spec => []UploadWhole
<1>1. TypeInv /\ (\A r \in Requests : UploadInv(r)) => UploadWhole
  <2> SUFFICES ASSUME TypeInv, NEW r \in Requests, UploadInv(r),
                      conn[r].upload = "done"
               PROVE  conn[r].sent = req[r].body
    BY DEF UploadWhole
  <2> QED
    BY DEF UploadInv, TypeInv, TypeOK, ConnStates
<1> QED
  BY <1>1, TypeInvAlways, UploadAlways, PTL

\* Only bodies below the limit are uploaded to the end.
OversizedCutShort ==
  \A r \in Requests : conn[r].upload = "done" /\ req[r].body > 0
                        => req[r].body < MaxBytes

\* A body that reaches the limit never gets to an upstream in full: the request
\* is turned away before (request_size.rs: handle_request_body on every piece).
THEOREM OversizedAlwaysCutShort == Spec => []OversizedCutShort
<1>1. UploadWhole /\ BodyWithinLimit => OversizedCutShort
  BY DEF UploadWhole, BodyWithinLimit, OversizedCutShort
<1> QED
  BY <1>1, UploadAlwaysWhole, BodyAlwaysWithinLimit, PTL
----------------------------------------------------------------------------
(* The size limit is not applied too early.                                *)

LEMMA Times ==
  ASSUME NEW a \in Nat, NEW b \in Nat
  PROVE  /\ a * b \in Nat
         /\ (a + 1) * b = a * b + b
         /\ a > 0 => a * b >= b
<1>1. a * b \in Nat
  OBVIOUS
<1>2. (a + 1) * b = a * b + b
  OBVIOUS
<1>3. ASSUME a > 0 PROVE a * b >= b
  <2>1. PICK k \in Nat : a = k + 1
    BY <1>3
  <2>2. a * b = k * b + b /\ k * b \in Nat
    BY <2>1
  <2> QED
    BY <2>2
<1> QED
  BY <1>1, <1>2, <1>3

\* An attempt counts the body at most once more: what is counted and what the
\* attempt may yet bring is bounded by the attempts.
Offered(r) == conn[r].attempts * req[r].body
ReadInv(r) ==
  /\ pc[r] = "idle" => bytes[r] = 0 /\ conn[r].attempts = 0
  /\ pc[r] # "idle" => bytes[r] <= Offered(r)
  /\ pc[r] \in Working =>
       bytes[r] + conn[r].left + conn[r].replay <= Offered(r)
  /\ status[r] = 413 => \/ req[r].body > MaxBytes
                        \/ conn[r].attempts > 0 /\ Offered(r) >= MaxBytes

LEMMA StepRead ==
  ASSUME TypeInv, Safe, NEW r \in Requests, Truth(r), UploadInv(r), ReadInv(r),
         Step(r)
  PROVE  ReadInv(r)'
<1>1. /\ req'[r] = req[r] /\ pc[r] # "idle" /\ pc'[r] # "idle"
      /\ conn[r].attempts \in Nat /\ bytes[r] \in Nat /\ conn[r].left \in Nat
      /\ req[r].body \in Nat /\ MaxBytes \in Nat /\ conn[r].replay \in Nat
      /\ conn[r].sent \in Nat
  BY AttemptMoves, InputFields, MaxBytesAssumption
     DEF TypeInv, TypeOK, ConnStates, Started
<1>2. conn[r].left + conn[r].replay <= req[r].body
  BY <1>1 DEF UploadInv
<1>3. Offered(r) \in Nat /\ bytes[r] <= Offered(r)
  BY <1>1, Times DEF ReadInv, Offered
<1>4. \/ /\ Connect(r) /\ conn'[r].attempts = conn[r].attempts + 1
         /\ Offered(r)' = Offered(r) + req[r].body
      \/ /\ conn'[r].attempts = conn[r].attempts /\ Offered(r)' = Offered(r)
         /\ pc'[r] \in Working => pc[r] \in Working
  <2>1. (conn[r].attempts + 1) * req[r].body = Offered(r) + req[r].body
    BY <1>1, Times DEF Offered
  <2> QED
    BY <1>1, <2>1, AttemptMoves DEF Offered
<1>5. /\ conn'[r].attempts \in Nat /\ conn'[r].attempts >= conn[r].attempts
      /\ Offered(r)' \in Nat /\ Offered(r)' >= Offered(r)
  BY <1>1, <1>3, <1>4
<1> HIDE DEF Offered
<1>6. \A n \in NextPiece(conn[r]) : n \in Nat /\ n <= conn[r].left + conn[r].replay
  BY <1>1 DEF NextPiece
<1>7. status'[r] = 413 => \/ req[r].body > MaxBytes
                          \/ conn'[r].attempts > 0 /\ Offered(r)' >= MaxBytes
  <2>1. CASE status'[r] = status[r]
    BY <1>1, <1>3, <1>5, <2>1 DEF ReadInv
  <2>2. CASE status'[r] # status[r] /\ status'[r] = 413
    <3>1. \/ RequestSizeRejectsHeader(req[r])
          \/ /\ pc[r] = "proxy"
             /\ \E n \in NextPiece(conn[r]) : RequestSizeRejectsChunk(bytes[r], n)
      BY <2>2, AnswerHasCause DEF Cause, PluginStatus, StatusOf
    <3>2. CASE RequestSizeRejectsHeader(req[r])
      BY <1>1, <3>2 DEF RequestSizeRejectsHeader
    <3>3. CASE /\ pc[r] = "proxy"
               /\ \E n \in NextPiece(conn[r]) : RequestSizeRejectsChunk(bytes[r], n)
      <4>1. PICK n \in NextPiece(conn[r]) : bytes[r] + n >= MaxBytes
        BY <3>3 DEF RequestSizeRejectsChunk
      <4>2. /\ bytes[r] + conn[r].left + conn[r].replay <= Offered(r)
            /\ conn[r].attempts > 0
        BY <3>3 DEF ReadInv, Truth, Working
      <4> QED
        BY <1>1, <1>3, <1>5, <1>6, <4>1, <4>2
    <3> QED
      BY <3>1, <3>2, <3>3
  <2> QED
    BY <2>1, <2>2
<1>8. /\ bytes'[r] <= Offered(r)'
      /\ pc'[r] \in Working =>
           bytes'[r] + conn'[r].left + conn'[r].replay <= Offered(r)'
  <2>1. CASE UpstreamError(r)
    <3>1. pc'[r] \notin Working /\ bytes' = bytes
      BY <2>1 DEF UpstreamError, Working, TypeInv, TypeOK
    <3> QED
      BY <1>1, <1>3, <1>5, <3>1
  <2>2. CASE RequestBodyFilter(r)
    <3>1. pc[r] = "proxy" /\ bytes[r] + conn[r].left + conn[r].replay <= Offered(r)
      BY <2>2 DEF RequestBodyFilter, ReadInv, Working
    <3>2. PICK n \in NextPiece(conn[r]) :
            /\ bytes'[r] \in {bytes[r], bytes[r] + n}
            /\ \/ UNCHANGED conn /\ pc'[r] \in {"panicked", "fail_to_proxy"}
               \/ conn' = [conn EXCEPT ![r] = Consume(conn[r], n)]
      BY <2>2 DEF RequestBodyFilter, TypeInv, TypeOK
    <3>3. n \in Nat /\ n <= conn[r].left + conn[r].replay
      BY <1>6
    <3>4. CASE UNCHANGED conn /\ pc'[r] \in {"panicked", "fail_to_proxy"}
      BY <1>1, <1>3, <1>5, <3>1, <3>2, <3>3, <3>4 DEF Working
    <3>5. CASE conn' = [conn EXCEPT ![r] = Consume(conn[r], n)]
      <4>1. conn'[r] = Consume(conn[r], n) /\ conn[r] \in ConnStates
        BY <3>5 DEF TypeInv, TypeOK
      <4>2. conn'[r].left + conn'[r].replay + n = conn[r].left + conn[r].replay
            /\ conn'[r].left \in Nat /\ conn'[r].replay \in Nat
        BY <1>1, <4>1 DEF Consume, ConnStates, NextPiece
      <4> QED
        BY <1>1, <1>3, <1>5, <3>1, <3>2, <3>3, <4>2
    <3> QED
      BY <3>2, <3>4, <3>5
  <2>3. CASE ~UpstreamError(r) /\ ~RequestBodyFilter(r)
    <3>1. /\ conn'[r].left = conn[r].left /\ conn'[r].replay = conn[r].replay
          /\ bytes'[r] \in {0, bytes[r]}
      BY <2>3, CountMoves
    <3> QED
      BY <1>1, <1>2, <1>3, <1>4, <1>5, <3>1 DEF ReadInv
  <2> QED
    BY <2>1, <2>2, <2>3
<1> QED
  BY <1>1, <1>7, <1>8 DEF ReadInv

\* request_size only turns a request away for its size: before an attempt for
\* an announced body above the limit, and in one for pieces that reach it, the
\* body counted as often as there were attempts (its counter is not reset for a
\* retry).
THEOREM SizeRejectionAlwaysJustified == Spec => []SizeRejectionJustified
<1> DEFINE Inv == \A r \in Requests : ReadInv(r)
           Uploads == \A r \in Requests : UploadInv(r)
<1>1. Init => Inv
  BY DEF Init, ReadInv, NoConn, Working
<1>2. TypeInv /\ Safe /\ HeaderMaps /\ TruthInv /\ Uploads /\ Inv /\ [Next]_vars
        => Inv'
  <2> SUFFICES ASSUME TypeInv, Safe, HeaderMaps, TruthInv, Uploads, Inv, [Next]_vars
               PROVE  Inv'
    OBVIOUS
  <2>1. ASSUME NEW r \in Requests, NewCtx(r) PROVE ReadInv(r)'
    <3>1. PICK q \in Inputs : /\ req' = [req EXCEPT ![r] = q]
                              /\ conn' = [conn EXCEPT ![r].left = q.body]
      BY <2>1 DEF NewCtx
    <3>2. /\ conn'[r].attempts = conn[r].attempts
          /\ req'[r] = q /\ q.body \in Nat
      BY <3>1, InputFields DEF TypeInv, TypeOK, ConnStates
    <3>3. /\ pc[r] = "idle" /\ pc'[r] = "early_request_filter"
          /\ bytes' = bytes /\ status' = status
      BY <2>1 DEF NewCtx, TypeInv, TypeOK
    <3>4. bytes[r] = 0 /\ conn[r].attempts = 0 /\ status[r] = 0
      BY <3>3 DEF ReadInv, TruthInv, Truth
    <3>5. Offered(r)' = 0
      BY <3>2, <3>4 DEF Offered
    <3> QED
      BY <3>2, <3>3, <3>4, <3>5 DEF ReadInv, Working
  <2>2. ASSUME NEW r \in Requests, NewCtx(r) \/ Step(r) PROVE Inv'
    <3>1. ReadInv(r)'
      BY <2>1, <2>2, StepRead DEF TruthInv
    <3>2. \A x \in Requests \ {r} : ReadInv(x)'
      BY <2>2, OthersKept DEF Own, ReadInv, Offered
    <3> QED
      BY <3>1, <3>2
  <2>3. CASE UNCHANGED vars \/ \E u \in Pools \cup Hosts : ReadyChanges(u)
    BY <2>3 DEF vars, ReadyChanges, ReadInv, Offered
  <2> QED
    BY <2>2, <2>3 DEF Next
<1>3. TypeInv /\ TruthInv /\ Inv => SizeRejectionJustified
  <2> SUFFICES ASSUME TypeInv, NEW r \in Requests, ReadInv(r), TruthInv,
                      status[r] = 413
               PROVE  IF conn[r].attempts = 0 THEN req[r].body > MaxBytes
                      ELSE Offered(r) >= MaxBytes
    BY DEF SizeRejectionJustified, Offered
  <2>1. CASE conn[r].attempts = 0
    BY <2>1 DEF ReadInv
  <2>2. CASE conn[r].attempts # 0 /\ req[r].body > MaxBytes
    <3>1. /\ conn[r].attempts \in Nat /\ req[r].body \in Nat
          /\ MaxBytes \in Nat
      BY InputFields, MaxBytesAssumption
         DEF TypeInv, TypeOK, ConnStates, Started, TruthInv, Truth
    <3>2. Offered(r) >= req[r].body /\ Offered(r) \in Nat
      BY <2>2, <3>1, Times DEF Offered
    <3> QED
      BY <2>2, <3>1, <3>2
  <2> QED
    BY <2>1, <2>2 DEF ReadInv
<1> QED
  BY <1>1, <1>2, <1>3, TypeInvAlways, SafeAlways, TruthAlways, UploadAlways, PTL
     DEF Spec
----------------------------------------------------------------------------
(* A Stop is final once the request is routed.                             *)

\* In every hook but handle_early_request a middleware's Stop takes the request
\* to fail_to_proxy, to logging or to its end (the loops of gateway.rs).
THEOREM StopAlwaysHaltsAfterRouting == Spec => StopHaltsAfterRouting
<1> DEFINE Halts ==
      \A r \in Requests :
        halted'[r] /\ ~halted[r] /\ pc[r] # "early_request_filter"
          => pc'[r] \in {"fail_to_proxy", "logging", "done"}
<1>1. TypeInv /\ [Next]_vars => [Halts]_vars
  <2> SUFFICES ASSUME TypeInv, Next, NEW x \in Requests, halted'[x], ~halted[x],
                      pc[x] # "early_request_filter"
               PROVE  pc'[x] \in {"fail_to_proxy", "logging", "done"}
    OBVIOUS
  <2> USE DEF TypeInv, TypeOK
  <2>1. PICK r \in Requests : NewCtx(r) \/ Step(r)
    BY DEF Next, ReadyChanges
  <2>2. CASE EarlyRequestFilter(r)
    BY <2>2 DEF EarlyRequestFilter
  <2>3. CASE RequestFilter(r)
    BY <2>3 DEF RequestFilter, RespondNotFound, RunRequestChain, AfterRequestChain
  <2>4. CASE ConnectedToUpstream(r)
    BY <2>4 DEF ConnectedToUpstream
  <2>5. CASE UpstreamRequestFilter(r)
    BY <2>5 DEF UpstreamRequestFilter
  <2>6. CASE RequestBodyFilter(r)
    BY <2>6 DEF RequestBodyFilter
  <2>7. CASE UpstreamResponseFilter(r)
    BY <2>7 DEF UpstreamResponseFilter
  <2>8. CASE ResponseFilter(r)
    BY <2>8 DEF ResponseFilter
  <2>9. CASE ResponseBodyFilter(r)
    BY <2>9 DEF ResponseBodyFilter
  <2>10. CASE FailToProxy(r)
    BY <2>10 DEF FailToProxy
  <2>11. CASE Logging(r)
    BY <2>11 DEF Logging
  <2>12. CASE NewCtx(r) \/ UpstreamPeer(r) \/ Connect(r) \/ Complete(r)
              \/ UpstreamError(r) \/ DownstreamError(r)
    BY <2>12 DEF NewCtx, UpstreamPeer, Connect, Complete, UpstreamError,
                 DownstreamError
  <2> QED
    BY <2>1, <2>2, <2>3, <2>4, <2>5, <2>6, <2>7, <2>8, <2>9, <2>10, <2>11,
       <2>12 DEF Step
<1> QED
  BY <1>1, TypeInvAlways, PTL DEF Spec, StopHaltsAfterRouting
----------------------------------------------------------------------------
(* A request takes a bounded number of steps: what Terminates needs besides *)
(* fairness.                                                               *)

\* The callbacks that an exchange still has before it, at most: one per byte
\* the client has left, one for bytes to replay, one for an empty body, and
\* those of the response.
PieceWork(c) ==
  c.left + (IF c.replay > 0 THEN 1 ELSE 0) + (IF c.upload = "open" THEN 1 ELSE 0)
DownWork(c) ==
  IF c.down = "wait" THEN 3 ELSE IF c.down = "header" THEN 2
  ELSE IF c.down = "body" THEN 1 ELSE 0

\* The phases before "proxy", and the connections that may still be opened:
\* an attempt under way is counted in attempts once it is connected.
StageWork(phase) ==
  CASE phase = "early_request_filter" -> 6 [] phase = "request_filter" -> 5
    [] phase = "upstream_peer" -> 4        [] phase = "connect" -> 3
    [] phase = "connected_to_upstream" -> 2
    [] phase = "upstream_request_filter" -> 1 [] phase = "proxy" -> 0
Retries(phase, c) ==
  MaxRetries - c.attempts - (IF phase \in Working THEN 0 ELSE 1)

\* A retry costs seven steps: the four phases again, the replay, the call that
\* ends the upload, and the error itself.
Budget == 7 * MaxRetries + MaxBody + 7
WorkOf(phase, c) ==
  CASE phase = "idle"                  -> Budget
    [] phase \in {"done", "panicked", "crashed"} -> 0
    [] phase = "logging"               -> 1
    [] phase = "fail_to_proxy"         -> 2
    [] OTHER -> 3 + StageWork(phase) + 7 * Retries(phase, c)
                  + PieceWork(c) + DownWork(c)
Work(r) == WorkOf(pc[r], conn[r])

\* Retries are never negative: max_retries bounds the attempts.
Fine(phase, c) ==
  /\ phase = "idle" => c.attempts = 0 /\ c.replay = 0
  /\ phase \in Working => c.attempts <= MaxRetries
  /\ phase \in {"early_request_filter", "request_filter", "upstream_peer",
                "connect"} => c.attempts < MaxRetries
Active == {"early_request_filter", "request_filter", "upstream_peer", "connect"}
          \cup Working

LEMMA ActiveWork ==
  ASSUME NEW c \in ConnStates, NEW phase \in Active
  PROVE  /\ WorkOf(phase, c) = 3 + StageWork(phase) + 7 * Retries(phase, c)
                               + PieceWork(c) + DownWork(c)
         /\ PieceWork(c) \in Nat /\ DownWork(c) \in 0..3 /\ StageWork(phase) \in 0..6
         /\ Retries(phase, c) \in Int
         /\ Fine(phase, c) => Retries(phase, c) \in Nat
<1>1. WorkOf(phase, c) = 3 + StageWork(phase) + 7 * Retries(phase, c)
                               + PieceWork(c) + DownWork(c)
  BY DEF WorkOf, Active, Working
<1>2. c.left \in Nat /\ c.attempts \in Nat /\ MaxRetries \in Nat
  BY BoundsAssumption DEF ConnStates
<1>3. PieceWork(c) \in Nat /\ DownWork(c) \in 0..3
  BY <1>2 DEF PieceWork, DownWork
<1>4. StageWork(phase) \in 0..6
  BY DEF StageWork, Active, Working
<1>5. /\ Retries(phase, c) \in Int
      /\ Fine(phase, c) => Retries(phase, c) \in Nat
  BY <1>2 DEF Retries, Fine, Active, Working
<1> QED
  BY <1>1, <1>3, <1>4, <1>5

LEMMA EndWork ==
  ASSUME NEW c
  PROVE  /\ WorkOf("fail_to_proxy", c) = 2 /\ WorkOf("logging", c) = 1
         /\ WorkOf("done", c) = 0 /\ WorkOf("panicked", c) = 0
         /\ WorkOf("crashed", c) = 0
         /\ WorkOf("idle", c) = Budget
         /\ Fine("fail_to_proxy", c) /\ Fine("logging", c) /\ Fine("done", c)
         /\ Fine("panicked", c) /\ Fine("crashed", c)
BY DEF WorkOf, Fine, Working

\* The callbacks that leave the exchange as it is.
Moves == {<<"early_request_filter", "request_filter">>,
          <<"request_filter", "upstream_peer">>, <<"upstream_peer", "connect">>,
          <<"connected_to_upstream", "upstream_request_filter">>,
          <<"upstream_request_filter", "proxy">>,
          <<"fail_to_proxy", "logging">>, <<"logging", "done">>}
         \cup (Active \X {"fail_to_proxy", "logging", "panicked", "crashed"})

LEMMA MoveWork ==
  ASSUME NEW c \in ConnStates, NEW phase, NEW target, Fine(phase, c),
         <<phase, target>> \in Moves
  PROVE  WorkOf(target, c) < WorkOf(phase, c) /\ Fine(target, c)
<1>1. CASE phase \in {"fail_to_proxy", "logging"}
  BY <1>1, EndWork DEF Moves, Active, Working
<1>2. CASE /\ phase \in Active
           /\ target \in {"fail_to_proxy", "logging", "panicked", "crashed"}
  <2>1. WorkOf(phase, c) >= 3
    BY <1>2, ActiveWork
  <2> QED
    BY <1>2, <2>1, EndWork, ActiveWork
<1>3. CASE phase \in Active /\ target \in Active
  <2>1. <<phase, target>> \in
          {<<"early_request_filter", "request_filter">>,
           <<"request_filter", "upstream_peer">>, <<"upstream_peer", "connect">>,
           <<"connected_to_upstream", "upstream_request_filter">>,
           <<"upstream_request_filter", "proxy">>}
    BY <1>3 DEF Moves, Active, Working
  <2>2. Retries(target, c) = Retries(phase, c)
    BY <2>1 DEF Retries, Working
  <2>3. StageWork(target) < StageWork(phase)
    BY <2>1 DEF StageWork
  <2>4. Fine(target, c)
    BY <2>1 DEF Fine, Working
  <2> QED
    BY <1>3, <2>2, <2>3, <2>4, ActiveWork
<1> QED
  BY <1>1, <1>2, <1>3 DEF Moves, Active, Working

\* A connection is opened.
LEMMA ConnectWork ==
  ASSUME NEW c \in ConnStates, Fine("connect", c), NEW b \in BOOLEAN,
         NEW d, d = [c EXCEPT !.reused = b, !.attempts = c.attempts + 1]
  PROVE  /\ WorkOf("connected_to_upstream", d) < WorkOf("connect", c)
         /\ Fine("connected_to_upstream", d)
<1>1. c.attempts \in Nat /\ MaxRetries \in Nat /\ c.attempts < MaxRetries
  BY BoundsAssumption DEF ConnStates, Fine
<1>2. d \in ConnStates
  <2> DEFINE n == c.attempts + 1
  <2>1. n \in Nat
    BY <1>1
  <2>2. d = [c EXCEPT !.reused = b, !.attempts = n]
    OBVIOUS
  <2> HIDE DEF n
  <2>3. [c EXCEPT !.reused = b, !.attempts = n] \in ConnStates
    BY <2>1, ConnOpened
  <2> QED
    BY <2>2, <2>3
<1>3. d.attempts = c.attempts + 1 /\ d.left = c.left
      /\ d.replay = c.replay /\ d.upload = c.upload /\ d.down = c.down
  BY DEF ConnStates
<1>4. /\ Retries("connected_to_upstream", d) = Retries("connect", c)
      /\ PieceWork(d) = PieceWork(c) /\ DownWork(d) = DownWork(c)
      /\ StageWork("connected_to_upstream") = 2 /\ StageWork("connect") = 3
      /\ Fine("connected_to_upstream", d)
  BY <1>1, <1>3 DEF Retries, PieceWork, DownWork, StageWork, Fine, Working
<1> QED
  BY <1>2, <1>4, ActiveWork DEF Active, Working

\* A piece of the body goes upstream.
LEMMA PieceWorks ==
  ASSUME NEW c \in ConnStates, Fine("proxy", c), c.upload = "open",
         NEW n \in NextPiece(c)
  PROVE  /\ WorkOf("proxy", Consume(c, n)) < WorkOf("proxy", c)
         /\ Fine("proxy", Consume(c, n))
<1> DEFINE d == Consume(c, n)
<1>1. c.left \in Nat /\ c.replay \in Nat /\ n \in Nat /\ c.sent \in Nat
      /\ (c.replay = 0 => n <= c.left /\ (c.left > 0 => n > 0))
  BY DEF ConnStates, NextPiece
<1>2. /\ d.left = IF c.replay > 0 THEN c.left ELSE c.left - n
      /\ d.replay = 0 /\ d.upload = IF d.left = 0 THEN "done" ELSE "open"
      /\ d.attempts = c.attempts /\ d.down = c.down
  BY <1>1 DEF Consume, ConnStates
<1>3. d.left \in Nat /\ c.sent + n \in Nat
  BY <1>1, <1>2
<1>4. d \in ConnStates
  BY <1>1, <1>3, <1>2, ConnConsumed DEF Consume, UploadStates
<1>5. PieceWork(d) < PieceWork(c)
  BY <1>1, <1>2, <1>3 DEF PieceWork
<1>6. /\ Retries("proxy", d) = Retries("proxy", c) /\ DownWork(d) = DownWork(c)
      /\ Fine("proxy", d)
  BY <1>2 DEF Retries, DownWork, Fine, Working
<1> HIDE DEF d
<1>7. WorkOf("proxy", d) < WorkOf("proxy", c)
  BY <1>4, <1>5, <1>6, ActiveWork DEF Active, Working
<1> QED
  BY <1>6, <1>7 DEF d

\* The response makes progress.
LEMMA DownWorks ==
  ASSUME NEW c \in ConnStates, Fine("proxy", c), NEW x,
         <<c.down, x>> \in {<<"wait", "header">>, <<"header", "body">>,
                            <<"body", "done">>}
  PROVE  /\ WorkOf("proxy", [c EXCEPT !.down = x]) < WorkOf("proxy", c)
         /\ Fine("proxy", [c EXCEPT !.down = x])
<1> DEFINE d == [c EXCEPT !.down = x]
<1>1. d \in ConnStates /\ d.down = x /\ d.left = c.left /\ d.replay = c.replay
      /\ d.upload = c.upload /\ d.attempts = c.attempts
  BY DEF ConnStates, DownStates
<1>2. DownWork(d) < DownWork(c)
  BY <1>1 DEF DownWork
<1>3. /\ Retries("proxy", d) = Retries("proxy", c) /\ PieceWork(d) = PieceWork(c)
      /\ Fine("proxy", d)
  BY <1>1 DEF Retries, PieceWork, Fine, Working
<1> HIDE DEF d
<1>4. WorkOf("proxy", d) < WorkOf("proxy", c)
  BY <1>1, <1>2, <1>3, ActiveWork DEF Active, Working
<1> QED
  BY <1>3, <1>4 DEF d

\* The request starts over.
LEMMA RetryWork ==
  ASSUME NEW c \in ConnStates, Fine("proxy", c), c.attempts < MaxRetries,
         NEW n \in Nat,
         NEW d, d = [c EXCEPT !.replay = n, !.upload = "open", !.sent = 0]
  PROVE  WorkOf("upstream_peer", d) < WorkOf("proxy", c) /\ Fine("upstream_peer", d)
<1>1. d \in ConnStates /\ d.down = c.down /\ d.left = c.left /\ d.replay = n
      /\ d.upload = "open" /\ d.attempts = c.attempts
  BY ConnRetried DEF ConnStates, UploadStates
<1>2. c.attempts \in Nat /\ MaxRetries \in Nat /\ c.left \in Nat
  BY BoundsAssumption DEF ConnStates
<1>3. /\ Retries("upstream_peer", d) = Retries("proxy", c) - 1
      /\ PieceWork(d) <= PieceWork(c) + 2 /\ DownWork(d) = DownWork(c)
      /\ StageWork("upstream_peer") = 4 /\ StageWork("proxy") = 0
      /\ Fine("upstream_peer", d)
  BY <1>1, <1>2 DEF Retries, PieceWork, DownWork, StageWork, Fine, Working
<1>4. WorkOf("upstream_peer", d) < WorkOf("proxy", c)
  BY <1>1, <1>3, ActiveWork DEF Active, Working
<1> QED
  BY <1>3, <1>4

\* Every callback of a task takes one off its work, and keeps it bounded.
LEMMA StepWork ==
  ASSUME TypeInv, NEW r \in Requests, Fine(pc[r], conn[r]), Step(r)
  PROVE  Work(r)' < Work(r) /\ Fine(pc[r], conn[r])'
<1>0. /\ DOMAIN pc = Requests /\ DOMAIN conn = Requests
      /\ conn[r] \in ConnStates
  BY DEF TypeInv, TypeOK
<1>1. ASSUME UNCHANGED conn, <<pc[r], pc'[r]>> \in Moves
      PROVE  Work(r)' < Work(r) /\ Fine(pc[r], conn[r])'
  BY <1>0, <1>1, MoveWork DEF Work
<1> USE DEF Moves, Active, Working
<1>2. CASE EarlyRequestFilter(r)
  <2>1. /\ UNCHANGED conn /\ pc[r] = "early_request_filter"
        /\ pc'[r] \in {"request_filter", "fail_to_proxy"}
    BY <1>0, <1>2 DEF EarlyRequestFilter
  <2> QED
    BY <1>1, <2>1
<1>3. CASE RequestFilter(r)
  <2>1. /\ UNCHANGED conn /\ pc[r] = "request_filter"
        /\ pc'[r] \in {"panicked", "logging", "fail_to_proxy", "upstream_peer"}
    BY <1>0, <1>3 DEF RequestFilter, RespondNotFound, RunRequestChain,
                      AfterRequestChain
  <2> QED
    BY <1>1, <2>1
<1>4. CASE UpstreamPeer(r)
  <2>1. /\ UNCHANGED conn /\ pc[r] = "upstream_peer"
        /\ pc'[r] \in {"panicked", "fail_to_proxy", "connect", "crashed"}
    BY <1>0, <1>4 DEF UpstreamPeer, UpstreamMissing, SelectPeer
  <2> QED
    BY <1>1, <2>1
<1>5. CASE Connect(r)
  <2>1. pc[r] = "connect"
    BY <1>5 DEF Connect
  <2>2. CASE UNCHANGED conn /\ pc'[r] = "fail_to_proxy"
    BY <1>1, <2>1, <2>2
  <2>3. ASSUME NEW b \in BOOLEAN, pc'[r] = "connected_to_upstream",
               conn' = [conn EXCEPT ![r].reused = b, ![r].attempts = @ + 1]
        PROVE  Work(r)' < Work(r) /\ Fine(pc[r], conn[r])'
    <3>1. conn'[r] = [conn[r] EXCEPT !.reused = b, !.attempts = conn[r].attempts + 1]
      BY <1>0, <2>3
    <3> QED
      BY <1>0, <2>1, <2>3, <3>1, ConnectWork DEF Work
  <2> QED
    BY <1>0, <1>5, <2>2, <2>3 DEF Connect
<1>6. CASE ConnectedToUpstream(r) \/ UpstreamRequestFilter(r)
  <2>1. /\ UNCHANGED conn
        /\ \/ /\ pc[r] = "connected_to_upstream"
              /\ pc'[r] \in {"upstream_request_filter", "fail_to_proxy"}
           \/ /\ pc[r] = "upstream_request_filter"
              /\ pc'[r] \in {"proxy", "fail_to_proxy", "panicked"}
    BY <1>0, <1>6 DEF ConnectedToUpstream, UpstreamRequestFilter
  <2> QED
    BY <1>1, <2>1
<1>7. CASE RequestBodyFilter(r)
  <2>1. /\ pc[r] = "proxy" /\ conn[r].upload = "open"
        /\ \/ UNCHANGED conn /\ pc'[r] \in {"panicked", "fail_to_proxy"}
           \/ \E n \in NextPiece(conn[r]) :
                conn' = [conn EXCEPT ![r] = Consume(@, n)] /\ UNCHANGED pc
    BY <1>0, <1>7 DEF RequestBodyFilter
  <2>2. ASSUME NEW n \in NextPiece(conn[r]),
               conn' = [conn EXCEPT ![r] = Consume(@, n)], UNCHANGED pc
        PROVE  Work(r)' < Work(r) /\ Fine(pc[r], conn[r])'
    <3>1. conn'[r] = Consume(conn[r], n)
      BY <1>0, <2>2
    <3> QED
      BY <1>0, <2>1, <2>2, <3>1, PieceWorks DEF Work
  <2> QED
    BY <1>1, <2>1, <2>2
<1>8. CASE UpstreamResponseFilter(r) \/ ResponseFilter(r) \/ ResponseBodyFilter(r)
  <2>1. pc[r] = "proxy"
    BY <1>8 DEF UpstreamResponseFilter, ResponseFilter, ResponseBodyFilter
  <2>2. \/ UNCHANGED conn /\ pc'[r] \in {"panicked", "fail_to_proxy"}
        \/ \E x \in DownStates :
             /\ <<conn[r].down, x>> \in {<<"wait", "header">>, <<"header", "body">>,
                                         <<"body", "done">>}
             /\ conn' = [conn EXCEPT ![r].down = x] /\ UNCHANGED pc
    <3>1. CASE UpstreamResponseFilter(r)
      BY <1>0, <3>1 DEF UpstreamResponseFilter, DownStates
    <3>2. CASE ResponseFilter(r)
      BY <1>0, <3>2 DEF ResponseFilter, DownStates
    <3>3. CASE ResponseBodyFilter(r)
      BY <1>0, <3>3 DEF ResponseBodyFilter, DownStates
    <3> QED
      BY <1>8, <3>1, <3>2, <3>3
  <2>3. ASSUME NEW x \in DownStates,
               <<conn[r].down, x>> \in {<<"wait", "header">>, <<"header", "body">>,
                                        <<"body", "done">>},
               conn' = [conn EXCEPT ![r].down = x], UNCHANGED pc
        PROVE  Work(r)' < Work(r) /\ Fine(pc[r], conn[r])'
    <3>1. conn'[r] = [conn[r] EXCEPT !.down = x]
      BY <1>0, <2>3
    <3> QED
      BY <1>0, <2>1, <2>3, <3>1, DownWorks DEF Work
  <2> QED
    BY <1>1, <2>1, <2>2, <2>3
<1>9. CASE UpstreamError(r)
  <2>1. pc[r] = "proxy"
    BY <1>9 DEF UpstreamError
  <2>2. \/ UNCHANGED conn /\ pc'[r] = "fail_to_proxy"
        \/ /\ conn[r].attempts < MaxRetries /\ pc'[r] = "upstream_peer"
           /\ conn' = [conn EXCEPT ![r].replay = Received(r),
                                   ![r].upload = "open", ![r].sent = 0]
    BY <1>0, <1>9 DEF UpstreamError, MayRetry
  <2>3. ASSUME conn[r].attempts < MaxRetries, pc'[r] = "upstream_peer",
               conn' = [conn EXCEPT ![r].replay = Received(r),
                                    ![r].upload = "open", ![r].sent = 0]
        PROVE  Work(r)' < Work(r) /\ Fine(pc[r], conn[r])'
    <3>1. Received(r) \in Nat
      <4>1. req[r] \in Inputs /\ conn[r].left <= req[r].body
        BY <2>1 DEF TypeInv, Started
      <4>2. req[r].body \in Nat /\ conn[r].left \in Nat
        BY <1>0, <4>1, InputFields DEF ConnStates
      <4> QED
        BY <4>1, <4>2 DEF Received
    <3>2. conn'[r] = [conn[r] EXCEPT !.replay = Received(r), !.upload = "open",
                                     !.sent = 0]
      BY <1>0, <2>3
    <3> QED
      <4>1. Fine("proxy", conn[r])
        BY <2>1
      <4>2. /\ WorkOf("upstream_peer", conn'[r]) < WorkOf("proxy", conn[r])
            /\ Fine("upstream_peer", conn'[r])
        BY <1>0, <2>3, <3>1, <3>2, <4>1, RetryWork
      <4> QED
        BY <2>1, <2>3, <4>2 DEF Work
  <2> QED
    BY <1>1, <2>1, <2>2, <2>3
<1>10. CASE Complete(r) \/ DownstreamError(r) \/ FailToProxy(r) \/ Logging(r)
  <2>1. /\ UNCHANGED conn
        /\ \/ pc[r] = "proxy" /\ pc'[r] \in {"logging", "fail_to_proxy"}
           \/ pc[r] = "fail_to_proxy" /\ pc'[r] = "logging"
           \/ pc[r] = "logging" /\ pc'[r] = "done"
    BY <1>0, <1>10 DEF Complete, DownstreamError, FailToProxy, Logging
  <2> QED
    BY <1>1, <2>1
<1> QED
  BY <1>2, <1>3, <1>4, <1>5, <1>6, <1>7, <1>8, <1>9, <1>10 DEF Step

\* A request comes in with the whole budget and starts below it.
LEMMA NewCtxWork ==
  ASSUME TypeInv, NEW r \in Requests, Fine(pc[r], conn[r]), NewCtx(r)
  PROVE  Work(r)' < Work(r) /\ Fine(pc[r], conn[r])'
<1>1. PICK q \in Inputs : conn' = [conn EXCEPT ![r].left = q.body]
  BY DEF NewCtx
<1>2. /\ DOMAIN pc = Requests /\ DOMAIN conn = Requests /\ conn[r] \in ConnStates
      /\ pc[r] = "idle" /\ pc'[r] = "early_request_filter"
  BY DEF NewCtx, TypeInv, TypeOK
<1>3. q.body \in 0..MaxBody /\ MaxBody \in Nat /\ MaxRetries \in Nat \ {0}
  BY InputsAssumption, BoundsAssumption
<1> DEFINE d == conn'[r]
<1>4. d = [conn[r] EXCEPT !.left = q.body]
  BY <1>1, <1>2
<1>5. d \in ConnStates
  BY <1>2, <1>3, <1>4, ConnLeft
<1>6. d.left = q.body /\ d.attempts = 0 /\ d.replay = 0
  BY <1>2, <1>4 DEF Fine, ConnStates
<1>7. /\ PieceWork(d) <= q.body + 1 /\ StageWork("early_request_filter") = 6
      /\ Retries("early_request_filter", d) = MaxRetries - 1
      /\ Fine("early_request_filter", d)
  BY <1>3, <1>6 DEF PieceWork, StageWork, Retries, Fine, Working
<1> HIDE DEF d
<1>8. /\ WorkOf("early_request_filter", d) =
           9 + 7 * (MaxRetries - 1) + PieceWork(d) + DownWork(d)
      /\ PieceWork(d) \in Nat /\ DownWork(d) \in 0..3
  BY <1>3, <1>5, <1>7, ActiveWork DEF Active
<1>9. WorkOf("early_request_filter", d) < Budget
  BY <1>3, <1>7, <1>8 DEF Budget
<1> QED
  BY <1>2, <1>7, <1>9, EndWork DEF Work, d

WorkNat == \A r \in Requests : Fine(pc[r], conn[r]) => Work(r) \in Nat

LEMMA WorkIsNat == TypeInv => WorkNat
<1> SUFFICES ASSUME TypeInv, NEW r \in Requests, Fine(pc[r], conn[r])
             PROVE  Work(r) \in Nat
  BY DEF WorkNat
<1>1. pc[r] \in Phases /\ conn[r] \in ConnStates
  BY DEF TypeInv, TypeOK
<1>2. CASE pc[r] \in Active
  BY <1>1, <1>2, ActiveWork DEF Work
<1>3. CASE pc[r] \notin Active
  <2>1. Budget \in Nat
    BY BoundsAssumption DEF Budget
  <2> QED
    BY <1>1, <1>3, <2>1, EndWork DEF Work, Phases, Active, Working
<1> QED
  BY <1>2, <1>3

\* The invariant: no request has more retries than max_retries, nor more work
\* than a new one.
WorkInv == \A r \in Requests : Fine(pc[r], conn[r]) /\ Work(r) <= Budget

\* A step of the gateway takes work off the request that moves, and leaves the
\* other ones what they have.
RunsDownStep ==
  \A r \in Requests : /\ Work(r)' <= Work(r)
                      /\ NewCtx(r) \/ Step(r) => Work(r)' < Work(r)
RunsDown == [][RunsDownStep]_vars

LEMMA WorkKept ==
  ASSUME TypeInv, TypeInv', HeaderMaps, WorkInv, [Next]_vars
  PROVE  WorkInv' /\ RunsDownStep
<1>0. WorkNat /\ WorkNat'
  BY WorkIsNat, PTL
<1>1. Budget \in Nat /\ \A x \in Requests : Work(x) \in Nat
  BY <1>0, BoundsAssumption DEF Budget, WorkInv, WorkNat
<1>2. ASSUME NEW r \in Requests, NewCtx(r) \/ Step(r)
      PROVE  Work(r)' < Work(r) /\ Fine(pc[r], conn[r])'
  BY <1>2, StepWork, NewCtxWork DEF WorkInv
<1>3. ASSUME NEW x \in Requests, pc'[x] = pc[x], conn'[x] = conn[x]
      PROVE  Work(x)' = Work(x) /\ Fine(pc[x], conn[x])'
  BY <1>3 DEF Work, WorkInv
<1>4. ASSUME NEW x \in Requests
      PROVE  /\ Fine(pc[x], conn[x])' /\ Work(x)' <= Work(x)
             /\ NewCtx(x) \/ Step(x) => Work(x)' < Work(x)
  <2>1. CASE NewCtx(x) \/ Step(x)
    <3>1. Work(x)' < Work(x) /\ Fine(pc[x], conn[x])'
      BY <1>2, <2>1
    <3>2. Work(x)' \in Nat
      BY <1>0, <3>1 DEF WorkNat
    <3> QED
      BY <1>1, <3>1, <3>2
  <2>2. CASE ~(NewCtx(x) \/ Step(x))
    <3>1. pc'[x] = pc[x] /\ conn'[x] = conn[x]
      <4>1. CASE UNCHANGED vars \/ \E u \in Pools \cup Hosts : ReadyChanges(u)
        BY <4>1 DEF vars, ReadyChanges
      <4>2. CASE \E r \in Requests : NewCtx(r) \/ Step(r)
        BY <2>2, <4>2, OthersKept DEF Own
      <4> QED
        BY <4>1, <4>2 DEF Next
    <3> QED
      BY <1>1, <1>3, <2>2, <3>1
  <2> QED
    BY <2>1, <2>2
<1>5. ASSUME NEW x \in Requests PROVE Work(x)' <= Budget
  <2>1. Work(x)' \in Nat
    <3>1. Fine(pc[x], conn[x])'
      BY <1>4
    <3> QED
      BY <1>0, <3>1 DEF WorkNat
  <2>2. Work(x)' <= Work(x) /\ Work(x) <= Budget
    BY <1>4 DEF WorkInv
  <2> QED
    BY <1>1, <2>1, <2>2
<1>6. WorkInv'
  BY <1>4, <1>5 DEF WorkInv, Budget
<1> QED
  BY <1>4, <1>6 DEF RunsDownStep

LEMMA WorkAlways == Spec => []WorkInv
<1>1. Init => WorkInv
  BY BoundsAssumption, EndWork DEF Init, WorkInv, Work, Fine, NoConn, Working, Budget
<1>2. TypeInv /\ TypeInv' /\ HeaderMaps /\ WorkInv /\ [Next]_vars => WorkInv'
  BY WorkKept
<1> QED
  BY <1>1, <1>2, TypeInvAlways, TruthAlways, PTL DEF Spec

\* A task is never more than 7 * max_retries + body + 7 callbacks away from its
\* end, whatever fails and however often Pingora starts over (gateway.rs: the
\* callbacks; upstream_peer again after a retry).
THEOREM WorkAlwaysBounded == Spec => [](\A r \in Requests : Work(r) \in 0..Budget)
<1>1. TypeInv /\ WorkInv => \A r \in Requests : Work(r) \in 0..Budget
  BY WorkIsNat, BoundsAssumption DEF WorkInv, WorkNat, Budget
<1> QED
  BY <1>1, WorkAlways, TypeInvAlways, PTL

\* Every callback of a task takes at least one off that number, and no callback
\* of another task, nor a change of a pool, adds to it: a task cannot go round
\* for ever.  This is Terminates without the fairness that keeps tasks moving.
THEOREM WorkAlwaysRunsDown == Spec => RunsDown
<1>1. TypeInv /\ TypeInv' /\ HeaderMaps /\ WorkInv /\ [Next]_vars
        => [RunsDownStep]_vars
  BY WorkKept
<1> QED
  BY <1>1, WorkAlways, TypeInvAlways, TruthAlways, PTL DEF Spec, RunsDown
=============================================================================
