--------------------------- MODULE GatewayProofs ---------------------------
(***************************************************************************)
(* Proofs about Gateway for every set of requests, routes, clients and     *)
(* upstreams, every chain that holds the three shipped middlewares in any  *)
(* order (with or without a plugin), every limit and every bound.          *)
(***************************************************************************)
EXTENDS Gateway, FiniteSetTheorems, TLAPS

\* A started request keeps its input, and the client has not sent more than
\* its body: what makes the bytes to replay after a retry a natural number.
Started ==
  \A r \in Requests :
    pc[r] # "idle" => req[r] \in Inputs /\ conn[r].left <= req[r].body

TypeInv == TypeOK /\ Started

USE DEF Go, Fail, Panic, Wrote, Passed, task, context, session, headers, shared

\* The fields of an input.
LEMMA InputFields ==
  ASSUME NEW q \in Inputs
  PROVE  /\ q.body \in Nat
         /\ q.entry \in Entries \cup {None}
         /\ q.client \in Clients \cup {None}
         /\ q.declared \in BOOLEAN
BY InputsAssumption, BoundsAssumption

\* A pass ends with a decision; Continue exactly when nobody halted it.
LEMMA PassShape ==
  ASSUME NEW hook, NEW q, NEW n, NEW c, NEW a, NEW p \in Passes(hook, q, n, c, a)
  PROVE  /\ p.res \in Decisions
         /\ p.by \in 0..Len(Chain)
         /\ p.res = "Continue" <=> p.by = 0
BY DEF Passes, Decisions

\* The value written by a response is a status.
LEMMA RespondShape ==
  ASSUME TypeOK, NEW r \in Requests, NEW code \in Statuses,
         NEW w \in Respond(r, code)
  PROVE  /\ w.status \in Statuses
         /\ status[r] # 0 => w.status = status[r]
<1>1. status[r] \in Statuses /\ 0 \in Statuses
  BY DEF TypeOK, Statuses
<1>2. CASE status[r] # 0
  BY <1>1, <1>2 DEF Respond
<1>3. CASE status[r] = 0
  BY <1>1, <1>3 DEF Respond
<1> QED
  BY <1>2, <1>3

\* Updating the fields of an exchange keeps its type.
LEMMA ConnLeft ==
  ASSUME NEW c \in ConnStates, NEW n \in Nat
  PROVE  [c EXCEPT !.left = n] \in ConnStates
BY DEF ConnStates

LEMMA ConnDown ==
  ASSUME NEW c \in ConnStates, NEW d \in DownStates
  PROVE  [c EXCEPT !.down = d] \in ConnStates
BY DEF ConnStates

LEMMA ConnOpened ==
  ASSUME NEW c \in ConnStates, NEW b \in BOOLEAN, NEW n \in Nat
  PROVE  [c EXCEPT !.reused = b, !.attempts = n] \in ConnStates
BY DEF ConnStates

LEMMA ConnRetried ==
  ASSUME NEW c \in ConnStates, NEW n \in Nat, NEW u \in UploadStates, NEW m \in Nat
  PROVE  [c EXCEPT !.replay = n, !.upload = u, !.sent = m] \in ConnStates
BY DEF ConnStates

LEMMA ConnConsumed ==
  ASSUME NEW c \in ConnStates, NEW n \in Nat, NEW m \in Nat, NEW k \in Nat,
         NEW u \in UploadStates
  PROVE  [c EXCEPT !.left = n, !.replay = k, !.sent = m, !.upload = u] \in ConnStates
BY DEF ConnStates

\* Updating the fields of a RequestMeta keeps its type.
LEMMA MetaFields ==
  ASSUME NEW m \in MetaStates
  PROVE  /\ \A a \in RouteIds, b \in UpstreamIds :
              [m EXCEPT !.route = a, !.upstream = b] \in MetaStates
         /\ \A c \in SniValues : [m EXCEPT !.sni = c] \in MetaStates
BY DEF MetaStates

LEMMA InitType == Init => TypeInv
BY BoundsAssumption
   DEF Init, TypeInv, TypeOK, Started, Phases, ConnStates, NoConn, NoMeta,
       MetaStates, RouteIds, UpstreamIds, SniValues, Statuses, UploadStates,
       DownStates

LEMMA NewCtxType ==
  ASSUME TypeInv, NEW r \in Requests, NewCtx(r)
  PROVE  TypeInv'
<1>1. PICK q \in Inputs : /\ req' = [req EXCEPT ![r] = q]
                          /\ conn' = [conn EXCEPT ![r].left = q.body]
  BY DEF NewCtx
<1>2. q.body \in Nat
  BY InputFields
<1>3. conn[r] \in ConnStates /\ [conn[r] EXCEPT !.left = q.body] \in ConnStates
  BY <1>2, ConnLeft DEF TypeInv, TypeOK
<1>4. conn' = [conn EXCEPT ![r] = [conn[r] EXCEPT !.left = q.body]]
  BY <1>1
<1>5. conn' \in [Requests -> ConnStates] /\ conn'[r].left = q.body
      /\ \A x \in Requests : x # r => conn'[x] = conn[x]
  BY <1>2, <1>3, <1>4 DEF TypeInv, TypeOK, ConnStates
<1> QED
  BY <1>1, <1>2, <1>5 DEF NewCtx, TypeInv, TypeOK, Started, Phases, TypeIds

LEMMA EarlyType ==
  ASSUME TypeInv, NEW r \in Requests, EarlyRequestFilter(r)
  PROVE  TypeInv'
BY DEF EarlyRequestFilter, TypeInv, TypeOK, Started, Phases, ErrorTypes

LEMMA RequestFilterType ==
  ASSUME TypeInv, NEW r \in Requests, RequestFilter(r)
  PROVE  TypeInv'
<1> USE DEF TypeInv, TypeOK, Started, Phases, ErrorTypes
<1>1. req[r] \in Inputs
  BY DEF RequestFilter
<1>2. CASE "RequestMeta" \notin filed[r]
  BY <1>2 DEF RequestFilter
<1>3. CASE "RequestMeta" \in filed[r] /\ req[r].entry = None
  <2>1. PICK w \in Respond(r, 404) :
          /\ Wrote(r, w)
          /\ IF w.ok THEN Go(r, "logging") /\ UNCHANGED err
             ELSE Fail(r, "WriteError")
    BY <1>3 DEF RequestFilter, RespondNotFound
  <2>2. w.status \in Statuses
    BY RespondShape DEF Statuses
  <2> QED
    BY <1>3, <2>1, <2>2 DEF RequestFilter, RespondNotFound
<1>4. CASE "RequestMeta" \in filed[r] /\ req[r].entry # None
  <2>1. PICK p \in Pass(r, "request", 0), s \in Statuses :
          /\ Passed(r, p, s)
          /\ meta' = [meta EXCEPT ![r].route = req[r].entry.route,
                                  ![r].upstream = req[r].entry.upstream]
          /\ filed' = [filed EXCEPT ![r] = @ \cup FiledByFilter(req[r], p)]
          /\ bytes' = [bytes EXCEPT ![r] =
               IF Called("request_size", "request", p) THEN 0 ELSE @]
          /\ Go(r, AfterRequestChain(p))
          /\ err' = [err EXCEPT ![r] = IF p.res = "Err" THEN "Custom" ELSE @]
    BY <1>4 DEF RequestFilter, RunRequestChain
  <2>2. FiledByFilter(req[r], p) \subseteq TypeIds
    BY BoundsAssumption DEF FiledByFilter, TypeIds
  <2>3. AfterRequestChain(p) \in Phases \ {"idle"}
    BY DEF AfterRequestChain
  <2>4. meta' \in [Requests -> MetaStates]
    <3>1. req[r].entry \in Entries
      BY <1>1, <1>4, InputFields
    <3>2. [meta[r] EXCEPT !.route = req[r].entry.route,
                          !.upstream = req[r].entry.upstream] \in MetaStates
      <4>1. req[r].entry.route \in RouteIds /\ req[r].entry.upstream \in UpstreamIds
        BY <3>1 DEF RouteIds, UpstreamIds
      <4> QED
        BY <4>1, MetaFields
    <3> QED
      BY <2>1, <3>2
  <2> QED
    BY <1>4, <2>1, <2>2, <2>3, <2>4 DEF RequestFilter
<1> QED
  BY <1>2, <1>3, <1>4

LEMMA UpstreamPeerType ==
  ASSUME TypeInv, NEW r \in Requests, UpstreamPeer(r)
  PROVE  TypeInv'
<1> USE DEF TypeInv, TypeOK, Started, Phases, ErrorTypes
<1>1. CASE "RequestMeta" \notin filed[r]
  BY <1>1 DEF UpstreamPeer
<1>2. CASE "RequestMeta" \in filed[r] /\ meta[r].upstream \notin Upstreams
  <2>1. PICK w \in Respond(r, 500) :
          /\ Wrote(r, w)
          /\ Fail(r, IF w.ok THEN "Custom" ELSE "WriteError")
    BY <1>2 DEF UpstreamPeer, UpstreamMissing
  <2>2. w.status \in Statuses
    BY RespondShape DEF Statuses
  <2> QED
    BY <1>2, <2>1, <2>2 DEF UpstreamPeer, UpstreamMissing
<1>3. CASE "RequestMeta" \in filed[r] /\ meta[r].upstream \in Upstreams
  <2>1. CASE ready[meta[r].upstream]
    <3>1. [meta[r] EXCEPT !.sni = Sni[meta[r].upstream]] \in MetaStates
      <4>1. Sni[meta[r].upstream] \in SniValues
        BY <1>3 DEF SniValues
      <4> QED
        BY <4>1, MetaFields
    <3>2. meta' = [meta EXCEPT ![r] =
                     [meta[r] EXCEPT !.sni = Sni[meta[r].upstream]]]
      BY <1>3, <2>1 DEF UpstreamPeer, SelectPeer
    <3>3. meta' \in [Requests -> MetaStates]
      BY <3>1, <3>2
    <3> QED
      BY <1>3, <2>1, <3>3 DEF UpstreamPeer, SelectPeer
  <2>2. CASE ~ready[meta[r].upstream]
    BY <1>3, <2>2 DEF UpstreamPeer, SelectPeer
  <2> QED
    BY <2>1, <2>2
<1> QED
  BY <1>1, <1>2, <1>3

LEMMA ConnectType ==
  ASSUME TypeInv, NEW r \in Requests, Connect(r)
  PROVE  TypeInv'
<1> USE DEF TypeInv, TypeOK, Started, Phases, ErrorTypes
<1>1. CASE pc'[r] = "connected_to_upstream"
  <2>1. PICK b \in BOOLEAN :
          conn' = [conn EXCEPT ![r].reused = b, ![r].attempts = @ + 1]
    BY <1>1 DEF Connect
  <2>2. /\ conn[r] \in ConnStates /\ conn[r].attempts + 1 \in Nat
        /\ [conn[r] EXCEPT !.reused = b, !.attempts = conn[r].attempts + 1]
             \in ConnStates
    <3>1. conn[r] \in ConnStates
      OBVIOUS
    <3>2. conn[r].attempts + 1 \in Nat
      BY <3>1 DEF ConnStates
    <3> QED
      BY <3>1, <3>2, ConnOpened
  <2>3. conn' \in [Requests -> ConnStates] /\ conn'[r].left = conn[r].left
        /\ \A x \in Requests : x # r => conn'[x] = conn[x]
    BY <2>1, <2>2 DEF ConnStates
  <2>4. /\ pc' = [pc EXCEPT ![r] = "connected_to_upstream"]
        /\ UNCHANGED <<req, err, filed, meta, bytes, status, page, lost, halted,
                       ready>>
    BY <1>1 DEF Connect
  <2>5. \A x \in Requests : conn'[x].left = conn[x].left
    BY <2>3
  <2>6. /\ pc' \in [Requests -> Phases]
        /\ \A x \in Requests : pc'[x] # "idle" => pc[x] # "idle"
    BY <2>4 DEF Connect
  <2>7. /\ pc' \in [Requests -> Phases]
        /\ req' = req /\ err' = err
        /\ \A x \in Requests : pc'[x] # "idle" => pc[x] # "idle"
    BY <2>4, <2>6
  <2> HIDE DEF Phases, ErrorTypes
  <2>8. Started'
    <3> SUFFICES ASSUME NEW x \in Requests, pc'[x] # "idle"
                 PROVE  req'[x] \in Inputs /\ conn'[x].left <= req'[x].body
      OBVIOUS
    <3>1. req[x] \in Inputs /\ conn[x].left <= req[x].body
      BY <2>7
    <3> QED
      BY <2>5, <2>7, <3>1
  <2>9. TypeOK'
    <3> HIDE DEF Started
    <3> QED
      BY <2>3, <2>4, <2>7
  <2> QED
    BY <2>8, <2>9
<1>2. CASE pc'[r] # "connected_to_upstream"
  <2>1. PICK e \in ErrorTypes :
          /\ pc' = [pc EXCEPT ![r] = "fail_to_proxy"]
          /\ err' = [err EXCEPT ![r] = e]
    BY <1>2 DEF Connect
  <2>2. /\ pc[r] # "idle"
        /\ UNCHANGED <<req, conn, filed, meta, bytes, status, page, lost, halted,
                       ready>>
    BY <1>2 DEF Connect
  <2>3. Started'
    BY <2>1, <2>2
  <2>4. TypeOK'
    <3> HIDE DEF Started, ErrorTypes
    <3> QED
      BY <2>1, <2>2
  <2> QED
    BY <2>3, <2>4
<1> QED
  BY <1>1, <1>2

LEMMA ConnectedType ==
  ASSUME TypeInv, NEW r \in Requests, ConnectedToUpstream(r)
  PROVE  TypeInv'
BY DEF ConnectedToUpstream, TypeInv, TypeOK, Started, Phases, ErrorTypes

LEMMA UpstreamRequestType ==
  ASSUME TypeInv, NEW r \in Requests, UpstreamRequestFilter(r)
  PROVE  TypeInv'
BY DEF UpstreamRequestFilter, TypeInv, TypeOK, Started, Phases, ErrorTypes

\* Sending a piece upstream keeps the exchange's type and never takes more
\* than the client has left to send.
LEMMA ConsumeType ==
  ASSUME NEW c \in ConnStates, NEW n \in NextPiece(c)
  PROVE  /\ n \in Nat
         /\ Consume(c, n) \in ConnStates
         /\ Consume(c, n).left <= c.left
         /\ Consume(c, n).sent = c.sent + n
<1>1. n \in Nat /\ (c.replay > 0 \/ n <= c.left)
  BY DEF NextPiece, ConnStates
<1> DEFINE left == IF c.replay > 0 THEN c.left ELSE c.left - n
           up == IF left = 0 THEN "done" ELSE "open"
           total == c.sent + n
<1>2. /\ left \in Nat /\ left <= c.left /\ total \in Nat /\ up \in UploadStates
      /\ 0 \in Nat
  BY <1>1 DEF ConnStates, UploadStates
<1>3. Consume(c, n)
        = [c EXCEPT !.left = left, !.replay = 0, !.sent = total, !.upload = up]
  BY DEF Consume
<1> HIDE DEF left, up, total
<1>4. Consume(c, n) \in ConnStates
  <2>1. [c EXCEPT !.left = left, !.replay = 0, !.sent = total, !.upload = up]
          \in ConnStates
    BY <1>2, ConnConsumed
  <2> QED
    BY <1>3, <2>1
<1>5. Consume(c, n).left = left /\ Consume(c, n).sent = total
  BY <1>3 DEF ConnStates
<1> QED
  BY <1>1, <1>2, <1>4, <1>5 DEF total

LEMMA RequestBodyType ==
  ASSUME TypeInv, NEW r \in Requests, RequestBodyFilter(r)
  PROVE  TypeInv'
<1> USE DEF TypeInv, TypeOK, Started, Phases, ErrorTypes
<1> DEFINE Outcome(n, p, s) ==
        LET counts == Called("request_size", "request_body", p) IN
        IF counts /\ "RequestSizeState" \notin filed[r]
        THEN s = 0 /\ Panic(r) /\ UNCHANGED <<bytes, conn, session, halted>>
        ELSE /\ Passed(r, p, s)
             /\ bytes' = [bytes EXCEPT ![r] = IF counts THEN @ + n ELSE @]
             /\ IF p.res = "Continue"
                THEN /\ conn' = [conn EXCEPT ![r] = Consume(@, n)]
                     /\ UNCHANGED <<pc, err>>
                ELSE Fail(r, "Custom") /\ UNCHANGED conn
             /\ UNCHANGED page
<1>0. PICK n \in NextPiece(conn[r]) :
        \E p \in Pass(r, "request_body", n), s \in Statuses : Outcome(n, p, s)
  BY DEF RequestBodyFilter
<1>1. PICK p \in Pass(r, "request_body", n), s \in Statuses : Outcome(n, p, s)
  BY <1>0
<1>2. /\ n \in Nat /\ Consume(conn[r], n) \in ConnStates
      /\ Consume(conn[r], n).left <= conn[r].left
  BY ConsumeType
<1>3. conn[r].left \in Nat /\ Consume(conn[r], n).left \in Nat /\ req[r].body \in Nat
      /\ conn[r].left <= req[r].body
  BY <1>2, InputFields DEF ConnStates, RequestBodyFilter
<1>4. Consume(conn[r], n).left <= req[r].body
  BY <1>2, <1>3
<1>5. /\ conn' \in [Requests -> ConnStates]
      /\ \A x \in Requests : pc[x] # "idle" => conn'[x].left <= req[x].body
  <2>1. CASE UNCHANGED conn
    BY <2>1
  <2>2. CASE conn' = [conn EXCEPT ![r] = Consume(conn[r], n)]
    BY <1>2, <1>4, <2>2
  <2> QED
    BY <1>1, <2>1, <2>2
<1>6. /\ pc' \in [Requests -> Phases]
      /\ err' \in [Requests -> ErrorTypes \cup {None}]
      /\ \A x \in Requests : pc'[x] # "idle" => pc[x] # "idle"
  BY <1>1 DEF RequestBodyFilter
<1>7. /\ status' \in [Requests -> Statuses]
      /\ lost' \in [Requests -> BOOLEAN]
      /\ halted' \in [Requests -> BOOLEAN]
      /\ page' = page
      /\ bytes' \in [Requests -> Nat]
  <2>1. CASE UNCHANGED <<bytes, session, halted>>
    BY <2>1
  <2>2. CASE /\ Passed(r, p, s) /\ UNCHANGED page
             /\ \/ UNCHANGED bytes
                \/ bytes' = [bytes EXCEPT ![r] = bytes[r] + n]
    BY <1>2, <2>2
  <2>3. bytes' = [bytes EXCEPT ![r] = bytes[r]] => UNCHANGED bytes
    OBVIOUS
  <2> QED
    BY <1>1, <2>1, <2>2, <2>3
<1> HIDE DEF Outcome
<1> QED
  BY <1>5, <1>6, <1>7 DEF RequestBodyFilter

LEMMA DownType ==
  ASSUME TypeInv, NEW r \in Requests, NEW d \in DownStates,
         conn' = [conn EXCEPT ![r].down = d]
  PROVE  /\ conn' \in [Requests -> ConnStates]
         /\ \A x \in Requests : conn'[x].left = conn[x].left
<1>1. conn[r] \in ConnStates /\ [conn[r] EXCEPT !.down = d] \in ConnStates
  BY ConnDown DEF TypeInv, TypeOK
<1>2. conn' = [conn EXCEPT ![r] = [conn[r] EXCEPT !.down = d]]
  OBVIOUS
<1>3. [conn[r] EXCEPT !.down = d].left = conn[r].left
  BY <1>1 DEF ConnStates
<1> QED
  BY <1>1, <1>2, <1>3 DEF TypeInv, TypeOK

LEMMA UpstreamResponseType ==
  ASSUME TypeInv, NEW r \in Requests, UpstreamResponseFilter(r)
  PROVE  TypeInv'
<1>1. conn' = [conn EXCEPT ![r].down = "header"] \/ UNCHANGED conn
  BY DEF UpstreamResponseFilter
<1>2. /\ conn' \in [Requests -> ConnStates]
      /\ \A x \in Requests : conn'[x].left = conn[x].left
  BY <1>1, DownType DEF DownStates, TypeInv, TypeOK
<1>3. /\ pc' \in [Requests -> Phases]
      /\ err' \in [Requests -> ErrorTypes \cup {None}]
      /\ \A x \in Requests : pc'[x] # "idle" => pc[x] # "idle"
  BY DEF UpstreamResponseFilter, TypeInv, TypeOK, Phases, ErrorTypes
<1>4. /\ status' \in [Requests -> Statuses]
      /\ lost' \in [Requests -> BOOLEAN]
      /\ halted' \in [Requests -> BOOLEAN]
  BY DEF UpstreamResponseFilter, TypeInv, TypeOK
<1> QED
  BY <1>2, <1>3, <1>4 DEF UpstreamResponseFilter, TypeInv, TypeOK, Started

LEMMA ResponseType ==
  ASSUME TypeInv, NEW r \in Requests, ResponseFilter(r)
  PROVE  TypeInv'
<1>1. conn' = [conn EXCEPT ![r].down = "body"] \/ UNCHANGED conn
  BY DEF ResponseFilter
<1>2. /\ conn' \in [Requests -> ConnStates]
      /\ \A x \in Requests : conn'[x].left = conn[x].left
  BY <1>1, DownType DEF DownStates, TypeInv, TypeOK
<1>3. /\ pc' \in [Requests -> Phases]
      /\ err' \in [Requests -> ErrorTypes \cup {None}]
      /\ \A x \in Requests : pc'[x] # "idle" => pc[x] # "idle"
  BY DEF ResponseFilter, TypeInv, TypeOK, Phases, ErrorTypes
<1>4. /\ status' \in [Requests -> Statuses]
      /\ lost' \in [Requests -> BOOLEAN]
      /\ halted' \in [Requests -> BOOLEAN]
  <2>1. CASE \E w \in Respond(r, 200) : Wrote(r, w) /\ UNCHANGED halted
    <3>1. PICK w \in Respond(r, 200) : Wrote(r, w) /\ UNCHANGED halted
      BY <2>1
    <3>2. w.status \in Statuses
      BY RespondShape DEF Statuses, TypeInv
    <3> QED
      BY <3>1, <3>2 DEF TypeInv, TypeOK
  <2>2. CASE \E p \in Pass(r, "response", 0), s \in Statuses : Passed(r, p, s)
    BY <2>2 DEF TypeInv, TypeOK
  <2> QED
    BY <2>1, <2>2 DEF ResponseFilter
<1> QED
  BY <1>2, <1>3, <1>4 DEF ResponseFilter, TypeInv, TypeOK, Started

LEMMA ResponseBodyType ==
  ASSUME TypeInv, NEW r \in Requests, ResponseBodyFilter(r)
  PROVE  TypeInv'
<1>1. conn' = [conn EXCEPT ![r].down = "done"] \/ UNCHANGED conn
  BY DEF ResponseBodyFilter
<1>2. /\ conn' \in [Requests -> ConnStates]
      /\ \A x \in Requests : conn'[x].left = conn[x].left
  BY <1>1, DownType DEF DownStates, TypeInv, TypeOK
<1>3. /\ pc' \in [Requests -> Phases]
      /\ err' \in [Requests -> ErrorTypes \cup {None}]
      /\ \A x \in Requests : pc'[x] # "idle" => pc[x] # "idle"
  BY DEF ResponseBodyFilter, TypeInv, TypeOK, Phases, ErrorTypes
<1>4. /\ status' \in [Requests -> Statuses]
      /\ lost' \in [Requests -> BOOLEAN]
      /\ halted' \in [Requests -> BOOLEAN]
  BY DEF ResponseBodyFilter, TypeInv, TypeOK
<1> QED
  BY <1>2, <1>3, <1>4 DEF ResponseBodyFilter, TypeInv, TypeOK, Started

LEMMA UpstreamErrorType ==
  ASSUME TypeInv, NEW r \in Requests, UpstreamError(r)
  PROVE  TypeInv'
<1>1. \/ conn' = [conn EXCEPT ![r].replay = Received(r),
                              ![r].upload = "open", ![r].sent = 0]
      \/ UNCHANGED conn
  BY DEF UpstreamError
<1>2. conn[r] \in ConnStates /\ Received(r) \in Nat
  <2>1. conn[r] \in ConnStates /\ req[r] \in Inputs /\ conn[r].left <= req[r].body
    BY DEF UpstreamError, TypeInv, TypeOK, Started
  <2>2. req[r].body \in Nat /\ conn[r].left \in Nat
    BY <2>1, InputFields DEF ConnStates
  <2> QED
    BY <2>1, <2>2 DEF Received
<1>3. [conn[r] EXCEPT !.replay = Received(r), !.upload = "open", !.sent = 0]
        \in ConnStates
  BY <1>2, ConnRetried DEF UploadStates
<1>4. [conn[r] EXCEPT !.replay = Received(r), !.upload = "open", !.sent = 0].left
        = conn[r].left
  BY <1>2 DEF ConnStates
<1>5. /\ conn' \in [Requests -> ConnStates]
      /\ \A x \in Requests : conn'[x].left = conn[x].left
  <2> DEFINE c == [conn[r] EXCEPT !.replay = Received(r), !.upload = "open",
                                  !.sent = 0]
  <2>1. conn \in [Requests -> ConnStates]
    BY DEF TypeInv, TypeOK
  <2>2. conn' = [conn EXCEPT ![r] = c] \/ conn' = conn
    BY <1>1
  <2>3. c \in ConnStates /\ c.left = conn[r].left
    BY <1>3, <1>4
  <2> HIDE DEF c
  <2> QED
    BY <2>1, <2>2, <2>3
<1>6. /\ pc' \in [Requests -> Phases]
      /\ err' \in [Requests -> ErrorTypes \cup {None}]
      /\ \A x \in Requests : pc'[x] # "idle" => pc[x] # "idle"
  BY DEF UpstreamError, TypeInv, TypeOK, Phases, ErrorTypes
<1> QED
  BY <1>5, <1>6 DEF UpstreamError, TypeInv, TypeOK, Started

LEMMA FailToProxyType ==
  ASSUME TypeInv, NEW r \in Requests, FailToProxy(r)
  PROVE  TypeInv'
<1>1. StatusOf(err[r]) \in Statuses /\ status[r] \in Statuses
  BY DEF StatusOf, Statuses, TypeInv, TypeOK
<1>2. /\ status' \in [Requests -> Statuses]
      /\ lost' \in [Requests -> BOOLEAN]
      /\ halted' \in [Requests -> BOOLEAN]
  <2>1. CASE \E p \in Pass(r, "error", 0), s \in Statuses : Passed(r, p, s)
    BY <2>1 DEF TypeInv, TypeOK
  <2>2. CASE /\ UNCHANGED halted
             /\ Wrote(r, [status |-> IF status[r] = 0 THEN StatusOf(err[r])
                                     ELSE status[r], ok |-> TRUE])
    BY <1>1, <2>2 DEF TypeInv, TypeOK
  <2>3. CASE UNCHANGED halted /\ \E w \in Respond(r, StatusOf(err[r])) : Wrote(r, w)
    <3>1. PICK w \in Respond(r, StatusOf(err[r])) : Wrote(r, w)
      BY <2>3
    <3>2. w.status \in Statuses
      BY <1>1, RespondShape DEF TypeInv
    <3> QED
      BY <2>3, <3>1, <3>2 DEF TypeInv, TypeOK
  <2> QED
    BY <2>1, <2>2, <2>3 DEF FailToProxy
<1>3. page' \in [Requests -> {None, "served", "spliced"}]
  BY DEF FailToProxy, TypeInv, TypeOK
<1> QED
  BY <1>2, <1>3 DEF FailToProxy, TypeInv, TypeOK, Started, Phases

\* The typing invariant is inductive: one case per action.
LEMMA NextType == TypeInv /\ [Next]_vars => TypeInv'
<1> SUFFICES ASSUME TypeInv, [Next]_vars
             PROVE  TypeInv'
  OBVIOUS
<1>1. ASSUME NEW r \in Requests, NewCtx(r) PROVE TypeInv'
  BY <1>1, NewCtxType
<1>2. ASSUME NEW r \in Requests, Step(r) PROVE TypeInv'
  <2>1. CASE EarlyRequestFilter(r)
    BY <2>1, EarlyType
  <2>2. CASE RequestFilter(r)
    BY <2>2, RequestFilterType
  <2>3. CASE UpstreamPeer(r)
    BY <2>3, UpstreamPeerType
  <2>4. CASE Connect(r)
    BY <2>4, ConnectType
  <2>5. CASE ConnectedToUpstream(r)
    BY <2>5, ConnectedType
  <2>6. CASE UpstreamRequestFilter(r)
    BY <2>6, UpstreamRequestType
  <2>7. CASE RequestBodyFilter(r)
    BY <2>7, RequestBodyType
  <2>8. CASE UpstreamResponseFilter(r)
    BY <2>8, UpstreamResponseType
  <2>9. CASE ResponseFilter(r)
    BY <2>9, ResponseType
  <2>10. CASE ResponseBodyFilter(r)
    BY <2>10, ResponseBodyType
  <2>11. CASE Complete(r)
    BY <2>11 DEF Complete, TypeInv, TypeOK, Started, Phases
  <2>12. CASE UpstreamError(r)
    BY <2>12, UpstreamErrorType
  <2>13. CASE DownstreamError(r)
    BY <2>13 DEF DownstreamError, TypeInv, TypeOK, Started, Phases, ErrorTypes
  <2>14. CASE FailToProxy(r)
    BY <2>14, FailToProxyType
  <2>15. CASE Logging(r)
    BY <2>15 DEF Logging, TypeInv, TypeOK, Started, Phases
  <2> QED
    BY <1>2, <2>1, <2>2, <2>3, <2>4, <2>5, <2>6, <2>7, <2>8, <2>9, <2>10,
       <2>11, <2>12, <2>13, <2>14, <2>15 DEF Step
<1>3. ASSUME NEW u \in Pools \cup Hosts, ReadyChanges(u) PROVE TypeInv'
  BY <1>3, EntriesAssumption DEF ReadyChanges, TypeInv, TypeOK, Started
<1>4. CASE UNCHANGED vars
  BY <1>4 DEF vars, TypeInv, TypeOK, Started
<1> QED
  BY <1>1, <1>2, <1>3, <1>4 DEF Next

LEMMA TypeInvAlways == Spec => []TypeInv
  BY InitType, NextType, PTL DEF Spec

\* Every state of the gateway is well typed, however requests interleave,
\* fail, retry and are rejected (gateway.rs as a whole).
THEOREM TypeCorrect == Spec => []TypeOK
<1>1. TypeInv => TypeOK
  BY DEF TypeInv
<1> QED
  BY <1>1, TypeInvAlways, PTL

----------------------------------------------------------------------------
(* The context, the ACL and the size limit.                                *)

\* A pass that nobody halted called every shipped middleware, and none of them
\* had a reason to reject the request.
LEMMA PassContinues ==
  ASSUME NEW hook, NEW q, NEW n, NEW c, NEW a,
         NEW p \in Passes(hook, q, n, c, a), p.res = "Continue",
         NEW m \in Shipped
  PROVE  Called(m, hook, p) /\ ~Rejects(m, hook, q, n, c)
<1>1. PICK i \in 1..Len(Chain) : Chain[i] = m
  BY ChainAssumption
<1>2. p.by = 0 /\ "Continue" \in Decides(m, hook, q, n, c, a)
  BY <1>1, PassShape DEF Passes
<1>3. m # "plugin"
  BY DEF Shipped
<1>4. ASSUME Rejects(m, hook, q, n, c) PROVE FALSE
  <2>1. hook \notin TolerantHooks
    BY <1>4 DEF Rejects, TolerantHooks
  <2>2. Decides(m, hook, q, n, c, a) \subseteq {"Stop", "Err"}
    BY <1>3, <1>4, <2>1 DEF Decides, Returns
  <2> QED
    BY <1>2, <2>2
<1> QED
  BY <1>1, <1>2, <1>4 DEF Called

\* What the phases between the request filter and the end of the exchange
\* take for granted: the context is complete and the client was admitted.
Past == Forwarding \cup {"upstream_peer"}

ContextInv ==
  \A r \in Requests :
    /\ pc[r] # "idle" => "RequestMeta" \in filed[r]
    /\ pc[r] \in Past =>
         {"RouteEntry", FiledAs, "RequestSizeState"} \subseteq filed[r]
    /\ pc[r] = "proxy" => "RouteConf" \in filed[r]
    /\ pc[r] = "panicked" => FiledAs # "RouteConf"

AdmitInv ==
  \A r \in Requests :
    pc[r] \in Past \/ conn[r].attempts > 0
      => req[r].entry # None /\ Admitted(req[r].entry, req[r].client)

\* The bytes sent upstream in an attempt are bytes the counter has seen.
SizeInv ==
  \A r \in Requests :
    /\ conn[r].sent <= bytes[r]
    /\ conn[r].sent = 0 \/ conn[r].sent < MaxBytes
    /\ pc[r] \in {"idle", "early_request_filter", "request_filter"} =>
         conn[r].sent = 0 /\ conn[r].attempts = 0

Safe == ContextInv /\ AdmitInv /\ SizeInv

LEMMA InitSafe == Init => Safe
BY DEF Init, Safe, ContextInv, AdmitInv, SizeInv, Past, Forwarding, NoConn

\* A step of r that leaves its input, context and counter alone and sends no
\* body upstream: it moves the task out of, or along, the phases that rely on
\* them.
LEMMA MoveSafe ==
  ASSUME TypeInv, Safe, NEW r \in Requests, NEW phase \in Phases,
         pc' = [pc EXCEPT ![r] = phase],
         UNCHANGED <<req, filed, bytes>>,
         \A x \in Requests : x # r => conn'[x] = conn[x],
         conn'[r].sent \in {0, conn[r].sent},
         conn'[r].attempts = conn[r].attempts \/ pc[r] \in Past,
         pc[r] # "idle",
         \/ phase \in {"fail_to_proxy", "logging", "done", "crashed"}
         \/ phase = "panicked" /\ FiledAs # "RouteConf"
         \/ phase \in Past \ {"proxy"} /\ pc[r] \in Past
         \/ phase = "proxy" /\ pc[r] \in Past /\ "RouteConf" \in filed[r]
         \/ phase = "request_filter" /\ pc[r] = "early_request_filter"
  PROVE  Safe'
<1>1. ContextInv'
  BY DEF Safe, ContextInv, TypeInv, TypeOK, Past, Forwarding
<1>2. AdmitInv'
  BY DEF Safe, AdmitInv, TypeInv, TypeOK, Past, Forwarding
<1>3. SizeInv'
  <2>1. bytes[r] \in Nat
    BY DEF TypeInv, TypeOK
  <2> QED
    BY <2>1 DEF Safe, SizeInv, TypeInv, TypeOK, Past, Forwarding
<1> QED
  BY <1>1, <1>2, <1>3 DEF Safe

LEMMA NewCtxSafe ==
  ASSUME TypeInv, Safe, NEW r \in Requests, NewCtx(r)
  PROVE  Safe'
<1>1. PICK q \in Inputs : /\ req' = [req EXCEPT ![r] = q]
                          /\ conn' = [conn EXCEPT ![r].left = q.body]
  BY DEF NewCtx
<1>2. /\ conn'[r].sent = conn[r].sent /\ conn'[r].attempts = conn[r].attempts
      /\ \A x \in Requests : x # r => conn'[x] = conn[x]
  BY <1>1 DEF TypeInv, TypeOK, ConnStates
<1>3. /\ pc' = [pc EXCEPT ![r] = "early_request_filter"] /\ pc[r] = "idle"
      /\ filed' = [filed EXCEPT ![r] = {"RequestMeta"}] /\ UNCHANGED bytes
  BY DEF NewCtx
<1>4. conn[r].attempts = 0
  BY <1>3 DEF Safe, SizeInv
<1>5. ContextInv'
  BY <1>3 DEF Safe, ContextInv, TypeInv, TypeOK, Past, Forwarding
<1>6. AdmitInv'
  BY <1>1, <1>2, <1>3, <1>4 DEF Safe, AdmitInv, TypeInv, TypeOK, Past, Forwarding
<1>7. SizeInv'
  BY <1>2, <1>3, <1>4 DEF Safe, SizeInv, TypeInv, TypeOK
<1> QED
  BY <1>5, <1>6, <1>7 DEF Safe

\* request_filter: only a pass that went through, with ip_restriction content
\* and request_size's counter filed, leads on to an upstream.
LEMMA RequestFilterSafe ==
  ASSUME TypeInv, Safe, NEW r \in Requests, RequestFilter(r)
  PROVE  Safe'
<1>1. /\ pc[r] = "request_filter" /\ "RequestMeta" \in filed[r]
      /\ conn[r].sent = 0 /\ conn[r].attempts = 0
      /\ UNCHANGED <<req, conn>>
  BY DEF RequestFilter, Safe, ContextInv, SizeInv
<1>2. CASE req[r].entry = None
  <2>1. \/ pc' = [pc EXCEPT ![r] = "logging"]
        \/ pc' = [pc EXCEPT ![r] = "fail_to_proxy"]
    BY <1>1, <1>2 DEF RequestFilter, RespondNotFound
  <2>2. UNCHANGED <<filed, bytes>>
    BY <1>1, <1>2 DEF RequestFilter, RespondNotFound
  <2> QED
    BY <1>1, <2>1, <2>2, MoveSafe DEF Phases
<1>3. CASE req[r].entry # None
  <2>1. PICK p \in Pass(r, "request", 0) :
          /\ filed' = [filed EXCEPT ![r] = @ \cup FiledByFilter(req[r], p)]
          /\ bytes' = [bytes EXCEPT ![r] =
               IF Called("request_size", "request", p) THEN 0 ELSE @]
          /\ pc' = [pc EXCEPT ![r] = AfterRequestChain(p)]
    BY <1>1, <1>3 DEF RequestFilter, RunRequestChain
  <2>2. AfterRequestChain(p) \in {"fail_to_proxy", "logging", "upstream_peer"}
        /\ (AfterRequestChain(p) = "upstream_peer" => p.res = "Continue")
    <3>1. p.res \in Decisions
      BY PassShape DEF Pass
    <3> QED
      BY <3>1 DEF AfterRequestChain, Decisions
  <2>3. ASSUME p.res = "Continue"
        PROVE  /\ Called("request_size", "request", p)
               /\ Admitted(req[r].entry, req[r].client)
    <3>1. /\ Called("request_size", "request", p)
          /\ ~Rejects("ip_restriction", "request", req[r], bytes[r], 0)
      BY <2>3, PassContinues DEF Pass, Shipped
    <3>2. ~IpRestrictionRejects(req[r].entry, req[r].client)
      BY <3>1 DEF Rejects
    <3> QED
      BY <3>1, <3>2 DEF IpRestrictionRejects, Admitted
  <2>4. ContextInv'
    <3>1. AfterRequestChain(p) = "upstream_peer" =>
            {"RouteEntry", FiledAs, "RequestSizeState"} \subseteq filed'[r]
      BY <2>1, <2>2, <2>3 DEF FiledByFilter, TypeInv, TypeOK
    <3> QED
      BY <1>1, <2>1, <2>2, <3>1
         DEF Safe, ContextInv, TypeInv, TypeOK, Past, Forwarding
  <2>5. AdmitInv'
    BY <1>1, <1>3, <2>1, <2>2, <2>3
       DEF Safe, AdmitInv, TypeInv, TypeOK, Past, Forwarding
  <2>6. SizeInv'
    BY <1>1, <2>1, <2>2 DEF Safe, SizeInv, TypeInv, TypeOK
  <2> QED
    BY <2>4, <2>5, <2>6 DEF Safe
<1> QED
  BY <1>2, <1>3

\* The callbacks that leave the exchange alone.
LEMMA CallbackSafe ==
  ASSUME TypeInv, Safe, NEW r \in Requests,
         \/ EarlyRequestFilter(r) \/ UpstreamPeer(r) \/ ConnectedToUpstream(r)
         \/ UpstreamRequestFilter(r) \/ Complete(r) \/ DownstreamError(r)
         \/ FailToProxy(r) \/ Logging(r)
  PROVE  Safe'
<1>1. UNCHANGED <<req, conn, filed, bytes>> /\ pc[r] # "idle"
  BY DEF EarlyRequestFilter, UpstreamPeer, UpstreamMissing, SelectPeer,
         ConnectedToUpstream, UpstreamRequestFilter, Complete, DownstreamError,
         FailToProxy, Logging
<1>2. PICK phase \in Phases :
        /\ pc' = [pc EXCEPT ![r] = phase]
        /\ \/ phase \in {"fail_to_proxy", "logging", "done", "crashed"}
           \/ phase = "panicked" /\ FiledAs # "RouteConf"
           \/ phase \in Past \ {"proxy"} /\ pc[r] \in Past
           \/ phase = "proxy" /\ pc[r] \in Past /\ "RouteConf" \in filed[r]
           \/ phase = "request_filter" /\ pc[r] = "early_request_filter"
  <2>1. CASE EarlyRequestFilter(r)
    BY <2>1 DEF EarlyRequestFilter, Phases
  <2>2. CASE UpstreamPeer(r)
    <3>1. pc[r] = "upstream_peer" /\ "RequestMeta" \in filed[r]
      BY <2>2 DEF UpstreamPeer, Safe, ContextInv
    <3>2. \/ pc' = [pc EXCEPT ![r] = "connect"]
          \/ pc' = [pc EXCEPT ![r] = "fail_to_proxy"]
          \/ pc' = [pc EXCEPT ![r] = "crashed"]
      BY <2>2, <3>1 DEF UpstreamPeer, UpstreamMissing, SelectPeer, Go, Fail
    <3> QED
      BY <3>1, <3>2 DEF Phases, Past, Forwarding
  <2>3. CASE ConnectedToUpstream(r)
    BY <2>3 DEF ConnectedToUpstream, Phases, Past, Forwarding
  <2>4. CASE UpstreamRequestFilter(r)
    <3>1. /\ pc[r] = "upstream_request_filter"
          /\ "RequestMeta" \in filed[r] /\ FiledAs \in filed[r]
      BY <2>4 DEF UpstreamRequestFilter, Safe, ContextInv, Past, Forwarding
    <3>2. \/ pc' = [pc EXCEPT ![r] = "fail_to_proxy"]
          \/ pc' = [pc EXCEPT ![r] = "proxy"] /\ "RouteConf" \in filed[r]
          \/ pc' = [pc EXCEPT ![r] = "panicked"] /\ "RouteConf" \notin filed[r]
      BY <2>4, <3>1 DEF UpstreamRequestFilter
    <3> QED
      BY <3>1, <3>2 DEF Phases, Past, Forwarding
  <2>5. CASE Complete(r) \/ DownstreamError(r) \/ FailToProxy(r) \/ Logging(r)
    BY <2>5 DEF Complete, DownstreamError, FailToProxy, Logging, Phases
  <2> QED
    BY <2>1, <2>2, <2>3, <2>4, <2>5
<1> QED
  BY <1>1, <1>2, MoveSafe

\* The exchange proceeds without a body piece: a connection, a response, an
\* error, a retry.
LEMMA ExchangeSafe ==
  ASSUME TypeInv, Safe, NEW r \in Requests,
         \/ Connect(r) \/ UpstreamResponseFilter(r) \/ ResponseFilter(r)
         \/ ResponseBodyFilter(r) \/ UpstreamError(r)
  PROVE  Safe'
<1>1. UNCHANGED <<req, filed, bytes>> /\ pc[r] \in {"connect", "proxy"}
  BY DEF Connect, UpstreamResponseFilter, ResponseFilter, ResponseBodyFilter,
         UpstreamError
<1>2. pc[r] = "proxy" => "RouteConf" \in filed[r]
  BY DEF Safe, ContextInv
<1>3. \/ UNCHANGED conn
      \/ \E b \in BOOLEAN :
           conn' = [conn EXCEPT ![r].reused = b, ![r].attempts = @ + 1]
      \/ \E d \in DownStates : conn' = [conn EXCEPT ![r].down = d]
      \/ conn' = [conn EXCEPT ![r].replay = Received(r),
                              ![r].upload = "open", ![r].sent = 0]
  BY DEF Connect, UpstreamResponseFilter, ResponseFilter, ResponseBodyFilter,
         UpstreamError, DownStates
<1>4. /\ \A x \in Requests : x # r => conn'[x] = conn[x]
      /\ conn'[r].sent \in {0, conn[r].sent}
  <2> USE DEF TypeInv, TypeOK, ConnStates
  <2>1. CASE UNCHANGED conn
    BY <2>1
  <2>2. ASSUME NEW b \in BOOLEAN,
               conn' = [conn EXCEPT ![r].reused = b, ![r].attempts = @ + 1]
        PROVE  /\ \A x \in Requests : x # r => conn'[x] = conn[x]
               /\ conn'[r].sent = conn[r].sent
    BY <2>2
  <2>3. ASSUME NEW d \in DownStates, conn' = [conn EXCEPT ![r].down = d]
        PROVE  /\ \A x \in Requests : x # r => conn'[x] = conn[x]
               /\ conn'[r].sent = conn[r].sent
    BY <2>3
  <2>4. CASE conn' = [conn EXCEPT ![r].replay = Received(r),
                                  ![r].upload = "open", ![r].sent = 0]
    BY <2>4
  <2> QED
    BY <1>3, <2>1, <2>2, <2>3, <2>4
<1>5. PICK phase \in {"fail_to_proxy", "connected_to_upstream", "upstream_peer",
                      "proxy"} :
        /\ pc' = [pc EXCEPT ![r] = phase]
        /\ phase = "proxy" => pc[r] = "proxy"
  <2>1. pc = [pc EXCEPT ![r] = pc[r]]
    BY DEF TypeInv, TypeOK
  <2>2. CASE Connect(r)
    BY <2>2 DEF Connect
  <2>3. CASE UpstreamResponseFilter(r)
    BY <1>2, <2>1, <2>3 DEF UpstreamResponseFilter
  <2>4. CASE ResponseFilter(r)
    BY <1>2, <2>1, <2>4 DEF ResponseFilter
  <2>5. CASE ResponseBodyFilter(r)
    BY <2>1, <2>5 DEF ResponseBodyFilter
  <2>6. CASE UpstreamError(r)
    BY <2>6 DEF UpstreamError
  <2> QED
    BY <2>2, <2>3, <2>4, <2>5, <2>6
<1> QED
  BY <1>1, <1>2, <1>4, <1>5, MoveSafe DEF Past, Forwarding, Phases

\* request_body_filter: a piece that goes upstream was counted and left the
\* counter under the limit.
LEMMA RequestBodySafe ==
  ASSUME TypeInv, Safe, NEW r \in Requests, RequestBodyFilter(r)
  PROVE  Safe'
<1>1. /\ pc[r] = "proxy" /\ UNCHANGED <<req, filed>>
      /\ "RequestSizeState" \in filed[r] /\ "RouteConf" \in filed[r]
  BY DEF RequestBodyFilter, Safe, ContextInv, Past, Forwarding
<1>2. PICK n \in NextPiece(conn[r]) : \E p \in Pass(r, "request_body", n) :
        LET counts == Called("request_size", "request_body", p) IN
        /\ bytes' = [bytes EXCEPT ![r] = IF counts THEN @ + n ELSE @]
        /\ IF p.res = "Continue"
           THEN conn' = [conn EXCEPT ![r] = Consume(@, n)] /\ UNCHANGED pc
           ELSE pc' = [pc EXCEPT ![r] = "fail_to_proxy"] /\ UNCHANGED conn
  BY <1>1 DEF RequestBodyFilter
<1>3. PICK p \in Pass(r, "request_body", n) :
        LET counts == Called("request_size", "request_body", p) IN
        /\ bytes' = [bytes EXCEPT ![r] = IF counts THEN @ + n ELSE @]
        /\ IF p.res = "Continue"
           THEN conn' = [conn EXCEPT ![r] = Consume(@, n)] /\ UNCHANGED pc
           ELSE pc' = [pc EXCEPT ![r] = "fail_to_proxy"] /\ UNCHANGED conn
  BY <1>2
<1>4. /\ conn[r] \in ConnStates /\ bytes[r] \in Nat /\ n \in Nat
      /\ conn[r].sent \in Nat /\ conn[r].sent <= bytes[r]
  BY ConsumeType DEF Safe, SizeInv, TypeInv, TypeOK, ConnStates
<1>5. bytes' \in [Requests -> Nat] /\ bytes[r] <= bytes'[r]
      /\ \A x \in Requests : x # r => bytes'[x] = bytes[x]
  BY <1>3, <1>4 DEF TypeInv, TypeOK
<1>6. CASE p.res # "Continue"
  <2>1. pc' = [pc EXCEPT ![r] = "fail_to_proxy"] /\ UNCHANGED conn
    BY <1>3, <1>6
  <2>2. ContextInv' /\ AdmitInv'
    BY <1>1, <2>1
       DEF Safe, ContextInv, AdmitInv, TypeInv, TypeOK, Past, Forwarding
  <2>3. SizeInv'
    BY <1>4, <1>5, <2>1 DEF Safe, SizeInv, TypeInv, TypeOK
  <2> QED
    BY <2>2, <2>3 DEF Safe
<1>7. CASE p.res = "Continue"
  <2>1. conn' = [conn EXCEPT ![r] = Consume(conn[r], n)] /\ UNCHANGED pc
    BY <1>3, <1>7
  <2>2. /\ Called("request_size", "request_body", p)
        /\ ~RequestSizeRejectsChunk(bytes[r], n)
    BY <1>7, PassContinues DEF Pass, Shipped, Rejects
  <2>3. bytes'[r] = bytes[r] + n /\ (n = 0 \/ bytes[r] + n < MaxBytes)
    BY <1>3, <1>4, <2>2, MaxBytesAssumption
       DEF RequestSizeRejectsChunk, TypeInv, TypeOK
  <2>4. /\ conn'[r].sent = conn[r].sent + n
        /\ conn'[r].attempts = conn[r].attempts
        /\ \A x \in Requests : x # r => conn'[x] = conn[x]
    <3>1. /\ Consume(conn[r], n).sent = conn[r].sent + n
          /\ Consume(conn[r], n).attempts = conn[r].attempts
      BY <1>4 DEF Consume, ConnStates
    <3> QED
      BY <2>1, <3>1 DEF TypeInv, TypeOK
  <2>5. ContextInv' /\ AdmitInv'
    BY <1>1, <2>1, <2>4 DEF Safe, ContextInv, AdmitInv
  <2>6. SizeInv'
    BY <1>1, <1>4, <1>5, <2>1, <2>3, <2>4, MaxBytesAssumption DEF Safe, SizeInv
  <2> QED
    BY <2>5, <2>6 DEF Safe
<1> QED
  BY <1>6, <1>7

LEMMA NextSafe == TypeInv /\ Safe /\ [Next]_vars => Safe'
<1> SUFFICES ASSUME TypeInv, Safe, [Next]_vars
             PROVE  Safe'
  OBVIOUS
<1>1. ASSUME NEW r \in Requests, NewCtx(r) PROVE Safe'
  BY <1>1, NewCtxSafe
<1>2. ASSUME NEW r \in Requests, Step(r) PROVE Safe'
  BY <1>2, RequestFilterSafe, CallbackSafe, ExchangeSafe, RequestBodySafe DEF Step
<1>3. ASSUME NEW u \in Pools \cup Hosts, ReadyChanges(u) PROVE Safe'
  BY <1>3 DEF ReadyChanges, Safe, ContextInv, AdmitInv, SizeInv
<1>4. CASE UNCHANGED vars
  BY <1>4 DEF vars, Safe, ContextInv, AdmitInv, SizeInv
<1> QED
  BY <1>1, <1>2, <1>3, <1>4 DEF Next

LEMMA SafeAlways == Spec => []Safe
<1>1. Init => TypeInv /\ Safe
  BY InitType, InitSafe
<1>2. TypeInv /\ Safe /\ [Next]_vars => (TypeInv /\ Safe)'
  BY NextType, NextSafe
<1> QED
  BY <1>1, <1>2, PTL DEF Spec

\* With the route configuration filed under its own type, no expect() of
\* gateway.rs or request_size.rs can fail, whatever middlewares are added.
THEOREM NeverPanics ==
  ASSUME FiledAs = "RouteConf"
  PROVE  Spec => []NoPanic
<1>1. Safe => NoPanic
  BY DEF Safe, ContextInv, NoPanic
<1> QED
  BY <1>1, SafeAlways, PTL

\* No request whose client the route's lists do not admit gets an upstream.
THEOREM AclAlwaysRespected == Spec => []AclRespected
<1>1. Safe => AclRespected
  BY DEF Safe, AdmitInv, AclRespected, Past
<1> QED
  BY <1>1, SafeAlways, PTL

\* No upstream receives a body of max_bytes or more, retries included.
THEOREM BodyAlwaysWithinLimit == Spec => []BodyWithinLimit
<1>1. Safe => BodyWithinLimit
  BY DEF Safe, SizeInv, BodyWithinLimit
<1> QED
  BY <1>1, SafeAlways, PTL

----------------------------------------------------------------------------
(* The request counter.                                                    *)

\* A step of one task leaves the others' phases, answers and metadata alone.
LEMMA OthersUntouched ==
  ASSUME TypeInv, NEW r \in Requests, NewCtx(r) \/ Step(r)
  PROVE  \A x \in Requests \ {r} :
           pc'[x] = pc[x] /\ status'[x] = status[x] /\ meta'[x] = meta[x]
<1> USE DEF TypeInv, TypeOK
<1>1. CASE NewCtx(r)
  BY <1>1 DEF NewCtx
<1>2. CASE EarlyRequestFilter(r)
  BY <1>2 DEF EarlyRequestFilter
<1>9. CASE Connect(r)
  BY <1>9 DEF Connect
<1>10. CASE ConnectedToUpstream(r)
  BY <1>10 DEF ConnectedToUpstream
<1>11. CASE UpstreamRequestFilter(r)
  BY <1>11 DEF UpstreamRequestFilter
<1>3. CASE RequestFilter(r)
  BY <1>3 DEF RequestFilter, RespondNotFound, RunRequestChain
<1>4. CASE UpstreamPeer(r)
  BY <1>4 DEF UpstreamPeer, UpstreamMissing, SelectPeer
<1>5. CASE RequestBodyFilter(r)
  BY <1>5 DEF RequestBodyFilter
<1>6. CASE UpstreamResponseFilter(r) \/ ResponseFilter(r) \/ ResponseBodyFilter(r)
  BY <1>6 DEF UpstreamResponseFilter, ResponseFilter, ResponseBodyFilter
<1>7. CASE Complete(r) \/ UpstreamError(r) \/ DownstreamError(r) \/ Logging(r)
  BY <1>7 DEF Complete, UpstreamError, DownstreamError, Logging
<1>8. CASE FailToProxy(r)
  BY <1>8 DEF FailToProxy
<1> QED
  BY <1>1, <1>2, <1>3, <1>4, <1>5, <1>6, <1>7, <1>8, <1>9, <1>10, <1>11 DEF Step

\* Only logging finishes a request and only logging touches the counter.
LEMMA OnlyLoggingFinishes ==
  ASSUME TypeInv, NEW r \in Requests, NewCtx(r) \/ Step(r), ~Logging(r)
  PROVE  pc[r] # "done" /\ pc'[r] # "done" /\ UNCHANGED reqMetric
<1> USE DEF TypeInv, TypeOK
<1>1. CASE NewCtx(r)
  BY <1>1 DEF NewCtx
<1>2. CASE EarlyRequestFilter(r)
  BY <1>2 DEF EarlyRequestFilter
<1>9. CASE Connect(r)
  BY <1>9 DEF Connect
<1>10. CASE ConnectedToUpstream(r)
  BY <1>10 DEF ConnectedToUpstream
<1>11. CASE UpstreamRequestFilter(r)
  BY <1>11 DEF UpstreamRequestFilter
<1>3. CASE RequestFilter(r)
  BY <1>3 DEF RequestFilter, RespondNotFound, RunRequestChain, AfterRequestChain
<1>4. CASE UpstreamPeer(r)
  BY <1>4 DEF UpstreamPeer, UpstreamMissing, SelectPeer
<1>5. CASE RequestBodyFilter(r)
  BY <1>5 DEF RequestBodyFilter
<1>6. CASE UpstreamResponseFilter(r) \/ ResponseFilter(r) \/ ResponseBodyFilter(r)
  BY <1>6 DEF UpstreamResponseFilter, ResponseFilter, ResponseBodyFilter
<1>7. CASE Complete(r) \/ UpstreamError(r) \/ DownstreamError(r)
  BY <1>7 DEF Complete, UpstreamError, DownstreamError
<1>8. CASE FailToProxy(r)
  BY <1>8 DEF FailToProxy
<1> QED
  BY <1>1, <1>2, <1>3, <1>4, <1>5, <1>6, <1>7, <1>8, <1>9, <1>10, <1>11 DEF Step

\* The strengthening of MetricsExact: the count of every label set, seen or
\* not, is the number of requests that finished with it.
CountInv ==
  /\ \A l \in DOMAIN reqMetric : reqMetric[l] \in Nat
  /\ \A l : Count(l) = Cardinality(Finished(l))

LEMMA InitCount == Init => CountInv
<1> SUFFICES ASSUME Init
             PROVE  CountInv
  OBVIOUS
<1>1. DOMAIN reqMetric = {} /\ \A l : Finished(l) = {}
  BY DEF Init, Finished
<1> QED
  BY <1>1, FS_EmptySet DEF CountInv, Count

\* When the finished requests keep their labels and nobody joins them, every
\* count stays right.
LEMMA FinishedFrame ==
  ASSUME \A x \in Requests :
           /\ pc'[x] = "done" <=> pc[x] = "done"
           /\ pc[x] = "done" => status'[x] = status[x] /\ meta'[x] = meta[x],
         UNCHANGED reqMetric, CountInv
  PROVE  CountInv'
<1>1. \A l : Finished(l)' = Finished(l)
  BY DEF Finished, Labels
<1>2. \A l : Count(l)' = Count(l)
  BY DEF Count
<1> QED
  BY <1>1, <1>2 DEF CountInv

\* logging counts its request once: no middleware stops before metrics.
LEMMA LoggingCounts ==
  ASSUME "Stop" \notin PluginDecisions["logging"],
         TypeInv, Safe, NEW r \in Requests, Logging(r)
  PROVE  reqMetric' = Inc(reqMetric, Labels(r))
<1>1. PICK p \in Pass(r, "logging", 0) :
        reqMetric' = IF Called("metrics", "logging", p) /\ "RequestMeta" \in filed[r]
                     THEN Inc(reqMetric, Labels(r)) ELSE reqMetric
  BY DEF Logging
<1>2. "RequestMeta" \in filed[r]
  BY DEF Logging, Safe, ContextInv
<1>3. \A m \in Shipped \cup {"plugin"} :
        Decides(m, "logging", req[r], bytes[r], 0, status[r] # 0)
          \subseteq {"Continue"}
  BY PluginAssumption
     DEF Decides, Returns, Rejects, TolerantHooks, Hooks, Decisions, Shipped
<1>4. p.by = 0
  <2>1. \A i \in 1..Len(Chain) : Chain[i] \in Shipped \cup {"plugin"}
    BY ChainAssumption
  <2> QED
    BY <1>3, <2>1 DEF Pass, Passes
<1>5. Called("metrics", "logging", p)
  BY <1>4, ChainAssumption DEF Called, Shipped
<1> QED
  BY <1>1, <1>2, <1>5

LEMMA LoggingCount ==
  ASSUME "Stop" \notin PluginDecisions["logging"],
         TypeInv, Safe, CountInv, NEW r \in Requests, Logging(r)
  PROVE  CountInv'
<1>1. reqMetric' = Inc(reqMetric, Labels(r))
  BY LoggingCounts
<1>2. /\ pc[r] = "logging" /\ pc'[r] = "done"
      /\ \A x \in Requests \ {r} : pc'[x] = pc[x]
      /\ UNCHANGED <<status, meta>>
  BY DEF Logging, TypeInv, TypeOK
<1>3. \A x \in Requests : Labels(x)' = Labels(x)
  BY <1>2 DEF Labels
<1>4. \A l : Finished(l)' = IF l = Labels(r) THEN Finished(l) \cup {r}
                            ELSE Finished(l)
  BY <1>2, <1>3 DEF Finished
<1>5. \A l : IsFiniteSet(Finished(l)) /\ r \notin Finished(l)
  BY <1>2, RequestsAssumption, FS_Subset DEF Finished
<1>6. \A l : Count(l) \in Nat
  BY DEF CountInv, Count
<1>7. \A l : Count(l)' = IF l = Labels(r) THEN Count(l) + 1 ELSE Count(l)
  BY <1>1, <1>6 DEF Count, Inc
<1>8. \A l : Cardinality(Finished(l) \cup {r}) = Cardinality(Finished(l)) + 1
  BY <1>5, FS_AddElement
<1>9. \A l : Count(l)' = Cardinality(Finished(l)')
  BY <1>4, <1>7, <1>8 DEF CountInv
<1>10. \A l \in DOMAIN reqMetric' : reqMetric'[l] \in Nat
  BY <1>1 DEF Inc, CountInv
<1> QED
  BY <1>9, <1>10 DEF CountInv

\* Every finished request is counted exactly once and under its own labels,
\* for any chain in which no added middleware stops the logging hooks.
THEOREM MetricsAlwaysExact ==
  ASSUME "Stop" \notin PluginDecisions["logging"]
  PROVE  Spec => []MetricsExact
<1>1. Init => TypeInv /\ Safe /\ CountInv
  BY InitType, InitSafe, InitCount
<1>2. TypeInv /\ Safe /\ CountInv /\ [Next]_vars => CountInv'
  <2> SUFFICES ASSUME TypeInv, Safe, CountInv, [Next]_vars
               PROVE  CountInv'
    OBVIOUS
  <2>1. ASSUME NEW r \in Requests, Logging(r) PROVE CountInv'
    BY <2>1, LoggingCount
  <2>2. ASSUME NEW r \in Requests, NewCtx(r) \/ Step(r), ~Logging(r)
        PROVE  CountInv'
    BY <2>2, OthersUntouched, OnlyLoggingFinishes, FinishedFrame
  <2>3. ASSUME NEW u \in Pools \cup Hosts, ReadyChanges(u) PROVE CountInv'
    BY <2>3, FinishedFrame DEF ReadyChanges
  <2>4. CASE UNCHANGED vars
    BY <2>4, FinishedFrame DEF vars
  <2> QED
    BY <2>1, <2>2, <2>3, <2>4 DEF Next
<1>3. CountInv => MetricsExact
  BY DEF CountInv, MetricsExact
<1> QED
  BY <1>1, <1>2, <1>3, NextType, NextSafe, PTL DEF Spec

----------------------------------------------------------------------------
(* The answer.                                                             *)

\* The two ways a callback writes to the client keep an answer that is out.
LEMMA WritesKeep ==
  ASSUME TypeInv, NEW r \in Requests, status[r] # 0,
         \/ \E code \in Statuses : \E w \in Respond(r, code) : Wrote(r, w)
         \/ \E p, s : Passed(r, p, s)
         \/ UNCHANGED status
  PROVE  status'[r] = status[r]
  BY DEF TypeInv, TypeOK, Respond, Wrote, Passed

LEMMA StepKeepsAnswer ==
  ASSUME TypeInv, NEW r \in Requests, NewCtx(r) \/ Step(r), status[r] # 0
  PROVE  status'[r] = status[r]
<1>1. CASE NewCtx(r)
  BY <1>1, WritesKeep DEF NewCtx, session
<1>2. CASE EarlyRequestFilter(r)
  BY <1>2, WritesKeep DEF EarlyRequestFilter
<1>3. CASE RequestFilter(r)
  <2>1. CASE RespondNotFound(r)
    <3> HIDE DEF Go, Fail, Wrote, Passed
    <3>1. 404 \in Statuses
      BY DEF Statuses
    <3>2. \E w \in Respond(r, 404) : Wrote(r, w)
      BY <2>1, Zenon DEF RespondNotFound
    <3> QED
      BY <3>1, <3>2, WritesKeep
  <2>2. CASE RunRequestChain(r)
    BY <2>2, WritesKeep DEF RunRequestChain
  <2>3. CASE UNCHANGED status
    BY <2>3, WritesKeep
  <2> QED
    BY <1>3, <2>1, <2>2, <2>3 DEF RequestFilter
<1>4. CASE UpstreamPeer(r)
  <2>1. CASE UpstreamMissing(r)
    <3> HIDE DEF Go, Fail, Wrote, Passed
    <3>1. 500 \in Statuses
      BY DEF Statuses
    <3>2. \E w \in Respond(r, 500) : Wrote(r, w)
      BY <2>1, Zenon DEF UpstreamMissing
    <3> QED
      BY <3>1, <3>2, WritesKeep
  <2>2. CASE UNCHANGED status
    BY <2>2, WritesKeep
  <2>3. UpstreamMissing(r) \/ UNCHANGED status
    BY <1>4, Zenon DEF UpstreamPeer, SelectPeer
  <2> QED
    BY <2>1, <2>2, <2>3
<1>5. CASE Connect(r)
  BY <1>5, WritesKeep DEF Connect, session
<1>6. CASE ConnectedToUpstream(r)
  BY <1>6, WritesKeep DEF ConnectedToUpstream
<1>7. CASE UpstreamRequestFilter(r)
  BY <1>7, WritesKeep DEF UpstreamRequestFilter
<1>8. CASE RequestBodyFilter(r)
  BY <1>8, WritesKeep DEF RequestBodyFilter, session
<1>9. CASE UpstreamResponseFilter(r)
  BY <1>9, WritesKeep DEF UpstreamResponseFilter
<1>10. CASE ResponseFilter(r)
  BY <1>10, WritesKeep DEF ResponseFilter, Statuses
<1>11. CASE ResponseBodyFilter(r)
  BY <1>11, WritesKeep DEF ResponseBodyFilter
<1>12. CASE Complete(r) \/ UpstreamError(r) \/ DownstreamError(r) \/ Logging(r)
  BY <1>12, WritesKeep DEF Complete, UpstreamError, DownstreamError, Logging,
                          session
<1>13. CASE FailToProxy(r)
  <2> DEFINE code == StatusOf(err[r])
  <2>1. code \in Statuses
    BY DEF StatusOf, Statuses
  <2>2. \/ \E p, s : Passed(r, p, s)
        \/ Wrote(r, [status |-> status[r], ok |-> TRUE])
        \/ \E w \in Respond(r, code) : Wrote(r, w)
    BY <1>13 DEF FailToProxy
  <2>3. CASE Wrote(r, [status |-> status[r], ok |-> TRUE])
    BY <2>3 DEF Wrote, TypeInv, TypeOK
  <2> QED
    BY <2>1, <2>2, <2>3, WritesKeep
<1> QED
  BY <1>1, <1>2, <1>3, <1>4, <1>5, <1>6, <1>7, <1>8, <1>9, <1>10, <1>11, <1>12,
     <1>13 DEF Step
=============================================================================
