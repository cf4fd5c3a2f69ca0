---------------------------- MODULE ProxiesProofs ----------------------------
(***************************************************************************)
(* Proofs about modules Cluster and Proxies: types, what the admin API has *)
(* acknowledged, the limits and the sessions, for any number of requests,  *)
(* clients and connections and all values of the limits.                   *)
(***************************************************************************)
EXTENDS Proxies, FiniteSetTheorems, SequenceTheorems, TLAPS

----------------------------------------------------------------------------
(* The cluster: only the admin API writes the shared set of lesson 35, and *)
(* whoever holds its lock has put its own address there.                   *)

AdminInv ==
  /\ \A a \in Admins : admin[a] # "idle" => lesson = 35
  /\ \A a \in Admins : admin[a] \in {"wait", "reply"} => body[a] # None
  /\ \A a \in Admins : admin[a] = "reply" => writer = a
  /\ latest # None => lesson = 35
  /\ writer # None => admin[writer] = "reply" /\ source = {body[writer]}
  /\ AcknowledgedHolds

ClusterInv == ClusterTypeOK /\ AdminInv

LEMMA ConfigType ==
  ASSUME lesson \in Lessons
  PROVE  /\ Config.servers \in SUBSET Servers
         /\ Config.check \in {None, "tcp", "http", "body"}
<1> DEFINE Clusters == [servers : SUBSET Servers, filled : BOOLEAN, refreshed : BOOLEAN,
                        check : {None, "tcp", "http", "body"}]
<1>1. \A servers \in SUBSET Servers, check \in {None, "tcp", "http", "body"} :
        List(servers, check) \in Clusters
  BY DEF List
<1>2. {RoundRobinCluster, KetamaCluster, StickyCluster, TcpCluster, HttpCluster,
       BodyCluster, PrimaryCluster} \subseteq Clusters
  BY <1>1 DEF RoundRobinCluster, KetamaCluster, StickyCluster, TcpCluster, HttpCluster,
     BodyCluster, PrimaryCluster, Servers
<1>3. FileCluster \in Clusters /\ MemoryCluster \in Clusters
  BY DEF FileCluster, MemoryCluster, Servers
<1>5. WeightedCluster \in Clusters
  <2>1. \A c \in Clusters : [c EXCEPT !.filled = FALSE] \in Clusters
    OBVIOUS
  <2>2. List(Servers, None) \in Clusters
    BY <1>1
  <2> HIDE DEF Clusters
  <2> QED BY <2>1, <2>2 DEF WeightedCluster
<1>4. Config \in {RoundRobinCluster, WeightedCluster, KetamaCluster, StickyCluster,
                  TcpCluster, HttpCluster, BodyCluster, PrimaryCluster, FileCluster,
                  MemoryCluster}
  BY Zenon DEF Config
<1> QED BY <1>2, <1>3, <1>4, <1>5

LEMMA ClusterStart == ClusterInit => ClusterInv
<1> SUFFICES ASSUME ClusterInit
             PROVE  ClusterInv
  OBVIOUS
<1>1. source \in SUBSET Servers /\ pool \in SUBSET Servers
  BY ConfigType DEF ClusterInit
<1>2. /\ healthy \in [Servers -> BOOLEAN] /\ condition \in [Servers -> Conditions]
      /\ admin \in [Admins -> {"idle", "wait", "reply", "done"}]
      /\ body \in [Admins -> Servers \cup {None}]
  BY DEF ClusterInit, Conditions
<1>3. ClusterTypeOK
  <2>1. lesson \in Lessons /\ found = None /\ writer = None /\ latest = None
    BY DEF ClusterInit
  <2>2. readable \in BOOLEAN /\ asked \in BOOLEAN
    BY DEF ClusterInit
  <2>3. changes \in 0..MaxChanges
    BY ClusterAssumption DEF ClusterInit
  <2> QED BY <1>1, <1>2, <2>1, <2>2, <2>3 DEF ClusterTypeOK
<1> QED BY <1>3 DEF ClusterInv, ClusterInit, AdminInv, AcknowledgedHolds

LEMMA ClusterKeeps ==
  ASSUME ClusterInv, ClusterNext \/ UNCHANGED clusterVars
  PROVE  ClusterInv'
<1> USE ClusterAssumption DEF ClusterInv, ClusterTypeOK
<1>1. CASE Discover
  BY <1>1 DEF Discover, AdminInv, AcknowledgedHolds
<1>2. CASE Apply
  BY <1>2 DEF Apply, AdminInv, AcknowledgedHolds
<1>3. ASSUME NEW s \in Servers, Check(s)
      PROVE  ClusterInv'
  <2>1. Passes(condition[s]) \in BOOLEAN
    BY <1>3, ConfigType DEF Check, Passes, TcpHealthCheck, HttpHealthCheck, BodyMatchCheck
  <2>2. healthy' \in [Servers -> BOOLEAN]
    BY <1>3, <2>1 DEF Check
  <2> QED BY <1>3, <2>2 DEF Check, AdminInv, AcknowledgedHolds
<1>4. ASSUME NEW s \in Servers, NEW c \in Conditions, Change(s, c)
      PROVE  ClusterInv'
  BY <1>4 DEF Change, AdminInv, AcknowledgedHolds
<1>5. ASSUME NEW servers \in SUBSET Servers, NEW there \in BOOLEAN, Edit(servers, there)
      PROVE  ClusterInv'
  BY <1>5 DEF Edit, AdminInv, AcknowledgedHolds
<1>6. ASSUME NEW a \in Admins, NEW address \in Servers \cup {None}, AdminRead(a, address)
      PROVE  ClusterInv'
  <2>1. ClusterTypeOK'
    BY <1>6 DEF AdminRead
  <2>2. AdminInv'
    BY <1>6 DEF AdminRead, AdminInv, AcknowledgedHolds
  <2> QED BY <2>1, <2>2
<1>7. ASSUME NEW a \in Admins, AdminSwap(a)
      PROVE  ClusterInv'
  <2>1. body[a] \in Servers
    BY <1>7 DEF AdminSwap, AdminInv
  <2>2. ClusterTypeOK'
    BY <1>7, <2>1 DEF AdminSwap
  <2>3. AdminInv'
    BY <1>7 DEF AdminSwap, AdminInv, AcknowledgedHolds
  <2> QED BY <2>2, <2>3
<1>8. ASSUME NEW a \in Admins, AdminReply(a)
      PROVE  ClusterInv'
  <2>1. writer = a /\ source = {body[a]}
    BY <1>8 DEF AdminReply, AdminInv
  <2>2. ClusterTypeOK'
    BY <1>8, <2>1 DEF AdminReply
  <2>3. AdminInv'
    BY <1>8, <2>1 DEF AdminReply, AdminInv, AcknowledgedHolds
  <2> QED BY <2>2, <2>3
<1>9. CASE UNCHANGED clusterVars
  BY <1>9 DEF clusterVars, AdminInv, AcknowledgedHolds
<1> QED BY <1>1, <1>2, <1>3, <1>4, <1>5, <1>6, <1>7, <1>8, <1>9 DEF ClusterNext
----------------------------------------------------------------------------
(* The steps, in groups.                                                   *)

\* The lessons' ways to select a server, and to fail before there is one.
Choice(r) ==
  \/ SinglePeer(r) \/ PathPeer(r) \/ BackupPeer(r) \/ HashPeer(r) \/ SessionPeer(r)
  \/ AlternatePeer(r) \/ \E s \in Servers : RoundRobinPeer(r, s)
Failure(r) == FilterFails(r) \/ NoUpstreamAvailable(r) \/ ConnectFails(r) \/ ReadTimesOut(r)
Failures   == {0, 400, 413, 500, 502, 504}

LEMMA KindsOfStep ==
  ASSUME Next
  PROVE  \/ ClusterNext /\ UNCHANGED proxyVars
         \/ \E r \in Requests, c \in Clients \cup {None}, h \in Headers : Arrive(r, c, h)
         \/ \E r \in Requests : Filter(r) \/ RateLimit(r) \/ SlidingRate(r)
         \/ \E r \in Requests : Observe(r)
         \/ \E r \in Requests : InflightLimit(r)
         \/ \E r \in Requests : RespondError(r)
         \/ \E r \in Requests : Choice(r)
         \/ \E r \in Requests : Failure(r)
         \/ \E r \in Requests, reused \in BOOLEAN : Connect(r, reused)
         \/ \E r \in Requests : Retry(r)
         \/ \E r \in Requests, n \in 1..MaxBodySize : BodyPiece(r, n)
         \/ \E r \in Requests : InspectPiece(r)
         \/ \E r \in Requests : BodyEnds(r)
         \/ \E r \in Requests : Respond(r)
         \/ \E r \in Requests : Logging(r)
         \/ NextWindow
BY DEF Next, Callback, Choice, Failure

LEMMA ClusterOrNot ==
  ASSUME [Next]_vars
  PROVE  ClusterNext \/ UNCHANGED clusterVars
BY KindsOfStep DEF vars, Arrive, Filter, RateLimit, SlidingRate, Observe, InflightLimit,
   RespondError, Choice, SinglePeer, PathPeer, BackupPeer, HashPeer, SessionPeer,
   AlternatePeer, RoundRobinPeer, Failure, FilterFails, NoUpstreamAvailable, ConnectFails,
   ReadTimesOut, Connect, Retry, BodyPiece, InspectPiece, BodyEnds, Respond, Logging, NextWindow

\* The shared set holds the address of the last 200, unless another connection
\* has swapped it since and not answered yet, or could not answer.
THEOREM AcknowledgedAlwaysHolds == Spec => []AcknowledgedHolds
<1>1. Init => ClusterInv
  BY ClusterStart DEF Init
<1>2. ClusterInv /\ [Next]_vars => ClusterInv'
  BY ClusterOrNot, ClusterKeeps
<1>3. ClusterInv => AcknowledgedHolds
  BY DEF ClusterInv, AdminInv
<1> QED BY <1>1, <1>2, <1>3, PTL DEF Spec

\* The process runs one lesson; so its requests, their number of retries and
\* what they bring are fixed.
LEMMA LessonKept ==
  ASSUME [Next]_vars
  PROVE  /\ lesson' = lesson /\ Requests' = Requests /\ Headers' = Headers
         /\ MaxRetries(lesson)' = MaxRetries(lesson)
<1>1. ASSUME ClusterNext
      PROVE  lesson' = lesson
  BY <1>1 DEF ClusterNext, Discover, Apply, Check, Change, Edit, AdminRead, AdminSwap, AdminReply
<1>2. lesson' = lesson
  BY <1>1, ClusterOrNot DEF clusterVars
<1> QED BY <1>2 DEF Requests, Headers
----------------------------------------------------------------------------
(* Types.                                                                  *)

LEMMA ChoiceShape ==
  ASSUME TypeOK, NEW r \in Requests, Choice(r)
  PROVE  /\ pc[r] = "peer" /\ pc' = [pc EXCEPT ![r] = "connect"]
         /\ UNCHANGED <<client, header, sent, read, buffer, isReused, conn, retries, verdict,
                        status, cookie, logged, limiter>>
         /\ newId' \in [Requests -> Nat \cup {None}] /\ counter' \in Nat
<1>1. CASE SessionPeer(r)
  <2>1. newId' = [newId EXCEPT ![r] = IF header[r] # None THEN @ ELSE counter]
    BY <1>1 DEF SessionPeer
  <2>2. newId' \in [Requests -> Nat \cup {None}]
    BY <2>1 DEF TypeOK
  <2>3. counter' \in Nat
    BY <1>1 DEF SessionPeer, TypeOK
  <2> QED BY <1>1, <2>2, <2>3 DEF SessionPeer, Select, answer
<1>2. CASE SinglePeer(r) \/ PathPeer(r) \/ BackupPeer(r) \/ HashPeer(r)
  BY <1>2 DEF SinglePeer, PathPeer, BackupPeer, HashPeer, Select, TypeOK, ctx, answer
<1>3. CASE AlternatePeer(r)
  BY <1>3 DEF AlternatePeer, Select, TypeOK, ctx, answer
<1>4. ASSUME NEW s \in Servers, RoundRobinPeer(r, s)
      PROVE  pc[r] = "peer" /\ pc' = [pc EXCEPT ![r] = "connect"]
             /\ UNCHANGED <<client, header, sent, ctx, conn, retries, answer, counter,
                            logged, limiter>>
  BY <1>4 DEF RoundRobinPeer, Select
<1> QED BY <1>1, <1>2, <1>3, <1>4 DEF Choice, TypeOK, ctx, answer

LEMMA FailToProxyType ==
  ASSUME NEW r, NEW e, FailToProxy(r, e)
  PROVE  /\ pc' = [pc EXCEPT ![r] = "end"]
         /\ \E v \in Failures : status' = [status EXCEPT ![r] = v]
<1>1. /\ CustomErrorProxy(e) \in Failures /\ TimeoutProxy(e) \in Failures
      /\ TooLargeAnswer(e) \in Failures /\ DefaultAnswer(e) \in Failures
  BY DEF CustomErrorProxy, TimeoutProxy, TooLargeAnswer, DefaultAnswer, Failures
<1> QED BY <1>1 DEF FailToProxy

LEMMA FailureShape ==
  ASSUME NEW r \in Requests, Failure(r)
  PROVE  /\ pc[r] \in {"filter", "peer", "connect", "respond"}
         /\ pc' = [pc EXCEPT ![r] = "end"]
         /\ \E v \in Failures : status' = [status EXCEPT ![r] = v]
         /\ UNCHANGED <<client, header, sent, ctx, route, verdict, cookie, counter,
                        logged, limiter>>
<1>1. ASSUME NEW e, FailToProxy(r, e)
      PROVE  /\ pc' = [pc EXCEPT ![r] = "end"]
             /\ \E v \in Failures : status' = [status EXCEPT ![r] = v]
  BY <1>1, FailToProxyType
<1>2. CASE ConnectFails(r)
  BY <1>1, <1>2 DEF ConnectFails
<1>3. CASE FilterFails(r) \/ NoUpstreamAvailable(r) \/ ReadTimesOut(r)
  BY <1>1, <1>3 DEF FilterFails, NoUpstreamAvailable, ReadTimesOut
<1> QED BY <1>2, <1>3 DEF Failure

LEMMA VerdictType ==
  ASSUME NEW r
  PROVE  Verdict(r) \in {0, 401, 403, 404, 413}
<1>1. /\ PathRouter(r) \in {0, 401, 403, 404, 413}
      /\ FirewallProxy(r) \in {0, 401, 403, 404, 413} /\ SizeLimitProxy(r) \in {0, 401, 403, 404, 413}
      /\ AuthProxy(r) \in {0, 401, 403, 404, 413} /\ BasicAuthProxy(r) \in {0, 401, 403, 404, 413}
  BY DEF PathRouter, FirewallProxy, SizeLimitProxy, AuthProxy, BasicAuthProxy
<1> QED BY <1>1 DEF Verdict

LEMMA DecideType ==
  ASSUME TypeOK, NEW r \in Requests, NEW v \in {0, 401, 403, 404, 413, 429}, Decide(r, v)
  PROVE  /\ pc' \in [Requests -> {"idle", "filter", "rate", "refuse", "peer", "connect",
                                  "body", "respond", "end", "done"}]
         /\ verdict' \in [Requests -> {0, 401, 403, 404, 413, 429}]
BY DEF Decide, TypeOK

LEMMA Start == Init => TypeOK
<1> SUFFICES ASSUME Init
             PROVE  TypeOK
  OBVIOUS
<1>1. ClusterTypeOK
  BY ClusterStart DEF Init, ClusterInv
<1>2. lesson \in Lessons /\ MaxRetries(lesson) \in Nat /\ MaxWindow \in Nat
  BY <1>1, ProxiesAssumption DEF ClusterTypeOK
<1>3. BufferType
  <2>1. <<>> \in Seq(Text)
    OBVIOUS
  <2> QED BY <2>1 DEF Init, BufferType
<1> QED BY <1>1, <1>2, <1>3 DEF Init, TypeOK

\* A request that came and has not ended has its header.
HeaderInv == \A r \in Requests : pc[r] \notin {"idle", "done"} => header[r] \in Headers

LEMMA NextBuffer ==
  ASSUME TypeOK, HeaderInv, [Next]_vars
  PROVE  BufferType'
<1>0. Requests' = Requests /\ buffer \in [Requests -> Seq(Text)]
  BY LessonKept DEF TypeOK, BufferType
<1>1. ASSUME NEW r \in Requests, InspectPiece(r)
      PROVE  BufferType'
  <2>1. lesson = 12 /\ pc[r] = "body"
    BY <1>1 DEF InspectPiece
  <2>2. Headers = Bodies
    BY <2>1 DEF Headers
  <2>3. header[r] \in Seq(Text)
    BY <2>1, <2>2, ProxiesAssumption DEF HeaderInv
  <2>4. sent[r] \in Nat
    BY DEF TypeOK
  <2>5. PICK end \in sent[r] + 1..Len(header[r]) :
          buffer' = [buffer EXCEPT ![r] = @ \o SubSeq(header[r], sent[r] + 1, end)]
    BY <1>1 DEF InspectPiece
  <2>6. SubSeq(header[r], sent[r] + 1, end) \in Seq(Text)
    BY <2>3, <2>4
  <2>7. buffer[r] \o SubSeq(header[r], sent[r] + 1, end) \in Seq(Text)
    BY <1>0, <2>6
  <2> QED BY <1>0, <2>5, <2>7 DEF BufferType
<1>2. ASSUME NEW r \in Requests, Logging(r)
      PROVE  BufferType'
  <2>1. buffer' = [buffer EXCEPT ![r] = <<>>] /\ <<>> \in Seq(Text)
    BY <1>2 DEF Logging
  <2> QED BY <1>0, <2>1 DEF BufferType
<1>3. ASSUME ~\E r \in Requests : InspectPiece(r) \/ Logging(r)
      PROVE  buffer' = buffer
  BY <1>3, KindsOfStep, ChoiceShape, FailureShape DEF vars, proxyVars, ctx, Arrive, Filter,
     RateLimit, SlidingRate, Observe, InflightLimit, RespondError, Connect, Retry, BodyPiece,
     BodyEnds, Respond, NextWindow
<1> QED BY <1>0, <1>1, <1>2, <1>3 DEF BufferType

LEMMA NextType ==
  ASSUME TypeOK, ClusterInv, HeaderInv, [Next]_vars
  PROVE  TypeOK'
<1> USE DEF TypeOK
<1>0. ClusterTypeOK' /\ BufferType'
  BY ClusterOrNot, ClusterKeeps, NextBuffer DEF ClusterInv
<1>1. lesson' = lesson /\ Requests' = Requests /\ Headers' = Headers
      /\ MaxRetries(lesson)' = MaxRetries(lesson)
  BY LessonKept
<1>2. CASE UNCHANGED proxyVars
  BY <1>0, <1>1, <1>2 DEF proxyVars, ctx, route, answer, limiter
<1>3. ASSUME NEW r \in Requests, NEW c \in Clients \cup {None}, NEW h \in Headers,
             Arrive(r, c, h)
      PROVE  TypeOK'
  BY <1>0, <1>1, <1>3 DEF Arrive, ctx, route, answer, limiter
<1>4. ASSUME NEW r \in Requests, Filter(r) \/ RateLimit(r) \/ SlidingRate(r)
      PROVE  TypeOK'
  <2>1. \E v \in {0, 401, 403, 404, 413, 429} : Decide(r, v)
    BY <1>4, VerdictType DEF Filter, RateLimit, SlidingRate, RateVerdict, SlidingVerdict
  <2>2. count' \in [Clients -> Nat] /\ last' \in [Clients -> Nat]
    BY <1>4 DEF Filter, RateLimit, SlidingRate, limiter
  <2>3. admitted' \in [Clients -> Nat]
    BY <1>4 DEF Filter, RateLimit, SlidingRate, Let, limiter
  <2>4. UNCHANGED <<client, header, sent, ctx, route, status, cookie, counter, logged,
                    guards, window>>
    BY <1>4 DEF Filter, RateLimit, SlidingRate, limiter
  <2> QED BY <1>0, <1>1, <2>1, <2>2, <2>3, <2>4, DecideType DEF ctx, route
<1>5. ASSUME NEW r \in Requests, Observe(r)
      PROVE  TypeOK'
  <2>1. count' = [count EXCEPT ![client[r]] = @ + 1] /\ client[r] \in Clients
    BY <1>5 DEF Observe, Counted
  <2>3. count' \in [Clients -> Nat]
    BY <2>1
  <2>2. pc' = [pc EXCEPT ![r] = "rate"]
    BY <1>5 DEF Observe
  <2> QED BY <1>0, <1>1, <1>5, <2>2, <2>3 DEF Observe, ctx, route, answer
<1>6. ASSUME NEW r \in Requests, InflightLimit(r)
      PROVE  TypeOK'
  <2>1. \E v \in {0, 401, 403, 404, 413, 429} : Decide(r, v)
    BY <1>6 DEF InflightLimit
  <2> QED BY <1>0, <1>1, <1>6, <2>1, DecideType DEF InflightLimit, ctx, route
<1>7. ASSUME NEW r \in Requests, RespondError(r)
      PROVE  TypeOK'
  BY <1>0, <1>1, <1>7 DEF RespondError, ctx, route
<1>8. ASSUME NEW r \in Requests, Choice(r)
      PROVE  TypeOK'
  BY <1>0, <1>1, <1>8, ChoiceShape DEF limiter
<1>9. ASSUME NEW r \in Requests, Failure(r)
      PROVE  TypeOK'
  BY <1>0, <1>1, <1>9, FailureShape DEF Failures, ctx, route, limiter
<1>10. ASSUME NEW r \in Requests, NEW reused \in BOOLEAN, Connect(r, reused)
      PROVE  TypeOK'
  <2>1. isReused' \in [Requests -> BOOLEAN] /\ conn' \in [Requests -> BOOLEAN]
    BY <1>10 DEF Connect
  <2> QED BY <1>0, <1>1, <1>10, <2>1 DEF Connect, answer, limiter
<1>11. ASSUME NEW r \in Requests, Retry(r)
      PROVE  TypeOK'
  <2>1. retries' \in [Requests -> 0..MaxRetries(lesson)]
    <3>1. MaxRetries(lesson) \in Nat
      BY ProxiesAssumption DEF ClusterTypeOK
    <3> QED BY <1>11, <3>1 DEF Retry
  <2> QED BY <1>0, <1>1, <1>11, <2>1 DEF Retry, ctx, answer, limiter
<1>12. ASSUME NEW r \in Requests, NEW n \in 1..MaxBodySize, BodyPiece(r, n)
      PROVE  TypeOK'
  <2>1. n \in Nat
    BY ProxiesAssumption
  <2>2. read' \in [Requests -> Nat] /\ sent' \in [Requests -> Nat]
    BY <1>12, <2>1 DEF BodyPiece
  <2>3. \/ UNCHANGED <<pc, status>>
        \/ /\ pc' = [pc EXCEPT ![r] = "end"]
           /\ \E v \in Failures : status' = [status EXCEPT ![r] = v]
    BY <1>12, FailToProxyType DEF BodyPiece
  <2> QED BY <1>0, <1>1, <1>12, <2>2, <2>3 DEF BodyPiece, Failures, route, limiter
<1>16. ASSUME NEW r \in Requests, InspectPiece(r)
      PROVE  TypeOK'
  <2>1. \E end \in Nat : sent' = sent \/ sent' = [sent EXCEPT ![r] = end]
    BY <1>16 DEF InspectPiece
  <2>3. sent' \in [Requests -> Nat]
    BY <2>1
  <2>4. \/ UNCHANGED <<pc, status>>
        \/ /\ pc' = [pc EXCEPT ![r] = "end"]
           /\ \E v \in Failures : status' = [status EXCEPT ![r] = v]
    <3>1. PICK end \in sent[r] + 1..Len(header[r]) :
            IF Rogue(buffer'[r])
            THEN FailToProxy(r, "SecurityPolicyViolation") /\ sent' = sent
            ELSE sent' = [sent EXCEPT ![r] = end] /\ UNCHANGED <<pc, status>>
      BY <1>16 DEF InspectPiece
    <3> QED BY <3>1, FailToProxyType
  <2>5. UNCHANGED <<client, header, read, newId, isReused, route, verdict, cookie, counter,
                    logged, limiter>>
    BY <1>16 DEF InspectPiece
  <2> QED BY <1>0, <1>1, <2>3, <2>4, <2>5 DEF Failures, route, limiter
<1>13. ASSUME NEW r \in Requests, BodyEnds(r) \/ Respond(r)
      PROVE  TypeOK'
  <2>1. /\ \E x \in {"respond", "end"} : pc' = [pc EXCEPT ![r] = x]
        /\ status' = status \/ status' = [status EXCEPT ![r] = 200]
        /\ cookie' = cookie \/ cookie' = [cookie EXCEPT ![r] = newId[r]]
        /\ UNCHANGED <<client, header, sent, ctx, route, verdict, counter, logged, limiter>>
    BY <1>13 DEF BodyEnds, Respond, answer
  <2> QED BY <1>0, <1>1, <2>1 DEF ctx, route, limiter
<1>14. ASSUME NEW r \in Requests, Logging(r)
      PROVE  TypeOK'
  <2>1. 0 \in 0..MaxRetries(lesson)
    BY ProxiesAssumption DEF ClusterTypeOK
  <2>2. /\ pc' = [pc EXCEPT ![r] = "done"]
        /\ client' \in [Requests -> Clients \cup {None}]
        /\ header' \in [Requests -> Headers \cup {None}]
        /\ newId' \in [Requests -> Nat \cup {None}]
        /\ guards' \in SUBSET Requests
    BY <1>14 DEF Logging
  <2>3. /\ verdict' \in [Requests -> {0, 401, 403, 404, 413, 429}]
        /\ status' \in [Requests -> {0, 200, 400, 401, 403, 404, 413, 429, 500, 502, 504}]
        /\ read' \in [Requests -> Nat] /\ sent' \in [Requests -> Nat]
        /\ retries' \in [Requests -> 0..MaxRetries(lesson)]
        /\ logged' \in Nat
    BY <1>14, <2>1 DEF Logging
  <2>4. conn' \in [Requests -> BOOLEAN] /\ isReused' \in [Requests -> BOOLEAN]
    BY <1>14 DEF Logging
  <2> QED BY <1>0, <1>1, <1>14, <2>2, <2>3, <2>4 DEF Logging
<1>15. CASE NextWindow
  BY <1>0, <1>1, <1>15, ProxiesAssumption DEF NextWindow, ctx, route, answer
<1> HIDE DEF TypeOK
<1> QED BY <1>2, <1>3, <1>4, <1>5, <1>6, <1>7, <1>8, <1>9, <1>10, <1>11, <1>12, <1>13,
           <1>14, <1>15, <1>16, KindsOfStep DEF vars

LEMMA NextHeader ==
  ASSUME TypeOK, HeaderInv, [Next]_vars
  PROVE  HeaderInv'
<1>1. Requests' = Requests /\ Headers' = Headers
  BY LessonKept
\* Steps that begin and end no request.
<1>2. ASSUME header' = header,
             \A q \in Requests : pc[q] \in {"idle", "done"} => pc'[q] = pc[q]
      PROVE  HeaderInv'
  BY <1>1, <1>2 DEF HeaderInv
<1>3. CASE UNCHANGED proxyVars \/ NextWindow
  BY <1>2, <1>3 DEF proxyVars, NextWindow
<1>4. ASSUME NEW r \in Requests, NEW c \in Clients \cup {None}, NEW h \in Headers,
             Arrive(r, c, h)
      PROVE  HeaderInv'
  BY <1>1, <1>4 DEF Arrive, HeaderInv, TypeOK
<1>5. ASSUME NEW r \in Requests,
             \/ Filter(r) \/ RateLimit(r) \/ SlidingRate(r) \/ Observe(r) \/ InflightLimit(r)
             \/ RespondError(r) \/ BodyEnds(r) \/ Retry(r) \/ Respond(r)
      PROVE  HeaderInv'
  <2>1. header' = header /\ pc[r] \notin {"idle", "done"}
        /\ \E x : pc' = [pc EXCEPT ![r] = x]
    BY <1>5 DEF Filter, RateLimit, SlidingRate, Observe, InflightLimit, RespondError,
       BodyEnds, Retry, Respond, Decide
  <2> QED BY <1>2, <2>1 DEF TypeOK
<1>6. ASSUME NEW r \in Requests, Choice(r) \/ Failure(r)
      PROVE  HeaderInv'
  <2>1. header' = header /\ pc[r] \notin {"idle", "done"}
        /\ \E x : pc' = [pc EXCEPT ![r] = x]
    BY <1>6, ChoiceShape, FailureShape
  <2> QED BY <1>2, <2>1 DEF TypeOK
<1>7. ASSUME NEW r \in Requests,
             \/ \E reused \in BOOLEAN : Connect(r, reused)
             \/ InspectPiece(r)
             \/ \E n \in 1..MaxBodySize : BodyPiece(r, n)
      PROVE  HeaderInv'
  <2>1. header' = header /\ pc[r] \notin {"idle", "done"}
        /\ (pc' = pc \/ \E x : pc' = [pc EXCEPT ![r] = x])
    BY <1>7 DEF Connect, InspectPiece, BodyPiece, FailToProxy
  <2> QED BY <1>2, <2>1 DEF TypeOK
<1>8. ASSUME NEW r \in Requests, Logging(r)
      PROVE  HeaderInv'
  <2>1. pc' = [pc EXCEPT ![r] = "done"] /\ header' = [header EXCEPT ![r] = None]
    BY <1>8 DEF Logging
  <2> QED BY <1>1, <2>1 DEF HeaderInv, TypeOK
<1> QED BY <1>3, <1>4, <1>5, <1>6, <1>7, <1>8, KindsOfStep DEF vars

LEMMA TypesAndHeaders == Spec => [](TypeOK /\ HeaderInv)
<1>1. Init => ClusterInv
  BY ClusterStart DEF Init
<1>2. ClusterInv /\ [Next]_vars => ClusterInv'
  BY ClusterOrNot, ClusterKeeps
<1>3. TypeOK /\ ClusterInv /\ HeaderInv /\ [Next]_vars => TypeOK'
  BY NextType
<1>4. Init => HeaderInv
  BY DEF Init, HeaderInv
<1>5. TypeOK /\ HeaderInv /\ [Next]_vars => HeaderInv'
  BY NextHeader
<1> QED BY Start, <1>1, <1>2, <1>3, <1>4, <1>5, PTL DEF Spec

\* The cluster, the requests and what they share keep their types.
THEOREM TypeCorrect == Spec => []TypeOK
BY TypesAndHeaders, PTL
----------------------------------------------------------------------------
(***************************************************************************)
(* Why the limits hold.  Rates (36): what was let through is no more than  *)
(* was counted.  Concurrency (38): whoever is past the filter has a guard, *)
(* so one that gets past it counted all the others.  Size (40): what was   *)
(* sent in an attempt is no more than the context counted in all of them.  *)
(***************************************************************************)
Inside == {r \in Requests : Passed(r)}

RateInv ==
  /\ lesson = 36 => \A c \in Clients : admitted[c] <= count[c] /\ admitted[c] <= MaxReqPerSec
  /\ lesson = 37 => \A c \in Clients : last[c] > MaxReqPerSec => admitted[c] = 0
GuardInv == lesson = 38 => Inside \subseteq guards /\ Cardinality(Inside) <= MaxConcurrent
SizeInv  == lesson = 40 => \A r \in Requests : sent[r] <= read[r] /\ sent[r] < MaxBodySize
\* Only lesson 37 counts and decides in two steps.
StageInv == \A r \in Requests : pc[r] = "rate" => lesson = 37 /\ client[r] # None
LimitInv == RateInv /\ GuardInv /\ SizeInv /\ StageInv

LEMMA GuardsFinite ==
  ASSUME TypeOK
  PROVE  IsFiniteSet(guards) /\ IsFiniteSet(Inside) /\ Cardinality(guards) \in Nat
         /\ Cardinality(Inside) \in Nat
<1>1. Load(lesson) \in Nat
  BY ProxiesAssumption DEF TypeOK, ClusterTypeOK
<1>2. IsFiniteSet(Requests)
  BY <1>1, FS_Interval DEF Requests
<1> QED BY <1>2, FS_Subset, FS_CardinalityType DEF TypeOK, Inside

\* A step after which nobody is past the filter who was not before.
LEMMA NobodyEnters ==
  ASSUME TypeOK, TypeOK', GuardInv, [Next]_vars, Inside' \subseteq Inside,
         lesson = 38 => guards \cap Inside' \subseteq guards'
  PROVE  GuardInv'
<1>1. lesson' = lesson
  BY LessonKept
<1>2. Cardinality(Inside') <= Cardinality(Inside)
  BY GuardsFinite, FS_Subset
<1>3. Cardinality(Inside') \in Nat /\ Cardinality(Inside) \in Nat
  <2>1. IsFiniteSet(Inside')
    BY GuardsFinite, FS_Subset
  <2> QED BY <2>1, GuardsFinite, FS_CardinalityType
<1>4. MaxConcurrent \in Nat
  BY ProxiesAssumption
<1> QED BY <1>1, <1>2, <1>3, <1>4 DEF GuardInv

LEMMA LimitStart == Init => LimitInv
<1> SUFFICES ASSUME Init
             PROVE  LimitInv
  OBVIOUS
<1>1. \A r \in Requests : ~Passed(r)
  BY DEF Init, Passed
<1>2. Inside = {} /\ Cardinality(Inside) = 0
  BY <1>1, FS_EmptySet DEF Inside
<1> QED BY <1>1, <1>2, ProxiesAssumption DEF Init, LimitInv, RateInv, GuardInv, SizeInv, StageInv

LEMMA NextLimit ==
  ASSUME TypeOK, TypeOK', LimitInv, [Next]_vars
  PROVE  LimitInv'
<1> USE DEF LimitInv
<1>1. lesson' = lesson /\ Requests' = Requests
  BY LessonKept
\* Steps of requests that do not pass the filter and do not send.
<1>2. ASSUME \A r \in Requests : Passed(r)' => Passed(r),
             lesson = 38 => guards \cap Inside' \subseteq guards',
             UNCHANGED <<count, last, admitted>>,
             \A r \in Requests : pc'[r] = "rate" => pc[r] = "rate",
             \A r \in Requests : Passed(r)' \/ pc'[r] = "rate" =>
               client'[r] = client[r] /\ header'[r] = header[r],
             \A r \in Requests : \/ sent'[r] = sent[r] /\ read'[r] = read[r]
                                 \/ sent'[r] = 0
      PROVE  LimitInv'
  <2>1. RateInv'
    BY <1>1, <1>2 DEF RateInv
  <2>2. GuardInv'
    BY <1>1, <1>2, NobodyEnters DEF Inside
  <2>3. SizeInv'
    <3>1. \A r \in Requests : read'[r] \in Nat
      BY <1>1 DEF TypeOK
    <3> QED BY <1>1, <1>2, <3>1, ProxiesAssumption DEF SizeInv
  <2>4. StageInv'
    BY <1>1, <1>2 DEF StageInv
  <2> QED BY <2>1, <2>2, <2>3, <2>4
<1>3. CASE UNCHANGED proxyVars
  BY <1>2, <1>3 DEF proxyVars, ctx, limiter, Passed
<1>4. ASSUME NEW r \in Requests, NEW c \in Clients \cup {None}, NEW h \in Headers,
             Arrive(r, c, h)
      PROVE  LimitInv'
  BY <1>2, <1>4 DEF Arrive, ctx, limiter, Passed, TypeOK
\* A request is let past the filter or refused.
<1>5. ASSUME NEW r \in Requests, NEW v, Decide(r, v), pc[r] \in {"filter", "rate"},
             UNCHANGED <<client, header, sent, read>>, lesson # 38
      PROVE  GuardInv' /\ SizeInv' /\ StageInv'
  <2>1. GuardInv' /\ SizeInv'
    BY <1>1, <1>5 DEF GuardInv, SizeInv
  <2>2. StageInv'
    BY <1>1, <1>5 DEF StageInv, Decide, TypeOK
  <2> QED BY <2>1, <2>2
<1>6. ASSUME NEW r \in Requests, Filter(r)
      PROVE  LimitInv'
  <2>1. lesson # 38
    BY <1>6 DEF Filter, Counted
  <2>2. RateInv'
    BY <1>1, <1>6 DEF Filter, RateInv, limiter
  <2>3. GuardInv' /\ SizeInv' /\ StageInv'
    BY <1>5, <1>6, <2>1 DEF Filter, ctx
  <2> QED BY <2>2, <2>3
<1>7. ASSUME NEW r \in Requests, RateLimit(r)
      PROVE  LimitInv'
  <2> DEFINE c == client[r]
  <2>1. /\ lesson = 36 /\ c \in Clients
        /\ count' = [count EXCEPT ![c] = @ + 1]
        /\ \/ admitted' = admitted
           \/ admitted' = [admitted EXCEPT ![c] = @ + 1] /\ count[c] + 1 <= MaxReqPerSec
    BY <1>7, ProxiesAssumption DEF RateLimit, Counted, Let, RateVerdict, TypeOK
  <2>2. RateInv'
    <3>1. \A d \in Clients : count[d] \in Nat /\ admitted[d] \in Nat
      BY DEF TypeOK
    <3>2. \A d \in Clients : \/ count'[d] = count[d] /\ admitted'[d] = admitted[d]
                             \/ d = c /\ count'[d] = count[d] + 1 /\ admitted'[d] = admitted[d]
                             \/ /\ d = c /\ count'[d] = count[d] + 1
                                /\ admitted'[d] = admitted[d] + 1
                                /\ count[d] + 1 <= MaxReqPerSec
      BY <2>1 DEF TypeOK
    <3> HIDE DEF c
    <3> QED BY <1>1, <2>1, <3>1, <3>2, ProxiesAssumption DEF RateInv
  <2>3. GuardInv' /\ SizeInv' /\ StageInv'
    BY <1>5, <1>7 DEF RateLimit, ctx
  <2> QED BY <2>2, <2>3
<1>8. ASSUME NEW r \in Requests, SlidingRate(r)
      PROVE  LimitInv'
  <2> DEFINE c == client[r]
  <2>1. /\ lesson = 37 /\ c \in Clients /\ pc[r] = "rate" /\ UNCHANGED <<count, last>>
        /\ \/ admitted' = admitted
           \/ admitted' = [admitted EXCEPT ![c] = @ + 1] /\ ~(last[c] > MaxReqPerSec)
    BY <1>8, ProxiesAssumption DEF SlidingRate, Let, SlidingVerdict, StageInv, TypeOK
  <2>2. RateInv'
    <3>1. \A d \in Clients : admitted'[d] = admitted[d] \/ ~(last[d] > MaxReqPerSec)
      BY <2>1 DEF TypeOK
    <3> QED BY <1>1, <2>1, <3>1 DEF RateInv
  <2>3. GuardInv' /\ SizeInv' /\ StageInv'
    BY <1>5, <1>8, <2>1 DEF SlidingRate, ctx
  <2> QED BY <2>2, <2>3
<1>9. ASSUME NEW r \in Requests, Observe(r)
      PROVE  LimitInv'
  <2>1. /\ lesson = 37 /\ client[r] # None /\ pc' = [pc EXCEPT ![r] = "rate"]
        /\ UNCHANGED <<client, header, sent, read, last, admitted, guards>>
    BY <1>9 DEF Observe, Counted, ctx
  <2>2. RateInv' /\ GuardInv' /\ SizeInv'
    BY <1>1, <2>1 DEF RateInv, GuardInv, SizeInv
  <2>3. StageInv'
    BY <1>1, <2>1 DEF StageInv, Passed, TypeOK
  <2> QED BY <2>2, <2>3
<1>10. ASSUME NEW r \in Requests, InflightLimit(r)
      PROVE  LimitInv'
  <2> DEFINE v == IF Cardinality(guards) + 1 > MaxConcurrent THEN 429 ELSE 0
  <2>1. /\ lesson = 38 /\ pc[r] = "filter" /\ guards' = guards \cup {r} /\ Decide(r, v)
        /\ UNCHANGED <<client, header, sent, read, count, last, admitted>>
    BY <1>10 DEF InflightLimit, ctx
  <2>2. RateInv' /\ SizeInv' /\ StageInv'
    BY <1>1, <2>1 DEF RateInv, SizeInv, StageInv, Decide, TypeOK
  <2>3. \A q \in Requests \ {r} : Passed(q)' = Passed(q)
    BY <2>1 DEF Decide, Passed, TypeOK
  <2>4. GuardInv'
    <3>1. CASE v # 0
      <4>1. Inside' \subseteq Inside
        BY <1>1, <2>1, <2>3, <3>1 DEF Inside, Decide, Passed, TypeOK
      <4> QED BY <2>1, <4>1, NobodyEnters
    <3>2. CASE v = 0
      <4>1. Inside' \subseteq guards \cup {r}
        BY <1>1, <2>1, <2>3 DEF Inside, GuardInv
      <4>2. Cardinality(guards \cup {r}) <= Cardinality(guards) + 1
        <5>1. IsFiniteSet(guards) /\ Cardinality(guards) \in Nat
          BY GuardsFinite
        <5>2. Cardinality(guards \cup {r}) = Cardinality(guards)
              \/ Cardinality(guards \cup {r}) = Cardinality(guards) + 1
          BY <5>1, FS_AddElement, Zenon
        <5> QED BY <5>1, <5>2
      <4>3. Cardinality(guards) + 1 <= MaxConcurrent
        BY <3>2, GuardsFinite, ProxiesAssumption
      <4>4. /\ Cardinality(Inside') <= Cardinality(guards \cup {r})
            /\ Cardinality(Inside') \in Nat /\ Cardinality(guards \cup {r}) \in Nat
        BY <4>1, GuardsFinite, FS_AddElement, FS_Subset, FS_CardinalityType
      <4> HIDE DEF v
      <4>5. Cardinality(Inside') <= MaxConcurrent
        BY <4>2, <4>3, <4>4, GuardsFinite, ProxiesAssumption
      <4> QED BY <2>1, <4>1, <4>5 DEF GuardInv
    <3> QED BY <3>1, <3>2
  <2> QED BY <2>2, <2>4
<1>11. ASSUME NEW r \in Requests, RespondError(r)
      PROVE  LimitInv'
  <2>1. /\ pc[r] = "refuse" /\ pc' = [pc EXCEPT ![r] = "end"] /\ guards' = guards \ {r}
        /\ UNCHANGED <<client, header, sent, read, count, last, admitted>>
    BY <1>11 DEF RespondError, ctx
  <2>2. r \notin Inside'
    BY <1>1, <2>1 DEF Passed, Inside, TypeOK
  <2> QED BY <1>1, <1>2, <2>1, <2>2 DEF Passed, TypeOK
<1>12. ASSUME NEW r \in Requests, Choice(r) \/ Failure(r)
      PROVE  LimitInv'
  <2>1. /\ pc[r] \in {"filter", "peer", "connect", "respond"}
        /\ (pc[r] = "filter" => pc' = [pc EXCEPT ![r] = "end"])
        /\ \E x \in {"connect", "end"} : pc' = [pc EXCEPT ![r] = x]
        /\ UNCHANGED <<client, header, sent, read, limiter>>
    BY <1>12, ChoiceShape, FailureShape DEF ctx
  <2> QED BY <1>1, <1>2, <2>1 DEF Passed, Inside, TypeOK, limiter
<1>13. ASSUME NEW r \in Requests, NEW reused \in BOOLEAN, Connect(r, reused)
      PROVE  LimitInv'
  <2>1. /\ pc[r] = "connect" /\ \E x \in {"body", "respond"} : pc' = [pc EXCEPT ![r] = x]
        /\ UNCHANGED <<client, header, sent, read, limiter>>
    BY <1>13 DEF Connect
  <2> QED BY <1>1, <1>2, <2>1 DEF Passed, Inside, TypeOK, limiter
<1>14. ASSUME NEW r \in Requests, Retry(r)
      PROVE  LimitInv'
  <2>1. /\ pc[r] \in {"body", "respond"} /\ pc' = [pc EXCEPT ![r] = "peer"]
        /\ sent' = [sent EXCEPT ![r] = 0]
        /\ UNCHANGED <<client, header, read, limiter>>
    BY <1>14 DEF Retry, ctx
  <2> QED BY <1>1, <1>2, <2>1 DEF Passed, Inside, TypeOK, limiter
<1>15. ASSUME NEW r \in Requests, NEW n \in 1..MaxBodySize, BodyPiece(r, n)
      PROVE  LimitInv'
  <2>1. /\ pc[r] = "body" /\ pc' \in {pc, [pc EXCEPT ![r] = "end"]}
        /\ UNCHANGED <<client, header, limiter>>
    BY <1>15 DEF BodyPiece, FailToProxy
  <2>2. /\ read' = [read EXCEPT ![r] = @ + n]
        /\ \/ sent' = sent
           \/ sent' = [sent EXCEPT ![r] = @ + n] /\ read'[r] < MaxBodySize
    <3>1. read'[r] \in Nat
      BY <1>1 DEF TypeOK
    <3> QED BY <1>15, <3>1, ProxiesAssumption DEF BodyPiece, TooLarge
  <2>3. SizeInv'
    <3>1. \A q \in Requests : sent[q] \in Nat /\ read[q] \in Nat /\ read'[q] \in Nat
      BY <1>1 DEF TypeOK
    <3>2. \A q \in Requests : \/ sent'[q] = sent[q] /\ read'[q] >= read[q]
                              \/ sent'[q] = sent[q] + n /\ read'[q] = read[q] + n
                                 /\ read'[q] < MaxBodySize
      <4>1. DOMAIN sent = Requests /\ DOMAIN read = Requests
        BY DEF TypeOK
      <4> QED BY <2>2, <3>1, <4>1, ProxiesAssumption
    <3> QED BY <1>1, <3>1, <3>2, ProxiesAssumption DEF SizeInv
  <2>4. \A q \in Requests : Passed(q)' => Passed(q)
    BY <2>1 DEF Passed, TypeOK
  <2>5. RateInv' /\ StageInv'
    BY <1>1, <2>1, <2>4 DEF RateInv, StageInv, limiter, TypeOK
  <2>6. GuardInv'
    BY <1>1, <2>1, <2>4, NobodyEnters DEF Inside, limiter
  <2> QED BY <2>3, <2>5, <2>6
<1>16. ASSUME NEW r \in Requests, BodyEnds(r) \/ Respond(r)
      PROVE  LimitInv'
  <2>1. /\ pc[r] \in {"body", "respond"}
        /\ \E x \in {"respond", "end"} : pc' = [pc EXCEPT ![r] = x]
        /\ UNCHANGED <<client, header, sent, read, limiter>>
    BY <1>16 DEF BodyEnds, Respond, ctx
  <2> QED BY <1>1, <1>2, <2>1 DEF Passed, Inside, TypeOK, limiter
<1>19. ASSUME NEW r \in Requests, InspectPiece(r)
      PROVE  LimitInv'
  <2>1. /\ lesson = 12 /\ pc[r] = "body" /\ pc' \in {pc, [pc EXCEPT ![r] = "end"]}
        /\ UNCHANGED <<client, header, read, limiter>>
    BY <1>19 DEF InspectPiece, FailToProxy
  <2>2. \A q \in Requests : Passed(q)' => Passed(q)
    BY <2>1 DEF Passed, TypeOK
  <2>3. RateInv' /\ GuardInv' /\ SizeInv'
    BY <1>1, <2>1 DEF RateInv, GuardInv, SizeInv, limiter
  <2>4. StageInv'
    BY <1>1, <2>1, <2>2 DEF StageInv, TypeOK
  <2> QED BY <2>3, <2>4
<1>17. ASSUME NEW r \in Requests, Logging(r)
      PROVE  LimitInv'
  <2>1. /\ pc[r] = "end" /\ pc' = [pc EXCEPT ![r] = "done"] /\ guards' = guards \ {r}
        /\ client' = [client EXCEPT ![r] = None] /\ header' = [header EXCEPT ![r] = None]
        /\ read' = [read EXCEPT ![r] = 0] /\ sent' = [sent EXCEPT ![r] = 0]
        /\ UNCHANGED <<count, last, admitted>>
    BY <1>17 DEF Logging
  <2> QED BY <1>1, <1>2, <2>1 DEF Passed, Inside, TypeOK
<1>18. CASE NextWindow
  <2>1. /\ UNCHANGED <<pc, client, header, sent, read, guards>>
        /\ admitted' = [c \in Clients |-> 0] /\ count' = [c \in Clients |-> 0]
    BY <1>18 DEF NextWindow, ctx
  <2>2. RateInv'
    BY <1>1, <2>1, ProxiesAssumption DEF RateInv
  <2>3. GuardInv' /\ SizeInv' /\ StageInv'
    BY <1>1, <2>1 DEF GuardInv, Inside, SizeInv, StageInv, Passed
  <2> QED BY <2>2, <2>3
<1> HIDE DEF LimitInv
<1> QED BY <1>3, <1>4, <1>6, <1>7, <1>8, <1>9, <1>10, <1>11, <1>12, <1>13, <1>14, <1>15,
           <1>16, <1>17, <1>18, <1>19, KindsOfStep DEF vars

----------------------------------------------------------------------------
(***************************************************************************)
(* Why lesson 12 sends no forbidden word: what an attempt has sent is the  *)
(* end of the buffer, which holds no such word.  The buffer may begin with *)
(* the pieces of an attempt before.                                        *)
(***************************************************************************)
Suffix(b, text, n) ==
  n <= Len(b) /\ n <= Len(text) /\ \A i \in 1..n : b[Len(b) - n + i] = text[i]
Clean(text, n) == \A i \in 1..n - 1 : ~Forbidden(text, i)

WordInv == lesson = 12 => \A r \in Requests :
  /\ ~Passed(r) /\ pc[r] # "end" => sent[r] = 0 /\ buffer[r] = <<>>
  /\ Passed(r) => Suffix(buffer[r], header[r], sent[r]) /\ ~Rogue(buffer[r])
  /\ Clean(header[r], sent[r])

LEMMA PieceClean ==
  ASSUME NEW text \in Seq(Text), NEW b \in Seq(Text), NEW n \in Nat,
         NEW end \in n + 1..Len(text), Suffix(b, text, n),
         ~Rogue(b \o SubSeq(text, n + 1, end))
  PROVE  Suffix(b \o SubSeq(text, n + 1, end), text, end) /\ Clean(text, end)
<1> DEFINE piece == SubSeq(text, n + 1, end)
           next  == b \o piece
<1>1. /\ end \in Nat /\ end <= Len(text) /\ n < end
      /\ piece \in Seq(Text) /\ Len(piece) = end - n
      /\ \A i \in 1..end - n : piece[i] = text[n + i]
  OBVIOUS
<1>2. /\ next \in Seq(Text) /\ Len(next) = Len(b) + (end - n) /\ Len(b) \in Nat
      /\ \A i \in 1..Len(b) : next[i] = b[i]
      /\ \A i \in 1..end - n : next[Len(b) + i] = piece[i]
  <2> HIDE DEF piece
  <2>1. /\ next \in Seq(Text) /\ Len(next) = Len(b) + Len(piece)
        /\ \A i \in 1..Len(b) + Len(piece) :
             next[i] = IF i <= Len(b) THEN b[i] ELSE piece[i - Len(b)]
    <3>1. ASSUME NEW t \in Seq(Text)
          PROVE  /\ b \o t \in Seq(Text) /\ Len(b \o t) = Len(b) + Len(t)
                 /\ \A i \in 1..Len(b) + Len(t) :
                      (b \o t)[i] = IF i <= Len(b) THEN b[i] ELSE t[i - Len(b)]
      BY ConcatProperties, Zenon
    <3> QED BY <1>1, <3>1, Zenon
  <2> HIDE DEF next
  <2>2. Len(b) \in Nat
    OBVIOUS
  <2>3. ASSUME NEW i \in 1..end - n
        PROVE  next[Len(b) + i] = piece[i]
    <3>1. Len(b) + i \in 1..Len(b) + Len(piece) /\ ~(Len(b) + i <= Len(b))
          /\ (Len(b) + i) - Len(b) = i
      BY <1>1, <2>2
    <3> QED BY <2>1, <3>1
  <2>4. ASSUME NEW i \in 1..Len(b)
        PROVE  next[i] = b[i]
    <3>1. i <= Len(b) /\ i \in 1..Len(b) + Len(piece)
      BY <1>1, <2>2
    <3> QED BY <2>1, <3>1
  <2> QED BY <1>1, <2>1, <2>2, <2>3, <2>4
<1> HIDE DEF piece, next
<1>3. ASSUME NEW i \in 1..end
      PROVE  next[Len(next) - end + i] = text[i]
  <2>1. Len(next) - end + i = Len(b) - n + i
    BY <1>1, <1>2
  <2>2. CASE i <= n
    <3>1. Len(b) - n + i \in 1..Len(b)
      BY <1>1, <1>2, <2>2 DEF Suffix
    <3> QED BY <1>1, <1>2, <2>1, <2>2, <3>1 DEF Suffix
  <2>3. CASE i > n
    <3>1. i - n \in 1..end - n /\ Len(b) - n + i = Len(b) + (i - n) /\ n + (i - n) = i
      BY <1>1, <1>2, <2>3
    <3>2. next[Len(b) + (i - n)] = piece[i - n]
      BY <1>2, <3>1
    <3>3. piece[i - n] = text[n + (i - n)]
      BY <1>1, <3>1
    <3> QED BY <2>1, <3>1, <3>2, <3>3
  <2> QED BY <1>1, <2>2, <2>3
<1>4. Suffix(next, text, end)
  BY <1>1, <1>2, <1>3 DEF Suffix
<1>5. ASSUME NEW i \in 1..end - 1, Forbidden(text, i)
      PROVE  FALSE
  <2> DEFINE k == Len(next) - end + i
  <2>1. i \in 1..end /\ i + 1 \in 1..end /\ Len(next) - end + (i + 1) = k + 1
    BY <1>1, <1>2
  <2>2. next[k] = "ro" /\ next[k + 1] = "gue"
    BY <1>3, <1>5, <2>1 DEF Forbidden
  <2>3. k \in 1..Len(next) - 1
    BY <1>1, <1>2, <1>4 DEF Suffix
  <2>4. Rogue(next)
    BY <2>2, <2>3 DEF Rogue, Forbidden
  <2> QED BY <2>4 DEF next, piece
<1>6. Clean(text, end)
  BY <1>5 DEF Clean
<1> QED BY <1>4, <1>6 DEF next, piece

LEMMA WordStart == Init => WordInv
BY DEF Init, WordInv, Passed, Clean

LEMMA NextWord ==
  ASSUME TypeOK, TypeOK', HeaderInv, StageInv, WordInv, [Next]_vars, lesson = 12
  PROVE  WordInv'
<1>1. lesson' = lesson /\ Requests' = Requests
  BY LessonKept
<1>0. \A q \in Requests : pc[q] \notin {"idle", "done"} => header[q] \in Seq(Text)
  BY ProxiesAssumption DEF HeaderInv, Headers
<1>f. DOMAIN buffer = Requests /\ DOMAIN sent = Requests /\ DOMAIN header = Requests
      /\ DOMAIN pc = Requests
  BY DEF TypeOK, BufferType
\* Steps that change neither what was sent nor what is compared with it.
<1>2. ASSUME UNCHANGED <<header, sent, buffer>>,
             \A q \in Requests : \/ pc'[q] = pc[q]
                                 \/ /\ pc[q] \notin {"idle", "done", "end"}
                                    /\ Passed(q)' \/ pc'[q] = "end"
                                 \/ ~Passed(q) /\ pc[q] # "end"
                                    /\ ~Passed(q)' /\ pc'[q] # "end"
      PROVE  WordInv'
  <2> SUFFICES ASSUME NEW q \in Requests
               PROVE  /\ ~Passed(q)' /\ pc'[q] # "end" => sent[q] = 0 /\ buffer[q] = <<>>
                      /\ Passed(q)' => Suffix(buffer[q], header[q], sent[q]) /\ ~Rogue(buffer[q])
                      /\ Clean(header[q], sent[q])
    BY <1>1, <1>2 DEF WordInv
  <2>1. CASE pc'[q] = pc[q]
    BY <2>1 DEF WordInv, Passed
  <2>2. CASE ~Passed(q) /\ pc[q] # "end" /\ pc[q] \notin {"idle", "done"}
    <3>1. sent[q] = 0 /\ buffer[q] = <<>> /\ header[q] \in Seq(Text)
      BY <1>0, <2>2 DEF WordInv
    <3> QED BY <3>1 DEF Suffix, Rogue, Clean
  <2>3. CASE Passed(q) /\ (Passed(q)' \/ pc'[q] = "end")
    BY <2>3 DEF WordInv, Passed
  <2>4. CASE ~Passed(q) /\ pc[q] # "end" /\ ~Passed(q)' /\ pc'[q] # "end"
    BY <2>4 DEF WordInv
  <2> QED BY <1>2, <2>1, <2>2, <2>3, <2>4
<1>3. CASE UNCHANGED proxyVars \/ NextWindow
  BY <1>2, <1>3 DEF proxyVars, NextWindow, ctx
<1>4. ASSUME NEW r \in Requests, NEW c \in Clients \cup {None}, NEW h \in Headers,
             Arrive(r, c, h)
      PROVE  WordInv'
  <2>1. /\ pc[r] = "idle" /\ pc' = [pc EXCEPT ![r] = "filter"]
        /\ header' = [header EXCEPT ![r] = h] /\ UNCHANGED <<sent, buffer>>
    BY <1>4 DEF Arrive, ctx
  <2>2. sent[r] = 0 /\ buffer[r] = <<>>
    BY <2>1 DEF WordInv, Passed
  <2>3. \A q \in Requests \ {r} : pc'[q] = pc[q] /\ header'[q] = header[q]
    BY <2>1 DEF TypeOK
  <2>4. pc'[r] = "filter" /\ header'[r] = h
    BY <2>1 DEF TypeOK
  <2> QED BY <1>1, <2>1, <2>2, <2>3, <2>4 DEF WordInv, Passed, Clean
<1>5. ASSUME NEW r \in Requests,
             \/ Filter(r) \/ BodyEnds(r) \/ RespondError(r) \/ Respond(r)
             \/ Choice(r) \/ Failure(r) \/ \E reused \in BOOLEAN : Connect(r, reused)
      PROVE  WordInv'
  <2>1. UNCHANGED <<header, sent, buffer>> /\ pc[r] \notin {"idle", "done", "end"}
        /\ \E x \in {"refuse", "peer", "connect", "body", "respond", "end"} :
             /\ pc' = [pc EXCEPT ![r] = x]
             /\ x = "refuse" => pc[r] = "filter"
    BY <1>5, ChoiceShape, FailureShape DEF Filter, Decide, BodyEnds, RespondError, Respond,
       Connect, ctx
  <2> QED BY <1>2, <2>1 DEF Passed, TypeOK
<1>6. ASSUME NEW r \in Requests,
             \/ RateLimit(r) \/ SlidingRate(r) \/ Observe(r) \/ InflightLimit(r)
             \/ \E n \in 1..MaxBodySize : BodyPiece(r, n)
      PROVE  WordInv'
  BY <1>6 DEF RateLimit, Observe, InflightLimit, BodyPiece, SlidingRate, StageInv
<1>7. ASSUME NEW r \in Requests, Retry(r)
      PROVE  WordInv'
  <2>1. /\ pc[r] \in {"body", "respond"} /\ pc' = [pc EXCEPT ![r] = "peer"]
        /\ sent' = [sent EXCEPT ![r] = 0] /\ UNCHANGED <<header, buffer>>
    BY <1>7 DEF Retry, ctx
  <2>2. Suffix(buffer[r], header[r], 0) /\ ~Rogue(buffer[r]) /\ Clean(header[r], 0)
    BY <1>0, <2>1 DEF WordInv, Suffix, Clean, Passed, TypeOK
  <2>3. \A q \in Requests \ {r} : pc'[q] = pc[q] /\ sent'[q] = sent[q]
    BY <1>f, <2>1
  <2>4. pc'[r] = "peer" /\ sent'[r] = 0
    BY <1>f, <2>1
  <2> QED BY <1>1, <2>1, <2>2, <2>3, <2>4 DEF WordInv, Passed
<1>8. ASSUME NEW r \in Requests, InspectPiece(r)
      PROVE  WordInv'
  <2> DEFINE text == header[r]
  <2>1. PICK end \in sent[r] + 1..Len(text) :
          /\ buffer' = [buffer EXCEPT ![r] = @ \o SubSeq(text, sent[r] + 1, end)]
          /\ \/ /\ Rogue(buffer'[r]) /\ sent' = sent
                /\ pc' = [pc EXCEPT ![r] = "end"]
             \/ /\ ~Rogue(buffer'[r]) /\ sent' = [sent EXCEPT ![r] = end] /\ pc' = pc
    BY <1>8 DEF InspectPiece, FailToProxy
  <2>2. pc[r] = "body" /\ header' = header /\ text \in Seq(Text)
    BY <1>0, <1>8 DEF InspectPiece
  <2>3. /\ buffer[r] \in Seq(Text) /\ sent[r] \in Nat
        /\ buffer'[r] = buffer[r] \o SubSeq(text, sent[r] + 1, end)
    <3>1. buffer[r] \in Seq(Text) /\ sent[r] \in Nat
      BY DEF TypeOK, BufferType
    <3> QED BY <1>f, <2>1, <3>1
  <2>4. Suffix(buffer[r], text, sent[r]) /\ Clean(text, sent[r])
    BY <2>2 DEF WordInv, Passed
  <2>5. \A q \in Requests \ {r} :
          pc'[q] = pc[q] /\ sent'[q] = sent[q] /\ buffer'[q] = buffer[q]
    BY <1>f, <2>1
  <2>6. CASE Rogue(buffer'[r])
    <3>1. pc'[r] = "end" /\ sent'[r] = sent[r]
      BY <2>1, <2>6 DEF TypeOK
    <3> QED BY <1>1, <2>2, <2>4, <2>5, <3>1 DEF WordInv, Passed
  <2>7. CASE ~Rogue(buffer'[r])
    <3>1. pc'[r] = "body" /\ sent'[r] = end
      BY <2>1, <2>2, <2>7 DEF TypeOK
    <3>2. Suffix(buffer'[r], text, end) /\ Clean(text, end)
      BY <2>2, <2>3, <2>4, <2>7, PieceClean
    <3> QED BY <1>1, <2>2, <2>5, <2>7, <3>1, <3>2 DEF WordInv, Passed
  <2> QED BY <2>6, <2>7
<1>9. ASSUME NEW r \in Requests, Logging(r)
      PROVE  WordInv'
  <2>1. /\ pc' = [pc EXCEPT ![r] = "done"] /\ header' = [header EXCEPT ![r] = None]
        /\ sent' = [sent EXCEPT ![r] = 0] /\ buffer' = [buffer EXCEPT ![r] = <<>>]
    BY <1>9 DEF Logging
  <2>2. \A q \in Requests \ {r} : pc'[q] = pc[q] /\ header'[q] = header[q]
          /\ sent'[q] = sent[q] /\ buffer'[q] = buffer[q]
    BY <1>f, <2>1
  <2>3. pc'[r] = "done" /\ sent'[r] = 0 /\ buffer'[r] = <<>>
    BY <1>f, <2>1
  <2> QED BY <1>1, <2>2, <2>3 DEF WordInv, Passed, Clean
<1> QED BY <1>3, <1>4, <1>5, <1>6, <1>7, <1>8, <1>9, KindsOfStep DEF vars

LEMMA LimitsKept == Spec => [](LimitInv /\ WordInv)
<1>1. TypeOK /\ TypeOK' /\ LimitInv /\ [Next]_vars => LimitInv'
  BY NextLimit
<1>2. TypeOK /\ TypeOK' /\ HeaderInv /\ LimitInv /\ WordInv /\ [Next]_vars => WordInv'
  BY NextWord, LessonKept DEF WordInv, LimitInv
<1> QED BY LimitStart, WordStart, TypesAndHeaders, <1>1, <1>2, PTL DEF Spec

\* In lesson 36 no client gets more than the limit through in a window, and in
\* lesson 37 none in the window after one in which it made more, however the
\* requests interleave with each other and with the end of a window.
THEOREM RateAlwaysHolds == Spec => []RateHolds
<1>1. TypeOK /\ LimitInv => RateHolds
  BY DEF TypeOK, LimitInv, RateInv, RateHolds
<1> QED BY LimitsKept, TypeCorrect, <1>1, PTL

\* No more requests than the limit are past the filter of lesson 38 at a time.
THEOREM InflightAlwaysHolds == Spec => []InflightHolds
<1>1. LimitInv => InflightHolds
  BY DEF LimitInv, GuardInv, InflightHolds, Inside
<1> QED BY LimitsKept, <1>1, PTL

\* No attempt sends a body of the limit (40) or the forbidden word (12), however
\* the body is cut into pieces and whatever was counted or kept before it.
THEOREM BodiesAlwaysHold == Spec => []BodiesHold
<1>1. LimitInv /\ WordInv => BodiesHold
  BY DEF LimitInv, SizeInv, WordInv, Clean, BodiesHold
<1> QED BY LimitsKept, <1>1, PTL

\* Where a request of lesson 38 is between its incr and the end of its answer.
Holding == {"refuse", "peer", "connect", "body", "respond"}

\* The counter of lesson 38 is neither short of a request nor does it keep one
\* that is gone: all requests between their incr and their answer are counted,
\* the refused ones and those that start over too, and a request that failed,
\* was refused or was served holds no slot once its context is dropped.
SlotsAccounted ==
  \A r \in Requests : /\ r \in guards => pc[r] \in Holding \cup {"end"}
                      /\ lesson = 38 /\ pc[r] \in Holding => r \in guards

LEMMA NextSlots ==
  ASSUME TypeOK, LimitInv, SlotsAccounted, [Next]_vars
  PROVE  SlotsAccounted'
<1> USE DEF Holding
<1>1. lesson' = lesson /\ Requests' = Requests
  BY LessonKept
<1>2. DOMAIN pc = Requests /\ guards \subseteq Requests
  BY DEF TypeOK
\* A step of one request r to place x that leaves the guards alone.
<1>3. ASSUME NEW r \in Requests, NEW x, pc' = [pc EXCEPT ![r] = x], guards' = guards,
             pc[r] \in Holding => x \in Holding \cup {"end"},
             lesson = 38 /\ x \in Holding => pc[r] \in Holding,
             pc[r] # "end"
      PROVE  SlotsAccounted'
  <2>1. pc'[r] = x /\ \A q \in Requests \ {r} : pc'[q] = pc[q]
    BY <1>2, <1>3
  <2> QED BY <1>1, <1>3, <2>1 DEF SlotsAccounted
<1>4. ASSUME UNCHANGED <<pc, guards>> PROVE SlotsAccounted'
  BY <1>1, <1>4 DEF SlotsAccounted
<1>5. CASE UNCHANGED proxyVars \/ NextWindow
  BY <1>4, <1>5 DEF proxyVars, NextWindow, limiter
<1>6. ASSUME NEW r \in Requests, NEW c \in Clients \cup {None}, NEW h \in Headers,
             Arrive(r, c, h)
      PROVE  SlotsAccounted'
  BY <1>3, <1>6 DEF Arrive, limiter
<1>7. ASSUME NEW r \in Requests, Filter(r) \/ RateLimit(r) \/ SlidingRate(r)
      PROVE  SlotsAccounted'
  <2>1. /\ lesson # 38 /\ pc[r] \in {"filter", "rate"} /\ guards' = guards
        /\ \E x : pc' = [pc EXCEPT ![r] = x]
    BY <1>7 DEF Filter, RateLimit, SlidingRate, Counted, Decide, LimitInv, StageInv, limiter
  <2> QED BY <1>3, <2>1
<1>8. ASSUME NEW r \in Requests, Observe(r) PROVE SlotsAccounted'
  BY <1>3, <1>8 DEF Observe
<1>9. ASSUME NEW r \in Requests, InflightLimit(r) PROVE SlotsAccounted'
  <2>1. /\ guards' = guards \cup {r}
        /\ \E x \in {"peer", "refuse"} : pc' = [pc EXCEPT ![r] = x]
    BY <1>9 DEF InflightLimit, Decide
  <2>2. pc'[r] \in {"peer", "refuse"} /\ \A q \in Requests \ {r} : pc'[q] = pc[q]
    BY <1>2, <2>1
  <2> QED BY <1>1, <2>1, <2>2 DEF SlotsAccounted
<1>10. ASSUME NEW r \in Requests, RespondError(r) \/ Logging(r) PROVE SlotsAccounted'
  <2>1. /\ guards' = guards \ {r}
        /\ \E x \in {"end", "done"} : pc' = [pc EXCEPT ![r] = x]
    BY <1>10 DEF RespondError, Logging
  <2>2. pc'[r] \in {"end", "done"} /\ \A q \in Requests \ {r} : pc'[q] = pc[q]
    BY <1>2, <2>1
  <2> QED BY <1>1, <2>1, <2>2 DEF SlotsAccounted
<1>11. ASSUME NEW r \in Requests, Choice(r) PROVE SlotsAccounted'
  BY <1>3, <1>11, ChoiceShape DEF limiter
<1>12. ASSUME NEW r \in Requests, Failure(r) PROVE SlotsAccounted'
  BY <1>3, <1>12, FailureShape DEF limiter
<1>13. ASSUME NEW r \in Requests, NEW reused \in BOOLEAN, Connect(r, reused)
       PROVE  SlotsAccounted'
  <2>1. /\ pc[r] = "connect" /\ guards' = guards
        /\ \E x \in {"body", "respond"} : pc' = [pc EXCEPT ![r] = x]
    BY <1>13 DEF Connect, limiter
  <2> QED BY <1>3, <2>1
<1>14. ASSUME NEW r \in Requests, Retry(r) \/ BodyEnds(r) \/ Respond(r)
       PROVE  SlotsAccounted'
  <2>1. /\ pc[r] \in {"body", "respond"} /\ guards' = guards
        /\ \E x \in {"peer", "respond", "end"} : pc' = [pc EXCEPT ![r] = x]
    BY <1>14 DEF Retry, BodyEnds, Respond, limiter
  <2> QED BY <1>3, <2>1
<1>15. ASSUME NEW r \in Requests,
              InspectPiece(r) \/ \E n \in 1..MaxBodySize : BodyPiece(r, n)
       PROVE  SlotsAccounted'
  <2>1. /\ pc[r] = "body" /\ guards' = guards
        /\ pc' = pc \/ pc' = [pc EXCEPT ![r] = "end"]
    BY <1>15 DEF InspectPiece, BodyPiece, FailToProxy, limiter
  <2> QED BY <1>3, <1>4, <2>1
<1> QED BY <1>4, <1>5, <1>6, <1>7, <1>8, <1>9, <1>10, <1>11, <1>12, <1>13, <1>14, <1>15,
           KindsOfStep DEF vars, proxyVars, limiter

\* No request leaks its slot or goes uncounted, on any of the ways a request can
\* end, start over or be refused.
THEOREM SlotsAlwaysAccounted == Spec => []SlotsAccounted
<1>1. Init => SlotsAccounted
  BY DEF Init, SlotsAccounted, Holding
<1>2. TypeOK /\ TypeOK' /\ LimitInv /\ [Next]_vars => LimitInv'
  BY NextLimit
<1>3. TypeOK /\ LimitInv /\ SlotsAccounted /\ [Next]_vars => SlotsAccounted'
  BY NextSlots
<1> QED BY LimitStart, TypesAndHeaders, <1>1, <1>2, <1>3, PTL DEF Spec
----------------------------------------------------------------------------
(***************************************************************************)
(* Why a request hands out what is about its last attempt: upstream_peer   *)
(* sets the id and the server together, whenever it is called, and ids     *)
(* come from a counter that has passed all the ids in use.                 *)
(***************************************************************************)
\* The request has been given an id by this attempt or an earlier one.
Active == {"peer", "connect", "body", "respond", "end"}

IdInv == \A r \in Requests :
  /\ newId[r] # None =>
       /\ lesson = 29 /\ pc[r] \in Active /\ header[r] = None
       /\ newId[r] < counter /\ peer[r] = Owner(newId[r])
  /\ cookie[r] # None =>
       /\ cookie[r] < counter
       /\ pc[r] = "done" \/ (pc[r] = "end" /\ cookie[r] = newId[r])

Distinct == \A r \in Requests : \A q \in Requests \ {r} :
  /\ newId[r] # None => newId[r] # newId[q] /\ newId[r] # cookie[q]
  /\ cookie[r] # None => cookie[r] # cookie[q]

ReuseInv == lesson = 25 => isReused = conn
Logged   == {r \in Requests : pc[r] = "done"}
LogInv   == lesson = 48 => logged = Cardinality(Logged)

\* peer is a function on the requests, whatever Owner yields.
PeerInv == peer = [r \in Requests |-> peer[r]]

AttemptInv == IdInv /\ Distinct /\ ReuseInv /\ LogInv /\ PeerInv

LEMMA AttemptStart == Init => AttemptInv
<1> SUFFICES ASSUME Init
             PROVE  AttemptInv
  OBVIOUS
<1>1. Logged = {} /\ Cardinality(Logged) = 0
  <2>1. Logged = {}
    BY DEF Init, Logged
  <2> QED BY <2>1, FS_EmptySet
<1> QED BY <1>1 DEF Init, AttemptInv, IdInv, Distinct, ReuseInv, LogInv, PeerInv

LEMMA NextAttempt ==
  ASSUME TypeOK, TypeOK', AttemptInv, [Next]_vars
  PROVE  AttemptInv'
<1> USE DEF AttemptInv
<1>0. lesson' = lesson /\ Requests' = Requests
  BY LessonKept
<1>1. \A r \in Requests : newId[r] \in Nat \cup {None} /\ cookie[r] \in Nat \cup {None}
  BY DEF TypeOK
\* A step of r between its first callback and its last that hands out nothing.
<1>2. ASSUME NEW r \in Requests, NEW x \in Active \cup {"filter", "rate", "refuse"},
             pc' \in {pc, [pc EXCEPT ![r] = x]}, pc[r] \notin {"end", "done"},
             pc[r] \in Active => x \in Active,
             UNCHANGED <<newId, cookie, counter, peer>>,
             \A q \in Requests : newId[q] # None => header'[q] = header[q]
      PROVE  IdInv' /\ Distinct' /\ PeerInv' /\ Logged' = Logged
  <2>1. \A q \in Requests : pc'[q] = pc[q] \/ (q = r /\ pc'[q] = x)
    BY <1>2 DEF TypeOK
  <2>2. IdInv'
    BY <1>0, <1>2, <2>1 DEF IdInv, Active
  <2>3. Distinct' /\ PeerInv'
    BY <1>0, <1>2 DEF Distinct, PeerInv
  <2>4. Logged' = Logged
    BY <1>0, <1>2, <2>1 DEF Logged, Active
  <2> QED BY <2>2, <2>3, <2>4
<1>3. CASE UNCHANGED proxyVars
  BY <1>0, <1>3 DEF proxyVars, ctx, route, answer, IdInv, Distinct, ReuseInv, LogInv, Logged,
     PeerInv
<1>4. ASSUME NEW r \in Requests, NEW c \in Clients \cup {None}, NEW h \in Headers,
             Arrive(r, c, h)
      PROVE  AttemptInv'
  <2>1. pc[r] = "idle" /\ pc' = [pc EXCEPT ![r] = "filter"] /\ newId[r] = None
    BY <1>4 DEF Arrive, IdInv, Active
  <2>2. \A q \in Requests : newId[q] # None => header'[q] = header[q]
    BY <1>4, <2>1 DEF Arrive, TypeOK
  <2>3. UNCHANGED <<newId, cookie, counter, peer, isReused, conn, logged>>
    BY <1>4 DEF Arrive, ctx, route, answer
  <2>4. IdInv' /\ Distinct' /\ PeerInv' /\ Logged' = Logged
    BY <1>2, <2>1, <2>2, <2>3 DEF Active
  <2> QED BY <1>0, <2>3, <2>4 DEF ReuseInv, LogInv
<1>5. ASSUME NEW r \in Requests,
             \/ Filter(r) \/ RateLimit(r) \/ SlidingRate(r) \/ Observe(r) \/ InflightLimit(r)
             \/ RespondError(r) \/ Failure(r) \/ BodyEnds(r) \/ Retry(r)
      PROVE  AttemptInv'
  <2>1. /\ UNCHANGED <<newId, cookie, counter, peer, header, isReused, conn, logged>>
        /\ pc[r] \notin {"end", "done"}
        /\ \E x \in Active \cup {"filter", "rate", "refuse"} :
             pc' = [pc EXCEPT ![r] = x] /\ (pc[r] \in Active => x \in Active)
    BY <1>5, FailureShape DEF Filter, RateLimit, SlidingRate, Observe, InflightLimit,
       RespondError, BodyEnds, Retry, Decide, ctx, route, answer, Active
  <2>2. IdInv' /\ Distinct' /\ PeerInv' /\ Logged' = Logged
    BY <1>2, <2>1
  <2> QED BY <1>0, <2>1, <2>2 DEF ReuseInv, LogInv
<1>6. ASSUME NEW r \in Requests,
             InspectPiece(r) \/ \E n \in 1..MaxBodySize : BodyPiece(r, n)
      PROVE  AttemptInv'
  <2>1. /\ UNCHANGED <<newId, cookie, counter, peer, header, isReused, conn, logged>>
        /\ pc[r] = "body" /\ pc' \in {pc, [pc EXCEPT ![r] = "end"]}
    BY <1>6 DEF InspectPiece, BodyPiece, FailToProxy, route
  <2>2. IdInv' /\ Distinct' /\ PeerInv' /\ Logged' = Logged
    BY <1>2, <2>1 DEF Active
  <2> QED BY <1>0, <2>1, <2>2 DEF ReuseInv, LogInv
<1>7. ASSUME NEW r \in Requests, NEW reused \in BOOLEAN, Connect(r, reused)
      PROVE  AttemptInv'
  <2>1. /\ UNCHANGED <<newId, cookie, counter, peer, header, logged>>
        /\ pc[r] = "connect"
        /\ \E x \in {"body", "respond"} : pc' = [pc EXCEPT ![r] = x]
    BY <1>7 DEF Connect, answer
  <2>2. IdInv' /\ Distinct' /\ PeerInv' /\ Logged' = Logged
    BY <1>2, <2>1 DEF Active
  <2>3. ReuseInv'
    <3>1. lesson = 25 => /\ isReused' = [isReused EXCEPT ![r] = reused]
                         /\ conn' = [conn EXCEPT ![r] = reused]
      BY <1>7 DEF Connect
    <3> QED BY <1>0, <3>1 DEF ReuseInv
  <2> QED BY <1>0, <2>1, <2>2, <2>3 DEF LogInv
<1>8. ASSUME NEW r \in Requests, Choice(r), ~SessionPeer(r)
      PROVE  AttemptInv'
  <2>1. /\ pc[r] = "peer" /\ pc' = [pc EXCEPT ![r] = "connect"]
        /\ UNCHANGED <<cookie, header, isReused, conn, logged>>
    BY <1>8, ChoiceShape
  <2>2. newId' = newId /\ counter' >= counter /\ PeerInv'
        /\ \A q \in Requests \ {r} : peer'[q] = peer[q]
    <3>1. CASE \/ SinglePeer(r) \/ PathPeer(r) \/ BackupPeer(r) \/ HashPeer(r)
               \/ AlternatePeer(r)
      BY <1>0, <3>1 DEF SinglePeer, PathPeer, BackupPeer, HashPeer, AlternatePeer, Select, ctx, PeerInv,
         TypeOK
    <3>2. ASSUME NEW s \in Servers, RoundRobinPeer(r, s)
          PROVE  /\ UNCHANGED <<newId, counter>> /\ PeerInv'
                 /\ \A q \in Requests \ {r} : peer'[q] = peer[q]
      BY <1>0, <3>2 DEF RoundRobinPeer, Select, ctx, PeerInv
    <3> QED BY <1>8, <3>1, <3>2 DEF Choice, TypeOK
  <2>3. newId[r] = None
    BY <1>8, <2>1 DEF Choice, SinglePeer, PathPeer, BackupPeer, HashPeer, AlternatePeer,
       RoundRobinPeer, Unbalanced, IdInv
  <2>4. \A q \in Requests : pc'[q] = pc[q] \/ (q = r /\ pc'[q] = "connect")
    BY <2>1 DEF TypeOK
  <2>5. IdInv'
    BY <1>0, <1>1, <2>1, <2>2, <2>3, <2>4 DEF IdInv, Active, TypeOK
  <2>6. Distinct' /\ ReuseInv'
    BY <1>0, <2>1, <2>2 DEF Distinct, ReuseInv
  <2>7. LogInv'
    BY <1>0, <2>1, <2>4 DEF LogInv, Logged
  <2> QED BY <2>2, <2>5, <2>6, <2>7
<1>9. ASSUME NEW r \in Requests, SessionPeer(r)
      PROVE  AttemptInv'
  <2>1. /\ pc[r] = "peer" /\ pc' = [pc EXCEPT ![r] = "connect"] /\ lesson = 29
        /\ UNCHANGED <<cookie, header, isReused, conn, logged>>
        /\ \E s : peer' = [peer EXCEPT ![r] = s]
    BY <1>9 DEF SessionPeer, Select, answer
  <2>2. \/ /\ header[r] # None /\ newId' = newId /\ counter' = counter
        \/ /\ header[r] = None /\ newId' = [newId EXCEPT ![r] = counter]
           /\ peer' = [peer EXCEPT ![r] = Owner(counter)]
           /\ counter' = counter + 1
    <3>1. newId' = [newId EXCEPT ![r] = IF header[r] # None THEN @ ELSE counter]
      BY <1>9 DEF SessionPeer
    <3>2. CASE header[r] # None
      <4>1. newId' = newId
        BY <3>1, <3>2 DEF TypeOK
      <4> QED BY <1>9, <3>2, <4>1 DEF SessionPeer
    <3>3. CASE header[r] = None
      <4>1. newId' = [newId EXCEPT ![r] = counter]
        BY <3>1, <3>3
      <4> QED BY <1>9, <3>3, <4>1 DEF SessionPeer, Select
    <3> QED BY <3>2, <3>3
  <2>3. cookie[r] = None /\ counter \in Nat /\ counter # None
    <3>1. counter \in Nat /\ counter # None
      BY ProxiesAssumption DEF TypeOK
    <3>2. cookie[r] = None
      BY <2>1 DEF IdInv
    <3> QED BY <3>1, <3>2
  <2>4. PeerInv' /\ \A q \in Requests \ {r} : peer'[q] = peer[q]
    BY <1>0, <2>1 DEF PeerInv
  <2>5. \A q \in Requests : pc'[q] = pc[q] \/ (q = r /\ pc'[q] = "connect")
    BY <2>1 DEF TypeOK
  <2>6. CASE newId' = newId /\ counter' = counter /\ header[r] # None
    <3>1. IdInv'
      BY <1>0, <2>1, <2>4, <2>5, <2>6 DEF IdInv, Active
    <3>2. Distinct'
      BY <1>0, <2>1, <2>6 DEF Distinct
    <3> QED BY <1>0, <2>1, <2>4, <2>5, <3>1, <3>2 DEF ReuseInv, LogInv, Logged
  <2>7. CASE /\ header[r] = None /\ newId' = [newId EXCEPT ![r] = counter]
             /\ peer' = [peer EXCEPT ![r] = Owner(counter)]
             /\ counter' = counter + 1
    <3>1. \A q \in Requests \ {r} : newId'[q] = newId[q]
      BY <2>7 DEF TypeOK
    <3>2. newId'[r] = counter /\ peer'[r] = Owner(counter)
      BY <2>7 DEF TypeOK, PeerInv
    <3>3. IdInv'
      BY <1>0, <1>1, <2>1, <2>3, <2>4, <2>5, <2>7, <3>1, <3>2 DEF IdInv, Active
    <3>4. \A q \in Requests : newId[q] # counter /\ cookie[q] # counter
      BY <1>1, <2>3 DEF IdInv
    <3>5. Distinct'
      BY <1>0, <2>1, <2>3, <3>1, <3>2, <3>4 DEF Distinct
    <3> QED BY <1>0, <2>1, <2>4, <2>5, <3>3, <3>5 DEF ReuseInv, LogInv, Logged
  <2> QED BY <2>2, <2>6, <2>7
<1>10. ASSUME NEW r \in Requests, Respond(r)
      PROVE  AttemptInv'
  <2>1. /\ pc[r] = "respond" /\ pc' = [pc EXCEPT ![r] = "end"]
        /\ cookie' = [cookie EXCEPT ![r] = newId[r]]
        /\ UNCHANGED <<newId, counter, peer, header, isReused, conn, logged>>
    BY <1>10 DEF Respond, ctx, route
  <2>2. \A q \in Requests \ {r} : pc'[q] = pc[q] /\ cookie'[q] = cookie[q]
    BY <2>1 DEF TypeOK
  <2>3. pc'[r] = "end" /\ cookie'[r] = newId[r]
    BY <2>1 DEF TypeOK
  <2>4. IdInv'
    BY <1>0, <2>1, <2>2, <2>3 DEF IdInv, Active
  <2>5. Distinct'
    BY <1>0, <2>1, <2>2, <2>3 DEF Distinct
  <2>6. PeerInv' /\ ReuseInv' /\ LogInv'
    BY <1>0, <2>1, <2>2, <2>3 DEF PeerInv, ReuseInv, LogInv, Logged
  <2> QED BY <2>4, <2>5, <2>6
<1>11. ASSUME NEW r \in Requests, Logging(r)
      PROVE  AttemptInv'
  <2>1. /\ pc[r] = "end" /\ pc' = [pc EXCEPT ![r] = "done"]
        /\ newId' = [newId EXCEPT ![r] = None] /\ header' = [header EXCEPT ![r] = None]
        /\ isReused' = [isReused EXCEPT ![r] = FALSE] /\ conn' = [conn EXCEPT ![r] = FALSE]
        /\ peer' = [peer EXCEPT ![r] = None]
        /\ UNCHANGED <<cookie, counter>>
    BY <1>11 DEF Logging
  <2>2. \A q \in Requests \ {r} :
          pc'[q] = pc[q] /\ newId'[q] = newId[q] /\ header'[q] = header[q] /\ peer'[q] = peer[q]
    BY <2>1 DEF TypeOK, PeerInv
  <2>3. pc'[r] = "done" /\ newId'[r] = None
    BY <2>1 DEF TypeOK
  <2>4. IdInv'
    BY <1>0, <2>1, <2>2, <2>3 DEF IdInv
  <2>5. Distinct'
    BY <1>0, <2>1, <2>2, <2>3 DEF Distinct
  <2>6. PeerInv' /\ ReuseInv'
    BY <1>0, <2>1 DEF PeerInv, ReuseInv
  <2>7. LogInv'
    <3>1. Logged' = Logged \cup {r} /\ r \notin Logged
      BY <1>0, <2>1, <2>2, <2>3 DEF Logged
    <3>2. IsFiniteSet(Logged)
      <4>1. Load(lesson) \in Nat
        BY ProxiesAssumption DEF TypeOK, ClusterTypeOK
      <4>2. IsFiniteSet(Requests)
        BY <4>1, FS_Interval DEF Requests
      <4> QED BY <4>2, FS_Subset DEF Logged
    <3>3. Cardinality(Logged') = Cardinality(Logged) + 1
      BY <3>1, <3>2, FS_AddElement
    <3>4. lesson = 48 => logged' = logged + 1
      BY <1>11 DEF Logging
    <3> QED BY <1>0, <3>3, <3>4 DEF LogInv
  <2> QED BY <2>4, <2>5, <2>6, <2>7
<1>12. CASE NextWindow
  BY <1>0, <1>12 DEF NextWindow, ctx, route, answer, IdInv, Distinct, ReuseInv, LogInv,
     Logged, PeerInv
<1> HIDE DEF AttemptInv
<1> QED BY <1>3, <1>4, <1>5, <1>6, <1>7, <1>8, <1>9, <1>10, <1>11, <1>12, KindsOfStep
        DEF vars, Choice

\* What a request hands out is about the attempt that served it, no session id
\* is given out twice, and every request that ended is counted once.
THEOREM AlwaysLastAttempt == Spec => []LastAttempt
<1>1. AttemptInv => LastAttempt
  <2>1. ASSUME AttemptInv, NEW r \in Requests, cookie[r] # None
        PROVE  /\ pc[r] = "end" => peer[r] = Owner(cookie[r]) /\ header[r] = None
               /\ \A q \in Requests \ {r} : cookie[q] # cookie[r]
    BY <2>1 DEF AttemptInv, IdInv, Distinct
  <2> QED BY <2>1 DEF AttemptInv, ReuseInv, LogInv, Logged, LastAttempt
<1>2. TypeOK /\ TypeOK' /\ AttemptInv /\ [Next]_vars => AttemptInv'
  BY NextAttempt
<1> QED BY AttemptStart, TypeCorrect, <1>1, <1>2, PTL DEF Spec
=============================================================================
