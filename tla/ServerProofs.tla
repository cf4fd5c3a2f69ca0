----------------------------- MODULE ServerProofs -----------------------------
(***************************************************************************)
(* Proofs about module Server: what main has built when its services run,  *)
(* for every configuration, that a grace period is enough for them, and    *)
(* that nothing they or their clients do can draw a shutdown out.          *)
(***************************************************************************)
EXTENDS Server, FiniteSetTheorems, TLAPS

LEMMA KindsOfStep ==
  ASSUME Next
  PROVE  \/ \E s \in {"load", "upstreams", "listeners"} : Fails(s)
         \/ LoadConf \/ Tune \/ MakeUpstream \/ BuildRouter \/ AddListener
         \/ RunForever \/ LessonMain
         \/ \E s \in services : NoticeShutdown(s)
         \/ BatchCheck \/ BatchJob \/ BatchFinish \/ BatchPause
         \/ \E c \in Conns : EchoCheck(c) \/ Accept(c) \/ EchoRead(c)
         \/ Sigterm \/ Sigint \/ GraceOver \/ Tick
<1>1. CASE Boot
  BY <1>1 DEF Boot, UpstreamFails, RouterFails, ListenerFails
<1>2. CASE ServiceStep
  BY <1>2 DEF ServiceStep
<1> QED BY <1>1, <1>2 DEF Next

LEMMA ConfType ==
  ASSUME conf \in Confs
  PROVE  /\ Len(Up) \in Nat
         /\ \A k \in 1..Len(Up) : Up[k].id \in Ids /\ Up[k].source \in Sources
         /\ conf.grace \in Nat \cup {None}
<1>1. conf.upstreams \in Seq([id : Ids, source : Sources]) /\ conf.grace \in Nat \cup {None}
  BY ConfsAssumption
<1>2. ASSUME NEW S, NEW s \in Seq(S)
      PROVE  Len(s) \in Nat /\ \A k \in 1..Len(s) : s[k] \in S
  OBVIOUS
<1> DEFINE S == [id : Ids, source : Sources]
<1>3. Len(Up) \in Nat /\ \A k \in 1..Len(Up) : Up[k] \in S
  <2> HIDE DEF S
  <2>1. conf.upstreams \in Seq(S)
    BY <1>1 DEF S
  <2> QED BY <1>2, <2>1 DEF Up
<1> QED BY <1>1, <1>3

LEMMA BeginType ==
  ASSUME NEW S, Begin(S)
  PROVE  svc' \in [services' -> {"run", "check", "job", "pause", "finish", "stopped"}]
BY DEF Begin

LEMMA Start == Init => TypeOK
BY GraceAssumption DEF Init, TypeOK, Stages

LEMMA NextType ==
  ASSUME TypeOK, [Next]_vars
  PROVE  TypeOK'
<1> USE DEF TypeOK, Stages
<1>1. ASSUME NEW s \in {"load", "upstreams", "listeners"}, Fails(s)
      PROVE  TypeOK'
  BY <1>1 DEF Fails, Go, work
<1>2. CASE LoadConf \/ BuildRouter \/ AddListener
  <2>1. stage' \in Stages /\ next' \in Nat \ {0}
    BY <1>2 DEF LoadConf, BuildRouter, AddListener, Go
  <2> QED BY <1>2, <2>1 DEF LoadConf, BuildRouter, AddListener, work
<1>3. CASE Tune
  <2>1. grace' \in Nat
    BY <1>3, ConfType DEF Tune
  <2> QED BY <1>3, <2>1 DEF Tune, Go, work
<1>4. CASE MakeUpstream
  <2>1. next \in 1..Len(Up) /\ next' \in Nat \ {0}
    BY <1>4, ConfType DEF MakeUpstream
  <2>2. upstreamMap' \in [Ids -> Nat] /\ background' \in SUBSET Nat
    BY <1>4, <2>1 DEF MakeUpstream, MakeServices
  <2> QED BY <1>4, <2>1, <2>2 DEF MakeUpstream, work
<1>5. CASE RunForever
  BY <1>5, BeginType DEF RunForever, Go
<1>6. CASE LessonMain
  <2>1. grace' \in Nat
    BY <1>6, GraceAssumption DEF LessonMain, LessonGrace
  <2>2. svc' \in [services' -> {"run", "check", "job", "pause", "finish", "stopped"}]
    BY <1>6, BeginType DEF LessonMain
  <2>3. stage' \in Stages /\ next' = 1
    BY <1>6 DEF LessonMain, Go
  <2> QED BY <1>6, <2>1, <2>2, <2>3 DEF LessonMain
<1>7. ASSUME NEW s \in services, NoticeShutdown(s)
      PROVE  TypeOK'
  BY <1>7 DEF NoticeShutdown, Become, boot
<1>8. CASE BatchCheck \/ BatchJob \/ BatchFinish \/ BatchPause
  <2>1. \E x \in {"job", "check", "pause", "finish", "stopped"} :
          svc' = [svc EXCEPT ![Batch] = x]
    BY <1>8 DEF BatchCheck, BatchJob, BatchFinish, BatchPause, Become
  <2>2. timer' \in Nat
    BY <1>8 DEF BatchCheck, BatchJob, BatchFinish, BatchPause
  <2>3. UNCHANGED <<boot, services, conn, signal, elapsed>>
    BY <1>8 DEF BatchCheck, BatchJob, BatchFinish, BatchPause
  <2> QED BY <2>1, <2>2, <2>3 DEF boot
<1>9. ASSUME NEW c \in Conns, EchoCheck(c) \/ Accept(c) \/ EchoRead(c)
      PROVE  TypeOK'
  BY <1>9 DEF EchoCheck, Accept, EchoRead, boot
<1>10. CASE Sigterm \/ Sigint \/ GraceOver
  BY <1>10 DEF Sigterm, Sigint, GraceOver, work
<1>11. CASE Tick
  BY <1>11 DEF Tick, boot
<1>12. CASE UNCHANGED vars
  BY <1>12 DEF vars, boot, work
<1> QED BY <1>1, <1>2, <1>3, <1>4, <1>5, <1>6, <1>7, <1>8, <1>9, <1>10, <1>11, <1>12,
           KindsOfStep

\* The state of main, the services and the connections keeps its types.
THEOREM TypeCorrect == Spec => []TypeOK
<1>1. TypeOK /\ [Next]_vars => TypeOK'
  BY NextType
<1> QED BY Start, <1>1, PTL DEF Spec
----------------------------------------------------------------------------
(***************************************************************************)
(* Why the services that run are backed: main goes through the upstreams   *)
(* in order, and what holds of the first n of them is not undone by one    *)
(* that comes later with an id that was there before; the services are     *)
(* collected once all are built, and nothing is built after that.          *)
(***************************************************************************)
Built(n) == \A k \in 1..n :
  LET u == upstreamMap[Up[k].id] IN
  /\ u \in 1..n /\ Up[u].id = Up[k].id
  /\ Up[k].source # "uds" => k \in background

BootInv ==
  /\ stage \in {"load", "tune", "upstreams", "listeners", "failed"} => services = {}
  /\ stage \in {"tune", "upstreams", "listeners"} => Gateway
  /\ stage \in {"load", "tune"} => next = 1
  /\ stage = "upstreams" => next \in 1..(Len(Up) + 1) /\ Built(next - 1)
  /\ stage = "listeners" => Built(Len(Up))
  /\ Gateway /\ stage \in {"running", "grace"} =>
       Built(Len(Up)) /\ GatewayServices \subseteq services

LEMMA BootStart == Init => BootInv
BY DEF Init, BootInv, Gateway

\* Once services run, steps that leave main's state alone keep what it built.
LEMMA ServicesKeep ==
  ASSUME BootInv, UNCHANGED <<program, conf, next, upstreamMap, background, services>>,
         \/ stage' = stage
         \/ stage' = "failed" /\ services = {}
         \/ stage = "running" /\ stage' = "grace"
         \/ stage' = "exited"
  PROVE  BootInv'
<1>1. /\ Gateway' = Gateway /\ Up' = Up
      /\ \A n : Built(n)' = Built(n)
      /\ \A k : Updater(k)' = Updater(k)
      /\ GatewayServices' = GatewayServices
  BY DEF Gateway, Up, Built, GatewayServices, Updater
<1> QED BY <1>1 DEF BootInv

LEMMA NextBoot ==
  ASSUME TypeOK, BootInv, [Next]_vars
  PROVE  BootInv'
<1> USE DEF TypeOK
<1>1. ASSUME NEW s \in {"load", "upstreams", "listeners"}, Fails(s)
      PROVE  BootInv'
  BY <1>1 DEF Fails, Go, BootInv, work, Gateway
<1>2. CASE LoadConf
  BY <1>2 DEF LoadConf, Go, BootInv, Gateway, work
<1>3. CASE Tune
  <2>1. Len(Up)' \in Nat /\ Gateway' = Gateway /\ Built(0)'
    BY <1>3, ConfType DEF Tune, Up, Gateway, Built
  <2> QED BY <1>3, <2>1 DEF Tune, Go, BootInv, work
<1>4. CASE MakeUpstream
  <2>1. /\ next \in 1..Len(Up) /\ Len(Up) \in Nat /\ Built(next - 1)
        /\ \A k \in 1..Len(Up) : Up[k].id \in Ids
    BY <1>4, ConfType DEF MakeUpstream, BootInv
  <2>2. Up' = Up /\ Gateway' = Gateway
    BY <1>4 DEF MakeUpstream, Up, Gateway
  <2>3. ASSUME NEW k \in 1..next
        PROVE  /\ upstreamMap'[Up[k].id] \in 1..next
               /\ Up[upstreamMap'[Up[k].id]].id = Up[k].id
               /\ Up[k].source # "uds" => k \in background'
    <3>1. Up[k].id \in Ids /\ Up[next].id \in Ids
      BY <2>1
    <3>2. CASE Up[k].id = Up[next].id
      <4>1. upstreamMap'[Up[k].id] = next
        BY <1>4, <3>1, <3>2 DEF MakeUpstream
      <4> QED BY <1>4, <2>1, <3>2, <4>1 DEF MakeUpstream, MakeServices, Built
    <3>3. CASE Up[k].id # Up[next].id
      <4>1. upstreamMap'[Up[k].id] = upstreamMap[Up[k].id] /\ k \in 1..(next - 1)
        BY <1>4, <2>1, <3>1, <3>3 DEF MakeUpstream
      <4> QED BY <1>4, <2>1, <4>1 DEF MakeUpstream, Built
    <3> QED BY <3>2, <3>3
  <2>4. next' - 1 = next
    BY <1>4, <2>1 DEF MakeUpstream
  <2>5. Built(next - 1)'
    BY <2>2, <2>3, <2>4 DEF Built
  <2> QED BY <1>4, <2>1, <2>2, <2>5 DEF MakeUpstream, BootInv, work
<1>5. CASE BuildRouter
  <2>1. next - 1 = Len(Up) /\ Built(Len(Up))
    BY <1>5, ConfType DEF BuildRouter, BootInv
  <2>2. Up' = Up /\ Gateway' = Gateway /\ Built(Len(Up))'
    BY <1>5, <2>1 DEF BuildRouter, Up, Gateway, Built
  <2> QED BY <1>5, <2>2 DEF BuildRouter, Go, BootInv, work
<1>6. CASE AddListener
  <2>1. Up' = Up /\ Gateway' = Gateway /\ (Built(Len(Up)) => Built(Len(Up))')
    BY <1>6 DEF AddListener, Up, Gateway, Built
  <2> QED BY <1>6, <2>1 DEF AddListener, BootInv, work
<1>7. CASE RunForever
  <2>1. Up' = Up /\ Gateway' = Gateway /\ Built(Len(Up))'
    BY <1>7 DEF RunForever, BootInv, Up, Gateway, Built
  <2>2. GatewayServices' \subseteq services'
    BY <1>7 DEF RunForever, Begin, GatewayServices, Updater
  <2> QED BY <1>7, <2>1, <2>2 DEF RunForever, Go, BootInv
<1>8. CASE LessonMain
  BY <1>8 DEF LessonMain, Go, BootInv, Gateway
<1>9. ASSUME NEW s \in services, NoticeShutdown(s)
      PROVE  BootInv'
  BY <1>9, ServicesKeep DEF NoticeShutdown, boot
<1>10. CASE BatchCheck \/ BatchJob \/ BatchFinish \/ BatchPause
  BY <1>10, ServicesKeep DEF BatchCheck, BatchJob, BatchFinish, BatchPause, boot
<1>11. ASSUME NEW c \in Conns, EchoCheck(c) \/ Accept(c) \/ EchoRead(c)
      PROVE  BootInv'
  BY <1>11, ServicesKeep DEF EchoCheck, Accept, EchoRead, boot
<1>12. CASE Sigterm \/ Sigint \/ GraceOver
  BY <1>12, ServicesKeep DEF Sigterm, Sigint, GraceOver, work
<1>13. CASE Tick
  BY <1>13, ServicesKeep DEF Tick, boot
<1>14. CASE UNCHANGED vars
  BY <1>14, ServicesKeep DEF vars, boot, work
<1> QED BY <1>1, <1>2, <1>3, <1>4, <1>5, <1>6, <1>7, <1>8, <1>9, <1>10, <1>11, <1>12,
           <1>13, <1>14, KindsOfStep

LEMMA BackedByBoot ==
  ASSUME TypeOK, BootInv
  PROVE  UpstreamsBacked
<1>1. ASSUME Gateway, stage \in {"running", "grace"}, NEW k \in 1..Len(Up)
      PROVE  LET u == upstreamMap[Up[k].id] IN
             /\ u \in 1..Len(Up) /\ Up[u].id = Up[k].id
             /\ Up[u].source # "uds" => Updater(u) \in services
  <2> DEFINE u == upstreamMap[Up[k].id]
  <2>1. u \in 1..Len(Up) /\ Up[u].id = Up[k].id
    BY <1>1 DEF BootInv, Built
  <2>2. Up[u].source # "uds" => u \in background
    BY <1>1, <2>1 DEF BootInv, Built
  <2>3. u \in background => Updater(u) \in services
    BY <1>1 DEF BootInv, GatewayServices
  <2> QED BY <2>1, <2>2, <2>3
<1> QED BY <1>1 DEF UpstreamsBacked, BootInv

\* For every configuration, also with ids that come twice: every id answers with
\* an upstream of its own whose updater runs, and a main that failed has started
\* nothing.
THEOREM UpstreamsAlwaysBacked == Spec => []UpstreamsBacked
<1>1. TypeOK /\ BootInv /\ [Next]_vars => BootInv'
  BY NextBoot
<1>2. TypeOK /\ BootInv => UpstreamsBacked
  BY BackedByBoot
<1> QED BY BootStart, TypeCorrect, <1>1, <1>2, PTL DEF Spec
----------------------------------------------------------------------------
(***************************************************************************)
(* Why a grace period is enough: time does not pass while a service has    *)
(* something to do, so after the first tick of the shutdown all have       *)
(* stopped but updaters and a job that is being finished; that takes two   *)
(* ticks from SIGTERM at most, and the service with jobs is given two.     *)
(***************************************************************************)
Stopped(s) == svc[s] = "stopped" \/ IsUpdater(s) \/ (s = Batch /\ svc[s] = "finish")

GraceInv ==
  /\ stage \notin {"running", "grace", "exited"} => services = {}
  /\ stage = "exited" /\ signal = "TERM" => elapsed >= grace
  /\ stage \notin {"grace", "exited"} => elapsed = 0 /\ signal = None
  /\ \A s \in services : s[1] = "batch" => s = Batch
  /\ \A s \in services : s # Batch => svc[s] \in {"run", "stopped"}
  /\ Batch \in services => grace = 2
  /\ Batch \in services /\ svc[Batch] = "finish" =>
       /\ stage \in {"grace", "exited"}
       /\ timer = 0 \/ timer + elapsed <= 2
  /\ stage \in {"grace", "exited"} /\ elapsed > 0 => \A s \in services : Stopped(s)

LEMMA GraceStart == Init => GraceInv
BY DEF Init, GraceInv

\* The services a program starts: their names and first states.
LEMMA Beginning ==
  ASSUME NEW S, Begin(S), \A s \in S : s[1] = "batch" => s = Batch
  PROVE  /\ services' = S
         /\ \A s \in S : svc'[s] \in IF s = Batch THEN {"check"} ELSE {"run"}
BY DEF Begin, Batch

LEMMA NamesOfServices ==
  /\ \A s \in GatewayServices : s[1] # "batch"
  /\ program \in Lessons => \A s \in LessonServices :
       s[1] = "batch" => s = Batch /\ program = "graceful_shutdown"
<1>1. \A s \in GatewayServices : s[1] # "batch"
  BY DEF GatewayServices, Updater
<1>2. \A s \in BasicServer \cup Configuration \cup DaemonMode \cup ThreadingModel
               \cup BackgroundServices : s[1] # "batch"
  BY DEF BasicServer, Configuration, DaemonMode, ThreadingModel, BackgroundServices
<1>3. \A s \in GracefulShutdown : s = Batch
  BY DEF GracefulShutdown, Batch
<1>4. program \in Lessons =>
        \/ program = "graceful_shutdown" /\ LessonServices = GracefulShutdown
        \/ LessonServices \in {BasicServer, Configuration, DaemonMode, ThreadingModel,
                               BackgroundServices}
  BY DEF Lessons, LessonServices
<1> QED BY <1>1, <1>2, <1>3, <1>4

LEMMA NextGrace ==
  ASSUME TypeOK, GraceInv, [Next]_vars
  PROVE  GraceInv'
<1> USE DEF TypeOK
<1>1. ASSUME NEW s \in {"load", "upstreams", "listeners"}, Fails(s)
      PROVE  GraceInv'
  BY <1>1 DEF Fails, Go, work, GraceInv
<1>2. CASE LoadConf \/ Tune \/ MakeUpstream \/ BuildRouter \/ AddListener
  <2>1. services = {} /\ elapsed = 0 /\ signal = None
    BY <1>2 DEF LoadConf, Tune, MakeUpstream, BuildRouter, AddListener, GraceInv
  <2>2. /\ UNCHANGED <<services, elapsed, signal>>
        /\ stage' \in {"tune", "upstreams", "listeners"}
    BY <1>2 DEF LoadConf, Tune, MakeUpstream, BuildRouter, AddListener, Go, work
  <2> QED BY <2>1, <2>2 DEF GraceInv
<1>3. CASE RunForever
  <2>1. services' = GatewayServices /\ \A s \in services' : s[1] # "batch" /\ svc'[s] = "run"
    <3>1. \A s \in GatewayServices : s[1] # "batch"
      BY NamesOfServices
    <3> QED BY <1>3, <3>1 DEF RunForever, Begin
  <2>2. Batch \notin services'
    BY <2>1 DEF Batch
  <2> QED BY <1>3, <2>1, <2>2 DEF RunForever, Go, GraceInv
<1>4. CASE LessonMain
  <2>1. CASE Begin(LessonServices) /\ stage' = "running" /\ grace' = LessonGrace
    <3>1. program \in Lessons
      BY <1>4 DEF LessonMain, Gateway
    <3>2. \A s \in LessonServices :
            s[1] = "batch" => s = Batch /\ program = "graceful_shutdown"
      BY <3>1, NamesOfServices
    <3>3. services' = LessonServices
          /\ \A s \in services' : svc'[s] \in IF s = Batch THEN {"check"} ELSE {"run"}
      BY <2>1, <3>2, Beginning
    <3>4. Batch \in services' => grace' = 2
      BY <2>1, <3>2, <3>3 DEF LessonGrace, Batch
    <3> QED BY <1>4, <2>1, <3>2, <3>3, <3>4 DEF LessonMain, GraceInv
  <2>2. CASE stage' = "failed" /\ UNCHANGED <<grace, services, svc>>
    BY <1>4, <2>2 DEF LessonMain, GraceInv
  <2> QED BY <1>4, <2>1, <2>2 DEF LessonMain, Go
<1>5. ASSUME NEW s \in services, NoticeShutdown(s)
      PROVE  GraceInv'
  <2>1. /\ UNCHANGED <<stage, grace, services, timer, signal, elapsed>>
        /\ svc' = [svc EXCEPT ![s] = "stopped"] /\ s # Batch
    BY <1>5 DEF NoticeShutdown, Become, boot, Batch
  <2> QED BY <2>1 DEF GraceInv, Stopped
<1>6. CASE BatchCheck \/ BatchPause
  <2>1. /\ UNCHANGED <<stage, grace, services, signal, elapsed>>
        /\ Batch \in services /\ svc[Batch] \in {"check", "pause"}
        /\ \E x \in {"stopped", "job", "check"} : svc' = [svc EXCEPT ![Batch] = x]
        /\ stage \in {"running", "grace"}
    BY <1>6 DEF BatchCheck, BatchPause, Become, boot, Alive
  <2>2. elapsed = 0
    BY <2>1 DEF GraceInv, Stopped, IsUpdater, Batch
  <2> QED BY <2>1, <2>2 DEF GraceInv, Stopped
<1>7. CASE BatchJob
  <2>1. /\ UNCHANGED <<stage, grace, services, signal, elapsed>>
        /\ Batch \in services /\ svc[Batch] = "job" /\ stage \in {"running", "grace"}
        /\ \/ svc' = [svc EXCEPT ![Batch] = "pause"]
           \/ stage = "grace" /\ svc' = [svc EXCEPT ![Batch] = "finish"] /\ timer' = 2
    BY <1>7 DEF BatchJob, Become, boot, Alive, Shutdown
  <2>2. elapsed = 0
    BY <2>1 DEF GraceInv, Stopped, IsUpdater, Batch
  <2> QED BY <2>1, <2>2 DEF GraceInv, Stopped
<1>8. CASE BatchFinish
  <2>1. /\ UNCHANGED <<stage, grace, services, timer, signal, elapsed>>
        /\ svc' = [svc EXCEPT ![Batch] = "stopped"]
    BY <1>8 DEF BatchFinish, Become, boot
  <2> QED BY <2>1 DEF GraceInv, Stopped
<1>9. ASSUME NEW c \in Conns, EchoCheck(c) \/ Accept(c) \/ EchoRead(c)
      PROVE  GraceInv'
  <2>1. UNCHANGED <<stage, grace, services, svc, timer, signal, elapsed>>
    BY <1>9 DEF EchoCheck, Accept, EchoRead, boot
  <2> QED BY <2>1 DEF GraceInv, Stopped
<1>10. CASE Sigterm \/ Sigint \/ GraceOver
  <2>1. /\ UNCHANGED <<grace, services, svc, timer, elapsed>>
        /\ \/ stage = "running" /\ stage' = "grace"
           \/ stage' = "exited" /\ signal' = "INT" /\ stage \in {"running", "grace"}
           \/ stage = "grace" /\ stage' = "exited" /\ elapsed >= grace
    BY <1>10 DEF Sigterm, Sigint, GraceOver, work, Alive
  <2> QED BY <2>1 DEF GraceInv, Stopped
<1>11. CASE Tick
  <2>1. /\ UNCHANGED <<stage, grace, services, svc, signal>>
        /\ stage \in {"running", "grace"} /\ ~Busy
        /\ timer' = IF timer > 0 THEN timer - 1 ELSE 0
        /\ elapsed' = IF stage = "grace" THEN elapsed + 1 ELSE elapsed
    BY <1>11 DEF Tick, boot, Alive, Shutdown
  <2>2. stage = "grace" => \A s \in services : Stopped(s)
    BY <2>1 DEF Busy, Shutdown, GraceInv, Stopped
  <2>3. Batch \in services /\ svc[Batch] = "finish" =>
          stage = "grace" /\ (timer' = 0 \/ timer' + elapsed' <= 2)
    BY <2>1 DEF GraceInv
  <2> QED BY <2>1, <2>2, <2>3 DEF GraceInv, Stopped
<1>12. CASE UNCHANGED vars
  BY <1>12 DEF vars, boot, work, GraceInv, Stopped
<1> QED BY <1>1, <1>2, <1>3, <1>4, <1>5, <1>6, <1>7, <1>8, <1>9, <1>10, <1>11, <1>12,
           KindsOfStep

\* When SIGTERM ends the process its services have stopped by themselves, for
\* every configured grace period, except for updaters that slept through it and
\* for a job that has had all of its extra time.
THEOREM GraceAlwaysSuffices == Spec => []GraceSuffices
<1>1. TypeOK /\ GraceInv => GraceSuffices
  BY DEF TypeOK, GraceInv, GraceSuffices, Stopped
<1>2. TypeOK /\ GraceInv /\ [Next]_vars => GraceInv'
  BY NextGrace
<1> QED BY GraceStart, TypeCorrect, <1>1, <1>2, PTL DEF Spec
----------------------------------------------------------------------------
(***************************************************************************)
(* Why a shutdown ends: time runs against the grace period, and within a   *)
(* tick the services and the connections have finitely many steps left.    *)
(***************************************************************************)
\* What is left for a service and for a connection to do after SIGTERM.
SvcRest(s)  == IF svc[s] = "stopped" THEN 0 ELSE IF svc[s] = "job" THEN 3
               ELSE IF svc[s] = "pause" THEN 2 ELSE 1
ConnRest(c) == IF conn[c] = "closed" THEN 0 ELSE IF conn[c] = "none" THEN 3
               ELSE IF conn[c] = "read" THEN 2 ELSE 1
SvcLeft  == {x \in services \X (1..3) : x[2] <= SvcRest(x[1])}
ConnLeft == {x \in Conns \X (1..3) : x[2] <= ConnRest(x[1])}

\* main has collected finitely many services.
FewServices == IsFiniteSet(background) /\ IsFiniteSet(services)

LEMMA GatewayServicesFinite ==
  ASSUME IsFiniteSet(background)
  PROVE  IsFiniteSet(GatewayServices)
<1> DEFINE U == {Updater(k) : k \in background}
           f == [k \in background |-> Updater(k)]
<1>1. f \in Surjection(background, U)
  BY DEF Surjection
<1>2. IsFiniteSet(U)
  <2> HIDE DEF f, U
  <2> QED BY <1>1, FS_Surjection
<1>3. IsFiniteSet({<<"proxy", 0>>} \cup U)
  <2> HIDE DEF U
  <2> QED BY <1>2, FS_Singleton, FS_Union
<1>4. IsFiniteSet(IF conf.prometheus THEN {<<"prometheus", 0>>} ELSE {})
  BY FS_Singleton, FS_EmptySet
<1> QED
  BY <1>3, <1>4, FS_Union DEF GatewayServices

LEMMA LessonServicesFinite ==
  ASSUME program \in Lessons
  PROVE  IsFiniteSet(LessonServices)
<1>1. \A x, y : IsFiniteSet({x}) /\ IsFiniteSet({x} \cup {y})
  BY FS_Singleton, FS_Union
<1>2. /\ ThreadingModel = {<<"reporter", 1>>} \cup {<<"reporter", 2>>}
      /\ BackgroundServices = {<<"traffic", 0>>} \cup {<<"exporter", 0>>}
  BY DEF ThreadingModel, BackgroundServices
<1>3. /\ IsFiniteSet(BasicServer) /\ IsFiniteSet(Configuration) /\ IsFiniteSet(DaemonMode)
      /\ IsFiniteSet(GracefulShutdown)
  BY <1>1 DEF BasicServer, Configuration, DaemonMode, GracefulShutdown
<1>4. IsFiniteSet(ThreadingModel) /\ IsFiniteSet(BackgroundServices)
  BY <1>1, <1>2
<1>5. LessonServices \in {BasicServer, Configuration, DaemonMode, GracefulShutdown,
                          ThreadingModel, BackgroundServices}
  BY DEF Lessons, LessonServices
<1> QED BY <1>3, <1>4, <1>5

LEMMA NextFew ==
  ASSUME TypeOK, FewServices, [Next]_vars
  PROVE  FewServices'
<1> USE DEF FewServices
<1>1. CASE MakeUpstream
  <2>1. services' = services
    BY <1>1 DEF MakeUpstream, work
  <2>2. background' = background \/ background' = background \cup {next}
    BY <1>1 DEF MakeUpstream, MakeServices
  <2> QED BY <2>1, <2>2, FS_AddElement
<1>2. CASE RunForever
  BY <1>2, GatewayServicesFinite DEF RunForever, Begin
<1>3. CASE LessonMain
  <2>1. background' = background /\ (services' = services \/ services' = LessonServices)
    BY <1>3 DEF LessonMain, Begin
  <2>2. program \in Lessons
    BY <1>3 DEF LessonMain, Gateway, TypeOK
  <2> QED BY <2>1, <2>2, LessonServicesFinite
<1>4. CASE ~MakeUpstream /\ ~RunForever /\ ~LessonMain
  <2>1. UNCHANGED <<background, services>>
    BY <1>4, KindsOfStep DEF Fails, LoadConf, Tune, BuildRouter, AddListener, NoticeShutdown,
       BatchCheck, BatchJob, BatchFinish, BatchPause, EchoCheck, Accept, EchoRead,
       Sigterm, Sigint, GraceOver, Tick, boot, work, vars
  <2> QED BY <2>1
<1> QED BY <1>1, <1>2, <1>3, <1>4

LEMMA FewAlways == Spec => []FewServices
<1>1. Init => FewServices
  BY FS_EmptySet DEF Init, FewServices
<1>2. TypeOK /\ FewServices /\ [Next]_vars => FewServices'
  BY NextFew
<1> QED BY <1>1, <1>2, TypeCorrect, PTL DEF Spec

\* The ways a process that has been told to stop goes on.
LEMMA ShutdownStep ==
  ASSUME TypeOK, GraceInv, Next, stage = "grace"
  PROVE  \/ stage' = "exited"
         \/ /\ elapsed < grace /\ elapsed' = elapsed + 1
            /\ UNCHANGED <<stage, grace, services, svc, conn>>
         \/ /\ UNCHANGED <<stage, grace, elapsed, services, conn>>
            /\ \E s \in services : /\ SvcRest(s)' < SvcRest(s)
                                   /\ \A t \in services \ {s} : svc'[t] = svc[t]
         \/ /\ UNCHANGED <<stage, grace, elapsed, services, svc>>
            /\ \E c \in Conns : /\ ConnRest(c)' < ConnRest(c)
                                /\ \A d \in Conns \ {c} : conn'[d] = conn[d]
<1> DEFINE Goal ==
         \/ stage' = "exited"
         \/ /\ elapsed < grace /\ elapsed' = elapsed + 1
            /\ UNCHANGED <<stage, grace, services, svc, conn>>
         \/ /\ UNCHANGED <<stage, grace, elapsed, services, conn>>
            /\ \E s \in services : /\ SvcRest(s)' < SvcRest(s)
                                   /\ \A t \in services \ {s} : svc'[t] = svc[t]
         \/ /\ UNCHANGED <<stage, grace, elapsed, services, svc>>
            /\ \E c \in Conns : /\ ConnRest(c)' < ConnRest(c)
                                /\ \A d \in Conns \ {c} : conn'[d] = conn[d]
<1>0. DOMAIN svc = services /\ DOMAIN conn = Conns /\ elapsed \in Nat /\ grace \in Nat
  BY DEF TypeOK
<1>1. ASSUME Sigint \/ GraceOver PROVE Goal
  BY <1>1 DEF Sigint, GraceOver
<1>2. ASSUME Tick PROVE Goal
  <2>1. /\ ~(elapsed >= grace) /\ elapsed' = elapsed + 1
        /\ UNCHANGED <<stage, grace, services, svc, conn>>
    BY <1>2 DEF Tick, Busy, Shutdown, boot
  <2> QED BY <1>0, <2>1
<1>3. ASSUME NEW s \in services, NEW x, svc' = [svc EXCEPT ![s] = x],
             UNCHANGED <<boot, services, conn, elapsed>>,
             \/ svc[s] \in {"run", "check", "finish"} /\ x = "stopped"
             \/ svc[s] = "pause" /\ x = "check"
             \/ svc[s] = "job" /\ x \in {"pause", "finish"}
      PROVE  Goal
  <2>1. svc'[s] = x /\ \A t \in services \ {s} : svc'[t] = svc[t]
    BY <1>0, <1>3
  <2>2. SvcRest(s)' < SvcRest(s)
    BY <1>3, <2>1 DEF SvcRest
  <2> QED BY <1>3, <2>1, <2>2 DEF boot
<1>4. ASSUME NEW s \in services, NoticeShutdown(s) PROVE Goal
  BY <1>3, <1>4 DEF NoticeShutdown, Become
<1>5. ASSUME BatchCheck \/ BatchFinish \/ BatchPause \/ BatchJob PROVE Goal
  BY <1>3, <1>5 DEF BatchCheck, BatchFinish, BatchPause, BatchJob, Become, Shutdown
<1>6. ASSUME NEW c \in Conns, EchoCheck(c) \/ Accept(c) \/ EchoRead(c) PROVE Goal
  <2>1. PICK x : /\ conn' = [conn EXCEPT ![c] = x]
                 /\ \/ conn[c] = "check" /\ x = "closed"
                    \/ conn[c] = "none" /\ x = "check"
                    \/ conn[c] = "read" /\ x \in {"check", "closed"}
    BY <1>6 DEF EchoCheck, Accept, EchoRead, Shutdown
  <2>2. UNCHANGED <<boot, services, svc, elapsed>>
    BY <1>6 DEF EchoCheck, Accept, EchoRead
  <2>3. conn'[c] = x /\ \A d \in Conns \ {c} : conn'[d] = conn[d]
    BY <1>0, <2>1
  <2>4. ConnRest(c)' < ConnRest(c)
    BY <2>1, <2>3 DEF ConnRest
  <2> QED BY <2>2, <2>3, <2>4 DEF boot
<1>7. ~\E s \in {"load", "upstreams", "listeners"} : Fails(s)
  BY DEF Fails
<1>8. ~(LoadConf \/ Tune \/ MakeUpstream \/ BuildRouter \/ AddListener \/ RunForever
        \/ LessonMain \/ Sigterm)
  BY DEF LoadConf, Tune, MakeUpstream, BuildRouter, AddListener, RunForever, LessonMain, Sigterm
<1> HIDE DEF Goal
<1>9. Goal
  <2>1. stage' = "exited" => Goal
    BY DEF Goal
  <2> QED BY <1>1, <1>2, <1>4, <1>5, <1>6, <1>7, <1>8, <2>1, KindsOfStep
<1> QED BY <1>9 DEF Goal

LEMMA ProperSubset ==
  ASSUME NEW S, NEW T, IsFiniteSet(S), T \subseteq S, T # S
  PROVE  Cardinality(T) < Cardinality(S) /\ Cardinality(T) \in Nat /\ Cardinality(S) \in Nat
<1>1. /\ IsFiniteSet(T) /\ Cardinality(T) <= Cardinality(S)
      /\ Cardinality(T) \in Nat /\ Cardinality(S) \in Nat
      /\ Cardinality(S) = Cardinality(T) => S = T
  BY FS_Subset, FS_CardinalityType
<1> QED BY <1>1

LEMMA LeftFinite ==
  ASSUME FewServices
  PROVE  IsFiniteSet(SvcLeft) /\ IsFiniteSet(ConnLeft)
<1>1. IsFiniteSet(1..3)
  <2>1. 1 \in Int /\ 3 \in Int
    OBVIOUS
  <2> QED BY <2>1, FS_Interval
<1>2. IsFiniteSet(services \X (1..3)) /\ IsFiniteSet(Conns \X (1..3))
  BY <1>1, ConnsAssumption, FS_Product DEF FewServices
<1>3. SvcLeft \subseteq services \X (1..3) /\ ConnLeft \subseteq Conns \X (1..3)
  BY DEF SvcLeft, ConnLeft
<1> QED BY <1>2, <1>3, FS_Subset

\* After SIGTERM every step ends the process, takes a tick off the grace period or
\* takes something off what the services and the connections have left, which
\* clients that connect or keep sending cannot add to.
ShutdownRunsDown ==
  [][stage = "grace" =>
       \/ stage' = "exited"
       \/ elapsed < grace /\ elapsed' = elapsed + 1 /\ UNCHANGED <<grace, SvcLeft, ConnLeft>>
       \/ /\ UNCHANGED <<grace, elapsed>>
          /\ \/ Cardinality(SvcLeft)' < Cardinality(SvcLeft) /\ UNCHANGED ConnLeft
             \/ Cardinality(ConnLeft)' < Cardinality(ConnLeft) /\ UNCHANGED SvcLeft]_vars

\* Nothing that services or clients do can draw the shutdown out beyond the
\* grace period (the safety half of TermExits).
THEOREM ShutdownAlwaysRunsDown == Spec => ShutdownRunsDown
<1>1. ASSUME TypeOK, GraceInv, FewServices, Next, stage = "grace"
      PROVE  \/ stage' = "exited"
             \/ elapsed < grace /\ elapsed' = elapsed + 1 /\ UNCHANGED <<grace, SvcLeft, ConnLeft>>
             \/ /\ UNCHANGED <<grace, elapsed>>
                /\ \/ Cardinality(SvcLeft)' < Cardinality(SvcLeft) /\ UNCHANGED ConnLeft
                   \/ Cardinality(ConnLeft)' < Cardinality(ConnLeft) /\ UNCHANGED SvcLeft
  <2>1. /\ services' = services /\ svc' = svc => SvcLeft' = SvcLeft
        /\ conn' = conn => ConnLeft' = ConnLeft
    BY DEF SvcLeft, ConnLeft, SvcRest, ConnRest
  <2>2. ASSUME services' = services, NEW s \in services, SvcRest(s)' < SvcRest(s),
               \A t \in services \ {s} : svc'[t] = svc[t]
        PROVE  Cardinality(SvcLeft)' < Cardinality(SvcLeft)
    <3>1. PICK n \in 0..3 : SvcRest(s)' = n
      BY DEF SvcRest
    <3>2. PICK k \in 0..3 : SvcRest(s) = k
      BY DEF SvcRest
    <3>3. n < k
      BY <2>2, <3>1, <3>2
    <3>4. <<s, k>> \in SvcLeft /\ <<s, k>> \notin SvcLeft'
      BY <2>2, <3>1, <3>2, <3>3 DEF SvcLeft
    <3>5. SvcLeft' \subseteq SvcLeft
      <4> SUFFICES ASSUME NEW x \in SvcLeft' PROVE x \in SvcLeft
        OBVIOUS
      <4>1. x \in services \X (1..3) /\ x[2] <= SvcRest(x[1])'
        BY <2>2 DEF SvcLeft
      <4>2. CASE x[1] = s
        BY <3>1, <3>2, <3>3, <4>1, <4>2 DEF SvcLeft
      <4>3. CASE x[1] # s
        <5>1. SvcRest(x[1])' = SvcRest(x[1])
          BY <2>2, <4>1, <4>3 DEF SvcRest
        <5> QED BY <4>1, <5>1 DEF SvcLeft
      <4> QED BY <4>2, <4>3
    <3> QED BY <1>1, <3>4, <3>5, LeftFinite, ProperSubset
  <2>3. ASSUME NEW c \in Conns, ConnRest(c)' < ConnRest(c),
               \A d \in Conns \ {c} : conn'[d] = conn[d]
        PROVE  Cardinality(ConnLeft)' < Cardinality(ConnLeft)
    <3>1. PICK n \in 0..3 : ConnRest(c)' = n
      BY DEF ConnRest
    <3>2. PICK k \in 0..3 : ConnRest(c) = k
      BY DEF ConnRest
    <3>3. n < k
      BY <2>3, <3>1, <3>2
    <3>4. <<c, k>> \in ConnLeft /\ <<c, k>> \notin ConnLeft'
      BY <3>1, <3>2, <3>3 DEF ConnLeft
    <3>5. ConnLeft' \subseteq ConnLeft
      <4> SUFFICES ASSUME NEW x \in ConnLeft' PROVE x \in ConnLeft
        OBVIOUS
      <4>1. x \in Conns \X (1..3) /\ x[2] <= ConnRest(x[1])'
        BY DEF ConnLeft
      <4>2. CASE x[1] = c
        BY <3>1, <3>2, <3>3, <4>1, <4>2 DEF ConnLeft
      <4>3. CASE x[1] # c
        <5>1. ConnRest(x[1])' = ConnRest(x[1])
          BY <2>3, <4>1, <4>3 DEF ConnRest
        <5> QED BY <4>1, <5>1 DEF ConnLeft
      <4> QED BY <4>2, <4>3
    <3> QED BY <1>1, <3>4, <3>5, LeftFinite, ProperSubset
  <2> QED BY <1>1, <2>1, <2>2, <2>3, ShutdownStep
<1>2. TypeOK /\ GraceInv /\ FewServices /\ [Next]_vars =>
        [stage = "grace" =>
           \/ stage' = "exited"
           \/ elapsed < grace /\ elapsed' = elapsed + 1 /\ UNCHANGED <<grace, SvcLeft, ConnLeft>>
           \/ /\ UNCHANGED <<grace, elapsed>>
              /\ \/ Cardinality(SvcLeft)' < Cardinality(SvcLeft) /\ UNCHANGED ConnLeft
                 \/ Cardinality(ConnLeft)' < Cardinality(ConnLeft) /\ UNCHANGED SvcLeft]_vars
  BY <1>1
<1>3. TypeOK /\ GraceInv /\ [Next]_vars => GraceInv'
  BY NextGrace
<1> QED BY GraceStart, TypeCorrect, FewAlways, <1>2, <1>3, PTL DEF Spec, ShutdownRunsDown
=============================================================================
