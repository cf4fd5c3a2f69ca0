------------------------------- MODULE Server -------------------------------
(***************************************************************************)
(* A process of the repository from main to its exit: the boot sequence of *)
(* the gateway (main.rs, factory::make_upstream) or of one of the lessons  *)
(* 00 to 05, the services it registers, and how they stop.                 *)
(*                                                                         *)
(* Pingora's Server is external: SIGTERM is broadcast to the services, the *)
(* process sleeps for the grace period, whatever the services do, and then *)
(* drops what still runs; SIGINT ends it at once.  Time passes in ticks of *)
(* 5 seconds; what takes less than a tick is done before the next one.     *)
(***************************************************************************)
EXTENDS Integers, Sequences, FiniteSets

CONSTANTS
  Confs,         \* gateway configurations: [upstreams, listeners, prometheus,
                 \* grace], where an upstream has an id and a source
  Ids,           \* upstream ids
  Conns,         \* client connections of the echo service
  DefaultGrace,  \* grace period of a server that sets none (300 s in Pingora)
  None

Sources == {"static", "dns", "file", "uds"}

ASSUME ConfsAssumption ==
  \A c \in Confs :
    /\ c.upstreams \in Seq([id : Ids, source : Sources])
    /\ c.listeners \in Seq({"tcp", "tls"})
    /\ c.prometheus \in BOOLEAN
    /\ c.grace \in Nat \cup {None}

ASSUME ConnsAssumption == IsFiniteSet(Conns)
ASSUME GraceAssumption == DefaultGrace \in Nat \ {0} /\ None \notin Nat

VARIABLES
  program,     \* "gateway" or a lesson
  conf,        \* the gateway's configuration
  \* main
  stage,
  next,        \* the upstream or listener main deals with next
  upstreamMap, \* id -> the configured upstream that answers for it, 0 for none
  background,  \* upstreams whose background service was collected
  grace,
  \* the services
  services,    \* the names of those that run_forever has started
  svc,         \* service -> what it is doing
  timer,       \* ticks left of the batch service's sleep
  conn,        \* connection -> where process_new of the echo service is
  \* the end
  signal,
  elapsed      \* ticks since SIGTERM

boot == <<program, conf, stage, next, upstreamMap, background, grace>>
work == <<services, svc, timer, conn>>
vars == <<boot, work, signal, elapsed>>

Lessons == {"basic_server", "configuration", "daemon_mode", "graceful_shutdown",
            "threading_model", "background_services"}
Gateway == program = "gateway"
Up      == conf.upstreams

Init ==
  /\ program \in Lessons \cup {"gateway"}
  /\ conf \in Confs
  /\ ~Gateway => conf = CHOOSE c \in Confs : TRUE   \* lessons have none
  /\ stage = "load" /\ next = 1
  /\ upstreamMap = [u \in Ids |-> 0]
  /\ background = {} /\ grace = DefaultGrace
  /\ services = {} /\ svc = <<>> /\ timer = 0
  /\ conn = [c \in Conns |-> "none"]
  /\ signal = None /\ elapsed = 0

----------------------------------------------------------------------------
(* The gateway's main.                                                     *)

Go(s) == stage' = s /\ next' = 1

\* main returns an error: no service has been started yet.
Fails(s) ==
  /\ stage = s /\ Gateway
  /\ Go("failed")
  /\ UNCHANGED <<program, conf, upstreamMap, background, grace, work, signal, elapsed>>

\* The configuration is read and parsed, and Server::new succeeds.
LoadConf ==
  /\ stage = "load" /\ Gateway
  /\ Go("tune")
  /\ UNCHANGED <<program, conf, upstreamMap, background, grace, work, signal, elapsed>>

\* (The configuration has no other owner yet, so get_mut succeeds.)
Tune ==
  /\ stage = "tune"
  /\ grace' = IF conf.grace = None THEN 6 ELSE conf.grace
  /\ Go("upstreams")
  /\ UNCHANGED <<program, conf, upstreamMap, background, work, signal, elapsed>>

\* (Mutant: the services of an id that was known already are not collected.)
MutantOncePerId(k) ==
  IF Up[k].source = "uds" \/ \E j \in 1..(k - 1) : Up[j].id = Up[k].id
  THEN {} ELSE {k}

\* make_upstream's background services: a unix socket has none.
MakeServices(k) == IF Up[k].source = "uds" THEN {} ELSE {k}

\* One more upstream; an id that comes again replaces the earlier one.
MakeUpstream ==
  /\ stage = "upstreams" /\ next <= Len(Up)
  /\ upstreamMap' = [upstreamMap EXCEPT ![Up[next].id] = next]
  /\ background' = background \cup MakeServices(next)
  /\ next' = next + 1
  /\ UNCHANGED <<program, conf, stage, grace, work, signal, elapsed>>

\* The address of a static backend does not resolve.
UpstreamFails ==
  /\ next <= Len(Up) /\ Up[next].source = "static"
  /\ Fails("upstreams")

\* Router::new (see module Router), the middlewares and the proxy service.
BuildRouter ==
  /\ stage = "upstreams" /\ next > Len(Up)
  /\ Go("listeners")
  /\ UNCHANGED <<program, conf, upstreamMap, background, grace, work, signal, elapsed>>

RouterFails == next > Len(Up) /\ Fails("upstreams")

AddListener ==
  /\ stage = "listeners" /\ next <= Len(conf.listeners)
  /\ next' = next + 1
  /\ UNCHANGED <<program, conf, stage, upstreamMap, background, grace, work,
                 signal, elapsed>>

\* add_tls cannot use the certificate or the key.
ListenerFails ==
  /\ next <= Len(conf.listeners) /\ conf.listeners[next] = "tls"
  /\ Fails("listeners")

\* The services of the gateway: the proxy, the updaters, prometheus.
Updater(k) == <<"lb", k>>
GatewayServices ==
  {<<"proxy", 0>>} \cup {Updater(k) : k \in background}
  \cup (IF conf.prometheus THEN {<<"prometheus", 0>>} ELSE {})

Begin(S) ==
  /\ services' = S
  /\ svc' = [s \in S |-> IF s[1] = "batch" THEN "check" ELSE "run"]

RunForever ==
  /\ stage = "listeners" /\ next > Len(conf.listeners)
  /\ Go("running")
  /\ Begin(GatewayServices)
  /\ UNCHANGED <<program, conf, upstreamMap, background, grace, timer, conn,
                 signal, elapsed>>

----------------------------------------------------------------------------
(* The mains of the lessons: the services they add.                        *)

BasicServer        == {<<"echo", 0>>}
Configuration      == {<<"config_demo", 0>>}
DaemonMode         == {<<"heartbeat", 0>>}
GracefulShutdown   == {<<"batch", 0>>}
ThreadingModel     == {<<"reporter", 1>>, <<"reporter", 2>>}
BackgroundServices == {<<"traffic", 0>>, <<"exporter", 0>>}

LessonServices ==
  CASE program = "basic_server"        -> BasicServer
    [] program = "configuration"       -> Configuration
    [] program = "daemon_mode"         -> DaemonMode
    [] program = "graceful_shutdown"   -> GracefulShutdown
    [] program = "threading_model"     -> ThreadingModel
    [] program = "background_services" -> BackgroundServices

\* (Mutant: the grace period is shorter than what the service needs.)
MutantShortGrace == IF program = "graceful_shutdown" THEN 1 ELSE DefaultGrace

\* Lesson 03 sets its grace period to 10 seconds.
LessonGrace == IF program = "graceful_shutdown" THEN 2 ELSE DefaultGrace

LessonMain ==
  /\ stage = "load" /\ ~Gateway
  /\ \/ /\ Go("running")
        /\ grace' = LessonGrace
        /\ Begin(LessonServices)
     \/ /\ Go("failed")            \* Server::new fails
        /\ UNCHANGED <<grace, services, svc>>
  /\ UNCHANGED <<program, conf, upstreamMap, background, timer, conn, signal, elapsed>>

Boot ==
  \/ Fails("load") \/ LoadConf \/ Tune \/ MakeUpstream \/ UpstreamFails
  \/ BuildRouter \/ RouterFails \/ AddListener \/ ListenerFails \/ RunForever
  \/ LessonMain
----------------------------------------------------------------------------
(* The services.                                                           *)

Alive    == stage \in {"running", "grace"}
Shutdown == stage = "grace"     \* the value of the ShutdownWatch
Become(s, x) == svc' = [svc EXCEPT ![s] = x]

\* Heartbeat and exporter select between their interval and the watch,
\* reporters look at the watch after every tick of theirs, listening services
\* end their loops.  The load balancers' updaters look at it when they wake up
\* for their next update or check, which may be long after (see Busy).
IsUpdater(s) == s[1] = "lb"
NoticeShutdown(s) ==
  /\ Alive /\ s \in services /\ s[1] # "batch"
  /\ Shutdown /\ svc[s] = "run"
  /\ Become(s, "stopped")
  /\ UNCHANGED <<boot, services, timer, conn, signal, elapsed>>

\* BatchJobService: look at the watch; a job; finish it on shutdown; a pause.
Batch == <<"batch", 0>>
BatchCheck ==
  /\ Alive /\ Batch \in services /\ svc[Batch] = "check"
  /\ IF Shutdown THEN Become(Batch, "stopped") /\ UNCHANGED timer
     ELSE Become(Batch, "job") /\ timer' = 4
  /\ UNCHANGED <<boot, services, conn, signal, elapsed>>

BatchJob ==
  /\ Alive /\ Batch \in services /\ svc[Batch] = "job"
  /\ \/ timer = 0 /\ Become(Batch, "pause") /\ UNCHANGED timer
     \/ Shutdown /\ Become(Batch, "finish") /\ timer' = 2
  /\ UNCHANGED <<boot, services, conn, signal, elapsed>>

BatchFinish ==
  /\ Alive /\ Batch \in services /\ svc[Batch] = "finish" /\ timer = 0
  /\ Become(Batch, "stopped")
  /\ UNCHANGED <<boot, services, timer, conn, signal, elapsed>>

BatchPause ==
  /\ Alive /\ Batch \in services /\ svc[Batch] = "pause"
  /\ Become(Batch, "check")
  /\ UNCHANGED <<boot, services, timer, conn, signal, elapsed>>

\* EchoApp::process_new: the watch is looked at between two reads only.
Accept(c) ==
  /\ Alive /\ <<"echo", 0>> \in services /\ svc[<<"echo", 0>>] = "run"
  /\ conn[c] = "none"
  /\ conn' = [conn EXCEPT ![c] = "check"]
  /\ UNCHANGED <<boot, services, svc, timer, signal, elapsed>>

EchoCheck(c) ==
  /\ Alive /\ conn[c] = "check"
  /\ conn' = [conn EXCEPT ![c] = IF Shutdown THEN "closed" ELSE "read"]
  /\ UNCHANGED <<boot, services, svc, timer, signal, elapsed>>

\* The client sends something, which is echoed, or the connection is closed or
\* fails.
EchoRead(c) ==
  /\ Alive /\ conn[c] = "read"
  /\ conn' \in {[conn EXCEPT ![c] = x] : x \in {"check", "closed"}}
  /\ UNCHANGED <<boot, services, svc, timer, signal, elapsed>>

ServiceStep ==
  \/ \E s \in services : NoticeShutdown(s)
  \/ BatchCheck \/ BatchJob \/ BatchFinish \/ BatchPause
  \/ \E c \in Conns : EchoCheck(c)

----------------------------------------------------------------------------
(* Signals and time.                                                       *)

Sigterm ==
  /\ stage = "running"
  /\ stage' = "grace" /\ signal' = "TERM"
  /\ UNCHANGED <<program, conf, next, upstreamMap, background, grace, work, elapsed>>

Sigint ==
  /\ Alive
  /\ stage' = "exited" /\ signal' = "INT"
  /\ UNCHANGED <<program, conf, next, upstreamMap, background, grace, work, elapsed>>

\* (Mutant: the process waits for the connections to end.)
MutantGraceOver ==
  /\ stage = "grace" /\ elapsed >= grace
  /\ \A c \in Conns : conn[c] \in {"none", "closed"}
  /\ stage' = "exited"
  /\ UNCHANGED <<program, conf, next, upstreamMap, background, grace, work,
                 signal, elapsed>>

\* The grace period is over; what still runs is dropped.
GraceOver ==
  /\ stage = "grace" /\ elapsed >= grace
  /\ stage' = "exited"
  /\ UNCHANGED <<program, conf, next, upstreamMap, background, grace, work,
                 signal, elapsed>>

\* Something is to be done before the next tick.
Busy ==
  \/ Shutdown /\ \E s \in services : svc[s] = "run" /\ ~IsUpdater(s)
  \/ Batch \in services
     /\ \/ svc[Batch] \in {"check", "pause"}
        \/ svc[Batch] = "job" /\ (Shutdown \/ timer = 0)
        \/ svc[Batch] = "finish" /\ timer = 0
  \/ \E c \in Conns : conn[c] = "check"
  \/ Shutdown /\ elapsed >= grace

Tick ==
  /\ Alive /\ ~Busy
  /\ timer' = IF timer > 0 THEN timer - 1 ELSE 0
  /\ elapsed' = IF Shutdown THEN elapsed + 1 ELSE elapsed
  /\ UNCHANGED <<boot, services, svc, conn, signal>>

Next ==
  \/ Boot \/ ServiceStep \/ Sigterm \/ Sigint \/ GraceOver \/ Tick
  \/ \E c \in Conns : Accept(c) \/ EchoRead(c)

Spec == Init /\ [][Next]_vars

\* Tasks that can run are run, and time passes.  Clients need not do anything.
FairSpec ==
  Spec /\ WF_vars(Boot) /\ WF_vars(ServiceStep) /\ WF_vars(Tick) /\ WF_vars(GraceOver)
----------------------------------------------------------------------------
Stages == {"load", "tune", "upstreams", "listeners", "running", "failed",
           "grace", "exited"}

\* The types of main's state, the services' and the connections'.
TypeOK ==
  /\ program \in Lessons \cup {"gateway"}
  /\ conf \in Confs
  /\ stage \in Stages
  /\ next \in Nat \ {0}
  /\ upstreamMap \in [Ids -> Nat]
  /\ background \in SUBSET Nat
  /\ grace \in Nat
  /\ svc \in [services -> {"run", "check", "job", "pause", "finish", "stopped"}]
  /\ timer \in Nat
  /\ conn \in [Conns -> {"none", "check", "read", "closed"}]
  /\ signal \in {None, "TERM", "INT"}
  /\ elapsed \in Nat

\* The gateway serves only after everything it was configured with has been
\* built, and every id of an upstream answers with a pool of its own whose
\* updater was registered, also where main's two collections disagree about an
\* id that was configured twice; a main that failed has started nothing.
UpstreamsBacked ==
  /\ stage = "failed" => services = {}
  /\ Gateway /\ stage \in {"running", "grace"} =>
       \A k \in 1..Len(Up) :
         LET u == upstreamMap[Up[k].id] IN
         /\ u \in 1..Len(Up) /\ Up[u].id = Up[k].id
         /\ Up[u].source # "uds" => Updater(u) \in services

\* A grace period is enough: when SIGTERM ends the process its services have
\* stopped by themselves.  Two are cut off: an updater that sleeps through the
\* shutdown, and a job whose extra time ends with the grace period itself.
GraceSuffices ==
  stage = "exited" /\ signal = "TERM" /\ grace > 0 =>
    \A s \in services :
      \/ svc[s] = "stopped"
      \/ IsUpdater(s)
      \/ s = Batch /\ svc[s] = "finish" /\ timer = 0

\* "The server waits for the job to finish" (README.md, lesson 03): SIGTERM
\* does not end the process while BatchJobService finishes its job.
JobFinished ==
  stage = "exited" /\ signal = "TERM" /\ Batch \in services =>
    svc[Batch] = "stopped"

\* SIGTERM ends the process, whatever its clients do.
TermExits == signal = "TERM" ~> stage = "exited"
=============================================================================
