------------------------------ MODULE Cluster ------------------------------
(***************************************************************************)
(* The clusters of the load-balancing lessons (26 to 42), one of which the *)
(* process runs: how its set of servers is found and replaced, how their   *)
(* health is kept, and the admin API that replaces them (lesson 35).       *)
(*                                                                         *)
(* Pingora's LoadBalancer is external, modelled as the lessons use it: its *)
(* background task asks the discovery, then puts the answer in place; an   *)
(* error leaves the servers as they are; with a health check it checks     *)
(* each server over and over, and one result decides (every threshold is   *)
(* 1).  Servers and readers of the file change up to MaxChanges times.     *)
(***************************************************************************)
EXTENDS Integers, FiniteSets

CONSTANTS
  Admins,      \* connections to the admin API
  MaxChanges,  \* how often the servers' condition or the file change
  None

ASSUME ClusterAssumption == MaxChanges \in Nat /\ None \notin Admins

VARIABLES
  lesson,      \* the example that runs
  source,      \* what the discovery reads: the list, the file, the shared set
  readable,    \* the file can be read (34)
  found,       \* what the discovery answered and is not in place yet
  pool,        \* the servers the balancer has
  asked,       \* the balancer has asked its discovery (27 asks once)
  healthy,     \* server -> the balancer's view of its health
  condition,   \* server -> what it is like
  changes,
  \* the admin API
  admin,       \* connection -> "idle", "wait", "reply" or "done"
  body,        \* connection -> the address it sent
  writer,      \* the connection that holds the write lock of the shared set
  latest       \* history: the address of the last 200, None before it and once
               \* the 200 of a later swap could not be written

clusterVars == <<lesson, source, readable, found, pool, asked, healthy,
                 condition, changes, admin, body, writer, latest>>

Servers    == {"blue", "green"}
\* A server is down, accepts and never answers, answers something unexpected
\* (at first: the check reads once) or answers as it should.
Conditions == {"down", "silent", "other", "right"}
Lessons    == {9, 12, 13, 19} \cup 25..42 \cup {48}
----------------------------------------------------------------------------
(* What the lessons build: the servers, whether they are in place before   *)
(* the first request (try_from_iter) or only after the background task's   *)
(* first update (from_backends), whether the task keeps updating, and the  *)
(* health check.  Weights only say how often a server is selected.         *)

List(servers, check) ==
  [servers |-> servers, filled |-> TRUE, refreshed |-> FALSE, check |-> check]

RoundRobinCluster == List(Servers, None)
WeightedCluster   == [List(Servers, None) EXCEPT !.filled = FALSE]
KetamaCluster     == List(Servers, None)
StickyCluster     == List(Servers, None)
TcpCluster        == List(Servers, "tcp")
HttpCluster       == List(Servers, "http")
BodyCluster       == List(Servers, "body")
PrimaryCluster    == List({"blue"}, "tcp")
FileCluster       == [servers |-> Servers, filled |-> FALSE, refreshed |-> TRUE,
                      check |-> None]
MemoryCluster     == [servers |-> {"blue"}, filled |-> FALSE, refreshed |-> TRUE,
                      check |-> None]

Config ==
  CASE lesson = 27 -> WeightedCluster [] lesson = 28 -> KetamaCluster
    [] lesson = 29 -> StickyCluster   [] lesson = 30 -> TcpCluster
    [] lesson = 31 -> HttpCluster     [] lesson = 32 -> BodyCluster
    [] lesson = 33 -> PrimaryCluster  [] lesson = 34 -> FileCluster
    [] lesson = 35 -> MemoryCluster   [] OTHER -> RoundRobinCluster

TcpHealthCheck(c)  == c # "down"
HttpHealthCheck(c) == c = "right"
\* Connect within a second, send, read once within a second, search the text.
BodyMatchCheck(c)  == c \notin {"down", "silent"} /\ c # "other"

Passes(c) == CASE Config.check = "tcp"  -> TcpHealthCheck(c)
               [] Config.check = "http" -> HttpHealthCheck(c)
               [] Config.check = "body" -> BodyMatchCheck(c)

\* select: any server of the pool that is not marked unhealthy.
Selectable == {s \in pool : healthy[s]}
----------------------------------------------------------------------------
ClusterInit ==
  /\ lesson \in Lessons
  /\ source = Config.servers
  /\ readable = TRUE
  /\ found = None
  /\ pool = IF Config.filled THEN Config.servers ELSE {}
  /\ asked = FALSE
  /\ healthy = [s \in Servers |-> TRUE]
  /\ condition = [s \in Servers |-> "right"]
  /\ changes = 0
  /\ admin = [a \in Admins |-> "idle"]
  /\ body = [a \in Admins |-> None]
  /\ writer = None
  /\ latest = None

\* The task asks: a list always answers, the shared set while nobody writes to
\* it.  A file that cannot be read is an error, and the servers stay.
Discover ==
  /\ found = None
  /\ Config.refreshed \/ (~Config.filled /\ ~asked)
  /\ writer = None
  /\ readable
  /\ found' = source
  /\ asked' = TRUE
  /\ UNCHANGED <<lesson, source, readable, pool, healthy, condition, changes,
                 admin, body, writer, latest>>

Apply ==
  /\ found # None
  /\ pool' = found
  /\ found' = None
  /\ UNCHANGED <<lesson, source, readable, asked, healthy, condition, changes,
                 admin, body, writer, latest>>

Check(s) ==
  /\ s \in pool /\ Config.check # None
  /\ healthy' = [healthy EXCEPT ![s] = Passes(condition[s])]
  /\ UNCHANGED <<lesson, source, readable, found, pool, asked, condition,
                 changes, admin, body, writer, latest>>

\* A server changes, where something looks at it.
Change(s, c) ==
  /\ changes < MaxChanges /\ (lesson \in 30..33)
  /\ c # condition[s]
  /\ condition' = [condition EXCEPT ![s] = c]
  /\ changes' = changes + 1
  /\ UNCHANGED <<lesson, source, readable, found, pool, asked, healthy,
                 admin, body, writer, latest>>

\* The file is written, cut to nothing, taken away or put back (34); lines that
\* are no address, or comments, name no server.
Edit(servers, there) ==
  /\ changes < MaxChanges /\ lesson = 34
  /\ source' = servers
  /\ readable' = there
  /\ changes' = changes + 1
  /\ UNCHANGED <<lesson, found, pool, asked, healthy, condition, admin, body,
                 writer, latest>>
----------------------------------------------------------------------------
(* The admin API.  A connection that closes at once or sends nothing after *)
(* its headers is dropped, one that sends no address is told so.           *)

AdminRead(a, address) ==
  /\ lesson = 35
  /\ admin[a] = "idle"
  /\ admin' = [admin EXCEPT ![a] = IF address = None THEN "done" ELSE "wait"]
  /\ body' = [body EXCEPT ![a] = address]
  /\ UNCHANGED <<lesson, source, readable, found, pool, asked, healthy,
                 condition, changes, writer, latest>>

\* (Mutant: the lock is released before the answer is written.)
MutantAdminSwap(a) ==
  /\ admin[a] = "wait"
  /\ writer = None
  /\ source' = {body[a]}
  /\ admin' = [admin EXCEPT ![a] = "reply"]
  /\ UNCHANGED <<lesson, readable, found, pool, asked, healthy, condition,
                 changes, body, writer, latest>>

\* write(), clear, insert; the guard lives on until the 200 is written.
AdminSwap(a) ==
  /\ admin[a] = "wait"
  /\ writer = None
  /\ writer' = a
  /\ source' = {body[a]}
  /\ admin' = [admin EXCEPT ![a] = "reply"]
  /\ UNCHANGED <<lesson, readable, found, pool, asked, healthy, condition,
                 changes, body, latest>>

\* The 200 is written or its write fails, which the code ignores: the address
\* is in place either way.
AdminReply(a) ==
  /\ admin[a] = "reply"
  /\ admin' = [admin EXCEPT ![a] = "done"]
  /\ latest' \in {body[a], None}
  /\ writer' = None
  /\ UNCHANGED <<lesson, source, readable, found, pool, asked, healthy,
                 condition, changes, body>>

ClusterNext ==
  \/ Discover
  \/ Apply
  \/ \E s \in Servers : Check(s) \/ \E c \in Conditions : Change(s, c)
  \/ \E servers \in SUBSET Servers, there \in BOOLEAN : Edit(servers, there)
  \/ \E a \in Admins :
       \/ \E address \in Servers \cup {None} : AdminRead(a, address)
       \/ AdminSwap(a)
       \/ AdminReply(a)

\* The task's loops go on; a connection's task is run, and the write of its
\* reply, which fits any socket buffer, ends one way or the other.
ClusterFairness ==
  /\ WF_clusterVars(Discover)
  /\ WF_clusterVars(Apply)
  /\ \A s \in Servers : WF_clusterVars(Check(s))
  /\ \A a \in Admins : WF_clusterVars(AdminSwap(a)) /\ WF_clusterVars(AdminReply(a))
----------------------------------------------------------------------------
ClusterTypeOK ==
  /\ lesson \in Lessons
  /\ source \in SUBSET Servers /\ pool \in SUBSET Servers
  /\ found \in (SUBSET Servers) \cup {None}
  /\ readable \in BOOLEAN /\ asked \in BOOLEAN
  /\ healthy \in [Servers -> BOOLEAN]
  /\ condition \in [Servers -> Conditions]
  /\ changes \in 0..MaxChanges
  /\ admin \in [Admins -> {"idle", "wait", "reply", "done"}]
  /\ body \in [Admins -> Servers \cup {None}]
  /\ writer \in Admins \cup {None}
  /\ latest \in Servers \cup {None}

(***************************************************************************)
(* Once nothing changes any more the balancer's view is the world's, and   *)
(* stays so: its servers are those of its source, where the source can be  *)
(* read, and for lesson 35 the address the last 200 acknowledged unless a  *)
(* later address was swapped in whose 200 got lost; a server is marked     *)
(* healthy exactly when it passes the lesson's check.  The admin API keeps *)
(* the order of swaps and replies by holding the write lock over the write *)
(* of the 200, and a failed read of the file is tried again.               *)
(***************************************************************************)
CatchesUp ==
  <>[](/\ readable => pool = source
       /\ latest # None => pool = {latest}
       /\ Config.check # None =>
            \A s \in pool : healthy[s] = Passes(condition[s]))

(***************************************************************************)
(* In between as well the shared set holds the address of the last 200,    *)
(* except while another connection has swapped it and not answered yet,    *)
(* and after a swap whose 200 could not be written, which stays in place   *)
(* unacknowledged.                                                         *)
(***************************************************************************)
AcknowledgedHolds == latest # None /\ writer = None => source = {latest}
============================================================================
